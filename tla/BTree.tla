------------------------------- MODULE BTree -------------------------------
(***************************************************************************)
(* The B-trees of an APFS container as the library reads them               *)
(* (vendor/apfs/src/btree.rs), and the object map that is one of them and   *)
(* that all others need (omap.rs).                                         *)
(*                                                                         *)
(* A disk is a function from the numbers of the blocks that can be read to  *)
(* what they hold; a node is [leaf, recs], where recs is its sequence of    *)
(* [key, val] in the order of its table of contents.  A key is [oid, type,  *)
(* sub]: a key of the catalog has the name or the address in sub, a key of  *)
(* an object map the transaction, and one type.                             *)
(***************************************************************************)
EXTENDS Integers, Sequences, FiniteSetsExt

CONSTANT MaxHeight  \* bound: how deep the library descends, 0 for a leaf alone

ASSUME BTreeAssumption == MaxHeight \in Nat

\* Result<T>: a value, or an error with its variant of ApfsError.
Ok(v) == [ok |-> TRUE, val |-> v]
Err(e) == [ok |-> FALSE, err |-> e]

\* The operator `?`: what follows works on the value, an error is returned at once.
Then(result, Rest(_)) == IF result.ok THEN Rest(result.val) ELSE result

ReadBlock(disk, block) == IF block \in DOMAIN disk THEN Ok(disk[block]) ELSE Err("Io")

\* BTreeNode, as its header and its table of contents show it.
Node(leaf, recs) == [is |-> "node", leaf |-> leaf, recs |-> recs]

\* No record.
Nothing == [key |-> "none"]

OmapType == 0

(***************************************************************************)
(* compare_fn and range_fn look at the object and the type only: an object  *)
(* map is searched for any transaction, a directory for any name.           *)
(***************************************************************************)
Before(key, target) ==
    \/ key.oid < target.oid
    \/ key.oid = target.oid /\ key.type < target.type

Same(key, target) == key.oid = target.oid /\ key.type = target.type

After(key, target) == Before(target, key)

\* The loops stop in front of the first record behind the target.
InFront(recs, target) ==
    LET behind == { i \in DOMAIN recs : After(recs[i].key, target) }
    IN  IF behind = {} THEN Len(recs) ELSE Min(behind) - 1

\* The records in front of that one that compare equal.
Equal(recs, target) == { i \in 1 .. InFront(recs, target) : Same(recs[i].key, target) }

\* The numbers of a finite set as an ascending sequence.
Ascending(S) ==
    [i \in 1 .. Cardinality(S) |->
        CHOOSE n \in S : Cardinality({ m \in S : m < n }) = i - 1]

\* The operation on one node needs those on its children, "below".  A tree that
\* is too high, or none at all, has the library exhaust its stack.
TooDeep == [block \in Nat |-> Err("StackOverflow")]

\* resolve_child_oid: a child of a physical tree is known by its block.
Physical == [oid \in Nat |-> Ok(oid)]

\* Mutant of ChildFor: a key that is equal is taken for one behind the target.
ChildForLess(recs, target) ==
    Max({0} \cup { i \in DOMAIN recs : Before(recs[i].key, target) })

\* The child whose first key is the last that is not behind the target, or 0.
ChildFor(recs, target) == InFront(recs, target)

\* The first record that compares equal.
FirstIn(recs, target) ==
    IF Equal(recs, target) = {} THEN Nothing ELSE recs[Min(Equal(recs, target))]

LookupNode(disk, target, where, below) ==
    [block \in Nat |->
        Then(ReadBlock(disk, block), LAMBDA node :
            IF node.leaf THEN Ok(FirstIn(node.recs, target))
            ELSE IF ChildFor(node.recs, target) = 0 THEN Ok(Nothing)
            ELSE Then(where[node.recs[ChildFor(node.recs, target)].val],
                      LAMBDA child : below[child]))]

(***************************************************************************)
(* btree_lookup_node: the first record that compares equal, in the one leaf *)
(* that the index nodes lead to.  The child oid is at the block where[oid]. *)
(***************************************************************************)
Lookup(disk, block, target, where) ==
    LET level[n \in 0 .. MaxHeight] ==
            LookupNode(disk, target, where, IF n = 0 THEN TooDeep ELSE level[n - 1])
    IN  level[MaxHeight][block]

\* The records of a leaf that compare equal; done says that the scan is to stop.
ScanLeaf(recs, target) ==
    [recs |-> [i \in DOMAIN Ascending(Equal(recs, target)) |->
                  recs[Ascending(Equal(recs, target))[i]]],
     done |-> InFront(recs, target) # Len(recs)]

\* The loop over the children, which is left when one of them says done.
ScanChildren(recs, where, below) ==
    LET upTo[i \in 0 .. Len(recs)] ==
            IF i = 0 THEN Ok([recs |-> <<>>, done |-> FALSE])
            ELSE Then(upTo[i - 1], LAMBDA sofar :
                 IF sofar.done THEN Ok(sofar)
                 ELSE Then(where[recs[i].val], LAMBDA child :
                      Then(below[child], LAMBDA more :
                          Ok([more EXCEPT !.recs = sofar.recs \o @]))))
    IN  upTo[Len(recs)]

ScanNode(disk, target, where, below) ==
    [block \in Nat |->
        Then(ReadBlock(disk, block), LAMBDA node :
            IF node.leaf THEN Ok(ScanLeaf(node.recs, target))
            ELSE ScanChildren(node.recs, where, below))]

(***************************************************************************)
(* btree_scan_node: all leaves from the left, up to the first record behind *)
(* the target.                                                             *)
(***************************************************************************)
Scan(disk, block, target, where) ==
    LET level[n \in 0 .. MaxHeight] ==
            ScanNode(disk, target, where, IF n = 0 THEN TooDeep ELSE level[n - 1])
    IN  level[MaxHeight][block]

\* Of the mappings of an object, the one with the highest transaction.
Newest(recs) ==
    recs[CHOOSE i \in DOMAIN recs :
             \A j \in DOMAIN recs : recs[i].key.sub >= recs[j].key.sub]

(***************************************************************************)
(* omap_lookup: the block of the first mapping that btree_lookup meets; if  *)
(* it meets none, that of the newest one which a scan finds, if not 0.      *)
(***************************************************************************)
OmapLookup(disk, root, oid) ==
    LET target == [oid |-> oid, type |-> OmapType]
    IN  Then(Lookup(disk, root, target, Physical), LAMBDA direct :
            IF direct # Nothing THEN Ok(direct.val)
            ELSE Then(Scan(disk, root, target, Physical), LAMBDA scan :
                     IF scan.recs = <<>> \/ Newest(scan.recs).val = 0
                     THEN Err("CorruptedData")
                     ELSE Ok(Newest(scan.recs).val)))

\* resolve_child_oid: a child of a virtual tree is known to an object map.
Virtual(disk, omap) == [oid \in Nat |-> OmapLookup(disk, omap, oid)]
=============================================================================
