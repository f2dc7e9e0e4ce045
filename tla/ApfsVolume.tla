----------------------------- MODULE ApfsVolume -----------------------------
(***************************************************************************)
(* A disk that is written by its Mac and read by ARFW: ApfsVolume::open     *)
(* (vendor/apfs/src/lib.rs), which finds the newest checkpoint              *)
(* (superblock.rs) and resolves its way to a catalog (omap.rs), and what    *)
(* the operations of module Catalog then answer.                            *)
(*                                                                         *)
(* The Mac is not in this repository.  It is modelled from what the library *)
(* relies on: trees are written to blocks that no checkpoint in the ring    *)
(* uses, a node that did not change stays where it is, and a superblock     *)
(* that a checkpoint map precedes makes a transaction count.  A disk is     *)
(* unplugged at any moment, in the middle of a write too.  ARFW gets a disk *)
(* only from the Mac, and a block that was good may turn bad at any time.   *)
(***************************************************************************)
EXTENDS Catalog, FiniteSets

CONSTANTS
    Names,         \* names of directory entries, as the numbers they sort by
    FileIds,       \* numbers of the files and directories below the root
    FirstContent,  \* what the volume holds when ARFW first meets it
    MaxPieces,     \* bound: extents of a file
    MaxXid,        \* bound: transactions
    Fan            \* records in a node of a B-tree

ASSUME ApfsVolumeAssumption ==
    /\ IsFiniteSet(Names) /\ Names \subseteq Nat
    /\ IsFiniteSet(FileIds) /\ FileIds \subseteq Nat \ (0 .. RootDir)
    /\ MaxPieces \in Nat /\ MaxXid \in Nat \ {0}
    /\ Fan \in Nat \ {0, 1}

VARIABLES
    disk,          \* what the blocks hold
    bad,           \* blocks that cannot be read
    phase,         \* who has the disk, and what the Mac is writing
    pending,       \* the transaction that is being written
    committed,     \* the content of each transaction that counts
    snap,          \* the transaction of the volume's snapshot, 0 if none
    vol            \* the result of ApfsVolume::open

diskVars == <<disk, bad>>
macVars == <<pending, committed, snap>>
vars == <<diskVars, phase, macVars, vol>>

\* xp_desc_base and xp_desc_blocks: a ring of two checkpoints, each a map and
\* a superblock.  The other blocks follow.
DescBase == 1
DescBlocks == 4
FirstFree == DescBase + DescBlocks

\* Virtual objects: the volume, the root of its catalog, the nodes below it.
VolumeOid == 1
RootTreeOid == 100

\* What a block may hold besides a node: an object whose checksum is wrong, one
\* of another type than the library looks for, and the ones that it parses.
Torn == [is |-> "torn"]
CheckpointMap == [is |-> "map"]
Superblock(xid, omap) ==
    [is |-> "superblock", xid |-> xid, omap |-> omap, fs |-> <<0, VolumeOid>>]
VolumeSuperblock(omap, rootTree) ==
    [is |-> "volume", omap |-> omap, rootTree |-> rootTree]
ObjectMap(root) == [is |-> "omap", root |-> root]

None == [none |-> TRUE]

Xid == Len(committed)
\* A function with another value at x, without x, and one laid over another.
With(f, x, y) == [z \in DOMAIN f \cup {x} |-> IF z = x THEN y ELSE f[z]]
Less(f, x) == [z \in DOMAIN f \ {x} |-> f[z]]
Over(g, f) == [z \in DOMAIN f \cup DOMAIN g |-> IF z \in DOMAIN g THEN g[z] ELSE f[z]]
-----------------------------------------------------------------------------
(***************************************************************************)
(* What the library reads.                                                  *)
(***************************************************************************)
Without(blocks) == [b \in DOMAIN disk \ blocks |-> disk[b]]

\* read_nxsb.  Blocks have the 4096 bytes that it reads first: it has no cause to
\* read block 0 again with another size.
ReadNxsb(d) ==
    Then(ReadBlock(d, 0), LAMBDA block :
        IF block = Torn THEN Err("InvalidChecksum")
        ELSE IF block.is # "superblock" THEN Err("InvalidMagic")
        ELSE Ok(block))

\* The blocks of the descriptor area that are not skipped: one that cannot be read
\* is.  The seek to it, whose failure find_latest_nxsb would pass on, only moves the
\* file pointer of an open handle to a place on the disk, and succeeds.
Candidates(d) ==
    { b \in DOMAIN d \cap (DescBase .. DescBase + DescBlocks - 1) :
        d[b] # Torn /\ d[b].is = "superblock" }

\* Mutant of FindLatestNxsb: the first superblock that is newer is taken.
FindNewerNxsb(d, nxsb) ==
    LET newer == { b \in Candidates(d) : d[b].xid > nxsb.xid }
    IN  IF newer = {} THEN nxsb ELSE d[Min(newer)]

FindLatestNxsb(d, nxsb) ==
    LET newer == { b \in Candidates(d) : d[b].xid > nxsb.xid }
    IN  IF newer = {} THEN nxsb
        ELSE d[CHOOSE b \in newer : \A c \in newer : d[b].xid >= d[c].xid]

ReadOmapTreeRoot(d, b) == Then(ReadBlock(d, b), LAMBDA block : Ok(block.root))

\* Mutant of Mounted: the map itself is kept, and not the root of its tree.
MountedUnfollowed(d, xid, sb) ==
    Then(ReadOmapTreeRoot(d, sb.omap), LAMBDA omap :
    Then(OmapLookup(d, omap, sb.rootTree), LAMBDA root :
        Ok([xid |-> xid, omap |-> sb.omap, root |-> root])))

\* From the superblock of the volume on; xid is what the volume can be told by.
Mounted(d, xid, sb) ==
    Then(ReadOmapTreeRoot(d, sb.omap), LAMBDA omap :
    Then(OmapLookup(d, omap, sb.rootTree), LAMBDA root :
        Ok([xid |-> xid, omap |-> omap, root |-> root])))

\* The first volume of a checkpoint.
FirstVolume(d, nxsb) ==
    LET volumes == { i \in DOMAIN nxsb.fs : nxsb.fs[i] # 0 }
    IN  Then(ReadOmapTreeRoot(d, nxsb.omap), LAMBDA omap :
            IF volumes = {} THEN Err("NoVolume")
            ELSE Then(OmapLookup(d, omap, nxsb.fs[Min(volumes)]), LAMBDA at :
                 Then(ReadBlock(d, at), LAMBDA sb :
                     IF sb.is # "volume" THEN Err("InvalidMagic")
                     ELSE Mounted(d, nxsb.xid, sb))))

\* ApfsVolume::open: the first volume of the newest checkpoint.
OpenVolume(d) ==
    Then(ReadNxsb(d), LAMBDA zero : FirstVolume(d, FindLatestNxsb(d, zero)))

\* The volume that is open, as module Catalog reads it.
Volume == [disk |-> Without(bad), omap |-> vol.val.omap, root |-> vol.val.root]
-----------------------------------------------------------------------------
(***************************************************************************)
(* What the Mac writes.  The content of a volume is [inodes, drecs]: its    *)
(* objects, and the object that an entry of a directory names.              *)
(***************************************************************************)
Inode(kind, extents) == [kind |-> kind, extents |-> extents]

Dirs(c) == { oid \in DOMAIN c.inodes : c.inodes[oid].kind = "directory" }
Files(c) == DOMAIN c.inodes \ Dirs(c)

\* What a content is: below the root every object has an entry, in a directory.
\* The root is a directory, and a directory has no data.
FileExtents == [length : Nat, block : Nat]

IsContent(c) ==
    /\ c = [inodes |-> c.inodes, drecs |-> c.drecs]
    /\ RootDir \in Dirs(c)
    /\ DOMAIN c.inodes \subseteq {RootDir} \cup FileIds
    /\ c.inodes \in [DOMAIN c.inodes ->
                       [kind : {"file", "directory"}, extents : Seq(FileExtents)]]
    /\ \A oid \in Dirs(c) : c.inodes[oid].extents = <<>>
    /\ DOMAIN c.drecs \subseteq Dirs(c) \X Names
    /\ c.drecs \in [DOMAIN c.drecs -> DOMAIN c.inodes]
    /\ \A oid \in DOMAIN c.inodes \ {RootDir} : \E e \in DOMAIN c.drecs : c.drecs[e] = oid

PathsUpTo(depth) == UNION { [1 .. n -> Names] : n \in 0 .. depth }

\* The object that a path names, 0 if none.
Reached(c, path) ==
    LET at[i \in 0 .. Len(path)] ==
            IF i = 0 THEN RootDir
            ELSE IF <<at[i - 1], path[i]>> \in DOMAIN c.drecs
                 THEN c.drecs[<<at[i - 1], path[i]>>] ELSE 0
    IN  at[Len(path)]

\* No directory is in itself, and none is deeper than the bound.
IsNested(c) ==
    \E depth \in [Dirs(c) -> 0 .. MaxDepth] :
        /\ depth[RootDir] = 0
        /\ \A e \in DOMAIN c.drecs :
              c.drecs[e] \in Dirs(c) => depth[c.drecs[e]] = depth[e[1]] + 1

\* A directory of the content, within "depth" components of the root.
Within(c, dir, depth) == \E path \in PathsUpTo(depth) : Reached(c, path) = dir

\* private_id, which keys the extents of a file: it need not be the file's own id.
Private(oid) == IF oid % 2 = 0 THEN oid ELSE oid + 50

FullKey(oid, type, sub) == [oid |-> oid, type |-> type, sub |-> sub]

CatalogRecords(c) ==
    { [key |-> FullKey(oid, InodeType, 0),
       val |-> InodeVal(c.inodes[oid].kind, Private(oid), Len(c.inodes[oid].extents))]
      : oid \in DOMAIN c.inodes }
    \cup (UNION { { [key |-> FullKey(Private(oid), ExtentType, i - 1),
                     val |-> c.inodes[oid].extents[i]]
                    : i \in DOMAIN c.inodes[oid].extents } : oid \in DOMAIN c.inodes })
    \cup { [key |-> FullKey(e[1], DirRecType, e[2]),
            val |-> DrecVal(c.drecs[e], c.inodes[c.drecs[e]].kind)]
           : e \in DOMAIN c.drecs }

Precedes(k, l) == Before(k, l) \/ (Same(k, l) /\ k.sub < l.sub)

InOrder(recs) ==
    [i \in 1 .. Cardinality(recs) |->
        CHOOSE r \in recs :
            Cardinality({ q \in recs : Precedes(q.key, r.key) }) = i - 1]

\* The records of a level fill its nodes from the left: where the ith node ends,
\* what it holds, and by what its parent knows it.
NodeCount(recs) == (Len(recs) + Fan - 1) \div Fan
EndOf(recs, i) == IF i = NodeCount(recs) THEN Len(recs) ELSE Fan * i
Page(recs, i) ==
    [k \in 1 .. EndOf(recs, i) - EndOf(recs, i - 1) |-> recs[EndOf(recs, i - 1) + k]]
NodesOf(recs, leaf) == [i \in 1 .. NodeCount(recs) |-> Node(leaf, Page(recs, i))]
Parents(recs, base) ==
    [i \in 1 .. NodeCount(recs) |-> [key |-> Page(recs, i)[1].key, val |-> base + i]]

\* The nodes of the levels below the nth, and the records of the nth.  The kth node
\* of a tree is known to its parent as base + k.
Levels(recs, base) ==
    LET level[n \in 0 .. MaxHeight] ==
            IF n = 0 THEN [nodes |-> <<>>, recs |-> recs]
            ELSE LET below == level[n - 1]
                 IN  [nodes |-> below.nodes \o NodesOf(below.recs, n = 1),
                      recs |-> Parents(below.recs, base + Len(below.nodes))]
    IN  level

Heights(recs, base) ==
    { n \in 0 .. MaxHeight : NodeCount(Levels(recs, base)[n].recs) = 1 }

\* The nodes of a tree, the last the root; none if it is too high for the bound.
Grow(recs, base) ==
    IF Heights(recs, base) = {} THEN <<>>
    ELSE LET h == Min(Heights(recs, base))
             top == Levels(recs, base)[h]
         IN  top.nodes \o NodesOf(top.recs, h = 0)

\* The catalog by object: the root keeps its number.
CatalogNodes(c) ==
    LET nodes == Grow(InOrder(CatalogRecords(c)), RootTreeOid)
        of(oid) == IF oid = RootTreeOid THEN Len(nodes) ELSE oid - RootTreeOid
    IN  [oid \in RootTreeOid .. RootTreeOid + Len(nodes) - 1 |-> nodes[of(oid)]]

Mapping(oid, xid, block) == [key |-> FullKey(oid, OmapType, xid), val |-> block]

\* The blocks of a sequence, from a block on.
Laid(blocks, from) == [b \in from .. from + Len(blocks) - 1 |-> blocks[b - from + 1]]

SameNode(a, b) == a.leaf = b.leaf /\ a.recs = b.recs

\* The mappings of the nodes that did not change.
Unmoved(old, nodes) ==
    { m \in old.newest : /\ m.key.oid \in DOMAIN nodes
                         /\ SameNode(old.nodes[m.key.oid], nodes[m.key.oid]) }

\* The other nodes of the catalog, written from old.free on.
WithNodes(old, xid, nodes) ==
    LET same == Unmoved(old, nodes)
        fresh == Ascending(DOMAIN nodes \ { m.key.oid : m \in same })
    IN  [nodes |-> nodes, fits |-> DOMAIN nodes # {},
         blocks |-> [i \in DOMAIN fresh |-> nodes[fresh[i]]],
         newest |-> same \cup { Mapping(fresh[i], xid, old.free + i - 1)
                                : i \in DOMAIN fresh }]

\* Behind them the object map of the volume, with the mappings that a snapshot
\* needs besides the newest.
WithMap(old, keep, nodes) ==
    LET kept == { m \in (old.maps \cup old.newest) \ nodes.newest : m.key.sub <= keep }
        tree == Grow(InOrder(nodes.newest \cup kept), old.free + Len(nodes.blocks) - 1)
    IN  [nodes |-> nodes.nodes, newest |-> nodes.newest, maps |-> kept,
         fits |-> nodes.fits /\ tree # <<>>, blocks |-> nodes.blocks \o tree]

\* Behind it what leads to it, and the superblock to come.
WithSuperblock(old, xid, c, trees) ==
    LET omapAt == old.free + Len(trees.blocks)
        rest == << ObjectMap(omapAt - 1),
                   VolumeSuperblock(omapAt, RootTreeOid),
                   Node(TRUE, << Mapping(VolumeOid, xid, omapAt + 1) >>),
                   ObjectMap(omapAt + 2) >>
    IN  [blocks |-> Laid(trees.blocks \o rest, old.free), fits |-> trees.fits,
         super |-> Superblock(xid, omapAt + 3),
         state |-> [nodes |-> trees.nodes, newest |-> trees.newest,
                    maps |-> trees.maps, content |-> c, free |-> omapAt + 4]]

(***************************************************************************)
(* A transaction after the state old of the volume: the blocks that it      *)
(* writes, the superblock that makes it count, the state after it.          *)
(* The newest mapping of a node that did not change is kept; an older one   *)
(* only if the snapshot needs it.  It fits unless one of its trees is higher *)
(* than the bound.                                                         *)
(***************************************************************************)
Transaction(old, c, xid, keep) ==
    WithSuperblock(old, xid, c,
                   WithMap(old, keep, WithNodes(old, xid, CatalogNodes(c))))

NoState == [nodes |-> <<>>, newest |-> {}, maps |-> {}, free |-> FirstFree]

ASSUME FirstContentAssumption ==
    /\ IsContent(FirstContent) /\ IsNested(FirstContent)
    /\ Transaction(NoState, FirstContent, 1, 0).fits

\* The slots of a transaction in the ring.
MapSlot(xid) == DescBase + ((2 * xid) % DescBlocks)
SuperSlot(xid) == MapSlot(xid) + 1

\* The disk was ejected after its first transaction, which block 0 has too.
Init ==
    /\ \E first \in { Transaction(NoState, FirstContent, 1, 0) } :
        /\ disk = With(With(With(first.blocks, SuperSlot(1), first.super),
                            MapSlot(1), CheckpointMap), 0, first.super)
        /\ committed = << first.state >>
    /\ bad = {}
    /\ phase = "idle"
    /\ pending = None
    /\ snap = 0
    /\ vol = Err("closed")
-----------------------------------------------------------------------------
(***************************************************************************)
(* One change of a content, of which a transaction makes it.                *)
(***************************************************************************)
FreeEntries(c) == (Dirs(c) \X Names) \ DOMAIN c.drecs

\* The data of a file is never overwritten in place.
Pieces(n, xid) == [i \in 1 .. n |-> FileExtentVal(1, 10 * xid + i)]

\* A new object with the entry e.
WithObject(c, e, oid, inode) ==
    [inodes |-> With(c.inodes, oid, inode), drecs |-> With(c.drecs, e, oid)]

Created(c, xid) ==
    LET unused == FileIds \ DOMAIN c.inodes
        shallow == { e \in FreeEntries(c) : Within(c, e[1], MaxDepth - 1) }
    IN  { WithObject(c, e, oid, Inode("file", Pieces(1, xid)))
          : e \in FreeEntries(c), oid \in unused }
        \cup { WithObject(c, e, oid, Inode("directory", <<>>))
               : e \in shallow, oid \in unused }

HardLinked(c) ==
    { [c EXCEPT !.drecs = With(@, e, oid)] : oid \in Files(c), e \in FreeEntries(c) }

\* The object goes with its last entry; a directory has one, and must be empty.
Unlinked(c) ==
    { LET drecs == Less(c.drecs, e)
          left == {RootDir} \cup { drecs[f] : f \in DOMAIN drecs }
      IN  [inodes |-> [oid \in left |-> c.inodes[oid]], drecs |-> drecs]
      : e \in { e \in DOMAIN c.drecs :
                  \A f \in DOMAIN c.drecs : f[1] # c.drecs[e] } }

\* A file only: a directory is not moved below itself.
Renamed(c) ==
    { [c EXCEPT !.drecs = With(Less(@, e.from), e.to, c.drecs[e.from])]
      : e \in { e \in [from : DOMAIN c.drecs, to : FreeEntries(c)] :
                  c.drecs[e.from] \in Files(c) } }

Written(c, xid) ==
    { [c EXCEPT !.inodes[oid].extents = Pieces(n, xid)]
      : oid \in Files(c), n \in 0 .. MaxPieces }

Changes(c, xid) ==
    Created(c, xid) \cup HardLinked(c) \cup Unlinked(c) \cup Renamed(c)
        \cup Written(c, xid)
-----------------------------------------------------------------------------
\* The trees of the next transaction are written; nothing refers to them yet.
WriteTrees ==
    /\ phase = "idle" /\ Xid < MaxXid
    /\ \E c \in Changes(committed[Xid].content, Xid + 1) :
       \E next \in { Transaction(committed[Xid], c, Xid + 1, snap) } :
        /\ next.fits
        /\ disk' = Over(next.blocks, disk)
        /\ pending' = [super |-> next.super, state |-> next.state]
    /\ phase' = "trees"
    /\ UNCHANGED <<bad, committed, snap, vol>>

WriteMap ==
    /\ phase = "trees"
    /\ disk' = With(disk, MapSlot(Xid + 1), CheckpointMap)
    /\ phase' = "map"
    /\ UNCHANGED <<bad, macVars, vol>>

\* The transaction counts from here on.
WriteSuperblock ==
    /\ phase = "map"
    /\ disk' = With(disk, SuperSlot(Xid + 1), pending.super)
    /\ committed' = Append(committed, pending.state)
    /\ pending' = None
    /\ phase' = "idle"
    /\ UNCHANGED <<bad, snap, vol>>

\* There is one snapshot, and a transaction after it.
TakeSnapshot ==
    /\ phase = "idle" /\ snap = 0 /\ Xid < MaxXid
    /\ snap' = Xid
    /\ UNCHANGED <<diskVars, phase, pending, committed, vol>>

\* The volume is ejected, block 0 is brought up to date, the disk may go.
Eject ==
    /\ phase = "idle"
    /\ disk' = With(disk, 0, disk[SuperSlot(Xid)])
    /\ phase' = "off"
    /\ UNCHANGED <<bad, macVars, vol>>

\* The disk is pulled out of the Mac, which may be writing one of its
\* checkpoint blocks or block 0.  The trees of a transaction that does not
\* count are in free blocks again.
Unplug ==
    LET kept == [b \in { b \in DOMAIN disk : b < committed[Xid].free } |-> disk[b]] IN
    /\ phase \in {"idle", "trees", "map"}
    /\ \/ disk' = kept
       \/ phase = "idle" /\ disk' = With(kept, 0, Torn)
       \/ phase = "trees" /\ disk' = With(kept, MapSlot(Xid + 1), Torn)
       \/ phase = "map" /\ disk' = With(kept, SuperSlot(Xid + 1), Torn)
    /\ phase' = "off"
    /\ pending' = None
    /\ UNCHANGED <<bad, committed, snap, vol>>

\* The Mac has the disk again, and goes on from the last transaction.
MacMounts ==
    /\ phase = "off"
    /\ phase' = "idle"
    /\ UNCHANGED <<diskVars, macVars, vol>>

\* ARFW has the disk, of which a block may be bad:
\* MountManager::mount_partition calls ApfsVolume::open.
Open ==
    /\ phase = "off"
    /\ \E unreadable \in {{}} \cup { {b} : b \in DOMAIN disk } :
        /\ bad' = unreadable
        /\ vol' = OpenVolume(Without(unreadable))
    /\ phase' = "open"
    /\ UNCHANGED <<disk, macVars>>

\* A block turns bad while the volume is open, one at most.
TurnsBad ==
    /\ phase = "open" /\ bad = {}
    /\ bad' \in { {b} : b \in DOMAIN disk }
    /\ UNCHANGED <<disk, phase, macVars, vol>>

\* The disk is taken from ARFW; a bad block is replaced.
Close ==
    /\ phase = "open"
    /\ phase' = "off"
    /\ bad' = {}
    /\ vol' = Err("closed")
    /\ UNCHANGED <<disk, macVars>>

Next ==
    \/ WriteTrees \/ WriteMap \/ WriteSuperblock \/ TakeSnapshot \/ Eject \/ Unplug
    \/ MacMounts \/ Open \/ TurnsBad \/ Close

Spec == Init /\ [][Next]_vars
-----------------------------------------------------------------------------
(***************************************************************************)
(* What a volume holds, read from its content and not from its trees.       *)
(***************************************************************************)
IsDir(c, oid) == oid # 0 /\ c.inodes[oid].kind = "directory"

Sized(c, oid) == Len(c.inodes[oid].extents)

StatOf(c, path) ==
    LET oid == Reached(c, path)
    IN  [oid |-> oid, kind |-> c.inodes[oid].kind, size |-> Sized(c, oid)]

ExtentsOf(c, path) ==
    LET oid == Reached(c, path)
    IN  [oid |-> oid, kind |-> c.inodes[oid].kind,
         extents |-> c.inodes[oid].extents, size |-> Sized(c, oid)]

EntriesOf(c, dir) ==
    { [name |-> e[2], oid |-> c.drecs[e], kind |-> c.inodes[c.drecs[e]].kind,
       size |-> Sized(c, c.drecs[e])] : e \in { e \in DOMAIN c.drecs : e[1] = dir } }

\* An answer that is a listing, with no entry twice.
Lists(answer, entries) ==
    Len(answer) = Cardinality(entries) /\ Range(answer) = entries

\* A listing whose sizes may be 0.
ListsNames(answer, entries) ==
    /\ Len(answer) = Cardinality(entries)
    /\ \A e \in entries : \E i \in DOMAIN answer :
            answer[i] \in {e, [e EXCEPT !.size = 0]}

ListsAll(answer, entries) == answer.ok /\ Lists(answer.val, entries)

\* The answers for a path are those that the content c gives.
AreTrue(c, path, stat, list, file, exists) ==
    LET oid == Reached(c, path)
    IN  /\ stat.ok <=> oid # 0
        /\ stat.ok => stat.val = StatOf(c, path)
        /\ list.ok <=> IsDir(c, oid)
        /\ list.ok => Lists(list.val, EntriesOf(c, oid))
        /\ file.ok <=> oid # 0
        /\ file.ok => file.val = ExtentsOf(c, path)
        /\ exists.ok /\ exists.val <=> oid # 0

\* ... or say that there is nothing to answer, or that the disk has failed.
AreNoLies(c, path, stat, list, file, exists) ==
    LET oid == Reached(c, path)
    IN  /\ IF stat.ok THEN oid # 0 /\ stat.val = StatOf(c, path)
           ELSE oid = 0 \/ stat.err = "Io"
        /\ IF list.ok THEN IsDir(c, oid) /\ ListsNames(list.val, EntriesOf(c, oid))
           ELSE ~ IsDir(c, oid) \/ list.err = "Io"
        /\ IF file.ok THEN oid # 0 /\ file.val = ExtentsOf(c, path)
           ELSE oid = 0 \/ file.err = "Io"
        /\ exists.ok => (exists.val <=> oid # 0)

\* The content that the volume which is open has.
Content == committed[vol.val.xid].content

\* The volume is open, and no object has a mapping that only a snapshot needs.
Served == phase = "open" /\ vol.ok /\ committed[vol.val.xid].maps = {}
-----------------------------------------------------------------------------
TypeOK ==
    /\ \A b \in DOMAIN disk : disk[b].is \in
           {"torn", "map", "superblock", "omap", "volume", "node"}
    /\ bad \subseteq DOMAIN disk /\ Cardinality(bad) <= 1
    /\ phase \in {"idle", "trees", "map", "off", "open"}
    /\ (pending # None) <=> phase \in {"trees", "map"}
    /\ snap \in 0 .. Xid
    /\ \A x \in DOMAIN committed :
          IsContent(committed[x].content) /\ IsNested(committed[x].content)
    /\ vol.ok => /\ phase = "open"
                 /\ vol.val.xid \in DOMAIN committed
                 /\ disk[vol.val.root].is = "node"
                 /\ disk[vol.val.omap].is = "node"

(***************************************************************************)
(* A volume opens in the state of the last transaction whose superblock was *)
(* written, wherever in the next one the disk was unplugged and however old *)
(* block 0 is; it fails to open only if a block cannot be read or block 0   *)
(* was being written.  It opens in an earlier state only if the one block   *)
(* that cannot be read is that superblock (find_latest_nxsb, lib.rs:85-138).*)
(***************************************************************************)
OpensTheLastCommit ==
    phase = "open" =>
        /\ vol.ok => vol.val.xid = Xid \/ bad = {SuperSlot(Xid)}
        /\ bad = {} /\ disk[0] # Torn => vol.ok
        /\ disk[0] = Torn => vol \in {Err("InvalidChecksum"), Err("Io")}

(***************************************************************************)
(* With every block readable, the operations answer for each path what the  *)
(* volume holds, and refuse exactly the paths that name nothing or the      *)
(* wrong kind of object: hard links, empty directories and files, and data  *)
(* under an id that is not the file's own included, and whichever nodes the *)
(* transactions have moved.                                                 *)
(***************************************************************************)
AnswersAreTrue ==
    Served /\ bad = {} =>
        \A path \in PathsUpTo(MaxDepth + 1) :
            AreTrue(Content, path, Stat(Volume, path), ListDirectory(Volume, path),
                    StatAndExtents(Volume, path), Exists(Volume, path))

\* walk meets each object below the root once for each of its names.
WalkIsComplete ==
    Served /\ bad = {} =>
        ListsAll(Walk(Volume),
                 { p \in PathsUpTo(MaxDepth + 1) \ {<<>>} : Reached(Content, p) # 0 })

(***************************************************************************)
(* With a block that cannot be read, an operation answers the truth or      *)
(* fails with the error of the disk: it never takes what it cannot read for *)
(* something that does not exist.  Only the sizes of a listing may be 0.    *)
(***************************************************************************)
NoLieOverABadBlock ==
    Served /\ bad # {} =>
        \A path \in PathsUpTo(MaxDepth) :
            AreNoLies(Content, path, Stat(Volume, path), ListDirectory(Volume, path),
                      StatAndExtents(Volume, path), Exists(Volume, path))

(***************************************************************************)
(* "We search for the entry with the matching OID and the highest xid"      *)
(* (omap.rs:41-45): the object map leads to the newest mapping of a node.   *)
(***************************************************************************)
NewestMapping ==
    phase = "open" /\ vol.ok /\ bad = {} =>
        \A m \in committed[vol.val.xid].newest :
            OmapLookup(disk, vol.val.omap, m.key.oid) = Ok(m.val)
=============================================================================
