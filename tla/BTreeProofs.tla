---------------------------- MODULE BTreeProofs ----------------------------
(***************************************************************************)
(* What the library finds in a B-tree, whatever the tree holds, however it  *)
(* is cut into nodes, wherever the nodes are and whichever of them can be   *)
(* read.                                                                   *)
(***************************************************************************)
EXTENDS BTree, FiniteSetTheorems, FunctionTheorems, WellFoundedInduction, TLAPS

(* The pairs of numbers of which the first is the smaller.                  *)
Smaller == { p \in Nat \X Nat : p[1] < p[2] }

\* A set of numbers has a least one.
LEMMA Least ==
    ASSUME NEW S \in SUBSET Nat, S # {}
    PROVE  /\ Min(S) \in S
           /\ \A m \in S : Min(S) <= m
<1>1. IsWellFoundedOn(Smaller, Nat)
  BY NatLessThanWellFounded DEF OpToRel, Smaller
<1>2. PICK n \in S : \A m \in S : ~ (<<m, n>> \in Smaller)
  BY <1>1, WFMin
<1>3. \A m \in S : n <= m
  <2> TAKE m \in S
  <2>1. m \in Nat /\ n \in Nat /\ ~ (m < n)
    BY <1>2 DEF Smaller
  <2> QED
    BY <2>1, SMT
<1> QED
  BY <1>3 DEF Min

\* Induction over the natural numbers, for the set of those that it is about.
LEMMA Induction ==
    ASSUME NEW S \in SUBSET Nat, 0 \in S, \A n \in Nat : n \in S => n + 1 \in S
    PROVE  S = Nat
<1>1. SUFFICES ASSUME Nat \ S # {} PROVE FALSE
  OBVIOUS
<1> DEFINE n == Min(Nat \ S)
<1>2. n \in Nat \ S /\ \A m \in Nat \ S : n <= m
  BY <1>1, Least
<1> HIDE DEF n
<1>3. n # 0 /\ n - 1 \in Nat /\ n - 1 \in S
  BY <1>2
<1> QED
  BY <1>2, <1>3
-----------------------------------------------------------------------------
\* A result is Ok or Err, and never both.
LEMMA ResultFacts ==
    /\ \A v : Ok(v).ok /\ Ok(v).val = v
    /\ \A e : ~Err(e).ok /\ Err(e).err = e
    /\ \A v, e : Ok(v) # Err(e)
<1>1. \A v, e : Ok(v).ok # Err(e).ok
  BY DEF Ok, Err
<1> QED
  BY <1>1 DEF Ok, Err
-----------------------------------------------------------------------------
(***************************************************************************)
(* The recursion over the levels, which the operators take for granted.     *)
(***************************************************************************)
IsLookup(level, m, disk, target, where) ==
    level = [n \in 0 .. m |->
                LookupNode(disk, target, where, IF n = 0 THEN TooDeep ELSE level[n - 1])]

\* The recursive definition of the lookup has a function.
LEMMA LookupLevels ==
    ASSUME NEW disk, NEW target, NEW where, NEW m \in Nat
    PROVE  \E level : IsLookup(level, m, disk, target, where)
<1> DEFINE Step(below) == LookupNode(disk, target, where, below)
           P(k) == \E g : g = [n \in 0 .. k |-> Step(IF n = 0 THEN TooDeep ELSE g[n - 1])]
           S == { k \in Nat : P(k) }
<1> HIDE DEF Step
<1>1. P(0)
  <2> DEFINE g == [n \in 0 .. 0 |-> Step(TooDeep)]
  <2>1. g = [n \in 0 .. 0 |-> Step(IF n = 0 THEN TooDeep ELSE g[n - 1])]
    OBVIOUS
  <2> QED
    BY <2>1
<1>2. ASSUME NEW k \in Nat, P(k) PROVE P(k + 1)
  <2>1. PICK g : g = [n \in 0 .. k |-> Step(IF n = 0 THEN TooDeep ELSE g[n - 1])]
    BY <1>2
  <2> DEFINE h == [n \in 0 .. k + 1 |-> Step(IF n = 0 THEN TooDeep ELSE g[n - 1])]
  <2>2. \A n \in 0 .. k : h[n] = g[n]
    <3> TAKE n \in 0 .. k
    <3>1. h[n] = Step(IF n = 0 THEN TooDeep ELSE g[n - 1])
      OBVIOUS
    <3>2. g[n] = Step(IF n = 0 THEN TooDeep ELSE g[n - 1])
      BY <2>1
    <3> QED
      BY <3>1, <3>2
  <2>3. \A n \in 0 .. k + 1 : n = 0 \/ h[n - 1] = g[n - 1]
    <3> HIDE DEF h
    <3>1. \A n \in 0 .. k + 1 : n = 0 \/ n - 1 \in 0 .. k
      OBVIOUS
    <3> QED
      BY <2>2, <3>1
  <2>4. h = [n \in 0 .. k + 1 |-> Step(IF n = 0 THEN TooDeep ELSE h[n - 1])]
    <3> HIDE DEF h
    <3>1. h = [n \in 0 .. k + 1 |-> Step(IF n = 0 THEN TooDeep ELSE g[n - 1])]
      BY DEF h
    <3> QED
      BY <2>3, <3>1
  <2> QED
    BY <2>4
<1> HIDE DEF P
<1>3. S \in SUBSET Nat /\ 0 \in S /\ \A k \in Nat : k \in S => k + 1 \in S
  BY <1>1, <1>2
<1>4. S = Nat
  <2> HIDE DEF S
  <2> QED
    BY <1>3, Induction
<1> QED
  BY <1>4 DEF P, Step, IsLookup

\* A lookup is what its definition says.
LEMMA LookupUnfolds ==
    ASSUME NEW disk, NEW target, NEW where
    PROVE  \E level :
              /\ IsLookup(level, MaxHeight, disk, target, where)
              /\ \A block : Lookup(disk, block, target, where) = level[MaxHeight][block]
<1>1. \E level : IsLookup(level, MaxHeight, disk, target, where)
  BY LookupLevels, BTreeAssumption
<1> DEFINE L == CHOOSE level : level =
                  [n \in 0 .. MaxHeight |->
                      LookupNode(disk, target, where,
                                 IF n = 0 THEN TooDeep ELSE level[n - 1])]
<1>2. IsLookup(L, MaxHeight, disk, target, where)
  BY <1>1 DEF IsLookup
<1>3. \A block : Lookup(disk, block, target, where) = L[MaxHeight][block]
  BY DEF Lookup
<1> QED
  BY <1>2, <1>3
-----------------------------------------------------------------------------
(***************************************************************************)
(* A tree over the records R: its nodes by what their parents know them by, *)
(* and the set T of <<level, node, first record, last record>>.             *)
(***************************************************************************)
IsKey(key) == key.oid \in Nat /\ key.type \in Nat

\* The records in the order of their objects and types.
Sorted(R) ==
    /\ R \in Seq({ R[i] : i \in DOMAIN R })
    /\ \A i \in DOMAIN R : /\ R[i] = [key |-> R[i].key, val |-> R[i].val]
                           /\ IsKey(R[i].key)
    /\ \A i, j \in DOMAIN R : i < j => ~Before(R[j].key, R[i].key)

\* A leaf holds the records from lo to hi ...
IsLeaf(node, R, lo, hi) ==
    /\ node.leaf
    /\ node.recs = [i \in 1 .. hi - lo + 1 |-> R[lo + i - 1]]

\* ... an index node the first keys of its children, which the cuts divide them into.
IsIndex(node, R, lo, hi, cut, T, n) ==
    /\ ~node.leaf
    /\ Len(node.recs) \in Nat \ {0}
    /\ DOMAIN node.recs = 1 .. Len(node.recs)
    /\ cut \in [0 .. Len(node.recs) -> Nat]
    /\ cut[0] = lo - 1
    /\ cut[Len(node.recs)] = hi
    /\ \A i \in 1 .. Len(node.recs) :
          /\ cut[i - 1] < cut[i]
          /\ node.recs[i].key = R[cut[i - 1] + 1].key
          /\ node.recs[i].val \in Nat
          /\ <<n - 1, node.recs[i].val, cut[i - 1] + 1, cut[i]>> \in T

IsTree(tree, R, T) ==
    /\ T \subseteq Nat \X (DOMAIN tree) \X Nat \X Nat
    /\ \A n, o, lo, hi \in Nat : <<n, o, lo, hi>> \in T =>
          /\ 1 <= lo /\ lo <= hi /\ hi <= Len(R)
          /\ n = 0 => IsLeaf(tree[o], R, lo, hi)
          /\ n > 0 => \E cut : IsIndex(tree[o], R, lo, hi, cut, T, n)

\* A block holds a node, if it can be read.
Holds(disk, block, node) == block \in Nat /\ (block \in DOMAIN disk => disk[block] = node)

\* The node o is found at where[o], if what leads to it can be read.
Located(disk, where, tree) ==
    /\ DOMAIN tree \subseteq Nat
    /\ \A o \in DOMAIN tree :
          \/ where[o] = Err("Io")
          \/ \E block \in Nat : where[o] = Ok(block) /\ Holds(disk, block, tree[o])

\* Every node can be read.
Readable(disk, where, tree) ==
    \A o \in DOMAIN tree : where[o].ok /\ where[o].val \in DOMAIN disk

(***************************************************************************)
(* Where the loops over the records of a node stop.                         *)
(***************************************************************************)
LEMMA InFrontIs ==
    ASSUME NEW recs, NEW target, Len(recs) \in Nat, DOMAIN recs = 1 .. Len(recs)
    PROVE  /\ InFront(recs, target) \in 0 .. Len(recs)
           /\ \A i \in 1 .. InFront(recs, target) : ~After(recs[i].key, target)
           /\ InFront(recs, target) < Len(recs) =>
                 After(recs[InFront(recs, target) + 1].key, target)
<1> DEFINE behind == { i \in DOMAIN recs : After(recs[i].key, target) }
<1>1. InFront(recs, target) = IF behind = {} THEN Len(recs) ELSE Min(behind) - 1
  BY DEF InFront
<1>2. CASE behind = {}
  BY <1>1, <1>2
<1>3. CASE behind # {}
  <2>1. behind \in SUBSET Nat
    OBVIOUS
  <2> DEFINE m == Min(behind)
  <2>2. m \in behind /\ \A j \in behind : m <= j
    BY <1>3, <2>1, Least
  <2>3. m \in 1 .. Len(recs) /\ After(recs[m].key, target)
    BY <2>2
  <2>4. InFront(recs, target) = m - 1
    BY <1>1, <1>3
  <2>5. \A i \in 1 .. m - 1 : ~After(recs[i].key, target)
    <3> SUFFICES ASSUME NEW i \in 1 .. m - 1, After(recs[i].key, target) PROVE FALSE
      OBVIOUS
    <3>1. i \in behind
      BY <2>3
    <3> HIDE DEF m, behind
    <3> QED
      BY <2>2, <2>3, <3>1
  <2> HIDE DEF m, behind
  <2> QED
    BY <2>3, <2>4, <2>5
<1> QED
  BY <1>2, <1>3

\* Keys are in front of, equal to or behind each other.
LEMMA KeyOrder ==
    ASSUME NEW k, NEW l, NEW m, IsKey(k), IsKey(l), IsKey(m)
    PROVE  /\ Before(k, l) \/ Same(k, l) \/ After(k, l)
           /\ ~(Before(k, l) /\ Same(k, l))
           /\ ~(Before(k, l) /\ After(k, l))
           /\ ~(Same(k, l) /\ After(k, l))
           /\ ~Before(l, k) /\ ~Before(m, l) => ~Before(m, k)
           /\ Same(k, l) /\ Same(l, m) => Same(k, m)
           /\ ~Before(l, k) /\ Before(l, m) => Before(k, m)
           /\ ~Before(l, k) /\ Before(m, k) => Before(m, l)
  BY DEF IsKey, Before, Same, After

\* The cuts ascend.
LEMMA CutsAscend ==
    ASSUME NEW m \in Nat, NEW cut \in [0 .. m -> Nat],
           \A i \in 1 .. m : cut[i - 1] < cut[i]
    PROVE  \A i, j \in 0 .. m : i <= j => cut[i] <= cut[j]
<1> DEFINE S == { k \in Nat : \A i \in 0 .. m : i + k <= m => cut[i] <= cut[i + k] }
<1>1. 0 \in S
  OBVIOUS
<1>2. ASSUME NEW k \in Nat, k \in S PROVE k + 1 \in S
  <2> SUFFICES ASSUME NEW i \in 0 .. m, i + (k + 1) <= m PROVE cut[i] <= cut[i + (k + 1)]
    OBVIOUS
  <2>1. i + k \in 0 .. m /\ i + (k + 1) \in 1 .. m /\ (i + (k + 1)) - 1 = i + k
    OBVIOUS
  <2>2. cut[i] <= cut[i + k]
    BY <1>2, <2>1
  <2>3. cut[i + k] < cut[i + (k + 1)]
    BY <2>1
  <2>4. cut[i] \in Nat /\ cut[i + k] \in Nat /\ cut[i + (k + 1)] \in Nat
    BY <2>1
  <2> QED
    BY <2>2, <2>3, <2>4
<1>3. S = Nat
  <2>1. S \in SUBSET Nat /\ \A k \in Nat : k \in S => k + 1 \in S
    BY <1>2
  <2> HIDE DEF S
  <2> QED
    BY <1>1, <2>1, Induction
<1> SUFFICES ASSUME NEW i \in 0 .. m, NEW j \in 0 .. m, i <= j PROVE cut[i] <= cut[j]
  OBVIOUS
<1>4. j - i \in Nat /\ i + (j - i) = j
  OBVIOUS
<1>5. j - i \in S
  BY <1>3, <1>4
<1> QED
  BY <1>4, <1>5
-----------------------------------------------------------------------------
(***************************************************************************)
(* What a lookup answers is right for the records from lo to hi.            *)
(***************************************************************************)
IsFound(result, R, lo, hi, target) ==
    \/ result = Ok(Nothing) /\ \A i \in lo .. hi : ~Same(R[i].key, target)
    \/ \E i \in lo .. hi : result = Ok(R[i]) /\ Same(R[i].key, target)

\* What SelectSeq and the comparison give for records in order.
LEMMA SortedFacts ==
    ASSUME NEW R, Sorted(R)
    PROVE  /\ DOMAIN R = 1 .. Len(R) /\ Len(R) \in Nat
           /\ \A i \in 1 .. Len(R) : IsKey(R[i].key)
           /\ \A i, j \in 1 .. Len(R) : i < j => ~Before(R[j].key, R[i].key)
           /\ \A i \in 1 .. Len(R) : R[i] = [key |-> R[i].key, val |-> R[i].val]
<1>1. DOMAIN R = 1 .. Len(R) /\ Len(R) \in Nat
  BY DEF Sorted
<1> QED
  BY <1>1 DEF Sorted

\* A lookup in a leaf.
LEMMA LookupLeaf ==
    ASSUME NEW R, Sorted(R), NEW target, IsKey(target), NEW lo \in Nat, NEW hi \in Nat,
           1 <= lo, lo <= hi, hi <= Len(R), NEW node, IsLeaf(node, R, lo, hi)
    PROVE  IsFound(Ok(FirstIn(node.recs, target)), R, lo, hi, target)
<1> DEFINE recs == node.recs
           p == InFront(recs, target)
<1>1. /\ DOMAIN R = 1 .. Len(R) /\ Len(R) \in Nat
      /\ \A i \in 1 .. Len(R) : IsKey(R[i].key)
      /\ \A i, j \in 1 .. Len(R) : i < j => ~Before(R[j].key, R[i].key)
  BY SortedFacts
<1>2. /\ DOMAIN recs = 1 .. hi - lo + 1
      /\ Len(recs) = hi - lo + 1
      /\ \A i \in 1 .. hi - lo + 1 : recs[i] = R[lo + i - 1]
  BY DEF IsLeaf
<1> HIDE DEF recs
<1>3. /\ p \in 0 .. Len(recs)
      /\ p < Len(recs) => After(recs[p + 1].key, target)
  BY <1>2, InFrontIs
<1> HIDE DEF p
<1>4. CASE Equal(recs, target) = {}
  <2>1. FirstIn(recs, target) = Nothing
    BY <1>4 DEF FirstIn
  <2>2. ASSUME NEW i \in lo .. hi, Same(R[i].key, target) PROVE FALSE
    <3>1. i - lo + 1 \in 1 .. Len(recs) /\ recs[i - lo + 1] = R[i]
      BY <1>2
    <3>2. i - lo + 1 > p
      BY <1>3, <1>4, <2>2, <3>1 DEF Equal, p
    <3>3. p + 1 \in 1 .. Len(recs) /\ lo + p \in 1 .. Len(R) /\ lo + p <= i
          /\ i \in 1 .. Len(R)
      BY <1>1, <1>2, <1>3, <3>1, <3>2
    <3>4. After(R[lo + p].key, target)
      BY <1>2, <1>3, <3>1, <3>2, <3>3
    <3>5. lo + p = i \/ ~Before(R[i].key, R[lo + p].key)
      BY <1>1, <3>3
    <3> QED
      BY <1>1, <2>2, <3>3, <3>4, <3>5, KeyOrder DEF After, Before, Same, IsKey
  <2> QED
    BY <2>1, <2>2 DEF IsFound, recs
<1>5. CASE Equal(recs, target) # {}
  <2> DEFINE m == Min(Equal(recs, target))
  <2>1. Equal(recs, target) \in SUBSET Nat
    BY <1>3 DEF Equal, p
  <2>2. m \in Equal(recs, target)
    BY <1>5, <2>1, Least
  <2> HIDE DEF m
  <2>3. m \in 1 .. Len(recs) /\ Same(recs[m].key, target)
    BY <1>2, <1>3, <2>2 DEF Equal, p
  <2>4. FirstIn(recs, target) = recs[m]
    BY <1>5 DEF FirstIn, m
  <2>5. lo + m - 1 \in lo .. hi /\ recs[m] = R[lo + m - 1]
    BY <1>2, <2>3
  <2> QED
    BY <2>3, <2>4, <2>5 DEF IsFound, recs
<1> QED
  BY <1>4, <1>5

\* A lookup in a node that is not a leaf.
LEMMA LookupIndex ==
    ASSUME NEW R, Sorted(R), NEW target, IsKey(target), NEW lo \in Nat, NEW hi \in Nat,
           1 <= lo, lo <= hi, hi <= Len(R),
           NEW node, NEW cut, NEW T, NEW n, IsIndex(node, R, lo, hi, cut, T, n),
           NEW c, c = ChildFor(node.recs, target)
    PROVE  /\ c \in 0 .. Len(node.recs)
           /\ c = 0 => IsFound(Ok(Nothing), R, lo, hi, target)
           /\ \A result : c > 0 /\ IsFound(result, R, cut[c - 1] + 1, cut[c], target)
                            => IsFound(result, R, lo, hi, target)
<1> DEFINE recs == node.recs
<1>1. /\ DOMAIN R = 1 .. Len(R) /\ Len(R) \in Nat
      /\ \A i \in 1 .. Len(R) : IsKey(R[i].key)
      /\ \A i, j \in 1 .. Len(R) : i < j => ~Before(R[j].key, R[i].key)
  BY SortedFacts
<1>2. /\ Len(recs) \in Nat \ {0}
      /\ DOMAIN recs = 1 .. Len(recs)
      /\ cut \in [0 .. Len(recs) -> Nat]
      /\ cut[0] = lo - 1
      /\ cut[Len(recs)] = hi
      /\ \A i \in 1 .. Len(recs) : /\ cut[i - 1] < cut[i]
                                   /\ recs[i].key = R[cut[i - 1] + 1].key
  BY DEF IsIndex
<1> HIDE DEF recs
<1>3. /\ c \in 0 .. Len(recs)
      /\ c > 0 => ~After(recs[c].key, target)
      /\ c < Len(recs) => After(recs[c + 1].key, target)
  BY <1>2, InFrontIs DEF ChildFor, recs
<1>4. \A i, j \in 0 .. Len(recs) : i <= j => cut[i] <= cut[j]
  BY <1>2, CutsAscend
<1>5. /\ cut[c] \in Nat /\ lo - 1 <= cut[c] /\ cut[c] <= hi
      /\ 0 \in 0 .. Len(recs) /\ Len(recs) \in 0 .. Len(recs)
  BY <1>2, <1>3, <1>4
\* Behind the child there is nothing equal.
<1>6. ASSUME NEW i \in lo .. hi, cut[c] < i PROVE ~Same(R[i].key, target)
  <2>1. c < Len(recs)
    BY <1>2, <1>3, <1>6
  <2>2. After(R[cut[c] + 1].key, target)
    BY <1>2, <1>3, <2>1
  <2>3. cut[c] + 1 \in 1 .. Len(R) /\ i \in 1 .. Len(R) /\ cut[c] + 1 <= i
    BY <1>1, <1>5, <1>6
  <2>4. cut[c] + 1 = i \/ ~Before(R[i].key, R[cut[c] + 1].key)
    BY <1>1, <2>3
  <2> QED
    BY <1>1, <2>2, <2>3, <2>4 DEF After, Before, Same, IsKey
<1>7. c = 0 => IsFound(Ok(Nothing), R, lo, hi, target)
  BY <1>2, <1>6 DEF IsFound
<1>8. ASSUME c > 0, NEW result, IsFound(result, R, cut[c - 1] + 1, cut[c], target)
      PROVE  IsFound(result, R, lo, hi, target)
  <2>1. /\ c - 1 \in 0 .. Len(recs) /\ cut[c - 1] \in Nat /\ cut[c - 1] < cut[c]
        /\ lo - 1 <= cut[c - 1]
    BY <1>2, <1>3, <1>4, <1>5, <1>8
  <2>2. CASE result = Ok(Nothing)
             /\ \A i \in cut[c - 1] + 1 .. cut[c] : ~Same(R[i].key, target)
    <3> DEFINE f == cut[c - 1] + 1
    <3>1. f \in cut[c - 1] + 1 .. cut[c] /\ f \in 1 .. Len(R)
      BY <1>1, <1>5, <2>1
    <3>2. ~After(R[f].key, target) /\ ~Same(R[f].key, target)
      BY <1>2, <1>3, <1>8, <2>2, <3>1
    <3>3. ASSUME NEW i \in lo .. hi, i < f PROVE ~Same(R[i].key, target)
      <4>1. i \in 1 .. Len(R) /\ ~Before(R[f].key, R[i].key)
        BY <1>1, <3>1, <3>3
      <4> QED
        BY <1>1, <3>1, <3>2, <4>1 DEF After, Before, Same, IsKey
    <3>4. \A i \in lo .. hi : \/ i < f
                              \/ i \in cut[c - 1] + 1 .. cut[c]
                              \/ cut[c] < i
      BY <1>5, <2>1
    <3> HIDE DEF f
    <3> QED
      BY <1>6, <2>2, <3>3, <3>4 DEF IsFound
  <2>3. CASE \E i \in cut[c - 1] + 1 .. cut[c] : result = Ok(R[i]) /\ Same(R[i].key, target)
    <3>1. \A i \in cut[c - 1] + 1 .. cut[c] : i \in lo .. hi
      BY <1>5, <2>1
    <3> QED
      BY <2>3, <3>1 DEF IsFound
  <2> QED
    BY <1>8, <2>2, <2>3 DEF IsFound
<1> QED
  BY <1>3, <1>7, <1>8 DEF recs

\* On the trees of T up to the level m, "at" answers what is right for their records,
\* or fails because it cannot read a node.
LooksUp(at, m, disk, target, where, tree, R, T) ==
    \A n, o, lo, hi, block \in Nat :
        n <= m /\ <<n, o, lo, hi>> \in T /\ Holds(disk, block, tree[o]) =>
            \/ /\ at[block] = Err("Io")
               /\ block \notin DOMAIN disk \/ ~Readable(disk, where, tree)
            \/ IsFound(at[block], R, lo, hi, target)

\* A lookup in a node is right if those in its children are.
LEMMA LookupNodeStep ==
    ASSUME NEW disk, NEW target, IsKey(target), NEW where, NEW tree, NEW R, Sorted(R),
           NEW T, IsTree(tree, R, T), Located(disk, where, tree),
           NEW m \in Nat, NEW below,
           m = 0 \/ LooksUp(below, m - 1, disk, target, where, tree, R, T)
    PROVE  LooksUp(LookupNode(disk, target, where, below), m,
                   disk, target, where, tree, R, T)
<1> SUFFICES ASSUME NEW n \in Nat, NEW o \in Nat, NEW lo \in Nat, NEW hi \in Nat,
                    NEW block \in Nat, n <= m, <<n, o, lo, hi>> \in T,
                    Holds(disk, block, tree[o]), block \in DOMAIN disk
             PROVE  LET found == LookupNode(disk, target, where, below)[block] IN
                    \/ found = Err("Io") /\ ~Readable(disk, where, tree)
                    \/ IsFound(found, R, lo, hi, target)
  <2>1. \A b \in Nat : b \notin DOMAIN disk =>
            LookupNode(disk, target, where, below)[b] = Err("Io")
    BY DEF LookupNode, ReadBlock, Then, Err
  <2> QED
    BY <2>1 DEF LooksUp
<1> DEFINE node == tree[o]
           recs == node.recs
           c == ChildFor(recs, target)
           found == LookupNode(disk, target, where, below)[block]
<1>1. /\ 1 <= lo /\ lo <= hi /\ hi <= Len(R)
      /\ n = 0 => IsLeaf(node, R, lo, hi)
      /\ n > 0 => \E cut : IsIndex(node, R, lo, hi, cut, T, n)
  BY DEF IsTree
<1>2. disk[block] = node
  BY DEF Holds
<1>3. found = IF node.leaf THEN Ok(FirstIn(recs, target))
              ELSE IF c = 0 THEN Ok(Nothing)
              ELSE IF where[recs[c].val].ok THEN below[where[recs[c].val].val]
              ELSE where[recs[c].val]
  BY <1>2 DEF LookupNode, ReadBlock, Then, Ok
<1> HIDE DEF found, node
<1>4. CASE n = 0
  <2>1. IsLeaf(node, R, lo, hi)
    BY <1>1, <1>4
  <2>2. found = Ok(FirstIn(recs, target))
    BY <1>3, <2>1 DEF IsLeaf
  <2> QED
    BY <1>1, <2>1, <2>2, LookupLeaf DEF found
<1>5. CASE n > 0
  <2>1. PICK cut : IsIndex(node, R, lo, hi, cut, T, n)
    BY <1>1, <1>5
  <2>2. /\ c \in 0 .. Len(recs)
        /\ c = 0 => IsFound(Ok(Nothing), R, lo, hi, target)
        /\ \A result : c > 0 /\ IsFound(result, R, cut[c - 1] + 1, cut[c], target)
                         => IsFound(result, R, lo, hi, target)
    BY <1>1, <2>1, LookupIndex
  <2>3. ~node.leaf
    BY <2>1 DEF IsIndex
  <2> DEFINE kid == recs[c].val
  <2>4. CASE c = 0
    BY <1>3, <2>2, <2>3, <2>4 DEF found
  <2>5. CASE c > 0
    <3>1. /\ kid \in Nat
          /\ cut[c - 1] + 1 \in Nat
          /\ cut[c] \in Nat
          /\ <<n - 1, kid, cut[c - 1] + 1, cut[c]>> \in T
      <4>1. /\ Len(recs) \in Nat
            /\ cut \in [0 .. Len(recs) -> Nat]
            /\ \A i \in 1 .. Len(recs) :
                  /\ recs[i].val \in Nat
                  /\ <<n - 1, recs[i].val, cut[i - 1] + 1, cut[i]>> \in T
        BY <2>1 DEF IsIndex
      <4> HIDE DEF recs, c
      <4>2. c \in 1 .. Len(recs) /\ c - 1 \in 0 .. Len(recs) /\ c \in 0 .. Len(recs)
        BY <2>2, <2>5, <4>1 DEF recs
      <4>3. cut[c - 1] \in Nat /\ cut[c] \in Nat
        BY <4>1, <4>2
      <4>4. cut[c - 1] + 1 \in Nat
        BY <4>3
      <4>5. recs[c].val \in Nat /\ <<n - 1, recs[c].val, cut[c - 1] + 1, cut[c]>> \in T
        BY <4>1, <4>2
      <4> QED
        BY <4>3, <4>4, <4>5, Zenon DEF recs
    <3>2. kid \in DOMAIN tree
      BY <3>1 DEF IsTree
    <3>3. CASE where[kid] = Err("Io")
      BY <1>3, <2>3, <2>5, <3>2, <3>3 DEF found, Readable, Err
    <3>4. CASE \E b \in Nat : where[kid] = Ok(b) /\ Holds(disk, b, tree[kid])
      <4>1. PICK b \in Nat : where[kid] = Ok(b) /\ Holds(disk, b, tree[kid])
        BY <3>4
      <4>2. where[kid].ok /\ where[kid].val = b
        BY <4>1 DEF Ok
      <4>3. found = below[b]
        BY <1>3, <2>3, <2>5, <4>2
      <4>4. n - 1 \in Nat /\ n - 1 <= m - 1 /\ m # 0
        BY <1>5
      <4>5. \/ /\ below[b] = Err("Io")
               /\ b \notin DOMAIN disk \/ ~Readable(disk, where, tree)
            \/ IsFound(below[b], R, cut[c - 1] + 1, cut[c], target)
        BY <3>1, <4>1, <4>4 DEF LooksUp
      <4>6. b \notin DOMAIN disk => ~Readable(disk, where, tree)
        BY <3>2, <4>2 DEF Readable
      <4> QED
        BY <2>2, <2>5, <4>3, <4>5, <4>6 DEF found
    <3> QED
      BY <3>2, <3>3, <3>4 DEF Located
  <2> QED
    BY <2>2, <2>4, <2>5
<1> QED
  BY <1>4, <1>5

\* A lookup is right in a tree of any height.
LEMMA LookupTree ==
    ASSUME NEW disk, NEW target, IsKey(target), NEW where, NEW tree, NEW R, Sorted(R),
           NEW T, IsTree(tree, R, T), Located(disk, where, tree),
           NEW level, IsLookup(level, MaxHeight, disk, target, where)
    PROVE  LooksUp(level[MaxHeight], MaxHeight, disk, target, where, tree, R, T)
<1> DEFINE Works(n) == LooksUp(level[n], n, disk, target, where, tree, R, T)
           S == { n \in Nat : n <= MaxHeight => Works(n) }
<1>1. \A n \in 0 .. MaxHeight : level[n] =
          LookupNode(disk, target, where, IF n = 0 THEN TooDeep ELSE level[n - 1])
  <2> DEFINE Step(n) == LookupNode(disk, target, where,
                                   IF n = 0 THEN TooDeep ELSE level[n - 1])
  <2>1. level = [n \in 0 .. MaxHeight |-> Step(n)]
    BY DEF IsLookup
  <2> HIDE DEF Step
  <2>2. \A n \in 0 .. MaxHeight : level[n] = Step(n)
    BY <2>1
  <2> QED
    BY <2>2 DEF Step
<1>2. MaxHeight \in Nat
  BY BTreeAssumption
<1>3. 0 \in S
  <2>1. level[0] = LookupNode(disk, target, where, TooDeep)
    BY <1>1, <1>2
  <2> QED
    BY <2>1, LookupNodeStep
<1>4. ASSUME NEW n \in Nat, n \in S PROVE n + 1 \in S
  <2> SUFFICES ASSUME n + 1 <= MaxHeight PROVE Works(n + 1)
    OBVIOUS
  <2>1. /\ n + 1 \in 0 .. MaxHeight /\ n + 1 # 0 /\ (n + 1) - 1 = n /\ n <= MaxHeight
        /\ n + 1 \in Nat
    BY <1>2
  <2>2. level[n + 1] = LookupNode(disk, target, where, level[n])
    BY <1>1, <2>1
  <2>3. LooksUp(level[n], (n + 1) - 1, disk, target, where, tree, R, T)
    BY <1>4, <2>1
  <2> QED
    BY <2>1, <2>2, <2>3, LookupNodeStep
<1>5. S = Nat
  <2>1. S \in SUBSET Nat
    OBVIOUS
  <2> HIDE DEF S
  <2> QED
    BY <1>3, <1>4, <2>1, Induction
<1> QED
  BY <1>2, <1>5

(***************************************************************************)
(* btree_lookup meets a record that compares equal if the tree has one, and *)
(* says so if it has none; it fails only if there is a node that it cannot  *)
(* read.                                                                   *)
(***************************************************************************)
THEOREM LookupIsRight ==
    ASSUME NEW disk, NEW target, IsKey(target), NEW where, NEW tree, NEW R, Sorted(R),
           NEW T, IsTree(tree, R, T), Located(disk, where, tree),
           NEW h \in 0 .. MaxHeight, NEW root \in Nat, <<h, root, 1, Len(R)>> \in T,
           NEW block, Holds(disk, block, tree[root])
    PROVE  LET answer == Lookup(disk, block, target, where) IN
           \/ /\ answer = Err("Io")
              /\ block \notin DOMAIN disk \/ ~Readable(disk, where, tree)
           \/ IsFound(answer, R, 1, Len(R), target)
<1>1. PICK level : /\ IsLookup(level, MaxHeight, disk, target, where)
                   /\ \A b : Lookup(disk, b, target, where) = level[MaxHeight][b]
  BY LookupUnfolds
<1>2. LooksUp(level[MaxHeight], MaxHeight, disk, target, where, tree, R, T)
  BY <1>1, LookupTree
<1>3. block \in Nat /\ h \in Nat /\ h <= MaxHeight /\ Len(R) \in Nat
  BY SortedFacts, BTreeAssumption DEF Holds
<1> QED
  BY <1>1, <1>2, <1>3 DEF LooksUp

(***************************************************************************)
(* An object map on a disk: a physical tree, the mappings R of which are    *)
(* records of its one type.                                                *)
(***************************************************************************)
IsOmap(disk, root, tree, R, T) ==
    /\ Sorted(R)
    /\ \A i \in DOMAIN R : R[i].key.type = OmapType
    /\ IsTree(tree, R, T)
    /\ DOMAIN tree \subseteq Nat
    /\ \A b \in DOMAIN tree : Holds(disk, b, tree[b])
    /\ root \in Nat
    /\ \E h \in 0 .. MaxHeight : <<h, root, 1, Len(R)>> \in T

\* omap_lookup finds a mapping of an object that has one.
THEOREM OmapLookupIsRight ==
    ASSUME NEW disk, NEW root, NEW tree, NEW R, NEW T, IsOmap(disk, root, tree, R, T),
           NEW oid \in Nat, \E i \in DOMAIN R : R[i].key.oid = oid
    PROVE  LET answer == OmapLookup(disk, root, oid) IN
           \/ answer = Err("Io") /\ ~(DOMAIN tree \subseteq DOMAIN disk)
           \/ \E i \in DOMAIN R : R[i].key.oid = oid /\ answer = Ok(R[i].val)
<1> DEFINE target == [oid |-> oid, type |-> OmapType]
           direct == Lookup(disk, root, target, Physical)
<1>1. IsKey(target) /\ target.oid = oid /\ target.type = OmapType
  BY DEF IsKey, OmapType
<1> HIDE DEF target
<1>2. Sorted(R) /\ IsTree(tree, R, T) /\ root \in Nat
  BY DEF IsOmap
<1>3. Located(disk, Physical, tree)
  <2> SUFFICES ASSUME NEW o \in DOMAIN tree
               PROVE  o \in Nat /\ Physical[o] = Ok(o) /\ Holds(disk, o, tree[o])
    BY DEF Located, IsOmap
  <2> QED
    BY DEF Physical, IsOmap
<1>4. PICK h \in 0 .. MaxHeight : <<h, root, 1, Len(R)>> \in T
  BY DEF IsOmap
<1>5. root \in DOMAIN tree /\ Holds(disk, root, tree[root])
  BY <1>2, <1>4 DEF IsTree, IsOmap
<1>6. \/ /\ direct = Err("Io")
         /\ root \notin DOMAIN disk \/ ~Readable(disk, Physical, tree)
      \/ IsFound(direct, R, 1, Len(R), target)
  BY <1>1, <1>2, <1>3, <1>4, <1>5, LookupIsRight
<1>7. Readable(disk, Physical, tree) <=> DOMAIN tree \subseteq DOMAIN disk
  BY DEF Readable, Physical, Ok, IsOmap
<1>8. CASE direct = Err("Io")
  <2>1. ~(DOMAIN tree \subseteq DOMAIN disk)
    BY <1>5, <1>6, <1>7, <1>8, ResultFacts DEF IsFound
  <2>2. OmapLookup(disk, root, oid) = Err("Io")
    BY <1>8 DEF OmapLookup, Then, target, Err
  <2> QED
    BY <2>1, <2>2
<1>9. CASE IsFound(direct, R, 1, Len(R), target)
  <2>1. DOMAIN R = 1 .. Len(R) /\ \A i \in DOMAIN R : R[i] = [key |-> R[i].key, val |-> R[i].val]
    BY <1>2, SortedFacts
  <2>2. PICK j \in DOMAIN R : R[j].key.oid = oid
    OBVIOUS
  <2>3. Same(R[j].key, target)
    BY <1>1, <2>2 DEF Same, IsOmap
  <2>4. PICK i \in DOMAIN R : direct = Ok(R[i]) /\ Same(R[i].key, target)
    BY <1>9, <2>1, <2>3 DEF IsFound
  <2>5. R[i] # Nothing
    BY <2>1 DEF Nothing
  <2>6. direct.ok /\ direct.val = R[i]
    BY <2>4, ResultFacts
  <2>7. OmapLookup(disk, root, oid) = IF direct.val # Nothing THEN Ok(direct.val.val)
            ELSE Then(Scan(disk, root, target, Physical), LAMBDA scan :
                     IF scan.recs = <<>> \/ Newest(scan.recs).val = 0 THEN Err("CorruptedData")
                     ELSE Ok(Newest(scan.recs).val))
    BY <2>6 DEF OmapLookup, Then, target
  <2> QED
    BY <1>1, <2>4, <2>5, <2>6, <2>7 DEF Same
<1> QED
  BY <1>6, <1>8, <1>9
-----------------------------------------------------------------------------
(***************************************************************************)
(* The elements of a finite set in order.                                  *)
(***************************************************************************)
\* How many elements of a set come before x.
Rank(S, less, x) == Cardinality({ y \in S : <<y, x>> \in less })

\* A set of pairs that orders a set.
Orders(less, S) ==
    /\ \A x \in S : <<x, x>> \notin less
    /\ \A x, y, z \in S : <<x, y>> \in less /\ <<y, z>> \in less => <<x, z>> \in less
    /\ \A x, y \in S : x = y \/ <<x, y>> \in less \/ <<y, x>> \in less

\* What comes before something comes before all that comes after it.
LEMMA RankFacts ==
    ASSUME NEW S, IsFiniteSet(S), NEW less, Orders(less, S)
    PROVE  /\ \A x \in S : Rank(S, less, x) \in 0 .. Cardinality(S) - 1
           /\ \A x, y \in S : <<x, y>> \in less => Rank(S, less, x) < Rank(S, less, y)
           /\ \A k \in 0 .. Cardinality(S) - 1 : \E x \in S : Rank(S, less, x) = k
<1> DEFINE B(x) == { y \in S : <<y, x>> \in less }
           N == Cardinality(S)
<1>1. \A x \in S : IsFiniteSet(B(x)) /\ Cardinality(B(x)) \in Nat
  <2> TAKE x \in S
  <2>1. B(x) \in SUBSET S
    OBVIOUS
  <2> HIDE DEF B
  <2> QED
    BY <2>1, FS_Subset, FS_CardinalityType
<1>2. N \in Nat
  BY FS_CardinalityType
<1>3. \A x \in S : Cardinality(B(x)) \in 0 .. N - 1
  <2> TAKE x \in S
  <2>1. B(x) \in SUBSET S /\ x \notin B(x)
    BY DEF Orders
  <2> HIDE DEF B
  <2>2. Cardinality(B(x)) <= N /\ Cardinality(B(x)) # N
    BY <2>1, FS_Subset
  <2> HIDE DEF N
  <2> QED
    BY <1>1, <1>2, <2>2
<1>4. ASSUME NEW x \in S, NEW y \in S, <<x, y>> \in less
      PROVE  Cardinality(B(x)) < Cardinality(B(y))
  <2>1. B(x) \in SUBSET B(y) /\ x \in B(y) /\ x \notin B(x)
    BY <1>4 DEF Orders
  <2> HIDE DEF B
  <2>2. Cardinality(B(x)) <= Cardinality(B(y)) /\ Cardinality(B(y)) # Cardinality(B(x))
    BY <1>1, <2>1, FS_Subset
  <2> QED
    BY <1>1, <2>2
<1>5. \A k \in 0 .. N - 1 : \E x \in S : Cardinality(B(x)) = k
  <2> DEFINE f == [x \in S |-> Cardinality(B(x))]
             T == 0 .. N - 1
  <2> HIDE DEF B
  <2>1. f \in [S -> T]
    BY <1>3
  <2>2. \A x, y \in S : f[x] = f[y] => x = y
    <3> SUFFICES ASSUME NEW x \in S, NEW y \in S, f[x] = f[y], x # y PROVE FALSE
      OBVIOUS
    <3>1. <<x, y>> \in less \/ <<y, x>> \in less
      BY DEF Orders
    <3>2. Cardinality(B(x)) = Cardinality(B(y))
      OBVIOUS
    <3> QED
      BY <1>1, <1>4, <3>1, <3>2
  <2> HIDE DEF f
  <2>3. f \in Injection(S, T)
    BY <2>1, <2>2, Fun_IsInj
  <2>4. IsFiniteSet(T) /\ Cardinality(T) = N
    <3>1. 0 \in Int /\ N - 1 \in Int
      BY <1>2
    <3>2. IsFiniteSet(T) /\ Cardinality(T) = IF 0 > N - 1 THEN 0 ELSE (N - 1) - 0 + 1
      BY <3>1, FS_Interval
    <3> HIDE DEF T, N
    <3> QED
      BY <1>2, <3>2
  <2> HIDE DEF T
  <2>5. f \in Surjection(S, T)
    BY <2>3, <2>4, FS_Injection
  <2>6. \A k \in T : \E x \in S : f[x] = k
    BY <2>5, Fun_SurjectionProperties
  <2> QED
    BY <2>6 DEF f, T
<1> QED
  BY <1>3, <1>4, <1>5 DEF Rank

\* The elements of a set by their rank.
ByRank(S, less) ==
    [i \in 1 .. Cardinality(S) |-> CHOOSE x \in S : Rank(S, less, x) = i - 1]

\* A function of the numbers up to n is a sequence.
LEMMA IsASeq ==
    ASSUME NEW S, NEW n \in Nat, NEW f \in [1 .. n -> S]
    PROVE  f \in Seq(S) /\ Len(f) = n
  OBVIOUS

\* By their rank the elements of a finite set are all there, in order.
LEMMA Enumeration ==
    ASSUME NEW S, IsFiniteSet(S), NEW less, Orders(less, S)
    PROVE  LET f == ByRank(S, less) IN
           /\ Cardinality(S) \in Nat
           /\ f \in Seq(S) /\ Len(f) = Cardinality(S)
           /\ \A i, j \in DOMAIN f : i < j => <<f[i], f[j]>> \in less
           /\ \A x \in S : \E i \in DOMAIN f : f[i] = x
<1> DEFINE N == Cardinality(S)
           f == ByRank(S, less)
<1>1. N \in Nat
  BY FS_CardinalityType
<1>2. /\ \A x \in S : Rank(S, less, x) \in 0 .. N - 1
      /\ \A x, y \in S : <<x, y>> \in less => Rank(S, less, x) < Rank(S, less, y)
      /\ \A k \in 0 .. N - 1 : \E x \in S : Rank(S, less, x) = k
  BY RankFacts
<1>3. DOMAIN f = 1 .. N
  BY DEF ByRank
<1>4. \A i \in 1 .. N : f[i] \in S /\ Rank(S, less, f[i]) = i - 1
  <2> TAKE i \in 1 .. N
  <2>1. f[i] = CHOOSE x \in S : Rank(S, less, x) = i - 1
    BY DEF ByRank
  <2>2. i - 1 \in 0 .. N - 1
    BY <1>1
  <2> QED
    BY <1>2, <2>1, <2>2
<1> HIDE DEF N, f
<1>5. f \in Seq(S) /\ Len(f) = N
  <2>1. f \in [1 .. N -> S]
    <3>1. f = [i \in 1 .. N |-> CHOOSE x \in S : Rank(S, less, x) = i - 1]
      BY DEF N, f, ByRank
    <3> QED
      BY <1>4, <3>1
  <2> QED
    BY <1>1, <2>1, IsASeq
<1>6. ASSUME NEW i \in 1 .. N, NEW j \in 1 .. N, i < j PROVE <<f[i], f[j]>> \in less
  <2>1. f[i] # f[j] /\ ~(<<f[j], f[i]>> \in less)
    BY <1>1, <1>2, <1>4, <1>6
  <2> QED
    BY <1>4, <2>1 DEF Orders
<1>7. ASSUME NEW x \in S PROVE \E i \in 1 .. N : f[i] = x
  <2>1. Rank(S, less, x) + 1 \in 1 .. N /\ (Rank(S, less, x) + 1) - 1 = Rank(S, less, x)
    BY <1>1, <1>2
  <2>2. Rank(S, less, f[Rank(S, less, x) + 1]) = Rank(S, less, x)
    BY <1>4, <2>1
  <2>3. ASSUME NEW y \in S, Rank(S, less, y) = Rank(S, less, x), y # x PROVE FALSE
    <3>1. Rank(S, less, y) \in Int /\ Rank(S, less, x) \in Int
      BY <1>2
    <3>2. <<x, y>> \in less \/ <<y, x>> \in less
      BY <2>3 DEF Orders
    <3> QED
      BY <1>2, <2>3, <3>1, <3>2
  <2> QED
    BY <1>4, <2>1, <2>2, <2>3
<1> QED
  BY <1>1, <1>3, <1>5, <1>6, <1>7 DEF N, f

\* Numbers in ascending order.
LEMMA AscendingIs ==
    ASSUME NEW S \in SUBSET Nat, IsFiniteSet(S)
    PROVE  LET a == Ascending(S) IN
           /\ a \in Seq(S) /\ Len(a) = Cardinality(S) /\ Len(a) \in Nat
           /\ \A i, j \in DOMAIN a : i < j => a[i] < a[j]
           /\ \A n \in S : \E i \in DOMAIN a : a[i] = n
<1> DEFINE less == { p \in S \X S : p[1] < p[2] }
<1>1. Orders(less, S)
  BY DEF Orders
<1>2. \A n \in S : Rank(S, less, n) = Cardinality({ m \in S : m < n })
  <2> TAKE n \in S
  <2>1. { m \in S : <<m, n>> \in less } = { m \in S : m < n }
    OBVIOUS
  <2> QED
    BY <2>1 DEF Rank
<1>3. Ascending(S) = ByRank(S, less)
  <2>1. \A i : (CHOOSE n \in S : Cardinality({ m \in S : m < n }) = i - 1)
               = (CHOOSE n \in S : Rank(S, less, n) = i - 1)
    <3> TAKE i
    <3>1. \A n : n \in S /\ Cardinality({ m \in S : m < n }) = i - 1
                 <=> n \in S /\ Rank(S, less, n) = i - 1
      BY <1>2
    <3> QED
      BY <3>1
  <2>2. Ascending(S) = [i \in 1 .. Cardinality(S) |->
            CHOOSE n \in S : Cardinality({ m \in S : m < n }) = i - 1]
    BY DEF Ascending
  <2> QED
    BY <2>1, <2>2, Zenon DEF ByRank
<1>4. \A x, y \in S : <<x, y>> \in less => x < y
  OBVIOUS
<1> DEFINE f == ByRank(S, less)
<1> HIDE DEF less
<1>5. /\ Cardinality(S) \in Nat
      /\ f \in Seq(S) /\ Len(f) = Cardinality(S)
      /\ \A i, j \in DOMAIN f : i < j => <<f[i], f[j]>> \in less
      /\ \A x \in S : \E i \in DOMAIN f : f[i] = x
  BY <1>1, Enumeration
<1> HIDE DEF f
<1>6. \A i \in DOMAIN f : f[i] \in S
  BY <1>5
<1> QED
  BY <1>3, <1>4, <1>5, <1>6 DEF f

\* A sequence, of whatever.
IsSeq(s) == Len(s) \in Nat /\ s = [i \in 1 .. Len(s) |-> s[i]]

\* What a sequence of whatever is to the library of sequences.
LEMMA SeqFacts ==
    /\ \A s : IsSeq(s) <=> /\ Len(s) \in Nat
                           /\ s \in Seq({ s[i] : i \in DOMAIN s })
    /\ \A S : \A s \in Seq(S) : IsSeq(s)
<1>1. ASSUME NEW S, NEW s \in Seq(S) PROVE IsSeq(s)
  <2>1. Len(s) \in Nat /\ s \in [1 .. Len(s) -> S]
    OBVIOUS
  <2> QED
    BY <2>1 DEF IsSeq
<1>2. ASSUME NEW s, IsSeq(s) PROVE s \in Seq({ s[i] : i \in DOMAIN s })
  <2> DEFINE S == { s[i] : i \in DOMAIN s }
  <2>1. Len(s) \in Nat /\ s \in [1 .. Len(s) -> S]
    BY <1>2 DEF IsSeq
  <2> HIDE DEF S
  <2>2. s \in Seq(S)
    BY <2>1, IsASeq
  <2> QED
    BY <2>2 DEF S
<1> QED
  BY <1>1, <1>2

\* A function of the numbers up to n is a sequence.
LEMMA IsSeqOf ==
    ASSUME NEW s, NEW n \in Nat, s = [i \in 1 .. n |-> s[i]]
    PROVE  IsSeq(s) /\ Len(s) = n
<1> DEFINE S == { s[i] : i \in 1 .. n }
<1>1. s \in [1 .. n -> S]
  OBVIOUS
<1> HIDE DEF S
<1>2. Len(s) = n
  BY <1>1, IsASeq
<1> QED
  BY <1>2 DEF IsSeq

\* Two sequences one behind the other.
LEMMA Concatenation ==
    ASSUME NEW s, NEW t, IsSeq(s), IsSeq(t)
    PROVE  /\ IsSeq(s \o t)
           /\ Len(s \o t) = Len(s) + Len(t)
           /\ \A i \in 1 .. Len(s) : (s \o t)[i] = s[i]
           /\ \A i \in 1 .. Len(t) : (s \o t)[Len(s) + i] = t[i]
<1> DEFINE S == { s[i] : i \in DOMAIN s } \cup { t[i] : i \in DOMAIN t }
<1>1. s \in [1 .. Len(s) -> S] /\ t \in [1 .. Len(t) -> S]
  BY DEF IsSeq
<1>2. Len(s) \in Nat /\ Len(t) \in Nat
  BY DEF IsSeq
<1> HIDE DEF S
<1>3. s \in Seq(S) /\ t \in Seq(S)
  BY <1>1, <1>2, IsASeq
<1>4. s \o t \in Seq(S)
  BY <1>3
<1>5. IsSeq(s \o t)
  BY <1>4, SeqFacts
<1> QED
  BY <1>3, <1>5
-----------------------------------------------------------------------------
\* The numbers of an interval.
LEMMA AscendingInterval ==
    ASSUME NEW f \in Nat, NEW k \in Nat
    PROVE  Ascending(f .. f + k - 1) = [i \in 1 .. k |-> f + i - 1]
<1> DEFINE S == f .. f + k - 1
           nth(i) == CHOOSE n \in S : Cardinality({ m \in S : m < n }) = i - 1
<1>1. \A a, b \in Int : Cardinality(a .. b) = IF a > b THEN 0 ELSE b - a + 1
  BY FS_Interval
<1>2. Cardinality(S) = k
  <2>1. f + k - 1 \in Int /\ f \in Int
    OBVIOUS
  <2>2. Cardinality(f .. f + k - 1) = IF f > f + k - 1 THEN 0 ELSE (f + k - 1) - f + 1
    BY <1>1, <2>1
  <2> QED
    BY <2>2
<1>3. \A n \in S : Cardinality({ m \in S : m < n }) = n - f
  <2> TAKE n \in S
  <2>1. { m \in S : m < n } = f .. n - 1
    OBVIOUS
  <2>2. f \in Int /\ n - 1 \in Int
    OBVIOUS
  <2>3. Cardinality(f .. n - 1) = IF f > n - 1 THEN 0 ELSE (n - 1) - f + 1
    BY <1>1, <2>2
  <2>4. n \in Int /\ f <= n
    OBVIOUS
  <2> HIDE DEF S
  <2>5. Cardinality(f .. n - 1) = n - f
    BY <2>3, <2>4
  <2> QED
    BY <2>1, <2>5
<1>4. \A i \in 1 .. k : f + i - 1 \in S
  OBVIOUS
<1>5. ASSUME NEW i \in 1 .. k PROVE nth(i) = f + i - 1
  <2>1. \A n \in S : Cardinality({ m \in S : m < n }) = i - 1 <=> n = f + i - 1
    <3> TAKE n \in S
    <3>1. Cardinality({ m \in S : m < n }) = n - f
      BY <1>3
    <3> QED
      BY <3>1
  <2> HIDE DEF S
  <2> QED
    BY <1>4, <2>1
<1>6. Ascending(S) = [i \in 1 .. k |-> nth(i)]
  BY <1>2 DEF Ascending
<1> HIDE DEF nth, S
<1> QED
  BY <1>5, <1>6 DEF S

(***************************************************************************)
(* What a scan answers is right for the records from lo to hi: those that   *)
(* compare equal, all of them and in order, and whether one is behind the   *)
(* target.                                                                 *)
(***************************************************************************)
IsRun(recs, R, lo, hi, target) ==
    \E f, k \in Nat :
        /\ lo <= f /\ f + k - 1 <= hi
        /\ recs = [i \in 1 .. k |-> R[f + i - 1]]
        /\ \A i \in lo .. hi : Same(R[i].key, target) <=> f <= i /\ i <= f + k - 1

SomeAfter(R, lo, hi, target) == \E i \in lo .. hi : After(R[i].key, target)

IsScanned(result, R, lo, hi, target) ==
    \E recs, done : /\ result = Ok([recs |-> recs, done |-> done])
                    /\ done = SomeAfter(R, lo, hi, target)
                    /\ IsRun(recs, R, lo, hi, target)

\* A scan of a leaf.
LEMMA ScanOfLeaf ==
    ASSUME NEW R, Sorted(R), NEW target, IsKey(target), NEW lo \in Nat, NEW hi \in Nat,
           1 <= lo, lo <= hi, hi <= Len(R), NEW node, IsLeaf(node, R, lo, hi)
    PROVE  IsScanned(Ok(ScanLeaf(node.recs, target)), R, lo, hi, target)
<1> DEFINE recs == node.recs
           p == InFront(recs, target)
           E == Equal(recs, target)
           found == [i \in DOMAIN Ascending(E) |-> recs[Ascending(E)[i]]]
<1>1. /\ DOMAIN R = 1 .. Len(R) /\ Len(R) \in Nat
      /\ \A i \in 1 .. Len(R) : IsKey(R[i].key)
      /\ \A i, j \in 1 .. Len(R) : i < j => ~Before(R[j].key, R[i].key)
  BY SortedFacts
<1>2. /\ DOMAIN recs = 1 .. hi - lo + 1
      /\ Len(recs) = hi - lo + 1
      /\ \A i \in 1 .. hi - lo + 1 : recs[i] = R[lo + i - 1]
  BY DEF IsLeaf
<1>3. ScanLeaf(recs, target) = [recs |-> found, done |-> p # Len(recs)]
  BY DEF ScanLeaf
<1>4. E = { i \in 1 .. p : Same(recs[i].key, target) }
  BY DEF Equal
<1> HIDE DEF recs
<1>5. /\ p \in 0 .. Len(recs)
      /\ \A i \in 1 .. p : ~After(recs[i].key, target)
      /\ p < Len(recs) => After(recs[p + 1].key, target)
  <2>1. Len(recs) \in Nat /\ DOMAIN recs = 1 .. Len(recs)
    BY <1>2
  <2> QED
    BY <2>1, InFrontIs, Zenon
<1> HIDE DEF p, E
\* Behind the first p records all are behind the target.
<1>6. ASSUME NEW i \in p + 1 .. Len(recs) PROVE After(recs[i].key, target)
  <2>1. p + 1 \in 1 .. Len(recs) /\ i \in 1 .. Len(recs) /\ p < Len(recs) /\ p + 1 <= i
    BY <1>2, <1>5
  <2>2. /\ recs[p + 1] = R[lo + (p + 1) - 1] /\ recs[i] = R[lo + i - 1]
        /\ lo + (p + 1) - 1 \in 1 .. Len(R) /\ lo + i - 1 \in 1 .. Len(R)
        /\ lo + (p + 1) - 1 <= lo + i - 1
    BY <1>1, <1>2, <2>1
  <2> DEFINE a == lo + (p + 1) - 1
             b == lo + i - 1
  <2>3. a = b \/ ~Before(R[b].key, R[a].key)
    BY <1>1, <2>2
  <2>4. After(R[a].key, target)
    BY <1>5, <2>1, <2>2
  <2>5. IsKey(R[a].key) /\ IsKey(R[b].key)
    BY <1>1, <2>2
  <2> HIDE DEF a, b
  <2>6. After(R[b].key, target)
    <3>1. CASE a = b
      BY <2>4, <3>1
    <3>2. CASE ~Before(R[b].key, R[a].key)
      BY <2>4, <2>5, <3>2, KeyOrder DEF After
    <3> QED
      BY <2>3, <3>1, <3>2
  <2> QED
    BY <2>2, <2>6 DEF b
<1>7. (p # Len(recs)) = SomeAfter(R, lo, hi, target)
  <2>1. CASE p # Len(recs)
    <3>1. p + 1 \in p + 1 .. Len(recs) /\ p + 1 \in 1 .. hi - lo + 1
      BY <1>2, <1>5, <2>1
    <3>2. After(R[lo + (p + 1) - 1].key, target)
      BY <1>2, <1>6, <3>1
    <3>3. lo + (p + 1) - 1 \in lo .. hi
      BY <3>1
    <3> QED
      BY <2>1, <3>2, <3>3 DEF SomeAfter
  <2>2. CASE p = Len(recs)
    <3>1. ASSUME NEW i \in lo .. hi PROVE ~After(R[i].key, target)
      <4>1. i - lo + 1 \in 1 .. p /\ i - lo + 1 \in 1 .. hi - lo + 1 /\ lo + (i - lo + 1) - 1 = i
        BY <1>2, <2>2
      <4> QED
        BY <1>2, <1>5, <4>1
    <3> QED
      BY <2>2, <3>1 DEF SomeAfter
  <2> QED
    BY <2>1, <2>2
<1>8. IsRun(found, R, lo, hi, target)
  <2>1. CASE E = {}
    <3>1. E = 1 .. 1 + 0 - 1
      BY <2>1
    <3>2. Ascending(E) = [i \in 1 .. 0 |-> 1 + i - 1]
      BY <3>1, AscendingInterval
    <3>3. found = [i \in 1 .. 0 |-> R[lo + i - 1]]
      BY <3>2
    <3>4. ASSUME NEW i \in lo .. hi PROVE ~Same(R[i].key, target)
      <4> DEFINE j == i - lo + 1
      <4>1. j \in 1 .. Len(recs) /\ recs[j] = R[i]
        BY <1>2
      <4>2. i \in 1 .. Len(R)
        BY <1>1
      <4> HIDE DEF j
      <4>3. j \in 1 .. p \/ j \in p + 1 .. Len(recs)
        BY <1>2, <1>5, <4>1
      <4>4. After(R[i].key, target) \/ ~Same(R[i].key, target)
        BY <1>4, <1>6, <2>1, <4>1, <4>3
      <4> QED
        BY <1>1, <4>2, <4>4, KeyOrder
    <3> HIDE DEF found
    <3>5. lo <= lo /\ lo + 0 - 1 <= hi /\ 0 \in Nat
      OBVIOUS
    <3>6. \A i \in lo .. hi : Same(R[i].key, target) <=> lo <= i /\ i <= lo + 0 - 1
      BY <3>4
    <3> QED
      BY <3>3, <3>5, <3>6 DEF IsRun
  <2>2. CASE E # {}
    <3> DEFINE m == Min(E)
               k == p - m + 1
               f == lo + m - 1
    <3>0. E \in SUBSET Nat
      BY <1>4, <1>5
    <3>1. m \in E /\ \A i \in E : m <= i
      BY <2>2, <3>0, Least
    <3> HIDE DEF m
    <3>2. m \in 1 .. p /\ Same(recs[m].key, target) /\ p \in 1 .. Len(recs)
      BY <1>2, <1>4, <1>5, <3>1
    <3>3. ASSUME NEW i \in m .. p PROVE i \in E
      <4> DEFINE a == lo + m - 1
                 b == lo + i - 1
      <4>1. /\ i \in 1 .. p /\ i \in 1 .. hi - lo + 1 /\ m \in 1 .. hi - lo + 1
            /\ a \in 1 .. Len(R) /\ b \in 1 .. Len(R) /\ a <= b
        BY <1>1, <1>2, <3>2
      <4>2. recs[m] = R[a] /\ recs[i] = R[b]
        BY <1>2, <4>1
      <4> HIDE DEF a, b
      <4>3. a = b \/ ~Before(R[b].key, R[a].key)
        BY <1>1, <4>1
      <4>4. ~After(R[b].key, target) /\ Same(R[a].key, target)
        BY <1>5, <3>2, <4>1, <4>2
      <4>5. Same(R[b].key, target)
        BY <1>1, <4>1, <4>3, <4>4 DEF After, Before, Same, IsKey
      <4> QED
        BY <1>4, <4>1, <4>2, <4>5
    <3>4. E = m .. p
      BY <1>4, <1>5, <3>1, <3>2, <3>3
    <3>5. k \in Nat /\ p = m + k - 1 /\ m \in Nat /\ k >= 1 /\ f \in Nat
      BY <1>2, <1>5, <3>2
    <3>6. Ascending(E) = [i \in 1 .. k |-> m + i - 1]
      <4> HIDE DEF k
      <4> QED
        BY <3>4, <3>5, AscendingInterval
    <3>7. found = [i \in 1 .. k |-> recs[m + i - 1]]
      <4> HIDE DEF k
      <4> QED
        BY <3>6
    <3>8. \A i \in 1 .. k : recs[m + i - 1] = R[f + i - 1]
      <4> TAKE i \in 1 .. k
      <4>1. m + i - 1 \in 1 .. hi - lo + 1 /\ lo + (m + i - 1) - 1 = f + i - 1
        <5>1. i \in 1 .. p - m + 1 /\ m \in 1 .. p /\ p \in 1 .. hi - lo + 1
          BY <1>2, <3>2
        <5> HIDE DEF k
        <5> QED
          BY <5>1
      <4> QED
        BY <1>2, <4>1
    <3>9. found = [i \in 1 .. k |-> R[f + i - 1]]
      <4> HIDE DEF k, f, found
      <4> QED
        BY <3>7, <3>8
    <3>10. lo <= f /\ f + k - 1 <= hi
      BY <1>2, <1>5, <3>2
    <3>11. ASSUME NEW i \in lo .. hi
           PROVE  Same(R[i].key, target) <=> f <= i /\ i <= f + k - 1
      <4> DEFINE j == i - lo + 1
      <4>1. j \in 1 .. Len(recs) /\ recs[j] = R[i] /\ i \in 1 .. Len(R)
        <5>1. j \in 1 .. hi - lo + 1 /\ lo + j - 1 = i
          OBVIOUS
        <5>2. i \in 1 .. Len(R)
          BY <1>1
        <5> HIDE DEF j
        <5> QED
          BY <1>2, <5>1, <5>2
      <4>2. f <= i /\ i <= f + k - 1 <=> j \in m .. p
        <5>1. m \in Int /\ p \in Int /\ lo \in Int /\ i \in Int
          BY <1>2, <3>5
        <5> QED
          BY <5>1
      <4> HIDE DEF j, f, k
      <4>3. j \in 1 .. p \/ j \in p + 1 .. Len(recs)
        BY <1>2, <1>5, <4>1
      <4>4. CASE j \in 1 .. p
        BY <1>4, <3>4, <4>1, <4>2, <4>4
      <4>5. CASE j \in p + 1 .. Len(recs)
        <5>1. After(R[i].key, target)
          BY <1>6, <4>1, <4>5
        <5>2. ~Same(R[i].key, target)
          BY <1>1, <4>1, <5>1, KeyOrder
        <5>3. ~(j \in m .. p)
          BY <1>5, <1>2, <3>2, <4>5
        <5> QED
          BY <4>2, <5>2, <5>3
      <4> QED
        BY <4>3, <4>4, <4>5
    <3> HIDE DEF f, k, found
    <3> QED
      BY <3>5, <3>9, <3>10, <3>11 DEF IsRun
  <2> QED
    BY <2>1, <2>2
<1> HIDE DEF found
<1> QED
  BY <1>3, <1>7, <1>8 DEF IsScanned, recs

\* Behind a record that is behind the target nothing compares equal.
LEMMA BehindIsNotEqual ==
    ASSUME NEW R, Sorted(R), NEW target, IsKey(target), NEW lo \in Nat, NEW mid \in Nat,
           1 <= lo, SomeAfter(R, lo, mid, target), mid <= Len(R),
           NEW i \in 1 .. Len(R), mid <= i
    PROVE  ~Same(R[i].key, target)
<1>1. PICK j \in lo .. mid : After(R[j].key, target)
  BY DEF SomeAfter
<1>2. /\ \A n \in 1 .. Len(R) : IsKey(R[n].key)
      /\ \A n, m \in 1 .. Len(R) : n < m => ~Before(R[m].key, R[n].key)
      /\ Len(R) \in Nat
  BY SortedFacts
<1>3. j \in 1 .. Len(R) /\ j <= i
  BY <1>2
<1>4. j = i \/ ~Before(R[i].key, R[j].key)
  BY <1>2, <1>3
<1> QED
  BY <1>1, <1>2, <1>3, <1>4 DEF After, Before, Same, IsKey

\* What a scan found when it stopped is all that there is.
LEMMA RunExtends ==
    ASSUME NEW R, Sorted(R), NEW target, IsKey(target), NEW lo \in Nat, NEW mid \in Nat,
           NEW hi \in Nat, 1 <= lo, mid <= hi, hi <= Len(R),
           SomeAfter(R, lo, mid, target), NEW recs, IsRun(recs, R, lo, mid, target)
    PROVE  IsRun(recs, R, lo, hi, target) /\ SomeAfter(R, lo, hi, target)
<1>1. PICK f, k \in Nat :
          /\ lo <= f /\ f + k - 1 <= mid
          /\ recs = [i \in 1 .. k |-> R[f + i - 1]]
          /\ \A i \in lo .. mid : Same(R[i].key, target) <=> f <= i /\ i <= f + k - 1
  BY DEF IsRun
<1>2. f + k - 1 <= hi
  BY <1>1
<1>3. ASSUME NEW i \in lo .. hi
      PROVE  Same(R[i].key, target) <=> f <= i /\ i <= f + k - 1
  <2>1. CASE i <= mid
    BY <1>1, <2>1
  <2>2. CASE i > mid
    <3>1. Len(R) \in Nat
      BY SortedFacts
    <3>2. i \in 1 .. Len(R) /\ mid <= i /\ mid <= Len(R)
      BY <2>2, <3>1
    <3>3. ~Same(R[i].key, target)
      BY <3>2, BehindIsNotEqual
    <3>4. ~(i <= f + k - 1)
      BY <1>1, <2>2
    <3> QED
      BY <3>3, <3>4
  <2> QED
    BY <2>1, <2>2
<1>4. IsRun(recs, R, lo, hi, target)
  BY <1>1, <1>2, <1>3 DEF IsRun
<1>5. SomeAfter(R, lo, hi, target)
  <2>1. \A i \in lo .. mid : i \in lo .. hi
    OBVIOUS
  <2> QED
    BY <2>1 DEF SomeAfter
<1> QED
  BY <1>4, <1>5

\* What is found in two pieces one behind the other.
LEMMA RunJoins ==
    ASSUME NEW R, Sorted(R), NEW target, IsKey(target), NEW lo \in Nat, NEW mid \in Nat,
           NEW hi \in Nat, 1 <= lo, lo <= mid + 1, mid <= hi, hi <= Len(R),
           NEW a, IsRun(a, R, lo, mid, target), NEW b, IsRun(b, R, mid + 1, hi, target)
    PROVE  IsRun(a \o b, R, lo, hi, target)
<1>1. PICK f, k \in Nat :
          /\ lo <= f /\ f + k - 1 <= mid
          /\ a = [i \in 1 .. k |-> R[f + i - 1]]
          /\ \A i \in lo .. mid : Same(R[i].key, target) <=> f <= i /\ i <= f + k - 1
  BY DEF IsRun
<1>2. PICK g, l \in Nat :
          /\ mid + 1 <= g /\ g + l - 1 <= hi
          /\ b = [i \in 1 .. l |-> R[g + i - 1]]
          /\ \A i \in mid + 1 .. hi : Same(R[i].key, target) <=> g <= i /\ i <= g + l - 1
  BY DEF IsRun
<1>3. /\ \A n \in 1 .. Len(R) : IsKey(R[n].key)
      /\ \A n, m \in 1 .. Len(R) : n < m => ~Before(R[m].key, R[n].key)
      /\ Len(R) \in Nat
  BY SortedFacts
<1> DEFINE V == { R[i] : i \in 1 .. Len(R) }
<1>4. a \in Seq(V) /\ Len(a) = k
  <2>1. \A i \in 1 .. k : f + i - 1 \in 1 .. Len(R)
    BY <1>1, <1>3
  <2>2. a \in [1 .. k -> V]
    BY <1>1, <2>1
  <2> HIDE DEF V
  <2> QED
    BY <2>2, IsASeq
<1>5. b \in Seq(V) /\ Len(b) = l
  <2>1. \A i \in 1 .. l : g + i - 1 \in 1 .. Len(R)
    BY <1>2, <1>3
  <2>2. b \in [1 .. l -> V]
    BY <1>2, <2>1
  <2> HIDE DEF V
  <2> QED
    BY <2>2, IsASeq
<1> HIDE DEF V
<1>6. a \o b = [i \in 1 .. k + l |-> IF i <= k THEN a[i] ELSE b[i - k]]
  <2> DEFINE c == a \o b
  <2>1. IsSeq(a) /\ IsSeq(b)
    BY <1>4, <1>5, SeqFacts
  <2>2. /\ IsSeq(c) /\ Len(c) = k + l
        /\ \A i \in 1 .. k : c[i] = a[i]
        /\ \A i \in 1 .. l : c[k + i] = b[i]
    <3>1. Len(a) = k /\ Len(b) = l
      BY <1>4, <1>5
    <3> QED
      BY <2>1, <3>1, Concatenation
  <2> HIDE DEF c
  <2>3. ASSUME NEW i \in 1 .. k + l PROVE c[i] = IF i <= k THEN a[i] ELSE b[i - k]
    <3>1. CASE i <= k
      BY <2>2, <3>1
    <3>2. CASE i > k
      <4>1. i - k \in 1 .. l /\ k + (i - k) = i
        BY <3>2
      <4> QED
        BY <2>2, <3>2, <4>1
    <3> QED
      BY <3>1, <3>2
  <2>4. c = [i \in 1 .. k + l |-> c[i]]
    BY <2>2 DEF IsSeq
  <2> QED
    BY <2>3, <2>4 DEF c
<1>7. CASE k = 0
  <2>1. a \o b = [i \in 1 .. l |-> R[g + i - 1]]
    <3>1. \A i \in 1 .. l : (IF i <= k THEN a[i] ELSE b[i - k]) = R[g + i - 1]
      BY <1>2, <1>7
    <3>2. a \o b = [i \in 1 .. l |-> IF i <= k THEN a[i] ELSE b[i - k]]
      BY <1>6, <1>7
    <3> QED
      BY <3>1, <3>2
  <2>2. lo <= g /\ g + l - 1 <= hi
    BY <1>2
  <2>3. \A i \in lo .. hi : Same(R[i].key, target) <=> g <= i /\ i <= g + l - 1
    <3> TAKE i \in lo .. hi
    <3>1. CASE i <= mid
      BY <1>1, <1>2, <1>7, <3>1
    <3>2. CASE i > mid
      BY <1>2, <3>2
    <3> QED
      BY <3>1, <3>2
  <2> QED
    BY <2>1, <2>2, <2>3 DEF IsRun
<1>8. CASE l = 0
  <2>1. a \o b = [i \in 1 .. k |-> R[f + i - 1]]
    <3>1. \A i \in 1 .. k : (IF i <= k THEN a[i] ELSE b[i - k]) = R[f + i - 1]
      BY <1>1
    <3>2. a \o b = [i \in 1 .. k |-> IF i <= k THEN a[i] ELSE b[i - k]]
      BY <1>6, <1>8
    <3> QED
      BY <3>1, <3>2
  <2>2. lo <= f /\ f + k - 1 <= hi
    BY <1>1
  <2>3. \A i \in lo .. hi : Same(R[i].key, target) <=> f <= i /\ i <= f + k - 1
    <3> TAKE i \in lo .. hi
    <3>1. CASE i <= mid
      BY <1>1, <3>1
    <3>2. CASE i > mid
      BY <1>1, <1>2, <1>8, <3>2
    <3> QED
      BY <3>1, <3>2
  <2> QED
    BY <2>1, <2>2, <2>3 DEF IsRun
<1>9. CASE k > 0 /\ l > 0
  <2>1. /\ f \in lo .. mid /\ f <= f + k - 1
        /\ g \in mid + 1 .. hi /\ g <= g + l - 1
    BY <1>1, <1>2, <1>9
  <2>2. Same(R[f].key, target) /\ Same(R[g].key, target)
    BY <1>1, <1>2, <2>1
  \* Whatever is between two that are equal is equal.
  <2>3. ASSUME NEW i \in f .. g PROVE Same(R[i].key, target)
    <3>1. f \in 1 .. Len(R) /\ g \in 1 .. Len(R) /\ i \in 1 .. Len(R)
      BY <1>3, <2>1
    <3>2. /\ f = i \/ ~Before(R[i].key, R[f].key)
          /\ i = g \/ ~Before(R[g].key, R[i].key)
      BY <1>3, <3>1
    <3> QED
      BY <1>3, <2>2, <3>1, <3>2 DEF Before, Same, IsKey
  <2>4. f + k - 1 = mid
    <3>1. mid \in f .. g /\ mid \in lo .. mid
      BY <1>1, <2>1
    <3>2. mid <= f + k - 1
      BY <1>1, <2>3, <3>1
    <3> QED
      BY <1>1, <3>2
  <2>5. g = mid + 1
    <3>1. mid + 1 \in f .. g /\ mid + 1 \in mid + 1 .. hi
      BY <1>1, <2>1
    <3>2. g <= mid + 1
      BY <1>2, <2>3, <3>1
    <3> QED
      BY <1>2, <3>2
  <2>6. a \o b = [i \in 1 .. k + l |-> R[f + i - 1]]
    <3>1. ASSUME NEW i \in 1 .. k + l
          PROVE  (IF i <= k THEN a[i] ELSE b[i - k]) = R[f + i - 1]
      <4>1. CASE i <= k
        BY <1>1, <4>1
      <4>2. CASE i > k
        <5>1. i - k \in 1 .. l /\ g + (i - k) - 1 = f + i - 1
          BY <2>4, <2>5, <4>2
        <5> QED
          BY <1>2, <4>2, <5>1
      <4> QED
        BY <4>1, <4>2
    <3> QED
      BY <1>6, <3>1
  <2>7. lo <= f /\ f + (k + l) - 1 <= hi /\ k + l \in Nat
    BY <1>1, <1>2, <2>4, <2>5
  <2>8. \A i \in lo .. hi : Same(R[i].key, target) <=> f <= i /\ i <= f + (k + l) - 1
    <3> TAKE i \in lo .. hi
    <3>1. CASE i <= mid
      <4>1. Same(R[i].key, target) <=> f <= i /\ i <= f + k - 1
        BY <1>1, <3>1
      <4> QED
        BY <2>4, <3>1, <4>1
    <3>2. CASE i > mid
      <4>1. Same(R[i].key, target) <=> g <= i /\ i <= g + l - 1
        BY <1>2, <3>2
      <4> QED
        BY <2>4, <2>5, <3>2, <4>1
    <3> QED
      BY <3>1, <3>2
  <2> QED
    BY <2>6, <2>7, <2>8 DEF IsRun
<1> QED
  BY <1>7, <1>8, <1>9
-----------------------------------------------------------------------------
\* The loop over the children of a node.
ScanOn(recs, where, below, i, before) ==
    IF i = 0 THEN Ok([recs |-> <<>>, done |-> FALSE])
    ELSE Then(before, LAMBDA sofar :
         IF sofar.done THEN Ok(sofar)
         ELSE Then(where[recs[i].val], LAMBDA child :
              Then(below[child], LAMBDA more :
                  Ok([more EXCEPT !.recs = sofar.recs \o @]))))

IsScanLoop(upTo, n, recs, where, below) ==
    upTo = [i \in 0 .. n |-> ScanOn(recs, where, below, i, upTo[i - 1])]

\* The recursive definition of the loop has a function.
LEMMA ScanLoops ==
    ASSUME NEW recs, NEW where, NEW below, NEW m \in Nat
    PROVE  \E upTo : IsScanLoop(upTo, m, recs, where, below)
<1> DEFINE Step(i, before) == ScanOn(recs, where, below, i, before)
           P(k) == \E g : g = [n \in 0 .. k |-> Step(n, g[n - 1])]
           S == { k \in Nat : P(k) }
<1>0. \A x, y : Step(0, x) = Step(0, y)
  BY DEF ScanOn
<1> HIDE DEF Step
<1>1. P(0)
  <2> DEFINE g == [n \in 0 .. 0 |-> Step(0, 0)]
  <2>1. g = [n \in 0 .. 0 |-> Step(n, g[n - 1])]
    <3>1. \A n \in 0 .. 0 : Step(n, g[n - 1]) = Step(0, 0)
      BY <1>0
    <3> QED
      BY <3>1
  <2> QED
    BY <2>1
<1>2. ASSUME NEW k \in Nat, P(k) PROVE P(k + 1)
  <2>1. PICK g : g = [n \in 0 .. k |-> Step(n, g[n - 1])]
    BY <1>2
  <2> DEFINE h == [n \in 0 .. k + 1 |-> Step(n, g[n - 1])]
  <2>2. \A n \in 0 .. k : h[n] = g[n]
    <3> TAKE n \in 0 .. k
    <3>1. h[n] = Step(n, g[n - 1])
      OBVIOUS
    <3>2. g[n] = Step(n, g[n - 1])
      BY <2>1
    <3> QED
      BY <3>1, <3>2
  <2>3. \A n \in 0 .. k + 1 : Step(n, g[n - 1]) = Step(n, h[n - 1])
    <3> HIDE DEF h
    <3>1. \A n \in 0 .. k + 1 : n = 0 \/ n - 1 \in 0 .. k
      OBVIOUS
    <3> QED
      BY <1>0, <2>2, <3>1
  <2>4. h = [n \in 0 .. k + 1 |-> Step(n, h[n - 1])]
    <3> HIDE DEF h
    <3>1. h = [n \in 0 .. k + 1 |-> Step(n, g[n - 1])]
      BY DEF h
    <3> QED
      BY <2>3, <3>1
  <2> QED
    BY <2>4
<1> HIDE DEF P
<1>3. S \in SUBSET Nat /\ 0 \in S /\ \A k \in Nat : k \in S => k + 1 \in S
  BY <1>1, <1>2
<1>4. S = Nat
  <2> HIDE DEF S
  <2> QED
    BY <1>3, Induction
<1> QED
  BY <1>4 DEF P, Step, IsScanLoop

\* The loop over the children is what its definition says.
LEMMA ScanChildrenIs ==
    ASSUME NEW recs, NEW where, NEW below, Len(recs) \in Nat
    PROVE  \E upTo : /\ IsScanLoop(upTo, Len(recs), recs, where, below)
                     /\ ScanChildren(recs, where, below) = upTo[Len(recs)]
<1>1. \E upTo : IsScanLoop(upTo, Len(recs), recs, where, below)
  BY ScanLoops
<1> DEFINE L == CHOOSE upTo : upTo =
                  [i \in 0 .. Len(recs) |-> ScanOn(recs, where, below, i, upTo[i - 1])]
<1>2. IsScanLoop(L, Len(recs), recs, where, below)
  BY <1>1 DEF IsScanLoop
<1>3. ScanChildren(recs, where, below) = L[Len(recs)]
  BY DEF ScanChildren, ScanOn
<1> QED
  BY <1>2, <1>3

\* On the trees of T up to the level m, "at" scans what is right for their records,
\* or fails because it cannot read a node.
Scans(at, m, disk, target, where, tree, R, T) ==
    \A n, o, lo, hi, block \in Nat :
        n <= m /\ <<n, o, lo, hi>> \in T /\ Holds(disk, block, tree[o]) =>
            \/ /\ at[block] = Err("Io")
               /\ block \notin DOMAIN disk \/ ~Readable(disk, where, tree)
            \/ IsScanned(at[block], R, lo, hi, target)

\* The loop ends with an error,
LEMMA ScanOnError ==
    ASSUME NEW recs, NEW where, NEW below, NEW i, i # 0, NEW e
    PROVE  ScanOn(recs, where, below, i, Err(e)) = Err(e)
  BY ResultFacts DEF ScanOn, Then

\* or when a child said done,
LEMMA ScanOnDone ==
    ASSUME NEW recs, NEW where, NEW below, NEW i, i # 0, NEW r
    PROVE  ScanOn(recs, where, below, i, Ok([recs |-> r, done |-> TRUE]))
               = Ok([recs |-> r, done |-> TRUE])
<1> DEFINE v == [recs |-> r, done |-> TRUE]
<1>1. v.done
  OBVIOUS
<1> HIDE DEF v
<1>2. Ok(v).ok /\ Ok(v).val = v
  BY ResultFacts
<1>3. ScanOn(recs, where, below, i, Ok(v)) = Ok(v)
  BY <1>1, <1>2 DEF ScanOn, Then
<1> QED
  BY <1>3 DEF v

\* It fails if the next child is not known, or
LEMMA ScanOnNoChild ==
    ASSUME NEW recs, NEW where, NEW below, NEW i, i # 0, NEW r, NEW e,
           where[recs[i].val] = Err(e)
    PROVE  ScanOn(recs, where, below, i, Ok([recs |-> r, done |-> FALSE])) = Err(e)
<1> DEFINE v == [recs |-> r, done |-> FALSE]
<1>1. ~v.done
  OBVIOUS
<1> HIDE DEF v
<1>2. Ok(v).ok /\ Ok(v).val = v /\ ~Err(e).ok
  BY ResultFacts
<1>3. ScanOn(recs, where, below, i, Ok(v)) = Err(e)
  BY <1>1, <1>2 DEF ScanOn, Then
<1> QED
  BY <1>3 DEF v

\* cannot be scanned,
LEMMA ScanOnFails ==
    ASSUME NEW recs, NEW where, NEW below, NEW i, i # 0, NEW r, NEW e, NEW b,
           where[recs[i].val] = Ok(b), below[b] = Err(e)
    PROVE  ScanOn(recs, where, below, i, Ok([recs |-> r, done |-> FALSE])) = Err(e)
<1> DEFINE v == [recs |-> r, done |-> FALSE]
<1>1. ~v.done
  OBVIOUS
<1> HIDE DEF v
<1>2. Ok(v).ok /\ Ok(v).val = v /\ ~Err(e).ok /\ Ok(b).ok /\ Ok(b).val = b
  BY ResultFacts
<1>3. ScanOn(recs, where, below, i, Ok(v)) = Err(e)
  BY <1>1, <1>2 DEF ScanOn, Then
<1> QED
  BY <1>3 DEF v

\* What a child has, and what the loop has with it.
ChildHas(recs, where, below, i, s, c) ==
    i # 0 /\ \E b : where[recs[i].val] = Ok(b) /\ below[b] = Ok([recs |-> s, done |-> c])

ChildAdds(recs, where, below, i, r, s, c) ==
    ScanOn(recs, where, below, i, Ok([recs |-> r, done |-> FALSE]))
        = Ok([recs |-> r \o s, done |-> c])

\* and otherwise adds what the next child has.
LEMMA ScanOnGoesOn ==
    ASSUME NEW recs, NEW where, NEW below, NEW i, NEW r, NEW s, NEW c,
           ChildHas(recs, where, below, i, s, c)
    PROVE  ChildAdds(recs, where, below, i, r, s, c)
<1>1. PICK b : /\ i # 0 /\ where[recs[i].val] = Ok(b)
               /\ below[b] = Ok([recs |-> s, done |-> c])
  BY DEF ChildHas
<1> DEFINE v == [recs |-> r, done |-> FALSE]
           w == [recs |-> s, done |-> c]
<1>2. ~v.done
  OBVIOUS
<1>3. /\ v.recs = r
      /\ w.recs = s
      /\ \A x : [w EXCEPT !.recs = x] = [recs |-> x, done |-> c]
  OBVIOUS
<1> HIDE DEF v, w
<1>4. /\ Ok(v).ok /\ Ok(v).val = v
      /\ Ok(b).ok /\ Ok(b).val = b
      /\ Ok(w).ok /\ Ok(w).val = w
  BY ResultFacts
<1>5. below[b] = Ok(w)
  BY <1>1 DEF w
<1>6. ScanOn(recs, where, below, i, Ok(v)) = Ok([w EXCEPT !.recs = v.recs \o @])
  BY <1>1, <1>2, <1>4, <1>5, Zenon DEF ScanOn, Then
<1> DEFINE all == r \o s
<1>7. v.recs \o w.recs = all
  BY <1>3
<1> HIDE DEF all
<1>8. [w EXCEPT !.recs = v.recs \o @] = [recs |-> all, done |-> c]
  BY <1>3, <1>7
<1> QED
  BY <1>6, <1>8 DEF v, all, ChildAdds

\* One more child.
LEMMA ScanOneMore ==
    ASSUME NEW disk, NEW target, IsKey(target), NEW where, NEW tree, NEW R, Sorted(R),
           NEW T, IsTree(tree, R, T), Located(disk, where, tree),
           NEW m \in Nat, NEW below, m = 0 \/ Scans(below, m - 1, disk, target, where, tree, R, T),
           NEW n \in Nat, n > 0, n <= m, NEW lo \in Nat, NEW hi \in Nat, 1 <= lo, hi <= Len(R),
           NEW node, NEW cut, IsIndex(node, R, lo, hi, cut, T, n),
           NEW i \in 1 .. Len(node.recs), NEW before,
           IsScanned(before, R, lo, cut[i - 1], target)
    PROVE  LET after == ScanOn(node.recs, where, below, i, before) IN
           \/ after = Err("Io") /\ ~Readable(disk, where, tree)
           \/ IsScanned(after, R, lo, cut[i], target)
<1> DEFINE recs == node.recs
           after == ScanOn(recs, where, below, i, before)
           kid == recs[i].val
<1>1. /\ Len(recs) \in Nat \ {0}
      /\ cut \in [0 .. Len(recs) -> Nat]
      /\ cut[0] = lo - 1 /\ cut[Len(recs)] = hi
      /\ \A j \in 1 .. Len(recs) : cut[j - 1] < cut[j]
      /\ kid \in Nat
      /\ <<n - 1, kid, cut[i - 1] + 1, cut[i]>> \in T
  BY DEF IsIndex
<1> HIDE DEF recs, kid
<1>2. \A j, k \in 0 .. Len(recs) : j <= k => cut[j] <= cut[k]
  BY <1>1, CutsAscend
<1>3. /\ cut[i - 1] \in Nat /\ cut[i] \in Nat /\ cut[i - 1] < cut[i]
      /\ lo - 1 <= cut[i - 1] /\ cut[i] <= hi
  <2>1. i - 1 \in 0 .. Len(recs) /\ i \in 0 .. Len(recs) /\ 0 \in 0 .. Len(recs)
        /\ Len(recs) \in 0 .. Len(recs) /\ i \in 1 .. Len(recs)
    BY <1>1 DEF recs
  <2>2. cut[i - 1] \in Nat /\ cut[i] \in Nat /\ cut[i - 1] < cut[i]
    BY <1>1, <2>1
  <2>3. cut[0] <= cut[i - 1]
    BY <1>2, <2>1
  <2>4. cut[i] <= cut[Len(recs)]
    BY <1>2, <2>1
  <2> QED
    BY <1>1, <2>2, <2>3, <2>4
<1>4. PICK r, d : /\ before = Ok([recs |-> r, done |-> d])
                  /\ d = SomeAfter(R, lo, cut[i - 1], target)
                  /\ IsRun(r, R, lo, cut[i - 1], target)
  BY DEF IsScanned
<1>5. CASE SomeAfter(R, lo, cut[i - 1], target)
  <2>1. d = TRUE
    BY <1>4, <1>5
  <2>2. after = Ok([recs |-> r, done |-> TRUE])
    <3>1. before = Ok([recs |-> r, done |-> TRUE])
      BY <1>4, <2>1
    <3>2. i # 0
      OBVIOUS
    <3> HIDE DEF recs
    <3> QED
      BY <3>1, <3>2, ScanOnDone
  <2>3. cut[i - 1] <= cut[i] /\ cut[i] <= Len(R)
    <3>1. Len(R) \in Nat
      BY SortedFacts
    <3> QED
      BY <1>3, <3>1
  <2>4. IsRun(r, R, lo, cut[i], target) /\ SomeAfter(R, lo, cut[i], target)
    BY <1>3, <1>4, <1>5, <2>3, RunExtends
  <2> HIDE DEF after
  <2>5. TRUE = SomeAfter(R, lo, cut[i], target)
    BY <2>4 DEF SomeAfter
  <2>6. IsScanned(after, R, lo, cut[i], target)
    BY <2>2, <2>4, <2>5 DEF IsScanned
  <2> QED
    BY <2>6 DEF after, recs
<1>6. CASE ~SomeAfter(R, lo, cut[i - 1], target)
  <2>1. i # 0 /\ before = Ok([recs |-> r, done |-> FALSE]) /\ kid = recs[i].val
    <3>1. d = FALSE
      BY <1>4, <1>6 DEF SomeAfter
    <3>2. before = Ok([recs |-> r, done |-> FALSE])
      BY <1>4, <3>1
    <3> QED
      BY <3>2 DEF kid
  <2>2. kid \in DOMAIN tree
    BY <1>1, <1>3 DEF IsTree
  <2>3. CASE where[kid] = Err("Io")
    <3>1. after = Err("Io")
      BY <2>1, <2>3, ScanOnNoChild
    <3>2. ~Readable(disk, where, tree)
      BY <2>2, <2>3, ResultFacts DEF Readable
    <3> QED
      BY <3>1, <3>2 DEF recs
  <2>4. CASE \E b \in Nat : where[kid] = Ok(b) /\ Holds(disk, b, tree[kid])
    <3>1. PICK b \in Nat : where[kid] = Ok(b) /\ Holds(disk, b, tree[kid])
      BY <2>4
    <3>2. n - 1 \in Nat /\ n - 1 <= m - 1 /\ m # 0
      OBVIOUS
    <3>3. cut[i - 1] + 1 \in Nat
      BY <1>3
    <3>4. \/ /\ below[b] = Err("Io")
             /\ b \notin DOMAIN disk \/ ~Readable(disk, where, tree)
          \/ IsScanned(below[b], R, cut[i - 1] + 1, cut[i], target)
      BY <1>1, <1>3, <3>1, <3>2, <3>3 DEF Scans
    <3>5. CASE below[b] = Err("Io") /\ (b \notin DOMAIN disk \/ ~Readable(disk, where, tree))
      <4>1. after = Err("Io")
        BY <2>1, <3>1, <3>5, ScanOnFails
      <4>2. ~Readable(disk, where, tree)
        BY <2>2, <3>1, <3>5, ResultFacts DEF Readable
      <4> QED
        BY <4>1, <4>2 DEF recs
    <3>6. CASE IsScanned(below[b], R, cut[i - 1] + 1, cut[i], target)
      <4>1. PICK s, c : /\ below[b] = Ok([recs |-> s, done |-> c])
                        /\ c = SomeAfter(R, cut[i - 1] + 1, cut[i], target)
                        /\ IsRun(s, R, cut[i - 1] + 1, cut[i], target)
        BY <3>6 DEF IsScanned
      <4>2. after = Ok([recs |-> r \o s, done |-> c])
        <5>1. ChildHas(recs, where, below, i, s, c)
          BY <2>1, <3>1, <4>1 DEF ChildHas
        <5>2. ChildAdds(recs, where, below, i, r, s, c)
          BY <5>1, ScanOnGoesOn, Zenon
        <5> QED
          BY <2>1, <5>2 DEF ChildAdds
      <4>3. IsRun(r \o s, R, lo, cut[i], target)
        <5>1. lo <= cut[i - 1] + 1 /\ cut[i - 1] <= cut[i] /\ cut[i] <= Len(R)
          <6>1. Len(R) \in Nat
            BY SortedFacts
          <6> QED
            BY <1>3, <6>1
        <5> QED
          BY <1>3, <1>4, <4>1, <5>1, RunJoins
      <4>4. SomeAfter(R, cut[i - 1] + 1, cut[i], target) = SomeAfter(R, lo, cut[i], target)
        <5>1. ASSUME NEW j \in lo .. cut[i], After(R[j].key, target)
              PROVE  j \in cut[i - 1] + 1 .. cut[i]
          <6>1. ~(j \in lo .. cut[i - 1])
            BY <1>6, <5>1 DEF SomeAfter
          <6> QED
            BY <1>3, <6>1
        <5>2. \A j \in cut[i - 1] + 1 .. cut[i] : j \in lo .. cut[i]
          BY <1>3
        <5> QED
          BY <5>1, <5>2 DEF SomeAfter
      <4> HIDE DEF after
      <4>5. IsScanned(after, R, lo, cut[i], target)
        BY <4>1, <4>2, <4>3, <4>4 DEF IsScanned
      <4> QED
        BY <4>5 DEF after, recs
    <3> QED
      BY <3>4, <3>5, <3>6
  <2> QED
    BY <2>2, <2>3, <2>4 DEF Located
<1> QED
  BY <1>5, <1>6

\* A scan of the children of a node.
LEMMA ScanOfChildren ==
    ASSUME NEW disk, NEW target, IsKey(target), NEW where, NEW tree, NEW R, Sorted(R),
           NEW T, IsTree(tree, R, T), Located(disk, where, tree),
           NEW m \in Nat, NEW below, m = 0 \/ Scans(below, m - 1, disk, target, where, tree, R, T),
           NEW n \in Nat, n > 0, n <= m, NEW lo \in Nat, NEW hi \in Nat, 1 <= lo, hi <= Len(R),
           NEW node, NEW cut, IsIndex(node, R, lo, hi, cut, T, n)
    PROVE  LET found == ScanChildren(node.recs, where, below) IN
           \/ found = Err("Io") /\ ~Readable(disk, where, tree)
           \/ IsScanned(found, R, lo, hi, target)
<1> DEFINE recs == node.recs
           N == Len(recs)
<1>1. /\ N \in Nat \ {0} /\ cut[0] = lo - 1 /\ cut[N] = hi
  BY DEF IsIndex
<1>2. PICK upTo : /\ IsScanLoop(upTo, N, recs, where, below)
                  /\ ScanChildren(recs, where, below) = upTo[N]
  BY <1>1, ScanChildrenIs
<1>3. \A i \in 0 .. N : upTo[i] = ScanOn(recs, where, below, i, upTo[i - 1])
  <2> DEFINE Step(i) == ScanOn(recs, where, below, i, upTo[i - 1])
  <2>1. upTo = [i \in 0 .. N |-> Step(i)]
    BY <1>2 DEF IsScanLoop
  <2> HIDE DEF Step, N
  <2>2. \A i \in 0 .. N : upTo[i] = Step(i)
    BY <2>1
  <2> QED
    BY <2>2 DEF Step
<1> DEFINE Right(i) == \/ upTo[i] = Err("Io") /\ ~Readable(disk, where, tree)
                       \/ IsScanned(upTo[i], R, lo, cut[i], target)
           S == { i \in Nat : i <= N => Right(i) }
<1>4. 0 \in S
  <2>1. upTo[0] = Ok([recs |-> <<>>, done |-> FALSE])
    <3>1. 0 \in 0 .. N
      BY <1>1
    <3>2. upTo[0] = ScanOn(recs, where, below, 0, upTo[0 - 1])
      BY <1>3, <3>1
    <3> QED
      BY <3>2 DEF ScanOn
  <2>2. FALSE = SomeAfter(R, lo, lo - 1, target)
    BY DEF SomeAfter
  <2>3. IsRun(<<>>, R, lo, lo - 1, target)
    <3>1. <<>> = [i \in 1 .. 0 |-> R[lo + i - 1]] /\ lo <= lo /\ lo + 0 - 1 <= lo - 1 /\ 0 \in Nat
      OBVIOUS
    <3>2. \A i \in lo .. lo - 1 : Same(R[i].key, target) <=> lo <= i /\ i <= lo + 0 - 1
      OBVIOUS
    <3> QED
      BY <3>1, <3>2 DEF IsRun
  <2>4. IsScanned(upTo[0], R, lo, lo - 1, target)
    BY <2>1, <2>2, <2>3 DEF IsScanned
  <2> QED
    BY <1>1, <2>4
<1>5. ASSUME NEW i \in Nat, i \in S PROVE i + 1 \in S
  <2> SUFFICES ASSUME i + 1 <= N PROVE Right(i + 1)
    OBVIOUS
  <2>1. i + 1 \in 1 .. N /\ i + 1 \in 0 .. N /\ (i + 1) - 1 = i /\ i <= N /\ i + 1 # 0
    BY <1>1
  <2>2. upTo[i + 1] = ScanOn(recs, where, below, i + 1, upTo[i])
    BY <1>3, <2>1
  <2>3. CASE upTo[i] = Err("Io") /\ ~Readable(disk, where, tree)
    <3>1. upTo[i + 1] = Err("Io")
      <4>1. i + 1 # 0 /\ upTo[i] = Err("Io")
        BY <2>1, <2>3
      <4> HIDE DEF recs
      <4>2. ScanOn(recs, where, below, i + 1, Err("Io")) = Err("Io")
        BY <4>1, ScanOnError
      <4> QED
        BY <2>2, <4>1, <4>2
    <3> QED
      BY <2>3, <3>1
  <2>4. CASE IsScanned(upTo[i], R, lo, cut[i], target)
    <3> DEFINE k == i + 1
    <3>1. k \in 1 .. Len(node.recs) /\ IsScanned(upTo[i], R, lo, cut[k - 1], target)
      BY <2>1, <2>4
    <3> HIDE DEF k
    <3>2. LET after == ScanOn(node.recs, where, below, k, upTo[i]) IN
          \/ after = Err("Io") /\ ~Readable(disk, where, tree)
          \/ IsScanned(after, R, lo, cut[k], target)
      BY <3>1, ScanOneMore
    <3> QED
      BY <2>2, <3>2 DEF k
  <2> QED
    BY <1>5, <2>1, <2>3, <2>4
<1>6. S = Nat
  <2>1. S \in SUBSET Nat
    OBVIOUS
  <2> HIDE DEF S
  <2> QED
    BY <1>4, <1>5, <2>1, Induction
<1>7. Right(N)
  BY <1>1, <1>6
<1> QED
  BY <1>1, <1>2, <1>7

\* A scan of a node is right if those of its children are.
LEMMA ScanNodeStep ==
    ASSUME NEW disk, NEW target, IsKey(target), NEW where, NEW tree, NEW R, Sorted(R),
           NEW T, IsTree(tree, R, T), Located(disk, where, tree),
           NEW m \in Nat, NEW below, m = 0 \/ Scans(below, m - 1, disk, target, where, tree, R, T)
    PROVE  Scans(ScanNode(disk, target, where, below), m, disk, target, where, tree, R, T)
<1> SUFFICES ASSUME NEW n \in Nat, NEW o \in Nat, NEW lo \in Nat, NEW hi \in Nat,
                    NEW block \in Nat, n <= m, <<n, o, lo, hi>> \in T,
                    Holds(disk, block, tree[o]), block \in DOMAIN disk
             PROVE  LET found == ScanNode(disk, target, where, below)[block] IN
                    \/ found = Err("Io") /\ ~Readable(disk, where, tree)
                    \/ IsScanned(found, R, lo, hi, target)
  <2>1. \A b \in Nat : b \notin DOMAIN disk =>
            ScanNode(disk, target, where, below)[b] = Err("Io")
    BY DEF ScanNode, ReadBlock, Then, Err
  <2> QED
    BY <2>1 DEF Scans
<1> DEFINE node == tree[o]
           found == ScanNode(disk, target, where, below)[block]
<1>1. /\ 1 <= lo /\ lo <= hi /\ hi <= Len(R)
      /\ n = 0 => IsLeaf(node, R, lo, hi)
      /\ n > 0 => \E cut : IsIndex(node, R, lo, hi, cut, T, n)
  BY DEF IsTree
<1>2. disk[block] = node
  BY DEF Holds
<1>3. found = IF node.leaf THEN Ok(ScanLeaf(node.recs, target))
              ELSE ScanChildren(node.recs, where, below)
  BY <1>2 DEF ScanNode, ReadBlock, Then, Ok
<1> HIDE DEF found, node
<1>4. CASE n = 0
  <2>1. IsLeaf(node, R, lo, hi)
    BY <1>1, <1>4
  <2>2. found = Ok(ScanLeaf(node.recs, target))
    BY <1>3, <2>1 DEF IsLeaf
  <2> QED
    BY <1>1, <2>1, <2>2, ScanOfLeaf DEF found
<1>5. CASE n > 0
  <2>1. PICK cut : IsIndex(node, R, lo, hi, cut, T, n)
    BY <1>1, <1>5
  <2>2. found = ScanChildren(node.recs, where, below)
    BY <1>3, <2>1 DEF IsIndex
  <2>3. LET all == ScanChildren(node.recs, where, below) IN
        \/ all = Err("Io") /\ ~Readable(disk, where, tree)
        \/ IsScanned(all, R, lo, hi, target)
    BY <1>1, <1>5, <2>1, ScanOfChildren
  <2> QED
    BY <2>2, <2>3 DEF found
<1> QED
  BY <1>4, <1>5

IsScan(level, m, disk, target, where) ==
    level = [n \in 0 .. m |->
                ScanNode(disk, target, where, IF n = 0 THEN TooDeep ELSE level[n - 1])]

\* The recursive definition of the scan has a function.
LEMMA ScanLevels ==
    ASSUME NEW disk, NEW target, NEW where, NEW m \in Nat
    PROVE  \E level : IsScan(level, m, disk, target, where)
<1> DEFINE Step(below) == ScanNode(disk, target, where, below)
           P(k) == \E g : g = [n \in 0 .. k |-> Step(IF n = 0 THEN TooDeep ELSE g[n - 1])]
           S == { k \in Nat : P(k) }
<1> HIDE DEF Step
<1>1. P(0)
  <2> DEFINE g == [n \in 0 .. 0 |-> Step(TooDeep)]
  <2>1. g = [n \in 0 .. 0 |-> Step(IF n = 0 THEN TooDeep ELSE g[n - 1])]
    OBVIOUS
  <2> QED
    BY <2>1
<1>2. ASSUME NEW k \in Nat, P(k) PROVE P(k + 1)
  <2>1. PICK g : g = [n \in 0 .. k |-> Step(IF n = 0 THEN TooDeep ELSE g[n - 1])]
    BY <1>2
  <2> DEFINE h == [n \in 0 .. k + 1 |-> Step(IF n = 0 THEN TooDeep ELSE g[n - 1])]
  <2>2. \A n \in 0 .. k : h[n] = g[n]
    <3> TAKE n \in 0 .. k
    <3>1. h[n] = Step(IF n = 0 THEN TooDeep ELSE g[n - 1])
      OBVIOUS
    <3>2. g[n] = Step(IF n = 0 THEN TooDeep ELSE g[n - 1])
      BY <2>1
    <3> QED
      BY <3>1, <3>2
  <2>3. \A n \in 0 .. k + 1 : n = 0 \/ h[n - 1] = g[n - 1]
    <3> HIDE DEF h
    <3>1. \A n \in 0 .. k + 1 : n = 0 \/ n - 1 \in 0 .. k
      OBVIOUS
    <3> QED
      BY <2>2, <3>1
  <2>4. h = [n \in 0 .. k + 1 |-> Step(IF n = 0 THEN TooDeep ELSE h[n - 1])]
    <3> HIDE DEF h
    <3>1. h = [n \in 0 .. k + 1 |-> Step(IF n = 0 THEN TooDeep ELSE g[n - 1])]
      BY DEF h
    <3> QED
      BY <2>3, <3>1
  <2> QED
    BY <2>4
<1> HIDE DEF P
<1>3. S \in SUBSET Nat /\ 0 \in S /\ \A k \in Nat : k \in S => k + 1 \in S
  BY <1>1, <1>2
<1>4. S = Nat
  <2> HIDE DEF S
  <2> QED
    BY <1>3, Induction
<1> QED
  BY <1>4 DEF P, Step, IsScan

\* A scan is what its definition says.
LEMMA ScanUnfolds ==
    ASSUME NEW disk, NEW target, NEW where
    PROVE  \E level :
              /\ IsScan(level, MaxHeight, disk, target, where)
              /\ \A block : Scan(disk, block, target, where) = level[MaxHeight][block]
<1>1. \E level : IsScan(level, MaxHeight, disk, target, where)
  BY ScanLevels, BTreeAssumption
<1> DEFINE L == CHOOSE level : level =
                  [n \in 0 .. MaxHeight |->
                      ScanNode(disk, target, where,
                                 IF n = 0 THEN TooDeep ELSE level[n - 1])]
<1>2. IsScan(L, MaxHeight, disk, target, where)
  BY <1>1 DEF IsScan
<1>3. \A block : Scan(disk, block, target, where) = L[MaxHeight][block]
  BY DEF Scan
<1> QED
  BY <1>2, <1>3
\* A scan is right in a tree of any height.
LEMMA ScanTree ==
    ASSUME NEW disk, NEW target, IsKey(target), NEW where, NEW tree, NEW R, Sorted(R),
           NEW T, IsTree(tree, R, T), Located(disk, where, tree),
           NEW level, IsScan(level, MaxHeight, disk, target, where)
    PROVE  Scans(level[MaxHeight], MaxHeight, disk, target, where, tree, R, T)
<1> DEFINE Works(n) == Scans(level[n], n, disk, target, where, tree, R, T)
           S == { n \in Nat : n <= MaxHeight => Works(n) }
<1>1. \A n \in 0 .. MaxHeight : level[n] =
          ScanNode(disk, target, where, IF n = 0 THEN TooDeep ELSE level[n - 1])
  <2> DEFINE Step(n) == ScanNode(disk, target, where,
                                   IF n = 0 THEN TooDeep ELSE level[n - 1])
  <2>1. level = [n \in 0 .. MaxHeight |-> Step(n)]
    BY DEF IsScan
  <2> HIDE DEF Step
  <2>2. \A n \in 0 .. MaxHeight : level[n] = Step(n)
    BY <2>1
  <2> QED
    BY <2>2 DEF Step
<1>2. MaxHeight \in Nat
  BY BTreeAssumption
<1>3. 0 \in S
  <2>1. level[0] = ScanNode(disk, target, where, TooDeep)
    BY <1>1, <1>2
  <2> QED
    BY <2>1, ScanNodeStep
<1>4. ASSUME NEW n \in Nat, n \in S PROVE n + 1 \in S
  <2> SUFFICES ASSUME n + 1 <= MaxHeight PROVE Works(n + 1)
    OBVIOUS
  <2>1. /\ n + 1 \in 0 .. MaxHeight /\ n + 1 # 0 /\ (n + 1) - 1 = n /\ n <= MaxHeight
        /\ n + 1 \in Nat
    BY <1>2
  <2>2. level[n + 1] = ScanNode(disk, target, where, level[n])
    BY <1>1, <2>1
  <2>3. Scans(level[n], (n + 1) - 1, disk, target, where, tree, R, T)
    BY <1>4, <2>1
  <2> QED
    BY <2>1, <2>2, <2>3, ScanNodeStep
<1>5. S = Nat
  <2>1. S \in SUBSET Nat
    OBVIOUS
  <2> HIDE DEF S
  <2> QED
    BY <1>3, <1>4, <2>1, Induction
<1> QED
  BY <1>2, <1>5


(***************************************************************************)
(* btree_scan finds the records that compare equal, all of them, each once  *)
(* and in the order of the tree, and it says that it was stopped exactly if *)
(* the tree has one behind them; it fails only if there is a node that it   *)
(* cannot read.                                                            *)
(***************************************************************************)
THEOREM ScanIsRight ==
    ASSUME NEW disk, NEW target, IsKey(target), NEW where, NEW tree, NEW R, Sorted(R),
           NEW T, IsTree(tree, R, T), Located(disk, where, tree),
           NEW h \in 0 .. MaxHeight, NEW root \in Nat, <<h, root, 1, Len(R)>> \in T,
           NEW block, Holds(disk, block, tree[root])
    PROVE  LET answer == Scan(disk, block, target, where) IN
           \/ /\ answer = Err("Io")
              /\ block \notin DOMAIN disk \/ ~Readable(disk, where, tree)
           \/ IsScanned(answer, R, 1, Len(R), target)
<1>1. PICK level : /\ IsScan(level, MaxHeight, disk, target, where)
                   /\ \A b : Scan(disk, b, target, where) = level[MaxHeight][b]
  BY ScanUnfolds
<1>2. Scans(level[MaxHeight], MaxHeight, disk, target, where, tree, R, T)
  BY <1>1, ScanTree
<1>3. block \in Nat /\ h \in Nat /\ h <= MaxHeight /\ Len(R) \in Nat
  BY SortedFacts, BTreeAssumption DEF Holds
<1> QED
  BY <1>1, <1>2, <1>3 DEF Scans

\* omap_lookup finds no mapping of an object that has none.
THEOREM OmapLookupOfNone ==
    ASSUME NEW disk, NEW root, NEW tree, NEW R, NEW T, IsOmap(disk, root, tree, R, T),
           NEW oid \in Nat, \A i \in DOMAIN R : R[i].key.oid # oid
    PROVE  LET answer == OmapLookup(disk, root, oid) IN
           \/ answer = Err("Io") /\ ~(DOMAIN tree \subseteq DOMAIN disk)
           \/ answer = Err("CorruptedData")
<1> DEFINE target == [oid |-> oid, type |-> OmapType]
           direct == Lookup(disk, root, target, Physical)
           scan == Scan(disk, root, target, Physical)
           answer == OmapLookup(disk, root, oid)
<1>1. IsKey(target) /\ target.oid = oid /\ target.type = OmapType
  BY DEF IsKey, OmapType
<1>2. answer = Then(direct, LAMBDA d :
                   IF d # Nothing THEN Ok(d.val)
                   ELSE Then(scan, LAMBDA s :
                            IF s.recs = <<>> \/ Newest(s.recs).val = 0 THEN Err("CorruptedData")
                            ELSE Ok(Newest(s.recs).val)))
  BY DEF OmapLookup
<1> HIDE DEF target, direct, scan, answer
<1>3. Sorted(R) /\ IsTree(tree, R, T) /\ root \in Nat
  BY DEF IsOmap
<1>4. Located(disk, Physical, tree)
  <2> SUFFICES ASSUME NEW o \in DOMAIN tree
               PROVE  o \in Nat /\ Physical[o] = Ok(o) /\ Holds(disk, o, tree[o])
    BY DEF Located, IsOmap
  <2> QED
    BY DEF Physical, IsOmap
<1>5. PICK h \in 0 .. MaxHeight : <<h, root, 1, Len(R)>> \in T
  BY DEF IsOmap
<1>6. root \in DOMAIN tree /\ Holds(disk, root, tree[root])
  BY <1>3, <1>5 DEF IsTree, IsOmap
<1>7. root \notin DOMAIN disk \/ ~Readable(disk, Physical, tree)
          => ~(DOMAIN tree \subseteq DOMAIN disk)
  BY <1>6 DEF Readable, Physical, Ok, IsOmap
<1>8. \/ /\ direct = Err("Io")
         /\ root \notin DOMAIN disk \/ ~Readable(disk, Physical, tree)
      \/ IsFound(direct, R, 1, Len(R), target)
  BY <1>1, <1>3, <1>4, <1>5, <1>6, LookupIsRight DEF direct
<1>9. \/ /\ scan = Err("Io")
         /\ root \notin DOMAIN disk \/ ~Readable(disk, Physical, tree)
      \/ IsScanned(scan, R, 1, Len(R), target)
  BY <1>1, <1>3, <1>4, <1>5, <1>6, ScanIsRight DEF scan
<1>10. \A i \in 1 .. Len(R) : ~Same(R[i].key, target)
  BY <1>1, <1>3, SortedFacts DEF Same
<1>11. CASE direct = Err("Io") /\ ~(DOMAIN tree \subseteq DOMAIN disk)
  BY <1>2, <1>11, ResultFacts DEF Then, answer
<1>12. CASE direct = Ok(Nothing)
  <2>1. answer = Then(scan, LAMBDA s : IF s.recs = <<>> \/ Newest(s.recs).val = 0 THEN Err("CorruptedData")
                                       ELSE Ok(Newest(s.recs).val))
    BY <1>2, <1>12, ResultFacts DEF Then
  <2>2. CASE scan = Err("Io") /\ ~(DOMAIN tree \subseteq DOMAIN disk)
    BY <2>1, <2>2, ResultFacts DEF Then, answer
  <2>3. CASE IsScanned(scan, R, 1, Len(R), target)
    <3>1. PICK recs, done : /\ scan = Ok([recs |-> recs, done |-> done])
                            /\ IsRun(recs, R, 1, Len(R), target)
      BY <2>3 DEF IsScanned
    <3>2. recs = <<>>
      <4>1. PICK f, k \in Nat :
                /\ 1 <= f /\ f + k - 1 <= Len(R)
                /\ recs = [i \in 1 .. k |-> R[f + i - 1]]
                /\ \A i \in 1 .. Len(R) : Same(R[i].key, target) <=> f <= i /\ i <= f + k - 1
        BY <3>1 DEF IsRun
      <4>2. k = 0
        <5>1. Len(R) \in Nat
          BY <1>3, SortedFacts
        <5>2. k > 0 => f \in 1 .. Len(R) /\ f <= f /\ f <= f + k - 1
          BY <4>1, <5>1
        <5> QED
          BY <1>10, <4>1, <5>2
      <4> QED
        BY <4>1, <4>2
    <3>3. scan.ok /\ scan.val.recs = <<>>
      BY <3>1, <3>2, ResultFacts
    <3>4. answer = Err("CorruptedData")
      BY <2>1, <3>3 DEF Then
    <3> QED
      BY <3>4 DEF answer
  <2> QED
    BY <1>7, <1>9, <2>2, <2>3
<1> QED
  BY <1>7, <1>8, <1>10, <1>11, <1>12 DEF IsFound
=============================================================================
