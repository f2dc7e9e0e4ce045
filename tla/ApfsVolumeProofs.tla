-------------------------- MODULE ApfsVolumeProofs --------------------------
(***************************************************************************)
(* What a Mac leaves on a disk, whenever it is unplugged, and what         *)
(* ApfsVolume::open makes of it: the last transaction that was committed.  *)
(* The blocks of every transaction stay where they are once it is written  *)
(* (Stored, kept by StoredFrame), whatever becomes of the ring of superblocks,*)
(* of which the newest that can be read leads to one (RingOK, LatestIs).   *)
(* Then what the library answers from the volume that is open: a lookup or  *)
(* a scan of its trees gives the records of the content (ServedIs,         *)
(* RecordsByType), they give the objects along a path (ResolvePathIs), and  *)
(* directories that are nested (NestedOK) are walked to the end.           *)
(***************************************************************************)
EXTENDS ApfsVolume, BTreeProofs
-----------------------------------------------------------------------------
(***************************************************************************)
(* What a Mac writes is a B-tree: records are put in nodes, the nodes in   *)
(* nodes, until there is one. GrowIs says so of the whole.                 *)
(***************************************************************************)
-----------------------------------------------------------------------------
\* A quotient that is rounded up.
LEMMA Division ==
    ASSUME NEW L \in Nat, NEW F \in Nat \ {0, 1}, NEW q, q = (L + F - 1) \div F
    PROVE  /\ q \in Nat
           /\ q = 0 <=> L = 0
           /\ q > 0 => F * (q - 1) < L /\ L <= F * q
<1>1. q \in Int
  OBVIOUS
<1>2. F * q <= L + F - 1 /\ L + F - 1 < F * q + F
  OBVIOUS
<1>3. F * (q - 1) = F * q - F /\ F * q \in Int
  BY <1>1
<1>4. q >= 0
  <2> SUFFICES ASSUME q <= -1 PROVE FALSE
    BY <1>1
  <2>1. F * q <= F * (-1)
    BY <1>1
  <2> QED
    BY <1>2, <2>1
<1>5. L = 0 => q = 0
  <2> SUFFICES ASSUME L = 0, q >= 1 PROVE FALSE
    BY <1>1, <1>4
  <2>1. F * q >= F
    BY <1>1
  <2> QED
    BY <1>2, <2>1
<1>6. q = 0 => L = 0
  BY <1>2
<1> QED
  BY <1>1, <1>2, <1>3, <1>4, <1>5, <1>6

\* Where a number lies between the multiples of another.
LEMMA Multiples ==
    ASSUME NEW F \in Nat \ {0, 1}, NEW i \in Nat, NEW j \in Nat
    PROVE  /\ F * i \in Nat
           /\ i < j => F * i < F * j /\ F * i <= F * (j - 1)
           /\ F * 0 = 0
<1>1. F * i \in Nat /\ F * 0 = 0
  OBVIOUS
<1>2. ASSUME i < j PROVE F * i < F * j /\ F * i <= F * (j - 1)
  <2>1. PICK k \in Nat : j = i + 1 + k
    <3>1. j - i - 1 \in Nat /\ j = i + 1 + (j - i - 1)
      BY <1>2
    <3> QED
      BY <3>1
  <2>2. F * j = F * i + F + F * k /\ F * k \in Nat /\ F * (j - 1) = F * i + F * k
    BY <2>1
  <2> QED
    BY <1>1, <2>2
<1> QED
  BY <1>1, <1>2

\* Where the nodes of a level end.
LEMMA Ends ==
    ASSUME NEW recs, Len(recs) \in Nat
    PROVE  /\ NodeCount(recs) \in Nat
           /\ NodeCount(recs) = 0 <=> Len(recs) = 0
           /\ EndOf(recs, 0) = 0
           /\ EndOf(recs, NodeCount(recs)) = Len(recs)
           /\ \A i \in 0 .. NodeCount(recs) : EndOf(recs, i) \in 0 .. Len(recs)
           /\ \A i \in 1 .. NodeCount(recs) : EndOf(recs, i - 1) < EndOf(recs, i)
<1> DEFINE q == NodeCount(recs)
           L == Len(recs)
<1>1. Fan \in Nat \ {0, 1}
  BY ApfsVolumeAssumption
<1>2. q \in Nat /\ (q = 0 <=> L = 0) /\ (q > 0 => Fan * (q - 1) < L /\ L <= Fan * q)
  <2>1. q = (L + Fan - 1) \div Fan /\ L \in Nat
    BY DEF NodeCount
  <2> HIDE DEF q, L
  <2> QED
    BY <1>1, <2>1, Division
<1>3. EndOf(recs, q) = L
  BY DEF EndOf
<1>4. \A i : i # q => EndOf(recs, i) = Fan * i
  BY DEF EndOf
<1> HIDE DEF q
<1>5. EndOf(recs, 0) = 0
  BY <1>1, <1>2, <1>3, <1>4, Multiples
<1>6. ASSUME NEW i \in 0 .. q PROVE EndOf(recs, i) \in 0 .. L
  <2>1. CASE i = q
    BY <1>3, <2>1
  <2>2. CASE i < q
    <3>1. Fan * i \in Nat /\ Fan * i <= Fan * (q - 1) /\ q > 0
      BY <1>1, <1>2, <2>2, Multiples
    <3>2. Fan * (q - 1) \in Int
      BY <1>1, <1>2
    <3> QED
      BY <1>2, <1>4, <2>2, <3>1, <3>2
  <2> QED
    BY <1>2, <2>1, <2>2
<1>7. ASSUME NEW i \in 1 .. q PROVE EndOf(recs, i - 1) < EndOf(recs, i)
  <2>1. i - 1 \in Nat /\ i - 1 # q /\ i - 1 < i /\ i \in Nat /\ i - 1 \in 0 .. q
    BY <1>2
  <2>2. EndOf(recs, i - 1) = Fan * (i - 1)
    BY <1>4, <2>1
  <2>3. CASE i = q
    BY <1>2, <1>3, <2>2, <2>3
  <2>4. CASE i # q
    BY <1>1, <1>4, <2>1, <2>2, <2>4, Multiples
  <2> QED
    BY <2>3, <2>4
<1> QED
  BY <1>2, <1>3, <1>5, <1>6, <1>7 DEF q
-----------------------------------------------------------------------------
\* What the levels up to the next hold, from those up to the nth.
NextLevel(below, base, first) ==
    [nodes |-> below.nodes \o NodesOf(below.recs, first),
     recs |-> Parents(below.recs, base + Len(below.nodes))]

AreLevels(level, m, recs, base) ==
    level = [n \in 0 .. m |->
                IF n = 0 THEN [nodes |-> <<>>, recs |-> recs]
                ELSE NextLevel(level[n - 1], base, n = 1)]

\* The nodes as their parents know them.
Numbered(nodes, base) == [o \in base + 1 .. base + Len(nodes) |-> nodes[o - base]]

(***************************************************************************)
(* The nodes so far are a tree T over the records R of which the records of *)
(* the level are the tops, and divide R at the cuts.                        *)
(***************************************************************************)
Divides(cut, n, R) ==
    /\ cut \in [0 .. n -> Nat]
    /\ cut[0] = 0
    /\ cut[n] = Len(R)
    /\ \A j \in 1 .. n : cut[j - 1] < cut[j]

IsTop(rec, n, R, lo, hi, T) ==
    /\ rec.key = R[lo].key
    /\ n > 0 => rec.val \in Nat /\ <<n - 1, rec.val, lo, hi>> \in T

IsNode(block) == block = Node(block.leaf, block.recs)

Climbed(n, level, R, base, cut, T) ==
    /\ IsSeq(level.nodes) /\ IsSeq(level.recs)
    /\ n = 0 => level.recs = R /\ \A j \in 0 .. Len(R) : cut[j] = j
    /\ Divides(cut, Len(level.recs), R)
    /\ \A j \in 1 .. Len(level.recs) : IsTop(level.recs[j], n, R, cut[j - 1] + 1, cut[j], T)
    /\ IsTree(Numbered(level.nodes, base), R, T)
    /\ \A i \in 1 .. Len(level.nodes) : IsNode(level.nodes[i])

\* The records of the jth node of a level.
LEMMA PageIs ==
    ASSUME NEW recs, Len(recs) \in Nat, NEW i \in 1 .. NodeCount(recs)
    PROVE  LET size == EndOf(recs, i) - EndOf(recs, i - 1) IN
           /\ size \in Nat \ {0}
           /\ Len(Page(recs, i)) = size
           /\ Page(recs, i) = [k \in 1 .. size |-> recs[EndOf(recs, i - 1) + k]]
<1> DEFINE size == EndOf(recs, i) - EndOf(recs, i - 1)
<1>1. i - 1 \in 0 .. NodeCount(recs) /\ i \in 0 .. NodeCount(recs)
  BY Ends
<1>2. size \in Nat \ {0}
  <2>1. /\ EndOf(recs, i - 1) \in 0 .. Len(recs) /\ EndOf(recs, i) \in 0 .. Len(recs)
        /\ EndOf(recs, i - 1) < EndOf(recs, i)
    BY <1>1, Ends
  <2> QED
    BY <2>1
<1>3. Page(recs, i) = [k \in 1 .. size |-> recs[EndOf(recs, i - 1) + k]]
  BY DEF Page
<1> HIDE DEF size
<1>4. Page(recs, i) = [k \in 1 .. size |-> Page(recs, i)[k]]
  BY <1>3
<1>5. Len(Page(recs, i)) = size
  BY <1>2, <1>4, IsSeqOf
<1> QED
  BY <1>2, <1>3, <1>5 DEF size

\* The nodes of a level.
LEMMA NodesAre ==
    ASSUME NEW recs, Len(recs) \in Nat, NEW leaf, NEW base
    PROVE  /\ IsSeq(NodesOf(recs, leaf)) /\ Len(NodesOf(recs, leaf)) = NodeCount(recs)
           /\ IsSeq(Parents(recs, base)) /\ Len(Parents(recs, base)) = NodeCount(recs)
           /\ \A i \in 1 .. NodeCount(recs) :
                 /\ NodesOf(recs, leaf)[i] = Node(leaf, Page(recs, i))
                 /\ Parents(recs, base)[i].key = Page(recs, i)[1].key
                 /\ Parents(recs, base)[i].val = base + i
<1>1. NodeCount(recs) \in Nat
  BY Ends
<1>2. NodesOf(recs, leaf) = [i \in 1 .. NodeCount(recs) |-> NodesOf(recs, leaf)[i]]
  BY DEF NodesOf
<1>3. Parents(recs, base) = [i \in 1 .. NodeCount(recs) |-> Parents(recs, base)[i]]
  BY DEF Parents
<1> QED
  BY <1>1, <1>2, <1>3, IsSeqOf DEF NodesOf, Parents

\* Cuts ascend.
LEMMA DividesFacts ==
    ASSUME NEW R, NEW n \in Nat, NEW cut, Divides(cut, n, R)
    PROVE  /\ \A i, j \in 0 .. n : i <= j => cut[i] <= cut[j]
           /\ \A i, j \in 0 .. n : i < j => cut[i] < cut[j]
           /\ \A i \in 0 .. n : cut[i] \in Nat /\ cut[i] <= Len(R)
<1>1. \A i, j \in 0 .. n : i <= j => cut[i] <= cut[j]
  BY CutsAscend DEF Divides
<1>2. \A i \in 0 .. n : cut[i] \in Nat
  BY DEF Divides
<1>3. ASSUME NEW i \in 0 .. n, NEW j \in 0 .. n, i < j PROVE cut[i] < cut[j]
  <2>1. j \in 1 .. n /\ j - 1 \in 0 .. n /\ i <= j - 1
    BY <1>3
  <2>2. cut[j - 1] < cut[j] /\ cut[i] <= cut[j - 1]
    BY <1>1, <2>1 DEF Divides
  <2> QED
    BY <1>2, <2>1, <2>2
<1>4. \A i \in 0 .. n : cut[i] <= Len(R)
  <2>1. n \in 0 .. n /\ cut[n] = Len(R)
    BY DEF Divides
  <2> QED
    BY <1>1, <2>1
<1> QED
  BY <1>1, <1>2, <1>3, <1>4

\* The cuts of the next level.
LEMMA NextCuts ==
    ASSUME NEW R, NEW recs, Len(recs) \in Nat, NEW cut, Divides(cut, Len(recs), R),
           NEW next, next = [i \in 0 .. NodeCount(recs) |-> cut[EndOf(recs, i)]]
    PROVE  Divides(next, NodeCount(recs), R)
<1> DEFINE q == NodeCount(recs)
<1>1. /\ q \in Nat
      /\ EndOf(recs, 0) = 0
      /\ EndOf(recs, q) = Len(recs)
      /\ \A i \in 0 .. q : EndOf(recs, i) \in 0 .. Len(recs)
      /\ \A i \in 1 .. q : EndOf(recs, i - 1) < EndOf(recs, i)
  BY Ends
<1>2. /\ \A i, j \in 0 .. Len(recs) : i < j => cut[i] < cut[j]
      /\ \A i \in 0 .. Len(recs) : cut[i] \in Nat
  BY DividesFacts
<1> HIDE DEF q
<1>3. next = [i \in 0 .. q |-> cut[EndOf(recs, i)]]
  BY DEF q
<1>4. next \in [0 .. q -> Nat]
  BY <1>1, <1>2, <1>3
<1>5. next[0] = 0 /\ next[q] = Len(R)
  <2>1. 0 \in 0 .. q /\ q \in 0 .. q
    BY <1>1
  <2>2. cut[0] = 0 /\ cut[Len(recs)] = Len(R)
    BY DEF Divides
  <2> QED
    BY <1>1, <1>3, <2>1, <2>2
<1>6. ASSUME NEW j \in 1 .. q PROVE next[j - 1] < next[j]
  <2>1. j - 1 \in 0 .. q /\ j \in 0 .. q
    BY <1>1
  <2>2. next[j - 1] = cut[EndOf(recs, j - 1)] /\ next[j] = cut[EndOf(recs, j)]
    BY <1>3, <2>1
  <2> QED
    BY <1>1, <1>2, <2>1, <2>2
<1> QED
  BY <1>4, <1>5, <1>6 DEF Divides, q
-----------------------------------------------------------------------------
\* A tree stays one when others are added.
LEMMA TreeGrows ==
    ASSUME NEW tree, NEW R, NEW T, NEW more, NEW new, NEW all,
           IsTree(tree, R, T),
           DOMAIN tree \subseteq DOMAIN all, \A o \in DOMAIN tree : all[o] = tree[o],
           more = T \cup new,
           new \subseteq Nat \X (DOMAIN all) \X Nat \X Nat,
           \A n, o, lo, hi \in Nat : <<n, o, lo, hi>> \in new =>
              /\ 1 <= lo /\ lo <= hi /\ hi <= Len(R)
              /\ n = 0 => IsLeaf(all[o], R, lo, hi)
              /\ n > 0 => \E cut : IsIndex(all[o], R, lo, hi, cut, T, n)
    PROVE  IsTree(all, R, more)
<1>1. more \subseteq Nat \X (DOMAIN all) \X Nat \X Nat
  BY DEF IsTree
<1>2. ASSUME NEW node, NEW lo, NEW hi, NEW cut, NEW n, IsIndex(node, R, lo, hi, cut, T, n)
      PROVE  IsIndex(node, R, lo, hi, cut, more, n)
  BY <1>2 DEF IsIndex
<1>3. ASSUME NEW n \in Nat, NEW o \in Nat, NEW lo \in Nat, NEW hi \in Nat,
             <<n, o, lo, hi>> \in more
      PROVE  /\ 1 <= lo /\ lo <= hi /\ hi <= Len(R)
             /\ n = 0 => IsLeaf(all[o], R, lo, hi)
             /\ n > 0 => \E cut : IsIndex(all[o], R, lo, hi, cut, more, n)
  <2>1. CASE <<n, o, lo, hi>> \in T
    <3>1. o \in DOMAIN tree /\ all[o] = tree[o]
      BY <2>1 DEF IsTree
    <3>2. /\ 1 <= lo /\ lo <= hi /\ hi <= Len(R)
          /\ n = 0 => IsLeaf(tree[o], R, lo, hi)
          /\ n > 0 => \E cut : IsIndex(tree[o], R, lo, hi, cut, T, n)
      BY <2>1 DEF IsTree
    <3> QED
      BY <1>2, <3>1, <3>2
  <2>2. CASE <<n, o, lo, hi>> \in new
    BY <1>2, <2>2
  <2> QED
    BY <1>3, <2>1, <2>2
<1> QED
  BY <1>1, <1>3 DEF IsTree

\* The node holds the records from lo to hi, or what leads to them.
Spans(node, n, R, lo, hi, T) ==
    /\ lo \in Nat /\ hi \in Nat
    /\ 1 <= lo /\ lo <= hi /\ hi <= Len(R)
    /\ n = 0 => IsLeaf(node, R, lo, hi)
    /\ n > 0 => \E cut : IsIndex(node, R, lo, hi, cut, T, n)
    /\ node.recs[1].key = R[lo].key

\* The ith node of a level holds what its children hold together.
LEMMA NewNode ==
    ASSUME NEW n \in Nat, NEW level, NEW R, NEW base \in Nat, NEW cut, NEW T,
           Climbed(n, level, R, base, cut, T), NEW i \in 1 .. NodeCount(level.recs),
           NEW lo, lo = cut[EndOf(level.recs, i - 1)] + 1,
           NEW hi, hi = cut[EndOf(level.recs, i)],
           NEW node, node = Node(n = 0, Page(level.recs, i))
    PROVE  Spans(node, n, R, lo, hi, T)
<1> DEFINE recs == level.recs
           from == EndOf(recs, i - 1)
           to == EndOf(recs, i)
           size == to - from
<1>1. Len(recs) \in Nat
  BY DEF Climbed, IsSeq
<1>2. /\ from \in 0 .. Len(recs) /\ to \in 0 .. Len(recs) /\ from < to
  <2>1. i - 1 \in 0 .. NodeCount(recs) /\ i \in 0 .. NodeCount(recs)
    BY <1>1, Ends
  <2> QED
    BY <1>1, <2>1, Ends
<1>3. /\ size \in Nat \ {0}
      /\ Len(node.recs) = size
      /\ node.recs = [k \in 1 .. size |-> recs[from + k]]
      /\ n = 0 => node.leaf
      /\ n > 0 => ~node.leaf
  <2>1. node.recs = Page(recs, i) /\ (node.leaf <=> n = 0)
    BY DEF Node
  <2>2. /\ size \in Nat \ {0}
        /\ Len(Page(recs, i)) = size
        /\ Page(recs, i) = [k \in 1 .. size |-> recs[from + k]]
    BY <1>1, PageIs
  <2> HIDE DEF recs, from, size
  <2> QED
    BY <2>1, <2>2
<1>4. /\ cut[from] \in Nat /\ cut[to] \in Nat /\ cut[to] <= Len(R) /\ cut[from] < cut[to]
      /\ Len(R) \in Nat
  <2>1. Divides(cut, Len(recs), R)
    BY DEF Climbed
  <2>2. Len(R) \in Nat
    BY <1>1, <2>1 DEF Divides
  <2> HIDE DEF recs, from, to
  <2> QED
    BY <1>1, <1>2, <2>1, <2>2, DividesFacts
<1>5. \A j \in 1 .. Len(recs) : IsTop(recs[j], n, R, cut[j - 1] + 1, cut[j], T)
  BY DEF Climbed
<1>6. ASSUME n = 0 PROVE IsLeaf(node, R, lo, hi)
  <2>1. recs = R /\ \A j \in 0 .. Len(R) : cut[j] = j
    BY <1>6 DEF Climbed
  <2>2. lo = from + 1 /\ hi = to
    BY <1>2, <2>1
  <2> HIDE DEF recs, from, to
  <2>3. hi - lo + 1 = size
    BY <1>2, <2>2
  <2>4. \A k \in 1 .. size : lo + k - 1 = from + k
    BY <1>2, <2>2
  <2>5. node.recs = [k \in 1 .. hi - lo + 1 |-> R[lo + k - 1]]
    BY <1>3, <2>1, <2>3, <2>4
  <2> QED
    BY <1>3, <1>6, <2>5 DEF IsLeaf
<1>7. ASSUME n > 0 PROVE \E c : IsIndex(node, R, lo, hi, c, T, n)
  <2> DEFINE c == [k \in 0 .. size |-> cut[from + k]]
  <2> HIDE DEF recs, from, to
  <2>1. \A k \in 0 .. size : from + k \in 0 .. Len(recs)
    BY <1>1, <1>2
  <2>2. Divides(cut, Len(recs), R)
    BY DEF Climbed, recs
  <2>3. /\ c \in [0 .. size -> Nat] /\ c[0] = lo - 1 /\ c[size] = hi
    <3>1. \A j \in 0 .. Len(recs) : cut[j] \in Nat
      BY <2>2 DEF Divides
    <3>2. c \in [0 .. size -> Nat]
      BY <2>1, <3>1
    <3>3. 0 \in 0 .. size /\ size \in 0 .. size /\ from + 0 = from /\ from + size = to
      BY <1>2
    <3>4. c[0] = cut[from] /\ c[size] = cut[to]
      BY <3>3
    <3>5. cut[from] = lo - 1 /\ cut[to] = hi
      BY <1>4 DEF recs, from, to
    <3> QED
      BY <3>2, <3>4, <3>5
  <2>4. ASSUME NEW k \in 1 .. size
        PROVE  /\ c[k - 1] < c[k]
               /\ node.recs[k].key = R[c[k - 1] + 1].key
               /\ node.recs[k].val \in Nat
               /\ <<n - 1, node.recs[k].val, c[k - 1] + 1, c[k]>> \in T
    <3>1. /\ from + k \in 1 .. Len(recs) /\ k - 1 \in 0 .. size /\ k \in 0 .. size
          /\ from + (k - 1) = (from + k) - 1
      BY <1>1, <1>2
    <3>2. c[k - 1] = cut[(from + k) - 1] /\ c[k] = cut[from + k]
      BY <3>1
    <3>3. cut[(from + k) - 1] < cut[from + k]
      BY <2>2, <3>1 DEF Divides
    <3>4. node.recs[k] = recs[from + k]
      BY <1>3
    <3>5. IsTop(recs[from + k], n, R, cut[(from + k) - 1] + 1, cut[from + k], T)
      BY <1>5, <3>1
    <3> HIDE DEF c
    <3> QED
      BY <1>7, <3>2, <3>3, <3>4, <3>5 DEF IsTop
  <2>5. ~node.leaf /\ DOMAIN node.recs = 1 .. Len(node.recs) /\ Len(node.recs) = size
        /\ size \in Nat \ {0}
    BY <1>3, <1>7
  <2> HIDE DEF c, size
  <2>6. IsIndex(node, R, lo, hi, c, T, n)
    BY <2>3, <2>4, <2>5 DEF IsIndex
  <2> QED
    BY <2>6
<1>8. node.recs[1].key = R[lo].key
  <2> HIDE DEF recs, from, to
  <2>1. from + 1 \in 1 .. Len(recs) /\ (from + 1) - 1 = from
    BY <1>1, <1>2
  <2>2. node.recs[1] = recs[from + 1]
    BY <1>3
  <2>3. IsTop(recs[from + 1], n, R, cut[from] + 1, cut[from + 1], T)
    BY <1>5, <2>1
  <2>4. lo = cut[from] + 1
    BY DEF recs, from
  <2> QED
    BY <2>2, <2>3, <2>4 DEF IsTop
<1>9. lo = cut[from] + 1 /\ hi = cut[to]
  OBVIOUS
<1> HIDE DEF recs, from, to, size
<1> QED
  BY <1>4, <1>6, <1>7, <1>8, <1>9 DEF Spans

\* The nodes of a level give the records of the next.
LEMMA ClimbStep ==
    ASSUME NEW n \in Nat, NEW level, NEW R, NEW base \in Nat, NEW cut, NEW T,
           Climbed(n, level, R, base, cut, T)
    PROVE  \E nextCut, more :
              /\ Climbed(n + 1, NextLevel(level, base, n = 0), R, base, nextCut, more)
              /\ \A i \in 1 .. NodeCount(level.recs) :
                    <<n, base + Len(level.nodes) + i, nextCut[i - 1] + 1, nextCut[i]>> \in more
<1> DEFINE recs == level.recs
           q == NodeCount(recs)
           b == base + Len(level.nodes)
           new == NodesOf(recs, n = 0)
           next == NextLevel(level, base, n = 0)
           nextCut == [i \in 0 .. q |-> cut[EndOf(recs, i)]]
           Entry(i) == <<n, b + i, nextCut[i - 1] + 1, nextCut[i]>>
           added == { Entry(i) : i \in 1 .. q }
           more == T \cup added
           tree == Numbered(level.nodes, base)
           all == Numbered(next.nodes, base)
<1>1. Len(recs) \in Nat /\ IsSeq(level.nodes) /\ Len(level.nodes) \in Nat
  BY DEF Climbed, IsSeq
<1>2. /\ q \in Nat
      /\ IsSeq(new) /\ Len(new) = q
      /\ next.nodes = level.nodes \o new
      /\ IsSeq(next.recs) /\ Len(next.recs) = q
      /\ \A i \in 1 .. q : /\ new[i] = Node(n = 0, Page(recs, i))
                           /\ next.recs[i].key = Page(recs, i)[1].key
                           /\ next.recs[i].val = b + i
  <2>1. next.nodes = level.nodes \o new /\ next.recs = Parents(recs, b)
    BY DEF NextLevel
  <2> HIDE DEF recs, next, b
  <2>2. q \in Nat
    BY <1>1, Ends
  <2>3. IsSeq(new) /\ Len(new) = q
    BY <1>1, NodesAre
  <2>4. IsSeq(next.recs) /\ Len(next.recs) = q
    BY <1>1, <2>1, NodesAre
  <2>5. \A i \in 1 .. q : /\ new[i] = Node(n = 0, Page(recs, i))
                          /\ next.recs[i].key = Page(recs, i)[1].key
                          /\ next.recs[i].val = b + i
    BY <1>1, <2>1, NodesAre
  <2> QED
    BY <2>1, <2>2, <2>3, <2>4, <2>5
<1>3. /\ IsSeq(next.nodes)
      /\ Len(next.nodes) = Len(level.nodes) + q
      /\ \A i \in 1 .. Len(level.nodes) : next.nodes[i] = level.nodes[i]
      /\ \A i \in 1 .. q : next.nodes[Len(level.nodes) + i] = new[i]
  <2> DEFINE s == level.nodes
             t == new
             u == s \o t
  <2>1. u = next.nodes /\ IsSeq(s) /\ IsSeq(t) /\ Len(t) = q
    BY <1>1, <1>2
  <2> HIDE DEF s, t, q, next
  <2>2. IsSeq(s) /\ IsSeq(t)
    BY <2>1
  <2>3. IsSeq(s \o t)
    BY <2>2, Concatenation
  <2>4. Len(s \o t) = Len(s) + Len(t)
    BY <2>2, Concatenation
  <2>5. \A i \in 1 .. Len(s) : (s \o t)[i] = s[i]
    BY <2>2, Concatenation
  <2>6. \A i \in 1 .. Len(t) : (s \o t)[Len(s) + i] = t[i]
    BY <2>2, Concatenation
  <2> QED
    BY <2>1, <2>3, <2>4, <2>5, <2>6 DEF s, t, u
<1>4. Divides(nextCut, q, R)
  <2>1. Divides(cut, Len(recs), R)
    BY DEF Climbed
  <2> HIDE DEF recs
  <2> QED
    BY <1>1, <2>1, NextCuts
<1>5. \A i \in 1 .. q : /\ nextCut[i - 1] = cut[EndOf(recs, i - 1)]
                        /\ nextCut[i] = cut[EndOf(recs, i)]
                        /\ nextCut[i - 1] \in Nat /\ nextCut[i] \in Nat
  <2>1. \A i \in 1 .. q : i - 1 \in 0 .. q /\ i \in 0 .. q
    BY <1>2
  <2>2. \A i \in 0 .. q : nextCut[i] \in Nat
    BY <1>4 DEF Divides
  <2>3. \A i \in 0 .. q : nextCut[i] = cut[EndOf(recs, i)]
    OBVIOUS
  <2> HIDE DEF nextCut, q
  <2> QED
    BY <2>1, <2>2, <2>3
<1>6. \A i \in 1 .. q : Spans(new[i], n, R, nextCut[i - 1] + 1, nextCut[i], T)
  <2> SUFFICES ASSUME NEW i \in 1 .. q
               PROVE  Spans(new[i], n, R, nextCut[i - 1] + 1, nextCut[i], T)
    OBVIOUS
  <2>1. i \in 1 .. NodeCount(level.recs) /\ new[i] = Node(n = 0, Page(level.recs, i))
    BY <1>2
  <2>2. /\ nextCut[i - 1] = cut[EndOf(level.recs, i - 1)]
        /\ nextCut[i] = cut[EndOf(level.recs, i)]
    BY <1>5
  <2> HIDE DEF new, nextCut
  <2> QED
    BY <2>1, <2>2, NewNode
<1>7. ASSUME NEW i \in 1 .. q
      PROVE  b + i \in DOMAIN all /\ all[b + i] = new[i] /\ b + i \in Nat
  <2>1. DOMAIN all = base + 1 .. base + Len(next.nodes)
    BY DEF Numbered
  <2>2. b + i \in DOMAIN all /\ b + i \in Nat /\ (b + i) - base = Len(level.nodes) + i
    <3> HIDE DEF all, next, q
    <3> QED
      BY <1>1, <1>2, <1>3, <2>1
  <2>3. all[b + i] = next.nodes[(b + i) - base]
    <3> HIDE DEF next, b, q
    <3> QED
      BY <2>1, <2>2 DEF Numbered
  <2> QED
    BY <1>3, <2>2, <2>3
<1>8. DOMAIN tree \subseteq DOMAIN all /\ \A o \in DOMAIN tree : all[o] = tree[o]
  <2>1. /\ DOMAIN tree = base + 1 .. base + Len(level.nodes)
        /\ DOMAIN all = base + 1 .. base + Len(next.nodes)
        /\ \A o \in DOMAIN tree : tree[o] = level.nodes[o - base]
        /\ \A o \in DOMAIN all : all[o] = next.nodes[o - base]
    BY DEF Numbered
  <2>2. \A o \in DOMAIN tree : o \in DOMAIN all /\ o - base \in 1 .. Len(level.nodes)
    <3> HIDE DEF all, next, tree, q
    <3> QED
      BY <1>1, <1>2, <1>3, <2>1
  <2> HIDE DEF all, next, tree, q
  <2> QED
    BY <1>3, <2>1, <2>2
<1>9. added \subseteq Nat \X (DOMAIN all) \X Nat \X Nat
  <2>1. ASSUME NEW i \in 1 .. q PROVE Entry(i) \in Nat \X (DOMAIN all) \X Nat \X Nat
    <3> HIDE DEF all, nextCut, b, q
    <3> QED
      BY <1>6, <1>7 DEF Spans
  <2> HIDE DEF Entry, all, q
  <2> QED
    BY <2>1
<1>10. \A k, o, lo, hi \in Nat : <<k, o, lo, hi>> \in added =>
              /\ 1 <= lo /\ lo <= hi /\ hi <= Len(R)
              /\ k = 0 => IsLeaf(all[o], R, lo, hi)
              /\ k > 0 => \E c : IsIndex(all[o], R, lo, hi, c, T, k)
  <2> SUFFICES ASSUME NEW k \in Nat, NEW o \in Nat, NEW lo \in Nat, NEW hi \in Nat,
                      <<k, o, lo, hi>> \in added
               PROVE  /\ 1 <= lo /\ lo <= hi /\ hi <= Len(R)
                      /\ k = 0 => IsLeaf(all[o], R, lo, hi)
                      /\ k > 0 => \E c : IsIndex(all[o], R, lo, hi, c, T, k)
    OBVIOUS
  <2>1. PICK i \in 1 .. q : <<k, o, lo, hi>> = Entry(i)
    OBVIOUS
  <2>2. k = n /\ o = b + i /\ lo = nextCut[i - 1] + 1 /\ hi = nextCut[i]
    BY <2>1
  <2>3. all[o] = new[i]
    BY <1>7, <2>2
  <2> HIDE DEF all, nextCut, b, q, new
  <2> QED
    BY <1>6, <2>2, <2>3 DEF Spans
<1>11. IsTree(all, R, more)
  <2>1. IsTree(tree, R, T)
    BY DEF Climbed
  <2> HIDE DEF all, tree, added
  <2> QED
    BY <1>8, <1>9, <1>10, <2>1, TreeGrows
<1>12. \A i \in 1 .. q : Entry(i) \in more
  OBVIOUS
<1>13. \A i \in 1 .. Len(next.nodes) : IsNode(next.nodes[i])
  <2> SUFFICES ASSUME NEW i \in 1 .. Len(next.nodes) PROVE IsNode(next.nodes[i])
    OBVIOUS
  <2>1. CASE i <= Len(level.nodes)
    BY <1>1, <1>3, <2>1 DEF Climbed
  <2>2. CASE i > Len(level.nodes)
    <3> DEFINE k == i - Len(level.nodes)
    <3>1. k \in 1 .. q /\ i = Len(level.nodes) + k
      <4>1. i \in 1 .. Len(level.nodes) + q /\ q \in Nat /\ Len(level.nodes) \in Nat
        BY <1>1, <1>2, <1>3
      <4> HIDE DEF next, q
      <4> QED
        BY <2>2, <4>1
    <3>2. next.nodes[i] = new[k] /\ IsNode(new[k])
      <4> HIDE DEF next, k, new, q
      <4>1. next.nodes[i] = new[k]
        BY <1>3, <3>1
      <4>2. new[k] = Node(n = 0, Page(recs, k))
        BY <1>2, <3>1
      <4> QED
        BY <4>1, <4>2 DEF Node, IsNode
    <3> QED
      BY <3>2
  <2> QED
    BY <1>1, <1>3, <2>1, <2>2 DEF IsSeq
<1>14. ASSUME NEW j \in 1 .. Len(next.recs)
       PROVE  IsTop(next.recs[j], n + 1, R, nextCut[j - 1] + 1, nextCut[j], more)
  <2>1. j \in 1 .. q
    BY <1>2
  <2>2. next.recs[j].key = new[j].recs[1].key /\ next.recs[j].val = b + j
    <3> HIDE DEF next, new, q, b
    <3> QED
      BY <1>2, <2>1 DEF Node
  <2>3. next.recs[j].key = R[nextCut[j - 1] + 1].key
    BY <1>6, <2>1, <2>2 DEF Spans
  <2>4. <<(n + 1) - 1, next.recs[j].val, nextCut[j - 1] + 1, nextCut[j]>> \in more
    <3>1. (n + 1) - 1 = n
      OBVIOUS
    <3> HIDE DEF next, b, q, more, nextCut
    <3> QED
      BY <1>12, <2>1, <2>2, <3>1
  <2>5. next.recs[j].val \in Nat
    BY <1>7, <2>1, <2>2
  <2> HIDE DEF next, more, nextCut
  <2> QED
    BY <2>3, <2>4, <2>5 DEF IsTop
<1> HIDE DEF next, more, nextCut, new, all
<1>15. Climbed(n + 1, next, R, base, nextCut, more)
  <2>1. n + 1 # 0
    OBVIOUS
  <2>2. Divides(nextCut, Len(next.recs), R)
    BY <1>2, <1>4
  <2> QED
    BY <1>2, <1>3, <1>11, <1>13, <1>14, <2>1, <2>2 DEF Climbed, all
<1> QED
  BY <1>12, <1>15 DEF next

\* The records themselves are the tops of no tree yet.
LEMMA ClimbStart ==
    ASSUME NEW R, IsSeq(R), Len(R) > 0, NEW base \in Nat
    PROVE  \E cut, T : Climbed(0, [nodes |-> <<>>, recs |-> R], R, base, cut, T)
<1> DEFINE cut == [j \in 0 .. Len(R) |-> j]
           level == [nodes |-> <<>>, recs |-> R]
<1>1. Len(R) \in Nat
  BY DEF IsSeq
<1>2. Divides(cut, Len(R), R)
  <2>1. cut \in [0 .. Len(R) -> Nat] /\ cut[0] = 0 /\ cut[Len(R)] = Len(R)
    BY <1>1
  <2>2. \A j \in 1 .. Len(R) : cut[j - 1] < cut[j]
    BY <1>1
  <2> QED
    BY <2>1, <2>2 DEF Divides
<1>3. \A j \in 1 .. Len(R) : IsTop(R[j], 0, R, cut[j - 1] + 1, cut[j], {})
  <2> TAKE j \in 1 .. Len(R)
  <2>1. cut[j - 1] + 1 = j
    BY <1>1
  <2> HIDE DEF cut
  <2> QED
    BY <2>1 DEF IsTop
<1>4. IsSeq(<<>>) /\ Len(<<>>) = 0
  BY DEF IsSeq
<1>5. IsTree(Numbered(<<>>, base), R, {})
  BY DEF IsTree
<1>6. level.nodes = <<>> /\ level.recs = R /\ \A j \in 0 .. Len(R) : cut[j] = j
  OBVIOUS
<1> HIDE DEF cut, level
<1>7. Climbed(0, level, R, base, cut, {})
  BY <1>1, <1>2, <1>3, <1>4, <1>5, <1>6 DEF Climbed
<1> QED
  BY <1>7 DEF level

\* The recursive definition of the levels has a function.
LEMMA LevelsExist ==
    ASSUME NEW recs, NEW base, NEW m \in Nat
    PROVE  \E level : AreLevels(level, m, recs, base)
<1> DEFINE Start == [nodes |-> <<>>, recs |-> recs]
           Step(below, n) == NextLevel(below, base, n = 1)
           P(k) == \E g : g = [n \in 0 .. k |-> IF n = 0 THEN Start ELSE Step(g[n - 1], n)]
           S == { k \in Nat : P(k) }
<1> HIDE DEF Step, Start
<1>1. P(0)
  <2> DEFINE g == [n \in 0 .. 0 |-> Start]
  <2>1. g = [n \in 0 .. 0 |-> IF n = 0 THEN Start ELSE Step(g[n - 1], n)]
    OBVIOUS
  <2> QED
    BY <2>1
<1>2. ASSUME NEW k \in Nat, P(k) PROVE P(k + 1)
  <2>1. PICK g : g = [n \in 0 .. k |-> IF n = 0 THEN Start ELSE Step(g[n - 1], n)]
    BY <1>2
  <2> DEFINE h == [n \in 0 .. k + 1 |-> IF n = 0 THEN Start ELSE Step(g[n - 1], n)]
  <2>2. \A n \in 0 .. k : h[n] = g[n]
    <3> TAKE n \in 0 .. k
    <3>1. h[n] = IF n = 0 THEN Start ELSE Step(g[n - 1], n)
      OBVIOUS
    <3>2. g[n] = IF n = 0 THEN Start ELSE Step(g[n - 1], n)
      BY <2>1
    <3> QED
      BY <3>1, <3>2
  <2>3. \A n \in 0 .. k + 1 : n = 0 \/ h[n - 1] = g[n - 1]
    <3> HIDE DEF h
    <3>1. \A n \in 0 .. k + 1 : n = 0 \/ n - 1 \in 0 .. k
      OBVIOUS
    <3> QED
      BY <2>2, <3>1
  <2>4. h = [n \in 0 .. k + 1 |-> IF n = 0 THEN Start ELSE Step(h[n - 1], n)]
    <3> HIDE DEF h
    <3>1. h = [n \in 0 .. k + 1 |-> IF n = 0 THEN Start ELSE Step(g[n - 1], n)]
      BY DEF h
    <3> QED
      BY <2>3, <3>1
  <2> QED
    BY <2>4
<1> HIDE DEF P
<1>3. S \in SUBSET Nat /\ 0 \in S /\ \A k \in Nat : k \in S => k + 1 \in S
  BY <1>1, <1>2
<1>4. S = Nat
  <2> HIDE DEF S
  <2> QED
    BY <1>3, Induction
<1> QED
  BY <1>4 DEF P, Start, Step, AreLevels

\* The levels are what their definition says.
LEMMA LevelsAre ==
    ASSUME NEW recs, NEW base
    PROVE  AreLevels(Levels(recs, base), MaxHeight, recs, base)
<1> DEFINE L == CHOOSE level : AreLevels(level, MaxHeight, recs, base)
<1>1. AreLevels(L, MaxHeight, recs, base)
  BY LevelsExist, BTreeAssumption
<1>2. Levels(recs, base) = L
  BY DEF Levels, AreLevels, NextLevel
<1> QED
  BY <1>1, <1>2

\* Every level stands on a tree.
LEMMA LevelsClimb ==
    ASSUME NEW R, IsSeq(R), Len(R) > 0, NEW base \in Nat
    PROVE  \A n \in 0 .. MaxHeight : \E cut, T : Climbed(n, Levels(R, base)[n], R, base, cut, T)
<1> DEFINE level == Levels(R, base)
           S == { n \in Nat : n <= MaxHeight =>
                                \E cut, T : Climbed(n, level[n], R, base, cut, T) }
<1>1. MaxHeight \in Nat
  BY BTreeAssumption
<1>2. /\ level[0] = [nodes |-> <<>>, recs |-> R]
      /\ \A n \in 1 .. MaxHeight : level[n] = NextLevel(level[n - 1], base, n = 1)
  <2> DEFINE Step(n) == IF n = 0 THEN [nodes |-> <<>>, recs |-> R]
                        ELSE NextLevel(level[n - 1], base, n = 1)
  <2>1. level = [n \in 0 .. MaxHeight |-> Step(n)]
    BY LevelsAre DEF AreLevels
  <2> HIDE DEF level, Step
  <2>2. \A n \in 0 .. MaxHeight : level[n] = Step(n)
    BY <2>1
  <2>3. Step(0) = [nodes |-> <<>>, recs |-> R]
    BY DEF Step
  <2>4. \A n \in 1 .. MaxHeight : Step(n) = NextLevel(level[n - 1], base, n = 1)
    BY DEF Step
  <2> QED
    BY <1>1, <2>2, <2>3, <2>4
<1> HIDE DEF level
<1>3. 0 \in S
  BY <1>2, ClimbStart
<1>4. ASSUME NEW n \in Nat, n \in S PROVE n + 1 \in S
  <2> SUFFICES ASSUME n + 1 <= MaxHeight
               PROVE  \E cut, T : Climbed(n + 1, level[n + 1], R, base, cut, T)
    OBVIOUS
  <2>1. PICK cut, T : Climbed(n, level[n], R, base, cut, T)
    BY <1>1, <1>4
  <2>2. \E cut1, T1 : Climbed(n + 1, NextLevel(level[n], base, n = 0), R, base, cut1, T1)
    BY <2>1, ClimbStep
  <2>3. n + 1 \in 1 .. MaxHeight /\ (n + 1) - 1 = n /\ (n + 1 = 1 <=> n = 0)
    BY <1>1
  <2>4. level[n + 1] = NextLevel(level[n], base, n + 1 = 1)
    BY <1>2, <2>3
  <2>5. (n + 1 = 1) = (n = 0)
    BY <2>3
  <2> QED
    BY <2>2, <2>4, <2>5
<1>5. S = Nat
  <2>1. S \in SUBSET Nat
    OBVIOUS
  <2> HIDE DEF S
  <2> QED
    BY <1>3, <1>4, <2>1, Induction
<1> QED
  BY <1>1, <1>5 DEF level

\* The nodes but the last, as their parents know them.
BelowRoot(nodes, base) == [o \in base + 1 .. base + Len(nodes) - 1 |-> nodes[o - base]]

\* The nodes of a tree over the records R, the last of them its root: the others
\* are a tree of their own, which the root need not be in.
IsGrown(nodes, R, base) ==
    /\ IsSeq(nodes) /\ Len(nodes) > 0
    /\ \A i \in 1 .. Len(nodes) : IsNode(nodes[i])
    /\ \E T : /\ IsTree(Numbered(nodes, base), R, T)
              /\ \E h \in 0 .. MaxHeight : <<h, base + Len(nodes), 1, Len(R)>> \in T
    /\ \E T : /\ IsTree(BelowRoot(nodes, base), R, T)
              /\ \E h \in 0 .. MaxHeight : Spans(nodes[Len(nodes)], h, R, 1, Len(R), T)

\* Grow gives a tree over its records, if they are not too many for its height.
LEMMA GrowIs ==
    ASSUME NEW R, IsSeq(R), Len(R) > 0, NEW base \in Nat, Grow(R, base) # <<>>
    PROVE  IsGrown(Grow(R, base), R, base)
<1> DEFINE H == Heights(R, base)
           h == Min(H)
           top == Levels(R, base)[h]
           next == NextLevel(top, base, h = 0)
<1>1. H # {} /\ Grow(R, base) = top.nodes \o NodesOf(top.recs, h = 0)
  BY DEF Grow
<1>2. h \in 0 .. MaxHeight /\ NodeCount(top.recs) = 1
  <2>1. H \in SUBSET Nat
    BY DEF Heights
  <2>2. h \in H
    BY <1>1, <2>1, Least
  <2> HIDE DEF h
  <2> QED
    BY <2>2 DEF Heights
<1>3. Grow(R, base) = next.nodes
  BY <1>1 DEF NextLevel
<1> HIDE DEF next, top, h
<1>4. PICK cut, T : Climbed(h, top, R, base, cut, T)
  BY <1>2, LevelsClimb DEF top
<1>5. h \in Nat
  BY <1>2
<1>6. PICK cut1, T1 :
              /\ Climbed(h + 1, next, R, base, cut1, T1)
              /\ \A i \in 1 .. NodeCount(top.recs) :
                    <<h, base + Len(top.nodes) + i, cut1[i - 1] + 1, cut1[i]>> \in T1
  BY <1>4, <1>5, ClimbStep DEF next
<1>7. Len(next.nodes) = Len(top.nodes) + 1 /\ Len(next.recs) = 1 /\ Len(top.nodes) \in Nat
  <2> DEFINE s == top.nodes
             t == NodesOf(top.recs, h = 0)
  <2>1. IsSeq(s) /\ Len(top.recs) \in Nat /\ Len(s) \in Nat
    BY <1>4 DEF Climbed, IsSeq
  <2>2. IsSeq(t) /\ Len(t) = 1 /\ Len(Parents(top.recs, base + Len(s))) = 1
    BY <1>2, <2>1, NodesAre
  <2>3. next.nodes = s \o t /\ next.recs = Parents(top.recs, base + Len(s))
    BY DEF next, NextLevel
  <2> HIDE DEF s, t
  <2>4. Len(s \o t) = Len(s) + Len(t)
    BY <2>1, <2>2, Concatenation
  <2> QED
    BY <2>1, <2>2, <2>3, <2>4 DEF s
<1>8. <<h, base + Len(next.nodes), 1, Len(R)>> \in T1
  <2>1. cut1[0] = 0 /\ cut1[1] = Len(R)
    BY <1>6, <1>7 DEF Climbed, Divides
  <2>2. <<h, base + Len(top.nodes) + 1, cut1[1 - 1] + 1, cut1[1]>> \in T1
    BY <1>2, <1>6
  <2>3. base + Len(top.nodes) + 1 = base + Len(next.nodes) /\ 1 - 1 = 0
    BY <1>7
  <2> QED
    BY <2>1, <2>2, <2>3
<1>9. /\ IsSeq(next.nodes)
      /\ \A i \in 1 .. Len(next.nodes) : IsNode(next.nodes[i])
      /\ IsTree(Numbered(next.nodes, base), R, T1)
  BY <1>6 DEF Climbed
<1>10. Len(next.nodes) > 0
  BY <1>7
<1>11. /\ IsTree(BelowRoot(next.nodes, base), R, T)
       /\ Spans(next.nodes[Len(next.nodes)], h, R, 1, Len(R), T)
  <2> DEFINE s == top.nodes
             t == NodesOf(top.recs, h = 0)
  <2>1. IsSeq(s) /\ Len(top.recs) \in Nat /\ Len(s) \in Nat
    BY <1>4 DEF Climbed, IsSeq
  <2>2. IsSeq(t) /\ Len(t) = 1 /\ t[1] = Node(h = 0, Page(top.recs, 1))
    <3>1. t = [i \in 1 .. 1 |-> Node(h = 0, Page(top.recs, i))]
      BY <1>2 DEF NodesOf
    <3>2. IsSeq(t) /\ Len(t) = 1
      BY <1>2, <2>1, NodesAre
    <3> QED
      BY <3>1, <3>2
  <2>3. next.nodes = s \o t
    BY DEF next, NextLevel
  <2>4. EndOf(top.recs, 1 - 1) = 0 /\ EndOf(top.recs, 1) = Len(top.recs)
    BY <1>2, ApfsVolumeAssumption DEF EndOf
  <2>5. cut[0] = 0 /\ cut[Len(top.recs)] = Len(R)
    BY <1>4 DEF Climbed, Divides
  <2> DEFINE node == t[1]
             i == 1
             lo == cut[EndOf(top.recs, i - 1)] + 1
             hi == cut[EndOf(top.recs, i)]
  <2>6. Spans(node, h, R, 1, Len(R), T)
    <3>1. i \in 1 .. NodeCount(top.recs) /\ node = Node(h = 0, Page(top.recs, i))
      BY <1>2, <2>2
    <3>2. lo = 1 /\ hi = Len(R)
      BY <2>4, <2>5
    <3>3. lo = cut[EndOf(top.recs, i - 1)] + 1 /\ hi = cut[EndOf(top.recs, i)]
      OBVIOUS
    <3> HIDE DEF i, lo, hi, node
    <3>4. Spans(node, h, R, lo, hi, T)
      BY <1>4, <1>5, <3>1, <3>3, NewNode
    <3> QED
      BY <3>2, <3>4
  <2> HIDE DEF s, t
  <2>10. /\ Len(s \o t) = Len(s) + Len(t)
         /\ \A k \in 1 .. Len(s) : (s \o t)[k] = s[k]
         /\ \A k \in 1 .. Len(t) : (s \o t)[Len(s) + k] = t[k]
    <3>1. IsSeq(s) /\ IsSeq(t)
      BY <2>1, <2>2
    <3>2. Len(s \o t) = Len(s) + Len(t)
      BY <3>1, Concatenation
    <3>3. \A k \in 1 .. Len(s) : (s \o t)[k] = s[k]
      BY <3>1, Concatenation
    <3>4. \A k \in 1 .. Len(t) : (s \o t)[Len(s) + k] = t[k]
      BY <3>1, Concatenation
    <3> QED
      BY <3>2, <3>3, <3>4
  <2>7. /\ Len(s \o t) = Len(s) + 1
        /\ \A k \in 1 .. Len(s) : (s \o t)[k] = s[k]
        /\ (s \o t)[Len(s) + 1] = t[1]
    BY <2>2, <2>10
  <2>8. BelowRoot(next.nodes, base) = Numbered(s, base)
    <3>1. base + Len(s \o t) - 1 = base + Len(s)
      BY <2>1, <2>7
    <3>2. \A o \in base + 1 .. base + Len(s) : o - base \in 1 .. Len(s)
      BY <2>1
    <3> QED
      BY <2>3, <2>7, <3>1, <3>2 DEF BelowRoot, Numbered
  <2>9. IsTree(Numbered(s, base), R, T)
    BY <1>4 DEF Climbed, s
  <2> QED
    BY <2>3, <2>6, <2>7, <2>8, <2>9
<1>12. IsGrown(next.nodes, R, base)
  BY <1>2, <1>8, <1>9, <1>10, <1>11 DEF IsGrown
<1> QED
  BY <1>3, <1>12
-----------------------------------------------------------------------------
(***************************************************************************)
(* The records of a tree in order.                                          *)
(***************************************************************************)
IsFullKey(key) == IsKey(key) /\ key.sub \in Nat

\* Records no two of which have the same key.
AreRecords(recs) ==
    /\ IsFiniteSet(recs)
    /\ \A r \in recs : r = [key |-> r.key, val |-> r.val] /\ IsFullKey(r.key)
    /\ \A q, r \in recs : Same(q.key, r.key) /\ q.key.sub = r.key.sub => q = r

Enumerates(R, recs) ==
    /\ IsSeq(R) /\ Len(R) = Cardinality(recs) /\ Cardinality(recs) \in Nat
    /\ \A i \in 1 .. Len(R) : R[i] \in recs
    /\ \A r \in recs : \E i \in 1 .. Len(R) : R[i] = r
    /\ \A i, j \in 1 .. Len(R) : i < j => Precedes(R[i].key, R[j].key)

\* The order of the keys is one.
LEMMA PrecedesFacts ==
    ASSUME NEW k, NEW l, NEW m, IsFullKey(k), IsFullKey(l), IsFullKey(m)
    PROVE  /\ ~Precedes(k, k)
           /\ Precedes(k, l) /\ Precedes(l, m) => Precedes(k, m)
           /\ Precedes(k, l) \/ Precedes(l, k) \/ (Same(k, l) /\ k.sub = l.sub)
           /\ Precedes(k, l) => ~Before(l, k)
  BY DEF IsFullKey, IsKey, Precedes, Before, Same

\* InOrder gives the records, each once and in order.
LEMMA InOrderIs ==
    ASSUME NEW recs, AreRecords(recs)
    PROVE  Enumerates(InOrder(recs), recs) /\ Sorted(InOrder(recs))
<1> DEFINE less == { p \in recs \X recs : Precedes(p[1].key, p[2].key) }
           R == InOrder(recs)
<1>1. \A q, r \in recs : <<q, r>> \in less <=> Precedes(q.key, r.key)
  OBVIOUS
<1>2. \A r \in recs : Rank(recs, less, r)
                      = Cardinality({ q \in recs : Precedes(q.key, r.key) })
  <2> TAKE r \in recs
  <2>1. { q \in recs : <<q, r>> \in less } = { q \in recs : Precedes(q.key, r.key) }
    OBVIOUS
  <2> QED
    BY <2>1 DEF Rank
<1> HIDE DEF less
<1>3. Orders(less, recs)
  <2>1. \A r \in recs : IsFullKey(r.key)
    BY DEF AreRecords
  <2>2. \A q, r \in recs : Same(q.key, r.key) /\ q.key.sub = r.key.sub => q = r
    BY DEF AreRecords
  <2>3. \A x \in recs : <<x, x>> \notin less
    BY <1>1, <2>1, PrecedesFacts
  <2>4. \A x, y, z \in recs : <<x, y>> \in less /\ <<y, z>> \in less => <<x, z>> \in less
    BY <1>1, <2>1, PrecedesFacts
  <2>5. \A x, y \in recs : x = y \/ <<x, y>> \in less \/ <<y, x>> \in less
    BY <1>1, <2>1, <2>2, PrecedesFacts
  <2> QED
    BY <2>3, <2>4, <2>5 DEF Orders
<1>4. R = ByRank(recs, less)
  <2>1. \A i : (CHOOSE r \in recs : Cardinality({ q \in recs : Precedes(q.key, r.key) }) = i - 1)
               = (CHOOSE r \in recs : Rank(recs, less, r) = i - 1)
    <3> TAKE i
    <3>1. \A r : r \in recs /\ Cardinality({ q \in recs : Precedes(q.key, r.key) }) = i - 1
                 <=> r \in recs /\ Rank(recs, less, r) = i - 1
      BY <1>2
    <3> QED
      BY <3>1
  <2>2. InOrder(recs) = [i \in 1 .. Cardinality(recs) |->
            CHOOSE r \in recs : Cardinality({ q \in recs : Precedes(q.key, r.key) }) = i - 1]
    BY DEF InOrder
  <2> QED
    BY <2>1, <2>2, Zenon DEF ByRank
<1>5. /\ Cardinality(recs) \in Nat
      /\ R \in Seq(recs) /\ Len(R) = Cardinality(recs)
      /\ \A i, j \in DOMAIN R : i < j => <<R[i], R[j]>> \in less
      /\ \A x \in recs : \E i \in DOMAIN R : R[i] = x
  BY <1>3, <1>4, Enumeration DEF AreRecords
<1> HIDE DEF R
<1>6. IsSeq(R) /\ DOMAIN R = 1 .. Len(R) /\ \A i \in 1 .. Len(R) : R[i] \in recs
  BY <1>5, SeqFacts
<1>7. \A i, j \in 1 .. Len(R) : i < j => Precedes(R[i].key, R[j].key)
  BY <1>1, <1>5, <1>6
<1>8. Enumerates(R, recs)
  BY <1>5, <1>6, <1>7 DEF Enumerates
<1>9. Sorted(R)
  <2>1. R \in Seq({ R[i] : i \in DOMAIN R })
    BY <1>6, SeqFacts
  <2>2. \A i \in 1 .. Len(R) : /\ R[i] = [key |-> R[i].key, val |-> R[i].val]
                               /\ IsKey(R[i].key) /\ IsFullKey(R[i].key)
    BY <1>6 DEF AreRecords, IsFullKey
  <2>3. \A i, j \in 1 .. Len(R) : i < j => ~Before(R[j].key, R[i].key)
    BY <1>7, <2>2, PrecedesFacts
  <2> QED
    BY <1>6, <2>1, <2>2, <2>3 DEF Sorted
<1> QED
  BY <1>8, <1>9 DEF R
-----------------------------------------------------------------------------
(***************************************************************************)
(* An object map as it stands on a disk.                                    *)
(***************************************************************************)
HoldsOmap(d, root, recs, from, to) ==
    /\ root \in from .. to
    /\ IsNode(d[root])
    /\ \E tree, R, T : /\ IsOmap(d, root, tree, R, T)
                       /\ Enumerates(R, recs)
                       /\ DOMAIN tree \subseteq from .. to

\* A tree over mappings, written to a disk, is an object map.
LEMMA GrownIsOmap ==
    ASSUME NEW recs, AreRecords(recs), recs # {}, \A r \in recs : r.key.type = OmapType,
           NEW base \in Nat, NEW d, NEW nodes, nodes = Grow(InOrder(recs), base), nodes # <<>>,
           \A i \in 1 .. Len(nodes) : d[base + i] = nodes[i]
    PROVE  HoldsOmap(d, base + Len(nodes), recs, base + 1, base + Len(nodes))
<1> DEFINE R == InOrder(recs)
           tree == Numbered(nodes, base)
           root == base + Len(nodes)
<1>1. Enumerates(R, recs) /\ Sorted(R)
  BY InOrderIs
<1>2. IsSeq(R) /\ Len(R) > 0
  BY <1>1, FS_EmptySet DEF Enumerates, AreRecords
<1> HIDE DEF R
<1>3. IsGrown(nodes, R, base)
  BY <1>2, GrowIs DEF R
<1>4. PICK T : /\ IsTree(tree, R, T)
               /\ \E h \in 0 .. MaxHeight : <<h, root, 1, Len(R)>> \in T
  BY <1>3 DEF IsGrown
<1>5. Len(nodes) \in Nat /\ Len(nodes) > 0 /\ \A i \in 1 .. Len(nodes) : IsNode(nodes[i])
  BY <1>3 DEF IsGrown, IsSeq
<1>6. /\ DOMAIN tree = base + 1 .. root
      /\ \A o \in DOMAIN tree : tree[o] = nodes[o - base]
  BY DEF Numbered
<1>7. \A o \in DOMAIN tree : o \in Nat /\ d[o] = tree[o]
  <2> SUFFICES ASSUME NEW o \in DOMAIN tree PROVE o \in Nat /\ d[o] = tree[o]
    OBVIOUS
  <2> HIDE DEF tree
  <2>1. o - base \in 1 .. Len(nodes) /\ base + (o - base) = o /\ o \in Nat
    BY <1>5, <1>6
  <2>2. d[base + (o - base)] = nodes[o - base]
    BY <2>1
  <2> QED
    BY <1>6, <2>1, <2>2
<1>8. root \in Nat /\ root \in base + 1 .. root
  BY <1>5
<1>9. IsNode(d[root])
  BY <1>5
<1> HIDE DEF tree, root
<1>10. IsOmap(d, root, tree, R, T)
  <2>1. \A b \in DOMAIN tree : Holds(d, b, tree[b])
    BY <1>7 DEF Holds
  <2>2. \A i \in DOMAIN R : R[i].key.type = OmapType
    BY <1>1, SortedFacts DEF Enumerates
  <2> QED
    BY <1>1, <1>4, <1>7, <1>8, <2>1, <2>2 DEF IsOmap
<1>11. HoldsOmap(d, root, recs, base + 1, root)
  BY <1>1, <1>6, <1>8, <1>9, <1>10 DEF HoldsOmap
<1> QED
  BY <1>11 DEF root
-----------------------------------------------------------------------------
(***************************************************************************)
(* What a content is on a disk: the records of its catalog.                *)
(***************************************************************************)
\* The image of a finite set is finite.
LEMMA FiniteImage ==
    ASSUME NEW S, IsFiniteSet(S), NEW f, DOMAIN f = S
    PROVE  IsFiniteSet({ f[x] : x \in S })
<1> DEFINE T == { f[x] : x \in S }
           g == [x \in S |-> f[x]]
<1>1. g \in [S -> T]
  OBVIOUS
<1>2. \A t \in T : \E x \in S : g[x] = t
  OBVIOUS
<1> HIDE DEF T, g
<1>3. g \in Surjection(S, T)
  BY <1>1, <1>2, Fun_IsSurj
<1> QED
  BY <1>3, FS_Surjection DEF T

\* What a content has.
LEMMA ContentFacts ==
    ASSUME NEW c, IsContent(c)
    PROVE  /\ IsFiniteSet(DOMAIN c.inodes) /\ IsFiniteSet(DOMAIN c.drecs)
           /\ DOMAIN c.inodes \subseteq Nat
           /\ \A oid \in DOMAIN c.inodes : /\ IsSeq(c.inodes[oid].extents)
                                           /\ Len(c.inodes[oid].extents) \in Nat
           /\ \A e \in DOMAIN c.drecs : /\ e = <<e[1], e[2]>>
                                        /\ e[1] \in Nat /\ e[2] \in Nat
                                        /\ c.drecs[e] \in DOMAIN c.inodes
<1>1. IsFiniteSet(FileIds) /\ FileIds \subseteq Nat /\ IsFiniteSet(Names) /\ Names \subseteq Nat
      /\ RootDir \in Nat
  BY ApfsVolumeAssumption DEF RootDir
<1>2. IsFiniteSet({RootDir} \cup FileIds)
  BY <1>1, FS_Singleton, FS_Union
<1>3. DOMAIN c.inodes \in SUBSET ({RootDir} \cup FileIds)
  BY DEF IsContent
<1>4. IsFiniteSet(DOMAIN c.inodes) /\ DOMAIN c.inodes \subseteq Nat
  BY <1>1, <1>2, <1>3, FS_Subset
<1>5. DOMAIN c.drecs \in SUBSET ((DOMAIN c.inodes) \X Names)
  BY DEF IsContent, Dirs
<1>6. IsFiniteSet(DOMAIN c.drecs)
  BY <1>1, <1>4, <1>5, FS_Product, FS_Subset
<1>7. ASSUME NEW oid \in DOMAIN c.inodes
      PROVE  IsSeq(c.inodes[oid].extents) /\ Len(c.inodes[oid].extents) \in Nat
  <2>1. c.inodes[oid].extents \in Seq(FileExtents)
    BY DEF IsContent
  <2> QED
    BY <2>1, SeqFacts
<1>8. ASSUME NEW e \in DOMAIN c.drecs
      PROVE  e = <<e[1], e[2]>> /\ e[1] \in Nat /\ e[2] \in Nat /\ c.drecs[e] \in DOMAIN c.inodes
  BY <1>1, <1>4, <1>5 DEF IsContent
<1> QED
  BY <1>4, <1>6, <1>7, <1>8

\* No two files have the same data stream.
LEMMA PrivateIsPrivate ==
    ASSUME NEW a \in Nat, NEW b \in Nat
    PROVE  /\ Private(a) \in Nat
           /\ Private(a) = Private(b) => a = b
<1>1. \A n \in Nat : (n + 50) % 2 = n % 2
  OBVIOUS
<1>2. \A n \in Nat : Private(n) \in Nat /\ Private(n) % 2 = n % 2
  BY <1>1 DEF Private
<1>3. Private(a) = Private(b) => a % 2 = b % 2
  BY <1>2
<1> QED
  BY <1>2, <1>3 DEF Private

\* The three kinds of records of a catalog.
InodeRec(c, oid) ==
    [key |-> FullKey(oid, InodeType, 0),
     val |-> InodeVal(c.inodes[oid].kind, Private(oid), Len(c.inodes[oid].extents))]

ExtentRec(c, oid, i) ==
    [key |-> FullKey(Private(oid), ExtentType, i - 1), val |-> c.inodes[oid].extents[i]]

DirRec(c, e) ==
    [key |-> FullKey(e[1], DirRecType, e[2]),
     val |-> DrecVal(c.drecs[e], c.inodes[c.drecs[e]].kind)]

InodeRecs(c) == { InodeRec(c, oid) : oid \in DOMAIN c.inodes }
ExtentRecs(c) ==
    UNION { { ExtentRec(c, oid, i) : i \in DOMAIN c.inodes[oid].extents } : oid \in DOMAIN c.inodes }
DirRecs(c) == { DirRec(c, e) : e \in DOMAIN c.drecs }

IsRec(r, oid, type, sub) ==
    /\ r = [key |-> r.key, val |-> r.val]
    /\ IsFullKey(r.key)
    /\ r.key.oid = oid /\ r.key.type = type /\ r.key.sub = sub

\* The keys of the three kinds of records.
LEMMA RecFacts ==
    ASSUME NEW key, NEW val, NEW oid \in Nat, NEW type \in Nat, NEW sub \in Nat,
           key = FullKey(oid, type, sub)
    PROVE  IsRec([key |-> key, val |-> val], oid, type, sub)
  BY DEF IsRec, FullKey, IsFullKey, IsKey

\* CatalogRecords in three parts.
LEMMA CatalogRecs ==
    ASSUME NEW c
    PROVE  CatalogRecords(c) = InodeRecs(c) \cup ExtentRecs(c) \cup DirRecs(c)
  BY DEF CatalogRecords, InodeRecs, ExtentRecs, DirRecs, InodeRec, ExtentRec, DirRec

\* A catalog has finitely many records,
LEMMA CatalogRecordsFinite ==
    ASSUME NEW c, IsContent(c)
    PROVE  IsFiniteSet(CatalogRecords(c))
<1> DEFINE Dom == DOMAIN c.inodes
<1>1. /\ IsFiniteSet(Dom) /\ IsFiniteSet(DOMAIN c.drecs)
      /\ \A oid \in Dom : /\ IsSeq(c.inodes[oid].extents)
                          /\ Len(c.inodes[oid].extents) \in Nat
  BY ContentFacts
<1>2. IsFiniteSet(InodeRecs(c))
  <2> DEFINE f == [oid \in Dom |-> InodeRec(c, oid)]
  <2>1. DOMAIN f = Dom /\ InodeRecs(c) = { f[oid] : oid \in Dom }
    BY DEF InodeRecs
  <2> HIDE DEF f
  <2> QED
    BY <1>1, <2>1, FiniteImage
<1>3. IsFiniteSet(DirRecs(c))
  <2> DEFINE f == [e \in DOMAIN c.drecs |-> DirRec(c, e)]
  <2>1. DOMAIN f = DOMAIN c.drecs /\ DirRecs(c) = { f[e] : e \in DOMAIN c.drecs }
    BY DEF DirRecs
  <2> HIDE DEF f
  <2> QED
    BY <1>1, <2>1, FiniteImage
<1>4. IsFiniteSet(ExtentRecs(c))
  <2> DEFINE f == [oid \in Dom |->
                      { ExtentRec(c, oid, i) : i \in DOMAIN c.inodes[oid].extents }]
  <2>1. DOMAIN f = Dom /\ ExtentRecs(c) = UNION { f[oid] : oid \in Dom }
    BY DEF ExtentRecs
  <2>2. ASSUME NEW oid \in Dom PROVE IsFiniteSet(f[oid])
    <3> DEFINE n == Len(c.inodes[oid].extents)
               g == [i \in 1 .. n |-> ExtentRec(c, oid, i)]
    <3>1. n \in Nat /\ DOMAIN c.inodes[oid].extents = 1 .. n
      BY <1>1 DEF IsSeq
    <3>2. f[oid] = { g[i] : i \in 1 .. n } /\ DOMAIN g = 1 .. n
      BY <3>1
    <3> HIDE DEF f, n, g
    <3> DEFINE D == 1 .. n
    <3>3. 1 \in Int /\ n \in Int
      BY <3>1
    <3>4. IsFiniteSet(1 .. n)
      BY <3>3, FS_Interval
    <3>5. IsFiniteSet(D) /\ DOMAIN g = D
      BY <3>2, <3>4
    <3>6. f[oid] = { g[i] : i \in D }
      BY <3>2
    <3> HIDE DEF D
    <3>7. IsFiniteSet({ g[i] : i \in D })
      BY <3>5, FiniteImage
    <3> QED
      BY <3>6, <3>7
  <2> HIDE DEF f
  <2>3. IsFiniteSet({ f[oid] : oid \in Dom })
    BY <1>1, <2>1, FiniteImage
  <2>4. \A S \in { f[oid] : oid \in Dom } : IsFiniteSet(S)
    BY <2>2
  <2> QED
    BY <2>1, <2>3, <2>4, FS_UNION
<1> QED
  BY <1>2, <1>3, <1>4, FS_Union, CatalogRecs

\* no two of which have the same key,
LEMMA CatalogKeys ==
    ASSUME NEW c, IsContent(c)
    PROVE  /\ \A oid \in DOMAIN c.inodes :
                 /\ oid \in Nat /\ IsRec(InodeRec(c, oid), oid, InodeType, 0)
                 /\ \A i \in DOMAIN c.inodes[oid].extents :
                       i \in Nat /\ IsRec(ExtentRec(c, oid, i), Private(oid), ExtentType, i - 1)
           /\ \A e \in DOMAIN c.drecs :
                 e = <<e[1], e[2]>> /\ IsRec(DirRec(c, e), e[1], DirRecType, e[2])
<1>1. ASSUME NEW oid \in DOMAIN c.inodes
      PROVE  oid \in Nat /\ IsRec(InodeRec(c, oid), oid, InodeType, 0)
  <2>1. oid \in Nat /\ 0 \in Nat /\ InodeType \in Nat
    BY ContentFacts DEF InodeType
  <2> QED
    BY <2>1, RecFacts DEF InodeRec
<1>2. ASSUME NEW oid \in DOMAIN c.inodes, NEW i \in DOMAIN c.inodes[oid].extents
      PROVE  i \in Nat /\ IsRec(ExtentRec(c, oid, i), Private(oid), ExtentType, i - 1)
  <2>1. oid \in Nat /\ IsSeq(c.inodes[oid].extents)
    BY ContentFacts
  <2>2. i \in Nat /\ i - 1 \in Nat
    BY <2>1 DEF IsSeq
  <2>3. Private(oid) \in Nat /\ ExtentType \in Nat
    BY <2>1, PrivateIsPrivate DEF ExtentType
  <2> QED
    BY <2>2, <2>3, RecFacts DEF ExtentRec
<1>3. ASSUME NEW e \in DOMAIN c.drecs
      PROVE  e = <<e[1], e[2]>> /\ IsRec(DirRec(c, e), e[1], DirRecType, e[2])
  <2>1. e = <<e[1], e[2]>> /\ e[1] \in Nat /\ e[2] \in Nat /\ DirRecType \in Nat
    BY ContentFacts DEF DirRecType
  <2> QED
    BY <2>1, RecFacts DEF DirRec
<1> QED
  BY <1>1, <1>2, <1>3

\* and which can therefore be put in order.
LEMMA CatalogRecordsAre ==
    ASSUME NEW c, IsContent(c)
    PROVE  AreRecords(CatalogRecords(c)) /\ CatalogRecords(c) # {}
<1> DEFINE A == InodeRecs(c)
           B == ExtentRecs(c)
           C == DirRecs(c)
<1>1. /\ \A r \in A : \E oid \in DOMAIN c.inodes :
             r = InodeRec(c, oid) /\ IsRec(r, oid, InodeType, 0)
      /\ \A r \in C : \E e \in DOMAIN c.drecs :
             /\ r = DirRec(c, e) /\ IsRec(r, e[1], DirRecType, e[2])
             /\ e = <<e[1], e[2]>>
  BY CatalogKeys DEF InodeRecs, DirRecs
<1>2. \A r \in B : \E oid \in DOMAIN c.inodes : \E i \in DOMAIN c.inodes[oid].extents :
          /\ r = ExtentRec(c, oid, i) /\ IsRec(r, Private(oid), ExtentType, i - 1)
          /\ i \in Nat /\ oid \in Nat
  BY CatalogKeys DEF ExtentRecs
<1>3. InodeType # ExtentType /\ InodeType # DirRecType /\ ExtentType # DirRecType
  BY DEF InodeType, ExtentType, DirRecType
<1> HIDE DEF A, B, C
<1>4. \A r \in A \cup B \cup C : r = [key |-> r.key, val |-> r.val] /\ IsFullKey(r.key)
  BY <1>1, <1>2 DEF IsRec
<1>5. /\ \A r \in A : r.key.type = InodeType
      /\ \A r \in B : r.key.type = ExtentType
      /\ \A r \in C : r.key.type = DirRecType
  BY <1>1, <1>2 DEF IsRec
<1>6. \A q, r \in A : Same(q.key, r.key) => q = r
  BY <1>1 DEF Same, IsRec
<1>7. \A q, r \in C : Same(q.key, r.key) /\ q.key.sub = r.key.sub => q = r
  <2> SUFFICES ASSUME NEW q \in C, NEW r \in C, Same(q.key, r.key), q.key.sub = r.key.sub
               PROVE  q = r
    OBVIOUS
  <2>1. PICK e \in DOMAIN c.drecs : /\ q = DirRec(c, e) /\ IsRec(q, e[1], DirRecType, e[2])
                                    /\ e = <<e[1], e[2]>>
    BY <1>1
  <2>2. PICK f \in DOMAIN c.drecs : /\ r = DirRec(c, f) /\ IsRec(r, f[1], DirRecType, f[2])
                                    /\ f = <<f[1], f[2]>>
    BY <1>1
  <2>3. e[1] = f[1] /\ e[2] = f[2]
    BY <2>1, <2>2 DEF Same, IsRec
  <2> QED
    BY <2>1, <2>2, <2>3
<1>8. \A q, r \in B : Same(q.key, r.key) /\ q.key.sub = r.key.sub => q = r
  <2> SUFFICES ASSUME NEW q \in B, NEW r \in B, Same(q.key, r.key), q.key.sub = r.key.sub
               PROVE  q = r
    OBVIOUS
  <2>1. PICK a \in DOMAIN c.inodes : \E i \in DOMAIN c.inodes[a].extents :
          /\ q = ExtentRec(c, a, i) /\ IsRec(q, Private(a), ExtentType, i - 1)
          /\ i \in Nat /\ a \in Nat
    BY <1>2
  <2>2. PICK i \in DOMAIN c.inodes[a].extents :
          /\ q = ExtentRec(c, a, i) /\ IsRec(q, Private(a), ExtentType, i - 1)
          /\ i \in Nat /\ a \in Nat
    BY <2>1
  <2>3. PICK b \in DOMAIN c.inodes : \E j \in DOMAIN c.inodes[b].extents :
          /\ r = ExtentRec(c, b, j) /\ IsRec(r, Private(b), ExtentType, j - 1)
          /\ j \in Nat /\ b \in Nat
    BY <1>2
  <2>4. PICK j \in DOMAIN c.inodes[b].extents :
          /\ r = ExtentRec(c, b, j) /\ IsRec(r, Private(b), ExtentType, j - 1)
          /\ j \in Nat /\ b \in Nat
    BY <2>3
  <2>5. Private(a) = Private(b) /\ i - 1 = j - 1
    BY <2>2, <2>4 DEF Same, IsRec
  <2>6. a = b /\ i = j
    BY <2>2, <2>4, <2>5, PrivateIsPrivate
  <2> QED
    BY <2>2, <2>4, <2>6
<1>9. \A q, r \in A \cup B \cup C : Same(q.key, r.key) /\ q.key.sub = r.key.sub => q = r
  BY <1>3, <1>5, <1>6, <1>7, <1>8 DEF Same
<1>10. CatalogRecords(c) = A \cup B \cup C /\ IsFiniteSet(CatalogRecords(c))
  BY CatalogRecs, CatalogRecordsFinite DEF A, B, C
<1>11. A # {}
  BY DEF A, InodeRecs, IsContent, Dirs
<1> QED
  BY <1>4, <1>9, <1>10, <1>11 DEF AreRecords
-----------------------------------------------------------------------------
(***************************************************************************)
(* What a transaction writes: the nodes of the catalog that changed, and the*)
(* object map that leads to them.                                          *)
(***************************************************************************)
\* What the nodes of a catalog are, by object.
AreNodes(nodes) ==
    /\ IsFiniteSet(DOMAIN nodes) /\ DOMAIN nodes \subseteq Nat
    /\ RootTreeOid \in DOMAIN nodes
    /\ \A o \in DOMAIN nodes : IsNode(nodes[o])

\* The nodes of a catalog, its root being the one that a volume leads to.
LEMMA CatalogNodesAre ==
    ASSUME NEW c, IsContent(c), DOMAIN CatalogNodes(c) # {}
    PROVE  AreNodes(CatalogNodes(c))
<1> DEFINE R == InOrder(CatalogRecords(c))
           nodes == Grow(R, RootTreeOid)
           N == Len(nodes)
           place(oid) == IF oid = RootTreeOid THEN N ELSE oid - RootTreeOid
<1>1. CatalogNodes(c) = [oid \in RootTreeOid .. RootTreeOid + N - 1 |-> nodes[place(oid)]]
  BY DEF CatalogNodes
<1>2. IsSeq(R) /\ Len(R) > 0
  <2>1. Enumerates(R, CatalogRecords(c)) /\ CatalogRecords(c) # {}
        /\ IsFiniteSet(CatalogRecords(c))
    BY CatalogRecordsAre, InOrderIs DEF AreRecords
  <2> HIDE DEF R
  <2> QED
    BY <2>1, FS_EmptySet DEF Enumerates
<1>3. RootTreeOid = 100
  BY DEF RootTreeOid
<1> HIDE DEF R
<1>4. nodes # <<>>
  <2> SUFFICES ASSUME nodes = <<>> PROVE FALSE
    OBVIOUS
  <2>1. N = 0
    OBVIOUS
  <2> HIDE DEF nodes, N
  <2>2. DOMAIN CatalogNodes(c) = 100 .. 99
    BY <1>1, <1>3, <2>1
  <2> QED
    BY <2>2
<1>5. IsGrown(nodes, R, RootTreeOid)
  BY <1>2, <1>3, <1>4, GrowIs
<1> HIDE DEF nodes
<1>6. N \in Nat /\ N > 0 /\ \A i \in 1 .. N : IsNode(nodes[i])
  BY <1>5 DEF IsGrown, IsSeq
<1> HIDE DEF N
<1>7. DOMAIN CatalogNodes(c) = 100 .. 100 + N - 1
  BY <1>1, <1>3
<1>8. ASSUME NEW o \in DOMAIN CatalogNodes(c) PROVE IsNode(CatalogNodes(c)[o])
  <2>1. place(o) \in 1 .. N
    BY <1>3, <1>6, <1>7
  <2>2. CatalogNodes(c)[o] = nodes[place(o)]
    BY <1>1, <1>3, <1>7
  <2> HIDE DEF place
  <2> QED
    BY <1>6, <2>1, <2>2
<1>9. IsFiniteSet(100 .. 100 + N - 1)
  <2>1. 100 \in Int /\ 100 + N - 1 \in Int
    BY <1>6
  <2> QED
    BY <2>1, FS_Interval
<1>10. 100 \in 100 .. 100 + N - 1 /\ 100 .. 100 + N - 1 \subseteq Nat
  BY <1>6
<1> QED
  BY <1>3, <1>7, <1>8, <1>9, <1>10 DEF AreNodes
-----------------------------------------------------------------------------
(***************************************************************************)
(* The mappings of a state, and the blocks that they lead to.               *)
(***************************************************************************)
AreMaps(free, maps, x) ==
    /\ AreRecords(maps)
    /\ \A m \in maps : /\ m.key.type = OmapType
                       /\ m.key.sub <= x
                       /\ m.val \in FirstFree .. free - 1

Lead(d, maps) == \A m \in maps : IsNode(d[m.val])

\* The newest mapping of each node of the catalog leads to it.
Places(d, nodes, newest) ==
    /\ \A m \in newest : m.key.oid \in DOMAIN nodes /\ d[m.val] = nodes[m.key.oid]
    /\ \A o \in DOMAIN nodes : \E m \in newest : m.key.oid = o
    /\ \A m, n \in newest : m.key.oid = n.key.oid => m = n

IsFree(d, free) ==
    /\ free \in Nat /\ FirstFree <= free
    /\ FirstFree .. free - 1 \subseteq DOMAIN d

MapsTo(d, s, x) ==
    /\ IsFree(d, s.free)
    /\ AreMaps(s.free, s.newest \cup s.maps, x)
    /\ Lead(d, s.newest \cup s.maps)
    /\ Places(d, s.nodes, s.newest)

\* e has the blocks of d below the first that is free.
Keeps(e, d, free) == \A b \in FirstFree .. free - 1 : b \in DOMAIN e /\ e[b] = d[b]

\* e has the blocks of a sequence, from a block on.
HasLaid(e, blocks, from) ==
    \A i \in 1 .. Len(blocks) : from + i - 1 \in DOMAIN e /\ e[from + i - 1] = blocks[i]

\* Some of the records of a tree could be those of a tree.
LEMMA RecordSubset ==
    ASSUME NEW recs, AreRecords(recs), NEW some \in SUBSET recs
    PROVE  AreRecords(some)
  BY FS_Subset DEF AreRecords

\* Some of the mappings of a state.
LEMMA SomeMaps ==
    ASSUME NEW free, NEW x, NEW maps, AreMaps(free, maps, x), NEW some \in SUBSET maps
    PROVE  AreMaps(free, some, x)
  BY RecordSubset DEF AreMaps

\* Mappings with the next transaction, besides those that there were.
LEMMA RecordUnion ==
    ASSUME NEW A, NEW B, AreRecords(A), AreRecords(B), NEW x \in Nat,
           \A m \in A : m.key.sub <= x, \A m \in B : m.key.sub = x + 1
    PROVE  AreRecords(A \cup B)
<1>1. IsFiniteSet(A \cup B)
  BY FS_Union DEF AreRecords
<1>2. \A m \in A : m.key.sub # x + 1
  BY DEF AreRecords, IsFullKey
<1> QED
  BY <1>1, <1>2 DEF AreRecords

\* Before the first transaction there is nothing.
LEMMA NoStateMaps ==
    ASSUME NEW d
    PROVE  MapsTo(d, NoState, 0)
<1>1. NoState.free = 5 /\ NoState.newest \cup NoState.maps = {} /\ NoState.newest = {}
      /\ NoState.nodes = <<>>
  BY DEF NoState, FirstFree, DescBase, DescBlocks
<1>2. AreRecords({})
  BY FS_EmptySet DEF AreRecords
<1>3. IsFree(d, 5)
  BY DEF IsFree, FirstFree, DescBase, DescBlocks
<1>4. AreMaps(5, {}, 0) /\ Lead(d, {})
  BY <1>2 DEF AreMaps, Lead
<1>5. Places(d, <<>>, {})
  BY DEF Places
<1> QED
  BY <1>1, <1>3, <1>4, <1>5 DEF MapsTo
-----------------------------------------------------------------------------
(***************************************************************************)
(* The trees of a catalog's nodes that changed.                             *)
(***************************************************************************)
FreshMaps(fresh, xid, from) == { Mapping(fresh[i], xid, from + i - 1) : i \in DOMAIN fresh }

\* A mapping for each node that is new, to the block where it is written.
LEMMA FreshMapsAre ==
    ASSUME NEW S \in SUBSET Nat, NEW fresh \in Seq(S), NEW xid \in Nat, NEW from \in Nat,
           \A i, j \in DOMAIN fresh : i < j => fresh[i] < fresh[j]
    PROVE  /\ AreRecords(FreshMaps(fresh, xid, from))
           /\ \A m \in FreshMaps(fresh, xid, from) :
                 /\ m.key.sub = xid /\ m.key.type = OmapType
                 /\ \E i \in DOMAIN fresh : m.key.oid = fresh[i] /\ m.val = from + i - 1
           /\ \A i \in DOMAIN fresh : \E m \in FreshMaps(fresh, xid, from) :
                 m.key.oid = fresh[i] /\ m.val = from + i - 1
           /\ \A m, n \in FreshMaps(fresh, xid, from) : m.key.oid = n.key.oid => m = n
<1> DEFINE F == FreshMaps(fresh, xid, from)
           f == [i \in DOMAIN fresh |-> Mapping(fresh[i], xid, from + i - 1)]
<1>1. DOMAIN fresh = 1 .. Len(fresh) /\ Len(fresh) \in Nat
      /\ \A i \in DOMAIN fresh : fresh[i] \in Nat
  <2>1. fresh \in [1 .. Len(fresh) -> S] /\ Len(fresh) \in Nat
    OBVIOUS
  <2> QED
    BY <2>1
<1>2. F = { f[i] : i \in DOMAIN fresh } /\ DOMAIN f = DOMAIN fresh
  BY DEF FreshMaps
<1>3. \A i \in DOMAIN fresh :
          /\ f[i] = [key |-> f[i].key, val |-> f[i].val]
          /\ f[i].key.oid = fresh[i] /\ f[i].key.type = OmapType /\ f[i].key.sub = xid
          /\ f[i].val = from + i - 1
  BY DEF Mapping, FullKey
<1>4. \A i, j \in DOMAIN fresh : fresh[i] = fresh[j] => i = j
  BY <1>1
<1> HIDE DEF f, F
<1>5. IsFiniteSet(DOMAIN fresh)
  <2>1. 1 \in Int /\ Len(fresh) \in Int
    BY <1>1
  <2> QED
    BY <1>1, <2>1, FS_Interval
<1>6. IsFiniteSet(F)
  BY <1>2, <1>5, FiniteImage
<1>7. \A m \in F : \E i \in DOMAIN fresh : m = f[i]
  BY <1>2
<1>8. \A i \in DOMAIN fresh : f[i] \in F
  BY <1>2
<1>9. ASSUME NEW m \in F
      PROVE  /\ m = [key |-> m.key, val |-> m.val] /\ IsFullKey(m.key)
             /\ m.key.sub = xid /\ m.key.type = OmapType
             /\ \E i \in DOMAIN fresh : m.key.oid = fresh[i] /\ m.val = from + i - 1
  <2>1. PICK i \in DOMAIN fresh : m = f[i]
    BY <1>7
  <2>2. m = [key |-> m.key, val |-> m.val] /\ m.key.oid = fresh[i] /\ m.key.type = OmapType
        /\ m.key.sub = xid /\ m.val = from + i - 1
    BY <1>3, <2>1, Zenon
  <2>3. fresh[i] \in Nat /\ OmapType \in Nat
    BY <1>1 DEF OmapType
  <2>4. IsFullKey(m.key)
    BY <2>2, <2>3 DEF IsFullKey, IsKey
  <2>5. \E j \in DOMAIN fresh : m.key.oid = fresh[j] /\ m.val = from + j - 1
    BY <2>2, Zenon
  <2> QED
    BY <2>2, <2>4, <2>5, Zenon
<1>10. ASSUME NEW m \in F, NEW n \in F, m.key.oid = n.key.oid PROVE m = n
  <2>1. PICK i \in DOMAIN fresh : m = f[i]
    BY <1>7
  <2>2. PICK j \in DOMAIN fresh : n = f[j]
    BY <1>7
  <2>3. f[i].key.oid = fresh[i] /\ f[j].key.oid = fresh[j]
    BY <1>3, Zenon
  <2>4. i = j
    BY <1>4, <1>10, <2>1, <2>2, <2>3, Zenon
  <2> QED
    BY <2>1, <2>2, <2>4
<1>11. AreRecords(F)
  BY <1>6, <1>9, <1>10 DEF AreRecords, Same
<1>12. \A i \in DOMAIN fresh : \E m \in F : m.key.oid = fresh[i] /\ m.val = from + i - 1
  BY <1>3, <1>8
<1> QED
  BY <1>9, <1>10, <1>11, <1>12 DEF F

\* Mappings stay good when more blocks are used.
LEMMA MoreMaps ==
    ASSUME NEW free \in Nat, NEW x \in Nat, NEW maps, AreMaps(free, maps, x),
           NEW more \in Nat, free <= more
    PROVE  AreMaps(more, maps, x + 1) /\ AreMaps(more, maps, x)
<1>1. ASSUME NEW m \in maps
      PROVE  m.key.sub <= x + 1 /\ m.val \in FirstFree .. more - 1
  <2>1. m.key.sub \in Nat /\ m.key.sub <= x /\ m.val \in FirstFree .. free - 1
    BY DEF AreMaps, AreRecords, IsFullKey
  <2> QED
    BY <2>1 DEF FirstFree, DescBase, DescBlocks
<1> QED
  BY <1>1 DEF AreMaps

\* What WithNodes gives, and leads to when it is written to a disk.
AreWritten(t, d, old, x, nodes) ==
    /\ t.nodes = nodes /\ t.fits
    /\ IsSeq(t.blocks) /\ \A i \in 1 .. Len(t.blocks) : IsNode(t.blocks[i])
    /\ AreMaps(old.free + Len(t.blocks), t.newest, x + 1)
    /\ \A m \in t.newest : m \in old.newest \/ m.key.sub = x + 1
    /\ t.newest # {}
    /\ \A e : Keeps(e, d, old.free) /\ HasLaid(e, t.blocks, old.free)
              => Lead(e, t.newest) /\ Places(e, nodes, t.newest)

\* WithNodes writes the nodes that changed behind what there was.
LEMMA WithNodesAre ==
    ASSUME NEW d, NEW old, NEW x \in Nat, MapsTo(d, old, x), NEW nodes, AreNodes(nodes)
    PROVE  AreWritten(WithNodes(old, x + 1, nodes), d, old, x, nodes)
<1> DEFINE t == WithNodes(old, x + 1, nodes)
           same == Unmoved(old, nodes)
           oids == { m.key.oid : m \in same }
           S == DOMAIN nodes \ oids
           fresh == Ascending(S)
           new == FreshMaps(fresh, x + 1, old.free)
           n == Len(fresh)
           blocks == [i \in DOMAIN fresh |-> nodes[fresh[i]]]
<1>1. /\ t.nodes = nodes /\ (t.fits <=> DOMAIN nodes # {})
      /\ t.blocks = blocks /\ t.newest = same \cup new
  BY DEF WithNodes, FreshMaps
<1> HIDE DEF t
<1>2. /\ IsFree(d, old.free)
      /\ AreMaps(old.free, old.newest \cup old.maps, x)
      /\ Lead(d, old.newest \cup old.maps)
      /\ Places(d, old.nodes, old.newest)
  BY DEF MapsTo
<1>3. /\ IsFiniteSet(DOMAIN nodes) /\ DOMAIN nodes \subseteq Nat /\ DOMAIN nodes # {}
      /\ \A o \in DOMAIN nodes : IsNode(nodes[o])
  BY DEF AreNodes
<1>4. same \in SUBSET (old.newest \cup old.maps) /\ same \in SUBSET old.newest
      /\ \A m \in same : m.key.oid \in DOMAIN nodes
                         /\ SameNode(old.nodes[m.key.oid], nodes[m.key.oid])
  BY DEF Unmoved
<1>5. S \in SUBSET Nat /\ IsFiniteSet(S)
  BY <1>3, FS_Subset
<1>6. \A o \in DOMAIN nodes : o \in S <=> ~ \E m \in same : m.key.oid = o
  OBVIOUS
<1>7. old.free \in Nat /\ x + 1 \in Nat
  BY <1>2 DEF IsFree
<1> HIDE DEF S, same
<1>8. /\ fresh \in Seq(S) /\ n \in Nat
      /\ \A i, j \in DOMAIN fresh : i < j => fresh[i] < fresh[j]
      /\ \A o \in S : \E i \in DOMAIN fresh : fresh[i] = o
  BY <1>5, AscendingIs
<1> HIDE DEF fresh
<1>9. /\ AreRecords(new)
      /\ \A m \in new :
            /\ m.key.sub = x + 1 /\ m.key.type = OmapType
            /\ \E i \in DOMAIN fresh : m.key.oid = fresh[i] /\ m.val = old.free + i - 1
      /\ \A i \in DOMAIN fresh : \E m \in new : m.key.oid = fresh[i]
      /\ \A k, m \in new : k.key.oid = m.key.oid => k = m
  <2> DEFINE F == FreshMaps(fresh, x + 1, old.free)
  <2>1. /\ AreRecords(F)
        /\ \A m \in F :
              /\ m.key.sub = x + 1 /\ m.key.type = OmapType
              /\ \E i \in DOMAIN fresh : m.key.oid = fresh[i] /\ m.val = old.free + i - 1
        /\ \A i \in DOMAIN fresh : \E m \in F :
              m.key.oid = fresh[i] /\ m.val = old.free + i - 1
        /\ \A k, m \in F : k.key.oid = m.key.oid => k = m
    BY <1>5, <1>7, <1>8, FreshMapsAre
  <2> QED
    BY <2>1, Zenon
<1>10. DOMAIN fresh = 1 .. n /\ \A i \in 1 .. n : fresh[i] \in S
  <2>1. fresh \in [1 .. n -> S]
    BY <1>8
  <2> QED
    BY <2>1
<1> HIDE DEF new, n
<1>11. \A o \in S : o \in DOMAIN nodes /\ ~ \E m \in same : m.key.oid = o
  BY <1>6 DEF S
<1>12. blocks = [i \in 1 .. n |-> blocks[i]] /\ \A i \in 1 .. n : blocks[i] = nodes[fresh[i]]
  BY <1>10
<1> HIDE DEF blocks
<1>13. IsSeq(blocks) /\ Len(blocks) = n
  BY <1>8, <1>12, IsSeqOf
<1>14. \A i \in 1 .. n : IsNode(blocks[i])
  BY <1>3, <1>10, <1>11, <1>12
<1>15. AreMaps(old.free + n, same \cup new, x + 1)
  <2>1. AreMaps(old.free, same, x)
    BY <1>2, <1>4, SomeMaps
  <2>2. AreMaps(old.free + n, same, x + 1)
    BY <1>7, <1>8, <2>1, MoreMaps
  <2>3. ASSUME NEW m \in new
        PROVE  /\ m.key.sub <= x + 1 /\ m.key.type = OmapType
               /\ m.val \in FirstFree .. old.free + n - 1
    <3>1. PICK i \in 1 .. n : m.val = old.free + i - 1
      BY <1>9, <1>10
    <3>2. FirstFree \in Nat /\ FirstFree <= old.free
      BY <1>2 DEF IsFree, FirstFree, DescBase, DescBlocks
    <3>3. m.key.sub = x + 1 /\ m.key.type = OmapType
      BY <1>9, Zenon
    <3>4. m.val \in FirstFree .. old.free + n - 1
      BY <1>7, <1>8, <3>1, <3>2
    <3> QED
      BY <3>3, <3>4
  <2>4. AreRecords(same \cup new)
    <3>1. AreRecords(same) /\ \A m \in same : m.key.sub <= x
      BY <2>1 DEF AreMaps
    <3>2. AreRecords(new) /\ \A m \in new : m.key.sub = x + 1
      BY <1>9
    <3> QED
      BY <3>1, <3>2, RecordUnion
  <2> DEFINE Fits(m) == /\ m.key.type = OmapType
                        /\ m.key.sub <= x + 1
                        /\ m.val \in FirstFree .. (old.free + n) - 1
  <2>5. \A m \in same : Fits(m)
    BY <2>2 DEF AreMaps
  <2>6. \A m \in new : Fits(m)
    BY <1>7, <1>8, <2>3
  <2> HIDE DEF Fits
  <2>7. \A m \in same \cup new : Fits(m)
    BY <2>5, <2>6
  <2> QED
    BY <2>4, <2>7 DEF AreMaps, Fits
<1>16. ASSUME NEW e, Keeps(e, d, old.free), HasLaid(e, blocks, old.free)
       PROVE  Lead(e, same \cup new) /\ Places(e, nodes, same \cup new)
  <2>1. ASSUME NEW m \in same
        PROVE  m.key.oid \in DOMAIN nodes /\ e[m.val] = nodes[m.key.oid]
    <3>1. m.val \in FirstFree .. old.free - 1 /\ IsNode(d[m.val])
      BY <1>2, <1>4 DEF AreMaps, Lead
    <3>2. e[m.val] = d[m.val]
      BY <1>16, <3>1 DEF Keeps
    <3>3. d[m.val] = old.nodes[m.key.oid]
      BY <1>2, <1>4 DEF Places
    <3>4. m.key.oid \in DOMAIN nodes /\ SameNode(old.nodes[m.key.oid], nodes[m.key.oid])
      BY <1>4
    <3>5. IsNode(nodes[m.key.oid])
      BY <1>3, <3>4
    <3>6. old.nodes[m.key.oid] = nodes[m.key.oid]
      <4>1. IsNode(old.nodes[m.key.oid])
        BY <3>1, <3>3
      <4> QED
        BY <3>4, <3>5, <4>1 DEF IsNode, SameNode
    <3> QED
      BY <3>2, <3>3, <3>4, <3>6
  <2>2. ASSUME NEW m \in new
        PROVE  m.key.oid \in DOMAIN nodes /\ e[m.val] = nodes[m.key.oid] /\ m.key.oid \in S
    <3>1. PICK i \in 1 .. n : m.key.oid = fresh[i] /\ m.val = old.free + i - 1
      BY <1>9, <1>10
    <3>2. e[old.free + i - 1] = blocks[i]
      BY <1>13, <1>16 DEF HasLaid
    <3> QED
      BY <1>10, <1>11, <1>12, <3>1, <3>2
  <2>3. \A m \in same \cup new : m.key.oid \in DOMAIN nodes /\ e[m.val] = nodes[m.key.oid]
    BY <2>1, <2>2
  <2>4. Lead(e, same \cup new)
    BY <1>3, <2>3 DEF Lead
  <2>5. ASSUME NEW o \in DOMAIN nodes PROVE \E m \in same \cup new : m.key.oid = o
    <3>1. CASE o \in S
      <4>1. PICK i \in DOMAIN fresh : fresh[i] = o
        BY <1>8, <3>1
      <4> QED
        BY <1>9, <4>1
    <3>2. CASE o \notin S
      BY <1>6, <3>2
    <3> QED
      BY <3>1, <3>2
  <2>6. \A k, m \in same : k.key.oid = m.key.oid => k = m
    BY <1>2, <1>4 DEF Places
  <2>7. \A k \in same, m \in new : k.key.oid # m.key.oid
    BY <1>11, <2>2
  <2>8. \A k, m \in same \cup new : k.key.oid = m.key.oid => k = m
    BY <1>9, <2>6, <2>7
  <2> QED
    BY <2>3, <2>4, <2>5, <2>8 DEF Places
<1>17. \A m \in same \cup new : m \in old.newest \/ m.key.sub = x + 1
  BY <1>4, <1>9
<1>18. same \cup new # {}
  <2>1. PICK o \in DOMAIN nodes : TRUE
    BY <1>3
  <2>2. o \in S => DOMAIN fresh # {}
    BY <1>8
  <2>3. DOMAIN fresh # {} => new # {}
    BY <1>9
  <2> QED
    BY <1>6, <2>2, <2>3
<1> QED
  BY <1>1, <1>3, <1>13, <1>14, <1>15, <1>16, <1>17, <1>18 DEF AreWritten, t
-----------------------------------------------------------------------------
(***************************************************************************)
(* The object map behind them.                                              *)
(***************************************************************************)
LEMMA HasLaidParts ==
    ASSUME NEW e, NEW a, NEW b, IsSeq(a), IsSeq(b), NEW from \in Nat,
           HasLaid(e, a \o b, from)
    PROVE  HasLaid(e, a, from) /\ HasLaid(e, b, from + Len(a))
<1>1. /\ Len(a) \in Nat /\ Len(b) \in Nat
      /\ Len(a \o b) = Len(a) + Len(b)
      /\ \A i \in 1 .. Len(a) : (a \o b)[i] = a[i]
      /\ \A i \in 1 .. Len(b) : (a \o b)[Len(a) + i] = b[i]
  BY Concatenation DEF IsSeq
<1>2. HasLaid(e, a, from)
  <2> SUFFICES ASSUME NEW i \in 1 .. Len(a)
               PROVE  from + i - 1 \in DOMAIN e /\ e[from + i - 1] = a[i]
    BY DEF HasLaid
  <2>1. i \in 1 .. Len(a \o b)
    BY <1>1
  <2> QED
    BY <1>1, <2>1 DEF HasLaid
<1>3. HasLaid(e, b, from + Len(a))
  <2> SUFFICES ASSUME NEW i \in 1 .. Len(b)
               PROVE  (from + Len(a)) + i - 1 \in DOMAIN e /\ e[(from + Len(a)) + i - 1] = b[i]
    BY DEF HasLaid
  <2>1. Len(a) + i \in 1 .. Len(a \o b) /\ from + (Len(a) + i) - 1 = (from + Len(a)) + i - 1
    BY <1>1
  <2>2. from + (Len(a) + i) - 1 \in DOMAIN e /\ e[from + (Len(a) + i) - 1] = (a \o b)[Len(a) + i]
    BY <2>1 DEF HasLaid
  <2> QED
    BY <1>1, <2>1, <2>2
<1> QED
  BY <1>2, <1>3

\* An object map is one wherever more blocks are looked at.
LEMMA WiderOmap ==
    ASSUME NEW d, NEW root, NEW recs, NEW from \in Int, NEW to \in Int,
           HoldsOmap(d, root, recs, from, to),
           NEW low \in Int, NEW high \in Int, low <= from, to <= high
    PROVE  HoldsOmap(d, root, recs, low, high)
<1>1. from .. to \subseteq low .. high
  OBVIOUS
<1> QED
  BY <1>1 DEF HoldsOmap

\* What WithMap gives, and leads to when it is written to a disk.
AreMapped(t, d, old, x, nodes) ==
    LET root == old.free + Len(t.blocks) - 1 IN
    /\ t.nodes = nodes
    /\ IsSeq(t.blocks) /\ Len(t.blocks) \in Nat \ {0}
    /\ \A i \in 1 .. Len(t.blocks) : IsNode(t.blocks[i])
    /\ AreMaps(old.free + Len(t.blocks), t.newest \cup t.maps, x + 1)
    /\ \A e : Keeps(e, d, old.free) /\ HasLaid(e, t.blocks, old.free)
              => /\ Lead(e, t.newest \cup t.maps)
                 /\ Places(e, nodes, t.newest)
                 /\ HoldsOmap(e, root, t.newest \cup t.maps, FirstFree, root)

\* WithMap writes the object map behind the nodes.
LEMMA WithMapIs ==
    ASSUME NEW d, NEW old, NEW x \in Nat, MapsTo(d, old, x), NEW nodes, AreNodes(nodes),
           NEW keep, WithMap(old, keep, WithNodes(old, x + 1, nodes)).fits
    PROVE  AreMapped(WithMap(old, keep, WithNodes(old, x + 1, nodes)), d, old, x, nodes)
<1> DEFINE n == WithNodes(old, x + 1, nodes)
           t == WithMap(old, keep, n)
<1>0. n = WithNodes(old, x + 1, nodes) /\ t = WithMap(old, keep, n) /\ t.fits
  OBVIOUS
<1> HIDE DEF t, n
<1> DEFINE kept == { m \in (old.maps \cup old.newest) \ n.newest : m.key.sub <= keep }
           recs == n.newest \cup kept
           base == old.free + Len(n.blocks) - 1
           tree == Grow(InOrder(recs), base)
           blocks == n.blocks \o tree
<1>1. /\ t.nodes = n.nodes /\ t.newest = n.newest /\ t.maps = kept
      /\ tree # <<>> /\ t.blocks = blocks
  BY <1>0 DEF WithMap
<1>2. /\ n.nodes = nodes
      /\ IsSeq(n.blocks) /\ \A i \in 1 .. Len(n.blocks) : IsNode(n.blocks[i])
      /\ AreMaps(old.free + Len(n.blocks), n.newest, x + 1)
      /\ \A m \in n.newest : m \in old.newest \/ m.key.sub = x + 1
      /\ n.newest # {}
      /\ \A e : Keeps(e, d, old.free) /\ HasLaid(e, n.blocks, old.free)
                => Lead(e, n.newest) /\ Places(e, nodes, n.newest)
  <2>1. AreWritten(n, d, old, x, nodes)
    BY WithNodesAre DEF n
  <2> QED
    BY <2>1 DEF AreWritten
<1>3. kept \in SUBSET (old.newest \cup old.maps)
  OBVIOUS
<1> HIDE DEF kept
<1>4. /\ old.free \in Nat /\ FirstFree <= old.free /\ FirstFree \in Nat \ {0}
      /\ AreMaps(old.free, old.newest \cup old.maps, x)
      /\ Lead(d, old.newest \cup old.maps)
  BY DEF MapsTo, IsFree, FirstFree, DescBase, DescBlocks
<1>5. AreRecords(recs)
  <2> DEFINE A == recs \cap (old.newest \cup old.maps)
             B == { m \in n.newest : m.key.sub = x + 1 }
  <2>1. A \cup B = recs
    BY <1>2, <1>3
  <2>2. AreRecords(A) /\ \A m \in A : m.key.sub <= x
    BY <1>4, RecordSubset DEF AreMaps
  <2>3. AreRecords(B) /\ \A m \in B : m.key.sub = x + 1
    BY <1>2, RecordSubset DEF AreMaps
  <2> HIDE DEF A, B
  <2> QED
    BY <2>1, <2>2, <2>3, RecordUnion
<1>6. Len(n.blocks) \in Nat
  BY <1>2 DEF IsSeq
<1>7. AreMaps(old.free + Len(n.blocks), kept, x + 1)
  <2>1. AreMaps(old.free, kept, x)
    BY <1>3, <1>4, SomeMaps
  <2> QED
    BY <1>4, <1>6, <2>1, MoreMaps
<1>8. AreMaps(old.free + Len(n.blocks), recs, x + 1)
  BY <1>2, <1>5, <1>7 DEF AreMaps
<1>9. base \in Nat
  BY <1>4, <1>6
<1>10. Enumerates(InOrder(recs), recs) /\ IsSeq(InOrder(recs)) /\ Len(InOrder(recs)) > 0
  <2>1. Enumerates(InOrder(recs), recs)
    BY <1>5, InOrderIs
  <2>2. IsFiniteSet(recs) /\ recs # {}
    BY <1>2, <1>5 DEF AreRecords
  <2> HIDE DEF recs
  <2> QED
    BY <2>1, <2>2, FS_EmptySet DEF Enumerates
<1> HIDE DEF recs, base
<1>11. IsGrown(tree, InOrder(recs), base)
  BY <1>1, <1>9, <1>10, GrowIs
<1> HIDE DEF tree
<1>12. IsSeq(tree) /\ Len(tree) \in Nat \ {0} /\ \A i \in 1 .. Len(tree) : IsNode(tree[i])
  BY <1>11 DEF IsGrown, IsSeq
<1>13. /\ IsSeq(blocks) /\ Len(blocks) = Len(n.blocks) + Len(tree)
       /\ \A i \in 1 .. Len(n.blocks) : blocks[i] = n.blocks[i]
       /\ \A i \in 1 .. Len(tree) : blocks[Len(n.blocks) + i] = tree[i]
  BY <1>2, <1>12, Concatenation
<1>14. ASSUME NEW i \in 1 .. Len(blocks) PROVE IsNode(blocks[i])
  <2>1. CASE i <= Len(n.blocks)
    BY <1>2, <1>6, <1>13, <2>1
  <2>2. CASE i > Len(n.blocks)
    <3>1. i - Len(n.blocks) \in 1 .. Len(tree) /\ i = Len(n.blocks) + (i - Len(n.blocks))
      BY <1>6, <1>12, <1>13, <2>2
    <3> QED
      BY <1>12, <1>13, <3>1
  <2> QED
    BY <1>6, <2>1, <2>2
<1>15. AreMaps(old.free + Len(blocks), recs, x + 1)
  <2>1. old.free + Len(n.blocks) \in Nat /\ old.free + Len(blocks) \in Nat
        /\ old.free + Len(n.blocks) <= old.free + Len(blocks)
    BY <1>4, <1>6, <1>12, <1>13
  <2>2. x + 1 \in Nat
    OBVIOUS
  <2> QED
    BY <1>8, <2>1, <2>2, MoreMaps
<1>16. ASSUME NEW e, Keeps(e, d, old.free), HasLaid(e, blocks, old.free)
       PROVE  LET root == old.free + Len(blocks) - 1 IN
              /\ Lead(e, recs) /\ Places(e, nodes, n.newest)
              /\ HoldsOmap(e, root, recs, FirstFree, root)
  <2>1. HasLaid(e, n.blocks, old.free) /\ HasLaid(e, tree, old.free + Len(n.blocks))
    BY <1>2, <1>4, <1>12, <1>16, HasLaidParts
  <2>2. Lead(e, n.newest) /\ Places(e, nodes, n.newest)
    BY <1>2, <1>16, <2>1
  <2>3. ASSUME NEW m \in kept PROVE IsNode(e[m.val])
    <3>1. m.val \in FirstFree .. old.free - 1 /\ IsNode(d[m.val])
      BY <1>3, <1>4 DEF AreMaps, Lead
    <3> QED
      BY <1>16, <3>1 DEF Keeps
  <2>4. Lead(e, recs)
    BY <2>2, <2>3 DEF Lead, recs
  <2>5. \A i \in 1 .. Len(tree) : e[base + i] = tree[i]
    <3> TAKE i \in 1 .. Len(tree)
    <3>1. base + i = (old.free + Len(n.blocks)) + i - 1
      <4>1. \A f, k, j \in Nat : (f + k - 1) + j = (f + k) + j - 1
        OBVIOUS
      <4>2. i \in Nat /\ old.free \in Nat /\ Len(n.blocks) \in Nat
        BY <1>4, <1>6, <1>12
      <4>3. base = old.free + Len(n.blocks) - 1
        BY DEF base
      <4> QED
        BY <4>1, <4>2, <4>3
    <3> QED
      BY <2>1, <3>1 DEF HasLaid
  <2>6. HoldsOmap(e, base + Len(tree), recs, base + 1, base + Len(tree))
    <3>1. \A r \in recs : r.key.type = OmapType
      BY <1>8 DEF AreMaps
    <3>2. recs # {} /\ tree # <<>>
      BY <1>1, <1>2 DEF recs
    <3> QED
      BY <1>5, <1>9, <2>5, <3>1, <3>2, GrownIsOmap DEF tree
  <2>7. old.free + Len(blocks) - 1 = base + Len(tree) /\ FirstFree <= base + 1
        /\ base + 1 \in Int /\ base + Len(tree) \in Int /\ FirstFree \in Int
    BY <1>4, <1>6, <1>12, <1>13 DEF base
  <2>8. HoldsOmap(e, base + Len(tree), recs, FirstFree, base + Len(tree))
    BY <2>6, <2>7, WiderOmap
  <2> QED
    BY <2>2, <2>4, <2>7, <2>8
<1>17. Len(blocks) \in Nat \ {0}
  BY <1>6, <1>12, <1>13
<1>18. t.newest \cup t.maps = recs
  BY <1>1 DEF recs
<1> HIDE DEF blocks
<1> QED
  BY <1>1, <1>2, <1>13, <1>14, <1>15, <1>16, <1>17, <1>18 DEF AreMapped, t, n
-----------------------------------------------------------------------------
(***************************************************************************)
(* A transaction as a whole.                                               *)
(***************************************************************************)
(***************************************************************************)
(* The state s of the volume after the transaction x, on a disk.            *)
(***************************************************************************)
\* What leads to the root of the object map of a state.
LeadsTo(d, free, x) ==
    /\ d[free - 1] = ObjectMap(free - 2)
    /\ d[free - 2] = Node(TRUE, << Mapping(VolumeOid, x, free - 3) >>)
    /\ d[free - 3] = VolumeSuperblock(free - 4, RootTreeOid)
    /\ d[free - 4] = ObjectMap(free - 5)

Stored(d, s, x) ==
    /\ MapsTo(d, s, x)
    /\ FirstFree <= s.free - 5
    /\ RootTreeOid \in DOMAIN s.nodes
    /\ HoldsOmap(d, s.free - 5, s.newest \cup s.maps, FirstFree, s.free - 5)
    /\ LeadsTo(d, s.free, x)
    /\ IsContent(s.content)
    /\ s.nodes = CatalogNodes(s.content)

Has(e, blocks) == \A b \in DOMAIN blocks : b \in DOMAIN e /\ e[b] = blocks[b]

\* A transaction, and what it leads to when it is written to a disk.
IsTransaction(t, d, old, x, c) ==
    /\ t.state.free \in Nat /\ old.free < t.state.free
    /\ DOMAIN t.blocks = old.free .. t.state.free - 1
    /\ \A b \in DOMAIN t.blocks : t.blocks[b].is \in {"node", "omap", "volume"}
    /\ t.super = Superblock(x + 1, t.state.free - 1)
    /\ t.state.content = c
    /\ \A e : Keeps(e, d, old.free) /\ Has(e, t.blocks) => Stored(e, t.state, x + 1)

\* Blocks by number, and as a sequence.
LEMMA HasIsLaid ==
    ASSUME NEW e, NEW blocks, IsSeq(blocks), NEW from \in Nat, Has(e, Laid(blocks, from))
    PROVE  HasLaid(e, blocks, from)
<1> SUFFICES ASSUME NEW i \in 1 .. Len(blocks)
             PROVE  from + i - 1 \in DOMAIN e /\ e[from + i - 1] = blocks[i]
  BY DEF HasLaid
<1>1. Len(blocks) \in Nat
  BY DEF IsSeq
<1>2. from + i - 1 \in from .. from + Len(blocks) - 1 /\ (from + i - 1) - from + 1 = i
  BY <1>1
<1>3. from + i - 1 \in DOMAIN Laid(blocks, from) /\ Laid(blocks, from)[from + i - 1] = blocks[i]
  BY <1>2 DEF Laid
<1> QED
  BY <1>3 DEF Has

\* What Transaction gives leads to its content on any disk that it is written to.
LEMMA TransactionIs ==
    ASSUME NEW d, NEW old, NEW x \in Nat, MapsTo(d, old, x), NEW c, IsContent(c), NEW keep,
           Transaction(old, c, x + 1, keep).fits
    PROVE  IsTransaction(Transaction(old, c, x + 1, keep), d, old, x, c)
<1> DEFINE nodes == CatalogNodes(c)
           written == WithNodes(old, x + 1, nodes)
           trees == WithMap(old, keep, written)
           t == Transaction(old, c, x + 1, keep)
           omapAt == old.free + Len(trees.blocks)
           rest == << ObjectMap(omapAt - 1),
                      VolumeSuperblock(omapAt, RootTreeOid),
                      Node(TRUE, << Mapping(VolumeOid, x + 1, omapAt + 1) >>),
                      ObjectMap(omapAt + 2) >>
           blocks == trees.blocks \o rest
<1>1. /\ t.blocks = Laid(blocks, old.free)
      /\ t.super = Superblock(x + 1, omapAt + 3)
      /\ t.state = [nodes |-> trees.nodes, newest |-> trees.newest,
                    maps |-> trees.maps, content |-> c, free |-> omapAt + 4]
      /\ t.fits = trees.fits
  BY DEF Transaction, WithSuperblock
<1> HIDE DEF t
<1>2. written.fits /\ trees.fits
  <2>1. trees.fits
    BY <1>1 DEF t
  <2> QED
    BY <2>1 DEF WithMap
<1>3. AreNodes(nodes)
  <2>1. DOMAIN nodes # {}
    BY <1>2 DEF WithNodes
  <2> QED
    BY <2>1, CatalogNodesAre
<1> HIDE DEF nodes, written
<1>4. AreMapped(trees, d, old, x, nodes)
  BY <1>2, <1>3, WithMapIs DEF written
<1> HIDE DEF trees
<1> DEFINE k == Len(trees.blocks)
<1>5. /\ old.free \in Nat /\ FirstFree <= old.free /\ k \in Nat \ {0}
      /\ IsSeq(trees.blocks) /\ \A i \in 1 .. k : IsNode(trees.blocks[i])
      /\ omapAt = old.free + k /\ k = Len(trees.blocks)
  BY <1>4 DEF AreMapped, MapsTo, IsFree
<1> HIDE DEF omapAt, k
<1>6. IsSeq(rest) /\ Len(rest) = 4
  <2>1. rest = [i \in 1 .. 4 |-> rest[i]]
    OBVIOUS
  <2> HIDE DEF rest
  <2> QED
    BY <2>1, IsSeqOf
<1>7. /\ rest[1] = ObjectMap(omapAt - 1)
      /\ rest[2] = VolumeSuperblock(omapAt, RootTreeOid)
      /\ rest[3] = Node(TRUE, << Mapping(VolumeOid, x + 1, omapAt + 1) >>)
      /\ rest[4] = ObjectMap(omapAt + 2)
  OBVIOUS
<1> HIDE DEF rest
<1>8. /\ IsSeq(blocks) /\ Len(blocks) = k + 4
      /\ \A i \in 1 .. k : blocks[i] = trees.blocks[i]
      /\ \A i \in 1 .. 4 : blocks[k + i] = rest[i]
  <2> DEFINE a == trees.blocks
  <2>1. Len(a) = k /\ IsSeq(a)
    BY <1>5
  <2> HIDE DEF a
  <2>2. IsSeq(a) /\ IsSeq(rest)
    BY <1>6, <2>1
  <2>3. IsSeq(a \o rest)
    BY <2>2, Concatenation
  <2>4. Len(a \o rest) = Len(a) + Len(rest)
    BY <2>2, Concatenation
  <2>5. \A i \in 1 .. Len(a) : (a \o rest)[i] = a[i]
    BY <2>2, Concatenation
  <2>6. \A i \in 1 .. Len(rest) : (a \o rest)[Len(a) + i] = rest[i]
    BY <2>2, Concatenation
  <2> QED
    BY <1>6, <2>1, <2>3, <2>4, <2>5, <2>6 DEF a
<1> HIDE DEF blocks
<1>9. \A i \in 1 .. Len(blocks) : blocks[i].is \in {"node", "omap", "volume"}
  <2> TAKE i \in 1 .. Len(blocks)
  <2>1. CASE i <= k
    <3>1. i \in 1 .. k
      BY <1>5, <1>8, <2>1
    <3>2. IsNode(blocks[i])
      BY <1>5, <1>8, <3>1
    <3> QED
      BY <3>2 DEF IsNode, Node
  <2>2. CASE i > k
    <3>1. i - k \in 1 .. 4 /\ i = k + (i - k)
      <4>1. i \in 1 .. k + 4 /\ k \in Nat
        BY <1>5, <1>8
      <4> QED
        BY <2>2, <4>1
    <3>2. \A j \in 1 .. 4 : rest[j].is \in {"node", "omap", "volume"}
      BY <1>7 DEF Node, ObjectMap, VolumeSuperblock
    <3> QED
      BY <1>8, <3>1, <3>2
  <2> QED
    BY <1>5, <2>1, <2>2
<1> DEFINE s == t.state
<1> HIDE DEF s
<1>10. /\ s.free = old.free + k + 4 /\ s.nodes = trees.nodes /\ s.newest = trees.newest
       /\ s.maps = trees.maps /\ s.content = c
  BY <1>1, <1>5 DEF s
<1>11. /\ k \in Nat /\ old.free \in Nat
       /\ Len(blocks) = k + 4 /\ s.free = old.free + k + 4
  BY <1>5, <1>8, <1>10
<1>12. DOMAIN t.blocks = old.free .. s.free - 1
  <2>1. DOMAIN t.blocks = old.free .. old.free + Len(blocks) - 1
    BY <1>1 DEF Laid
  <2>2. old.free + Len(blocks) - 1 = s.free - 1
    BY <1>11
  <2> QED
    BY <2>1, <2>2
<1>13. ASSUME NEW b \in DOMAIN t.blocks PROVE t.blocks[b].is \in {"node", "omap", "volume"}
  <2>0. b \in old.free .. s.free - 1
    BY <1>12, <1>13
  <2>1. b - old.free + 1 \in 1 .. Len(blocks)
    BY <1>11, <2>0
  <2>2. t.blocks[b] = blocks[b - old.free + 1]
    BY <1>1, <1>13 DEF Laid
  <2> QED
    BY <1>9, <2>1, <2>2
<1>14. ASSUME NEW e, Keeps(e, d, old.free), Has(e, t.blocks)
       PROVE  Stored(e, s, x + 1)
  <2>1. HasLaid(e, blocks, old.free)
    BY <1>1, <1>5, <1>8, <1>14, HasIsLaid
  <2>2. HasLaid(e, trees.blocks, old.free) /\ HasLaid(e, rest, old.free + k)
    BY <1>5, <1>6, <2>1, HasLaidParts DEF blocks, k
  <2>3. /\ trees.nodes = nodes
        /\ AreMaps(old.free + k, trees.newest \cup trees.maps, x + 1)
        /\ Lead(e, trees.newest \cup trees.maps)
        /\ Places(e, nodes, trees.newest)
        /\ HoldsOmap(e, old.free + k - 1, trees.newest \cup trees.maps, FirstFree, old.free + k - 1)
    BY <1>4, <1>14, <2>2 DEF AreMapped, k
  <2>4. FirstFree \in Nat \ {0} /\ s.free \in Nat /\ FirstFree <= s.free - 5
        /\ s.free - 5 = old.free + k - 1 /\ old.free + k <= s.free /\ old.free + k \in Nat
        /\ s.free \in Nat
    <3>1. FirstFree = 5
      BY DEF FirstFree, DescBase, DescBlocks
    <3>2. old.free \in Nat /\ 5 <= old.free /\ k \in Nat \ {0} /\ s.free = old.free + k + 4
      BY <1>5, <1>10, <3>1
    <3>3. s.free \in Nat
      BY <3>2
    <3> QED
      BY <3>1, <3>2, <3>3
  <2>5. AreMaps(s.free, s.newest \cup s.maps, x + 1)
    BY <1>10, <2>3, <2>4, MoreMaps
  <2>6. FirstFree .. s.free - 1 \subseteq DOMAIN e
    <3> SUFFICES ASSUME NEW b \in FirstFree .. s.free - 1 PROVE b \in DOMAIN e
      OBVIOUS
    <3>1. b < old.free => b \in FirstFree .. old.free - 1
      BY <1>5, <2>4
    <3>2. b >= old.free => b \in DOMAIN t.blocks
      BY <1>5, <1>12, <2>4
    <3> QED
      BY <1>5, <1>14, <2>4, <3>1, <3>2 DEF Keeps, Has
  <2>7. MapsTo(e, s, x + 1)
    BY <1>10, <2>3, <2>4, <2>5, <2>6 DEF MapsTo, IsFree
  <2>8. LeadsTo(e, s.free, x + 1)
    <3>1. \A i \in 1 .. 4 : e[(old.free + k) + i - 1] = rest[i]
      BY <1>6, <2>2 DEF HasLaid
    <3>2. /\ (old.free + k) + 1 - 1 = s.free - 4 /\ (old.free + k) + 2 - 1 = s.free - 3
          /\ (old.free + k) + 3 - 1 = s.free - 2 /\ (old.free + k) + 4 - 1 = s.free - 1
          /\ omapAt = s.free - 4 /\ omapAt - 1 = s.free - 5
          /\ omapAt + 1 = s.free - 3 /\ omapAt + 2 = s.free - 2
      <4>1. /\ old.free \in Nat /\ k \in Nat /\ s.free = old.free + k + 4
            /\ omapAt = old.free + k
        BY <1>5, <1>10
      <4> HIDE DEF s
      <4> QED
        BY <4>1
    <3>3. /\ e[s.free - 4] = rest[1] /\ e[s.free - 3] = rest[2]
          /\ e[s.free - 2] = rest[3] /\ e[s.free - 1] = rest[4]
      BY <3>1, <3>2
    <3> QED
      BY <1>7, <3>2, <3>3 DEF LeadsTo
  <2>9. HoldsOmap(e, s.free - 5, s.newest \cup s.maps, FirstFree, s.free - 5)
    BY <1>10, <2>3, <2>4
  <2>10. RootTreeOid \in DOMAIN s.nodes /\ s.nodes = CatalogNodes(s.content)
    BY <1>3, <1>10, <2>3 DEF AreNodes, nodes
  <2> QED
    BY <1>10, <2>4, <2>7, <2>8, <2>9, <2>10 DEF Stored
<1>15. s.free \in Nat /\ old.free < s.free /\ t.super = Superblock(x + 1, s.free - 1)
  <2>1. s.free \in Nat /\ old.free < s.free /\ omapAt + 3 = s.free - 1
    BY <1>5, <1>10
  <2> QED
    BY <1>1, <2>1
<1> QED
  BY <1>10, <1>12, <1>13, <1>14, <1>15 DEF IsTransaction, t, s
-----------------------------------------------------------------------------
(***************************************************************************)
(* What a Mac changes leaves a content that a disk can have.               *)
(***************************************************************************)
\* The parts of a content.
DirsOf(inodes) == { oid \in DOMAIN inodes : inodes[oid].kind = "directory" }

Inodes == [kind : {"file", "directory"}, extents : Seq(FileExtents)]

Fits(inodes, drecs) ==
    /\ RootDir \in DirsOf(inodes)
    /\ DOMAIN inodes \subseteq {RootDir} \cup FileIds
    /\ inodes \in [DOMAIN inodes -> Inodes]
    /\ \A oid \in DirsOf(inodes) : inodes[oid].extents = <<>>
    /\ DOMAIN drecs \subseteq DirsOf(inodes) \X Names
    /\ drecs \in [DOMAIN drecs -> DOMAIN inodes]
    /\ \A oid \in DOMAIN inodes \ {RootDir} : \E e \in DOMAIN drecs : drecs[e] = oid

Contents(inodes, drecs) == [inodes |-> inodes, drecs |-> drecs]

\* A content by its parts.
LEMMA ContentParts ==
    /\ \A c : IsContent(c) => c = Contents(c.inodes, c.drecs) /\ Fits(c.inodes, c.drecs)
              /\ Dirs(c) = DirsOf(c.inodes)
    /\ \A inodes, drecs : Fits(inodes, drecs) => IsContent(Contents(inodes, drecs))
<1>1. ASSUME NEW c, IsContent(c)
      PROVE  c = Contents(c.inodes, c.drecs) /\ Fits(c.inodes, c.drecs)
             /\ Dirs(c) = DirsOf(c.inodes)
  BY <1>1, Zenon DEF IsContent, Contents, Fits, Dirs, DirsOf, Inodes
<1>2. ASSUME NEW inodes, NEW drecs, Fits(inodes, drecs)
      PROVE  IsContent(Contents(inodes, drecs))
  <2> DEFINE c == Contents(inodes, drecs)
  <2>1. c.inodes = inodes /\ c.drecs = drecs /\ c = [inodes |-> c.inodes, drecs |-> c.drecs]
    BY DEF Contents
  <2> HIDE DEF c
  <2>2. Dirs(c) = DirsOf(inodes)
    BY <2>1 DEF Dirs, DirsOf
  <2>3. IsContent(c)
    BY <1>2, <2>1, <2>2, Zenon DEF IsContent, Fits, Inodes
  <2> QED
    BY <2>3 DEF c
<1> QED
  BY <1>1, <1>2

\* The extents that a file of the model can have.
LEMMA PiecesAre ==
    ASSUME NEW n \in Nat, NEW xid \in Nat
    PROVE  Pieces(n, xid) \in Seq(FileExtents)
<1>1. Pieces(n, xid) \in [1 .. n -> FileExtents]
  BY DEF Pieces, FileExtents, FileExtentVal
<1> QED
  BY <1>1, IsASeq

\* One value changed or added.
LEMMA WithFacts ==
    ASSUME NEW f, NEW x, NEW y
    PROVE  /\ With(f, x, y) = [z \in DOMAIN f \cup {x} |-> IF z = x THEN y ELSE f[z]]
           /\ DOMAIN With(f, x, y) = DOMAIN f \cup {x}
           /\ With(f, x, y)[x] = y
           /\ \A z \in DOMAIN f \ {x} : With(f, x, y)[z] = f[z]
  BY DEF With

\* A content with one more object, and its entry.
LEMMA Added ==
    ASSUME NEW inodes, NEW drecs, Fits(inodes, drecs),
           NEW e \in DirsOf(inodes) \X Names, e \notin DOMAIN drecs,
           NEW oid \in FileIds, oid \notin DOMAIN inodes, NEW inode \in Inodes,
           inode.kind = "directory" => inode.extents = <<>>
    PROVE  Fits(With(inodes, oid, inode), With(drecs, e, oid))
<1> DEFINE i2 == With(inodes, oid, inode)
           d2 == With(drecs, e, oid)
<1>1. /\ DOMAIN i2 = DOMAIN inodes \cup {oid} /\ i2[oid] = inode
      /\ \A z \in DOMAIN inodes : i2[z] = inodes[z]
      /\ i2 = [z \in DOMAIN i2 |-> i2[z]]
  BY DEF With
<1>2. /\ DOMAIN d2 = DOMAIN drecs \cup {e} /\ d2[e] = oid
      /\ \A z \in DOMAIN drecs : d2[z] = drecs[z]
      /\ d2 = [z \in DOMAIN d2 |-> d2[z]]
  BY DEF With
<1> HIDE DEF i2, d2
<1>3. DirsOf(inodes) \subseteq DirsOf(i2)
  BY <1>1 DEF DirsOf
<1>4. /\ RootDir \in DirsOf(i2) /\ DOMAIN i2 \subseteq {RootDir} \cup FileIds
      /\ \A z \in DirsOf(i2) : i2[z].extents = <<>>
  <2>1. \A z \in DirsOf(i2) : z = oid \/ z \in DirsOf(inodes)
    BY <1>1 DEF DirsOf
  <2>2. \A z \in DirsOf(inodes) : z \in DOMAIN inodes
    BY DEF DirsOf
  <2>3. i2[oid].kind = "directory" => i2[oid].extents = <<>>
    BY <1>1
  <2>4. \A z \in DirsOf(i2) : i2[z].kind = "directory"
    BY DEF DirsOf
  <2>5. \A z \in DirsOf(i2) : i2[z].extents = <<>>
    BY <1>1, <2>1, <2>2, <2>3, <2>4 DEF Fits
  <2> QED
    BY <1>1, <1>3, <2>5 DEF Fits
<1>5. i2 \in [DOMAIN i2 -> Inodes]
  <2>1. \A z \in DOMAIN i2 : i2[z] \in Inodes
    BY <1>1 DEF Fits
  <2> QED
    BY <1>1, <2>1
<1>6. DOMAIN d2 \subseteq DirsOf(i2) \X Names
  <2>1. DOMAIN drecs \subseteq DirsOf(inodes) \X Names
    BY DEF Fits
  <2>2. DirsOf(inodes) \X Names \subseteq DirsOf(i2) \X Names
    BY <1>3
  <2> QED
    BY <1>2, <2>1, <2>2
<1>7. d2 \in [DOMAIN d2 -> DOMAIN i2]
  <2>1. \A z \in DOMAIN d2 : d2[z] \in DOMAIN i2
    BY <1>1, <1>2 DEF Fits
  <2> QED
    BY <1>2, <2>1
<1>8. \A o \in DOMAIN i2 \ {RootDir} : \E f \in DOMAIN d2 : d2[f] = o
  BY <1>1, <1>2 DEF Fits
<1> QED
  BY <1>4, <1>5, <1>6, <1>7, <1>8 DEF Fits, i2, d2

\* A content whose entries lead to the same objects.
LEMMA Relinked ==
    ASSUME NEW inodes, NEW drecs, Fits(inodes, drecs), NEW d2,
           d2 = [z \in DOMAIN d2 |-> d2[z]],
           DOMAIN d2 \subseteq DirsOf(inodes) \X Names,
           \A z \in DOMAIN d2 : d2[z] \in DOMAIN inodes,
           \A z \in DOMAIN drecs : \E y \in DOMAIN d2 : d2[y] = drecs[z]
    PROVE  Fits(inodes, d2)
<1>1. d2 \in [DOMAIN d2 -> DOMAIN inodes]
  OBVIOUS
<1>2. ASSUME NEW o \in DOMAIN inodes \ {RootDir} PROVE \E f \in DOMAIN d2 : d2[f] = o
  <2>1. PICK z \in DOMAIN drecs : drecs[z] = o
    BY DEF Fits
  <2> QED
    BY <2>1
<1> QED
  BY <1>1, <1>2 DEF Fits

\* Each change leaves a content: a file or directory that is created,
LEMMA CreatedAre ==
    ASSUME NEW c, IsContent(c), NEW xid \in Nat, NEW c2 \in Created(c, xid)
    PROVE  IsContent(c2)
<1>1. Fits(c.inodes, c.drecs) /\ Dirs(c) = DirsOf(c.inodes)
  BY ContentParts
<1>2. PICK e \in FreeEntries(c), oid \in FileIds \ DOMAIN c.inodes,
           inode \in {Inode("file", Pieces(1, xid)), Inode("directory", <<>>)} :
          c2 = WithObject(c, e, oid, inode)
  BY DEF Created
<1>3. inode \in Inodes
  <2>1. Pieces(1, xid) \in Seq(FileExtents) /\ <<>> \in Seq(FileExtents)
    BY PiecesAre
  <2>2. \A kind \in {"file", "directory"}, s \in Seq(FileExtents) : Inode(kind, s) \in Inodes
    BY DEF Inode, Inodes
  <2>3. Inode("file", Pieces(1, xid)) \in Inodes /\ Inode("directory", <<>>) \in Inodes
    BY <2>1, <2>2
  <2> QED
    BY <1>2, <2>3
<1>4. e \in DirsOf(c.inodes) \X Names /\ e \notin DOMAIN c.drecs
  BY <1>1 DEF FreeEntries
<1>5. inode.kind = "directory" => inode.extents = <<>>
  BY <1>2 DEF Inode
<1>6. Fits(With(c.inodes, oid, inode), With(c.drecs, e, oid))
  BY <1>1, <1>3, <1>4, <1>5, Added
<1> QED
  BY <1>2, <1>6, ContentParts DEF WithObject, Contents

\* a hard link,
LEMMA HardLinkedAre ==
    ASSUME NEW c, IsContent(c), NEW c2 \in HardLinked(c)
    PROVE  IsContent(c2)
<1>1. c = Contents(c.inodes, c.drecs) /\ Fits(c.inodes, c.drecs) /\ Dirs(c) = DirsOf(c.inodes)
  BY ContentParts
<1>2. PICK oid \in Files(c), e \in FreeEntries(c) : c2 = [c EXCEPT !.drecs = With(@, e, oid)]
  BY DEF HardLinked
<1> DEFINE d2 == With(c.drecs, e, oid)
<1>3. c2 = Contents(c.inodes, d2)
  BY <1>1, <1>2 DEF Contents
<1>4. /\ DOMAIN d2 = DOMAIN c.drecs \cup {e} /\ d2[e] = oid
      /\ \A z \in DOMAIN c.drecs \ {e} : d2[z] = c.drecs[z]
      /\ d2 = [z \in DOMAIN d2 |-> d2[z]]
  BY DEF With
<1> HIDE DEF d2
<1>5. e \in DirsOf(c.inodes) \X Names /\ e \notin DOMAIN c.drecs /\ oid \in DOMAIN c.inodes
  BY <1>1 DEF FreeEntries, Files
<1>6. Fits(c.inodes, d2)
  <2>1. DOMAIN d2 \subseteq DirsOf(c.inodes) \X Names
    BY <1>1, <1>4, <1>5 DEF Fits
  <2>2. \A z \in DOMAIN d2 : d2[z] \in DOMAIN c.inodes
    BY <1>1, <1>4, <1>5 DEF Fits
  <2>3. \A z \in DOMAIN c.drecs : \E y \in DOMAIN d2 : d2[y] = c.drecs[z]
    BY <1>4, <1>5
  <2> QED
    BY <1>1, <1>4, <2>1, <2>2, <2>3, Relinked
<1> QED
  BY <1>3, <1>6, ContentParts

\* an entry that is renamed or moved,
LEMMA RenamedAre ==
    ASSUME NEW c, IsContent(c), NEW c2 \in Renamed(c)
    PROVE  IsContent(c2)
<1>1. c = Contents(c.inodes, c.drecs) /\ Fits(c.inodes, c.drecs) /\ Dirs(c) = DirsOf(c.inodes)
  BY ContentParts
<1>2. PICK from \in DOMAIN c.drecs, to \in FreeEntries(c) :
          c2 = [c EXCEPT !.drecs = With(Less(@, from), to, c.drecs[from])]
  BY DEF Renamed
<1> DEFINE d2 == With(Less(c.drecs, from), to, c.drecs[from])
<1>3. c2 = Contents(c.inodes, d2)
  BY <1>1, <1>2 DEF Contents
<1>4. /\ DOMAIN d2 = (DOMAIN c.drecs \ {from}) \cup {to} /\ d2[to] = c.drecs[from]
      /\ \A z \in DOMAIN c.drecs \ {from, to} : d2[z] = c.drecs[z]
      /\ d2 = [z \in DOMAIN d2 |-> d2[z]]
  BY DEF With, Less
<1> HIDE DEF d2
<1>5. to \in DirsOf(c.inodes) \X Names /\ to \notin DOMAIN c.drecs
  BY <1>1 DEF FreeEntries
<1>6. Fits(c.inodes, d2)
  <2>1. DOMAIN d2 \subseteq DirsOf(c.inodes) \X Names
    BY <1>1, <1>4, <1>5 DEF Fits
  <2>2. \A z \in DOMAIN d2 : d2[z] \in DOMAIN c.inodes
    BY <1>1, <1>4, <1>5 DEF Fits
  <2>3. \A z \in DOMAIN c.drecs : \E y \in DOMAIN d2 : d2[y] = c.drecs[z]
    BY <1>4, <1>5
  <2> QED
    BY <1>1, <1>4, <2>1, <2>2, <2>3, Relinked
<1> QED
  BY <1>3, <1>6, ContentParts

\* The parent of an entry that is left is left too.
LEMMA UnlinkedAre ==
    ASSUME NEW c, IsContent(c), NEW c2 \in Unlinked(c)
    PROVE  IsContent(c2)
<1>1. Fits(c.inodes, c.drecs) /\ Dirs(c) = DirsOf(c.inodes)
  BY ContentParts
<1> DEFINE D(e) == Less(c.drecs, e)
           Left(e) == {RootDir} \cup { D(e)[f] : f \in DOMAIN D(e) }
<1>2. PICK e \in DOMAIN c.drecs :
          /\ \A f \in DOMAIN c.drecs : f[1] # c.drecs[e]
          /\ c2 = Contents([oid \in Left(e) |-> c.inodes[oid]], D(e))
  BY Zenon DEF Unlinked, Contents
<1> DEFINE i2 == [oid \in Left(e) |-> c.inodes[oid]]
           d2 == D(e)
<1>3. /\ DOMAIN d2 = DOMAIN c.drecs \ {e}
      /\ \A z \in DOMAIN d2 : d2[z] = c.drecs[z]
      /\ d2 = [z \in DOMAIN d2 |-> d2[z]]
  BY DEF Less
<1>4. DOMAIN i2 = {RootDir} \cup { d2[f] : f \in DOMAIN d2 }
      /\ i2 = [z \in DOMAIN i2 |-> i2[z]]
      /\ \A z \in DOMAIN i2 : i2[z] = c.inodes[z]
  OBVIOUS
<1>5. c2 = Contents(i2, d2)
  BY <1>2
<1> HIDE DEF D, Left, i2, d2
<1>6. DOMAIN i2 \subseteq DOMAIN c.inodes
  <2>1. RootDir \in DOMAIN c.inodes
    BY <1>1 DEF Fits, DirsOf
  <2>2. \A f \in DOMAIN d2 : d2[f] \in DOMAIN c.inodes
    BY <1>1, <1>3 DEF Fits
  <2> QED
    BY <1>4, <2>1, <2>2
<1>7. /\ RootDir \in DOMAIN i2 /\ DOMAIN i2 \subseteq {RootDir} \cup FileIds
      /\ RootDir \in DirsOf(i2)
      /\ \A o \in DirsOf(i2) : i2[o].extents = <<>>
  <2>1. \A o \in DirsOf(i2) : o \in DOMAIN i2 /\ o \in DirsOf(c.inodes)
    BY <1>4, <1>6 DEF DirsOf
  <2>2. RootDir \in DOMAIN i2 /\ RootDir \in DirsOf(c.inodes)
    BY <1>1, <1>4 DEF Fits
  <2>3. RootDir \in DirsOf(i2)
    BY <1>4, <2>2 DEF DirsOf
  <2> QED
    BY <1>1, <1>4, <1>6, <2>1, <2>2, <2>3 DEF Fits
<1>8. i2 \in [DOMAIN i2 -> Inodes]
  <2>1. \A z \in DOMAIN i2 : i2[z] \in Inodes
    BY <1>1, <1>4, <1>6 DEF Fits
  <2> QED
    BY <1>4, <2>1
<1>9. ASSUME NEW f \in DOMAIN d2 PROVE f \in DirsOf(i2) \X Names
  <2>1. f \in DOMAIN c.drecs /\ f \in DirsOf(c.inodes) \X Names
    BY <1>1, <1>3 DEF Fits
  <2>2. f[1] \in DOMAIN c.inodes /\ c.inodes[f[1]].kind = "directory"
    BY <2>1 DEF DirsOf
  <2>3. f[1] \in DOMAIN i2
    <3>1. CASE f[1] = RootDir
      BY <1>7, <3>1
    <3>2. CASE f[1] # RootDir
      <4>1. PICK g \in DOMAIN c.drecs : c.drecs[g] = f[1]
        BY <1>1, <2>2, <3>2 DEF Fits
      <4>2. g # e
        BY <1>2, <2>1, <4>1
      <4> QED
        BY <1>3, <1>4, <4>1, <4>2
    <3> QED
      BY <3>1, <3>2
  <2>4. f[1] \in DirsOf(i2)
    BY <1>4, <2>2, <2>3 DEF DirsOf
  <2> QED
    BY <2>1, <2>4
<1>10. d2 \in [DOMAIN d2 -> DOMAIN i2]
  <2>1. \A z \in DOMAIN d2 : d2[z] \in DOMAIN i2
    BY <1>4
  <2> QED
    BY <1>3, <2>1
<1>11. \A o \in DOMAIN i2 \ {RootDir} : \E f \in DOMAIN d2 : d2[f] = o
  BY <1>4
<1>12. Fits(i2, d2)
  BY <1>7, <1>8, <1>9, <1>10, <1>11 DEF Fits
<1> QED
  BY <1>5, <1>12, ContentParts

\* and a file that is written.
LEMMA WrittenAre ==
    ASSUME NEW c, IsContent(c), NEW xid \in Nat, NEW c2 \in Written(c, xid)
    PROVE  IsContent(c2)
<1>1. c = Contents(c.inodes, c.drecs) /\ Fits(c.inodes, c.drecs)
  BY ContentParts
<1>2. PICK oid \in Files(c), n \in 0 .. MaxPieces :
          c2 = [c EXCEPT !.inodes[oid].extents = Pieces(n, xid)]
  BY DEF Written
<1>3. oid \in DOMAIN c.inodes /\ n \in Nat
  BY <1>2, ApfsVolumeAssumption DEF Files
<1> DEFINE i2 == [c.inodes EXCEPT ![oid].extents = Pieces(n, xid)]
<1>4. c2 = Contents(i2, c.drecs)
  BY <1>1, <1>2 DEF Contents
<1>5. Pieces(n, xid) \in Seq(FileExtents)
  BY <1>3, PiecesAre
<1>6. /\ i2 \in [DOMAIN c.inodes -> Inodes]
      /\ \A o \in DOMAIN c.inodes : i2[o].kind = c.inodes[o].kind
      /\ \A o \in DOMAIN c.inodes \ {oid} : i2[o] = c.inodes[o]
  <2> DEFINE node == c.inodes[oid]
             s == Pieces(n, xid)
  <2>1. node \in Inodes /\ c.inodes \in [DOMAIN c.inodes -> Inodes]
    BY <1>1, <1>3 DEF Fits
  <2>2. i2 = [c.inodes EXCEPT ![oid] = [node EXCEPT !.extents = s]]
    OBVIOUS
  <2> HIDE DEF node, i2, s
  <2>3. [node EXCEPT !.extents = s] \in Inodes /\ [node EXCEPT !.extents = s].kind = node.kind
    BY <1>5, <2>1 DEF Inodes, s
  <2> QED
    BY <1>3, <2>1, <2>2, <2>3 DEF node
<1> HIDE DEF i2
<1>7. DOMAIN i2 = DOMAIN c.inodes /\ DirsOf(i2) = DirsOf(c.inodes)
  BY <1>6 DEF DirsOf
<1>8. \A o \in DirsOf(i2) : i2[o].extents = <<>>
  <2>1. oid \notin DirsOf(c.inodes)
    BY <1>2, <1>3 DEF Files, Dirs, DirsOf
  <2>2. \A o \in DirsOf(c.inodes) : o \in DOMAIN c.inodes \ {oid}
    BY <2>1 DEF DirsOf
  <2> QED
    BY <1>1, <1>6, <1>7, <2>2 DEF Fits
<1>9. Fits(i2, c.drecs)
  BY <1>1, <1>6, <1>7, <1>8 DEF Fits
<1> QED
  BY <1>4, <1>9, ContentParts

\* Any change.
LEMMA ChangesAre ==
    ASSUME NEW c, IsContent(c), NEW xid \in Nat, NEW c2 \in Changes(c, xid)
    PROVE  IsContent(c2)
  BY CreatedAre, HardLinkedAre, UnlinkedAre, RenamedAre, WrittenAre DEF Changes
-----------------------------------------------------------------------------
(***************************************************************************)
(* What the library reads of a transaction that is on a disk.              *)
(***************************************************************************)
\* The blocks of d that can be read.
Part(e, d) == DOMAIN e \subseteq DOMAIN d /\ \A b \in DOMAIN e : e[b] = d[b]

\* A lookup in the object map of a disk gives a mapping, or an I/O error.
LEMMA OmapFinds ==
    ASSUME NEW d, NEW root, NEW recs, NEW from \in Nat, NEW to, HoldsOmap(d, root, recs, from, to),
           from .. to \subseteq DOMAIN d, NEW e, Part(e, d),
           NEW oid \in Nat, \E m \in recs : m.key.oid = oid
    PROVE  \/ OmapLookup(e, root, oid) = Err("Io") /\ DOMAIN e # DOMAIN d
           \/ \E m \in recs : m.key.oid = oid /\ OmapLookup(e, root, oid) = Ok(m.val)
<1>1. PICK tree, R, T : /\ IsOmap(d, root, tree, R, T)
                        /\ Enumerates(R, recs)
                        /\ DOMAIN tree \subseteq from .. to
  BY DEF HoldsOmap
<1>2. IsOmap(e, root, tree, R, T)
  BY <1>1 DEF IsOmap, Holds, Part
<1>3. DOMAIN R = 1 .. Len(R)
  BY <1>1, SortedFacts DEF IsOmap
<1>4. \E i \in DOMAIN R : R[i].key.oid = oid
  BY <1>1, <1>3 DEF Enumerates
<1>5. \/ OmapLookup(e, root, oid) = Err("Io") /\ ~(DOMAIN tree \subseteq DOMAIN e)
      \/ \E i \in DOMAIN R : R[i].key.oid = oid /\ OmapLookup(e, root, oid) = Ok(R[i].val)
  BY <1>2, <1>4, OmapLookupIsRight
<1>6. \A i \in DOMAIN R : R[i] \in recs
  BY <1>1, <1>3 DEF Enumerates
<1>7. DOMAIN tree \subseteq DOMAIN d
  BY <1>1
<1> QED
  BY <1>5, <1>6, <1>7

\* The object map of a checkpoint is one leaf.
LEMMA LeafIsOmap ==
    ASSUME NEW d, NEW root \in Nat, NEW oid \in Nat, NEW x \in Nat, NEW val,
           d[root] = Node(TRUE, << Mapping(oid, x, val) >>)
    PROVE  HoldsOmap(d, root, {Mapping(oid, x, val)}, root, root)
<1> DEFINE m == Mapping(oid, x, val)
           R == << m >>
           tree == [b \in {root} |-> d[root]]
           T == { <<0, root, 1, 1>> }
<1>1. /\ m = [key |-> m.key, val |-> m.val] /\ IsFullKey(m.key)
      /\ m.key.type = OmapType /\ OmapType \in Nat
  BY DEF Mapping, FullKey, IsFullKey, IsKey, OmapType
<1>2. d[root] = Node(TRUE, R)
  OBVIOUS
<1> HIDE DEF m
<1>3. /\ R \in Seq({ R[i] : i \in DOMAIN R }) /\ DOMAIN R = 1 .. 1 /\ Len(R) = 1 /\ R[1] = m
      /\ R = [i \in 1 .. 1 |-> R[i]]
  <2>1. R \in Seq({m}) /\ { R[i] : i \in DOMAIN R } = {m} /\ Len(R) = 1 /\ R[1] = m
        /\ DOMAIN R = 1 .. 1 /\ R = [i \in 1 .. 1 |-> R[i]]
    OBVIOUS
  <2> QED
    BY <2>1
<1> HIDE DEF R
<1>4. Sorted(R)
  <2>1. \A i \in DOMAIN R : R[i] = m
    BY <1>3
  <2>2. \A i, j \in DOMAIN R : ~(i < j)
    BY <1>3
  <2> QED
    BY <1>1, <1>3, <2>1, <2>2 DEF Sorted, IsFullKey
<1>5. \A i \in DOMAIN R : R[i].key.type = OmapType
  BY <1>1, <1>3
<1>6. IsTree(tree, R, T)
  <2>1. T \subseteq Nat \X (DOMAIN tree) \X Nat \X Nat
    OBVIOUS
  <2>2. IsLeaf(tree[root], R, 1, 1)
    <3>1. tree[root].leaf /\ tree[root].recs = R
      BY <1>2 DEF Node
    <3>2. R = [i \in 1 .. 1 - 1 + 1 |-> R[1 + i - 1]]
      <4>1. [i \in 1 .. 1 - 1 + 1 |-> R[1 + i - 1]] = [i \in 1 .. 1 |-> R[i]]
        OBVIOUS
      <4> QED
        BY <1>3, <4>1
    <3> QED
      BY <3>1, <3>2 DEF IsLeaf
  <2>3. ASSUME NEW n \in Nat, NEW o \in Nat, NEW lo \in Nat, NEW hi \in Nat,
               <<n, o, lo, hi>> \in T
        PROVE  n = 0 /\ o = root /\ lo = 1 /\ hi = 1
    BY <2>3
  <2> HIDE DEF T, tree
  <2> QED
    BY <1>3, <2>1, <2>2, <2>3 DEF IsTree
<1>7. /\ DOMAIN tree = {root} /\ tree[root] = d[root] /\ <<0, root, 1, 1>> \in T
  OBVIOUS
<1> HIDE DEF T, tree
<1>8. IsOmap(d, root, tree, R, T)
  <2>1. 0 \in 0 .. MaxHeight
    BY BTreeAssumption
  <2> QED
    BY <1>3, <1>4, <1>5, <1>6, <1>7, <2>1 DEF IsOmap, Holds
<1>9. Enumerates(R, {m})
  <2>1. Cardinality({m}) = 1
    BY FS_Singleton
  <2> QED
    BY <1>3, <2>1 DEF Enumerates, IsSeq
<1>10. IsNode(d[root])
  BY <1>2 DEF IsNode, Node
<1>11. root \in root .. root
  OBVIOUS
<1> QED
  BY <1>7, <1>8, <1>9, <1>10, <1>11 DEF HoldsOmap, m
-----------------------------------------------------------------------------
\* A block that a mapping of the root of the catalog leads to.
IsRoot(s, r) == \E m \in s.newest \cup s.maps : m.key.oid = RootTreeOid /\ m.val = r

\* What opening a checkpoint gives.
IsOpened(v, d, e, s, x) ==
    \/ v = Err("Io") /\ DOMAIN e # DOMAIN d
    \/ \E r \in FirstFree .. s.free - 1 :
          /\ v = Ok([xid |-> x, omap |-> s.free - 5, root |-> r])
          /\ IsNode(d[r]) /\ IsRoot(s, r)

\* What read_block gives.
LEMMA ReadFacts ==
    ASSUME NEW d, NEW e, Part(e, d), NEW b \in DOMAIN d
    PROVE  \/ ReadBlock(e, b) = Err("Io") /\ DOMAIN e # DOMAIN d
           \/ ReadBlock(e, b) = Ok(d[b])
  BY DEF ReadBlock, Part

\* A transaction takes at least ten blocks.
LEMMA StoredFree ==
    ASSUME NEW d, NEW s, NEW x, Stored(d, s, x)
    PROVE  /\ s.free \in Nat /\ FirstFree \in Nat /\ FirstFree = 5 /\ 10 <= s.free
           /\ FirstFree .. s.free - 1 \subseteq DOMAIN d
           /\ \A i \in 1 .. 5 : s.free - i \in FirstFree .. s.free - 1
<1>1. /\ s.free \in Nat /\ FirstFree = 5 /\ FirstFree <= s.free - 5
      /\ FirstFree .. s.free - 1 \subseteq DOMAIN d
  BY DEF Stored, MapsTo, IsFree, FirstFree, DescBase, DescBlocks
<1> QED
  BY <1>1

\* What the library opens of a transaction.
LEMMA MountedIs ==
    ASSUME NEW d, NEW s, NEW x \in Nat, Stored(d, s, x), NEW e, Part(e, d)
    PROVE  IsOpened(Mounted(e, x, VolumeSuperblock(s.free - 4, RootTreeOid)), d, e, s, x)
<1> DEFINE sb == VolumeSuperblock(s.free - 4, RootTreeOid)
           v == Mounted(e, x, sb)
           recs == s.newest \cup s.maps
<1>1. sb.omap = s.free - 4 /\ sb.rootTree = RootTreeOid
  BY DEF VolumeSuperblock
<1> HIDE DEF sb
<1>2. /\ s.free \in Nat /\ FirstFree \in Nat /\ FirstFree .. s.free - 1 \subseteq DOMAIN d
      /\ s.free - 4 \in DOMAIN d /\ FirstFree .. s.free - 5 \subseteq DOMAIN d
  BY StoredFree
<1>3. d[s.free - 4] = ObjectMap(s.free - 5)
  BY DEF Stored, LeadsTo
<1>4. \/ ReadBlock(e, s.free - 4) = Err("Io") /\ DOMAIN e # DOMAIN d
      \/ ReadBlock(e, s.free - 4) = Ok(ObjectMap(s.free - 5))
  BY <1>2, <1>3, ReadFacts
<1>5. CASE ReadBlock(e, s.free - 4) = Err("Io") /\ DOMAIN e # DOMAIN d
  <2>1. v = Err("Io")
    BY <1>1, <1>5 DEF Mounted, ReadOmapTreeRoot, Then, Err
  <2> QED
    BY <1>5, <2>1 DEF IsOpened, sb
<1>6. CASE ReadBlock(e, s.free - 4) = Ok(ObjectMap(s.free - 5))
  <2> DEFINE a == s.free - 4
             r == s.free - 5
             block == ReadBlock(e, a)
  <2>0. block.ok = TRUE /\ block.val = ObjectMap(r) /\ ObjectMap(r).root = r /\ sb.omap = a
    BY <1>1, <1>6 DEF Ok, ObjectMap
  <2> HIDE DEF a, r, block
  <2>6. ReadOmapTreeRoot(e, a) = Ok(r)
    <3>1. ReadOmapTreeRoot(e, a) = IF block.ok THEN Ok(block.val.root) ELSE block
      BY DEF ReadOmapTreeRoot, Then, block
    <3> QED
      BY <2>0, <3>1
  <2>1. ReadOmapTreeRoot(e, sb.omap) = Ok(s.free - 5)
    BY <2>0, <2>6 DEF r
  <2> DEFINE found == OmapLookup(e, s.free - 5, RootTreeOid)
  <2>2. v = IF found.ok THEN Ok([xid |-> x, omap |-> s.free - 5, root |-> found.val]) ELSE found
    <3> DEFINE read == ReadOmapTreeRoot(e, sb.omap)
    <3>1. read.ok = TRUE /\ read.val = s.free - 5
      BY <2>1 DEF Ok
    <3>2. v = IF read.ok
              THEN IF OmapLookup(e, read.val, sb.rootTree).ok
                   THEN Ok([xid |-> x, omap |-> read.val,
                            root |-> OmapLookup(e, read.val, sb.rootTree).val])
                   ELSE OmapLookup(e, read.val, sb.rootTree)
              ELSE read
      BY DEF Mounted, Then
    <3> HIDE DEF read
    <3> QED
      BY <1>1, <3>1, <3>2
  <2>3. \/ found = Err("Io") /\ DOMAIN e # DOMAIN d
        \/ \E m \in recs : m.key.oid = RootTreeOid /\ found = Ok(m.val)
    <3>1. HoldsOmap(d, s.free - 5, recs, FirstFree, s.free - 5)
      BY DEF Stored
    <3>2. \E m \in recs : m.key.oid = RootTreeOid
      BY DEF Stored, MapsTo, Places
    <3>3. RootTreeOid \in Nat
      BY DEF RootTreeOid
    <3> HIDE DEF recs
    <3> QED
      BY <1>2, <3>1, <3>2, <3>3, OmapFinds
  <2> HIDE DEF found, v
  <2>4. CASE found = Err("Io") /\ DOMAIN e # DOMAIN d
    <3>1. v = Err("Io")
      BY <2>2, <2>4 DEF Err
    <3> QED
      BY <2>4, <3>1 DEF IsOpened, v, sb
  <2>5. CASE \E m \in recs : m.key.oid = RootTreeOid /\ found = Ok(m.val)
    <3>1. PICK m \in recs : m.key.oid = RootTreeOid /\ found = Ok(m.val)
      BY <2>5
    <3>2. v = Ok([xid |-> x, omap |-> s.free - 5, root |-> m.val])
      BY <2>2, <3>1 DEF Ok
    <3>3. m.val \in FirstFree .. s.free - 1 /\ IsNode(d[m.val])
      BY <3>1 DEF Stored, MapsTo, AreMaps, Lead
    <3>4. IsRoot(s, m.val)
      BY <3>1 DEF IsRoot
    <3> QED
      BY <3>2, <3>3, <3>4 DEF IsOpened, v, sb
  <2> QED
    BY <2>3, <2>4, <2>5
<1> QED
  BY <1>4, <1>5, <1>6

\* What it opens by way of the superblock of a transaction.
LEMMA FirstVolumeIs ==
    ASSUME NEW d, NEW s, NEW x \in Nat, Stored(d, s, x), NEW e, Part(e, d)
    PROVE  IsOpened(FirstVolume(e, Superblock(x, s.free - 1)), d, e, s, x)
<1> DEFINE nxsb == Superblock(x, s.free - 1)
           v == FirstVolume(e, nxsb)
           volumes == { i \in DOMAIN nxsb.fs : nxsb.fs[i] # 0 }
<1>1. nxsb.omap = s.free - 1 /\ nxsb.xid = x /\ nxsb.fs = <<0, VolumeOid>>
  BY DEF Superblock
<1> HIDE DEF nxsb
<1>2. /\ volumes = {2} /\ nxsb.fs[2] = VolumeOid /\ VolumeOid = 1
  BY <1>1 DEF VolumeOid
<1>3. Min({2}) = 2
  <2>1. {2} \in SUBSET Nat /\ {2} # {}
    OBVIOUS
  <2>2. Min({2}) \in {2}
    BY <2>1, Least
  <2> QED
    BY <2>2
<1>4. /\ s.free \in Nat /\ s.free - 1 \in DOMAIN d /\ s.free - 2 \in DOMAIN d
      /\ s.free - 3 \in DOMAIN d /\ s.free - 2 \in Nat
  BY StoredFree
<1>5. /\ d[s.free - 1] = ObjectMap(s.free - 2)
      /\ d[s.free - 2] = Node(TRUE, << Mapping(VolumeOid, x, s.free - 3) >>)
      /\ d[s.free - 3] = VolumeSuperblock(s.free - 4, RootTreeOid)
  BY DEF Stored, LeadsTo
<1> DEFINE at == OmapLookup(e, s.free - 2, VolumeOid)
           sb == ReadBlock(e, at.val)
<1>6. v = IF ~ReadBlock(e, s.free - 1).ok THEN ReadBlock(e, s.free - 1)
          ELSE Then(OmapLookup(e, ReadBlock(e, s.free - 1).val.root, VolumeOid), LAMBDA b :
               Then(ReadBlock(e, b), LAMBDA block :
                   IF block.is # "volume" THEN Err("InvalidMagic") ELSE Mounted(e, x, block)))
  BY <1>1, <1>2, <1>3 DEF FirstVolume, ReadOmapTreeRoot, Then, Ok
<1> HIDE DEF v
<1>7. \/ ReadBlock(e, s.free - 1) = Err("Io") /\ DOMAIN e # DOMAIN d
      \/ ReadBlock(e, s.free - 1) = Ok(ObjectMap(s.free - 2))
  BY <1>4, <1>5, ReadFacts
<1>8. CASE ReadBlock(e, s.free - 1) = Err("Io") /\ DOMAIN e # DOMAIN d
  <2>1. v = Err("Io")
    <3> DEFINE read == ReadBlock(e, s.free - 1)
               rest == Then(OmapLookup(e, read.val.root, VolumeOid), LAMBDA b :
                       Then(ReadBlock(e, b), LAMBDA block :
                           IF block.is # "volume" THEN Err("InvalidMagic")
                           ELSE Mounted(e, x, block)))
    <3>1. v = IF ~read.ok THEN read ELSE rest
      BY <1>6
    <3>2. read = Err("Io")
      BY <1>8
    <3> HIDE DEF read, rest
    <3> QED
      BY <3>1, <3>2, ResultFacts
  <2> QED
    BY <1>8, <2>1 DEF IsOpened, v, nxsb
<1>9. CASE ReadBlock(e, s.free - 1) = Ok(ObjectMap(s.free - 2))
  <2>1. v = IF ~at.ok THEN at ELSE IF ~sb.ok THEN sb
            ELSE IF sb.val.is # "volume" THEN Err("InvalidMagic") ELSE Mounted(e, x, sb.val)
    BY <1>6, <1>9 DEF Then, Ok, ObjectMap
  <2>2. \/ at = Err("Io") /\ DOMAIN e # DOMAIN d
        \/ at = Ok(s.free - 3)
    <3> DEFINE m == Mapping(VolumeOid, x, s.free - 3)
    <3>1. m.key.oid = VolumeOid /\ m.val = s.free - 3 /\ VolumeOid \in Nat
      BY DEF Mapping, FullKey, VolumeOid
    <3>2. HoldsOmap(d, s.free - 2, {m}, s.free - 2, s.free - 2)
      BY <1>4, <1>5, <3>1, LeafIsOmap
    <3> HIDE DEF m
    <3>3. s.free - 2 .. s.free - 2 \subseteq DOMAIN d
      BY <1>4
    <3>4. \/ at = Err("Io") /\ DOMAIN e # DOMAIN d
          \/ \E k \in {m} : k.key.oid = VolumeOid /\ at = Ok(k.val)
      BY <1>4, <3>1, <3>2, <3>3, OmapFinds
    <3> QED
      BY <3>1, <3>4
  <2> HIDE DEF at
  <2>3. CASE at = Err("Io") /\ DOMAIN e # DOMAIN d
    <3>1. v = Err("Io")
      BY <2>1, <2>3 DEF Err
    <3> QED
      BY <2>3, <3>1 DEF IsOpened, v, nxsb
  <2>4. CASE at = Ok(s.free - 3)
    <3>1. at.ok /\ at.val = s.free - 3
      BY <2>4 DEF Ok
    <3>2. \/ sb = Err("Io") /\ DOMAIN e # DOMAIN d
          \/ sb = Ok(VolumeSuperblock(s.free - 4, RootTreeOid))
      BY <1>4, <1>5, <3>1, ReadFacts
    <3> HIDE DEF sb
    <3>3. CASE sb = Err("Io") /\ DOMAIN e # DOMAIN d
      <4>1. v = Err("Io")
        BY <2>1, <3>1, <3>3 DEF Err
      <4> QED
        BY <3>3, <4>1 DEF IsOpened, v, nxsb
    <3>4. CASE sb = Ok(VolumeSuperblock(s.free - 4, RootTreeOid))
      <4> DEFINE volume == VolumeSuperblock(s.free - 4, RootTreeOid)
      <4>1. volume.is = "volume"
        BY DEF VolumeSuperblock
      <4> HIDE DEF volume
      <4>2. sb.ok /\ sb.val = volume
        BY <3>4, ResultFacts DEF volume
      <4>3. v = Mounted(e, x, VolumeSuperblock(s.free - 4, RootTreeOid))
        BY <2>1, <3>1, <4>1, <4>2 DEF volume
      <4> QED
        BY <4>3, MountedIs DEF v, nxsb
    <3> QED
      BY <3>2, <3>3, <3>4
  <2> QED
    BY <2>2, <2>3, <2>4
<1> QED
  BY <1>7, <1>8, <1>9
-----------------------------------------------------------------------------
(***************************************************************************)
(* ApfsVolume::open: of the superblocks that it can read it takes the newest,*)
(* and that is one whose transaction is on the disk.                       *)
(***************************************************************************)
\* The superblock of a transaction.
SuperOf(states, y) == Superblock(y, states[y].free - 1)

\* What block 0, and what the ring hold.
IsSuper(states, block) == \E y \in 1 .. Len(states) : block = SuperOf(states, y)

RingOK ==
    /\ IsSeq(committed) /\ Xid >= 1
    /\ \A x \in 1 .. Xid : Stored(disk, committed[x], x)
    /\ 0 \in DOMAIN disk /\ (disk[0] = Torn \/ IsSuper(committed, disk[0]))
    /\ \A b \in DOMAIN disk \cap (1 .. 4) :
          disk[b] \in {Torn, CheckpointMap} \/ IsSuper(committed, disk[b])
    /\ SuperSlot(Xid) \in DOMAIN disk /\ disk[SuperSlot(Xid)] = SuperOf(committed, Xid)

\* Two transactions one after the other use different slots of the ring.
LEMMA Slots ==
    ASSUME NEW x \in Nat
    PROVE  /\ MapSlot(x) \in {1, 3} /\ SuperSlot(x) \in {2, 4}
           /\ SuperSlot(x + 1) # SuperSlot(x) /\ SuperSlot(x) = MapSlot(x) + 1
<1>1. x % 2 = 0 \/ x % 2 = 1
  OBVIOUS
<1>2. /\ x % 2 = 0 => (2 * x) % 4 = 0 /\ (2 * (x + 1)) % 4 = 2
      /\ x % 2 = 1 => (2 * x) % 4 = 2 /\ (2 * (x + 1)) % 4 = 0
  OBVIOUS
<1> QED
  BY <1>1, <1>2 DEF MapSlot, SuperSlot, DescBase, DescBlocks

\* Of numbers that are bounded one is the highest.
LEMMA Highest ==
    ASSUME NEW S, S # {}, NEW f \in [S -> Nat], NEW N \in Nat, \A b \in S : f[b] <= N
    PROVE  \E b \in S : \A c \in S : f[b] >= f[c]
<1> DEFINE T == { N - f[b] : b \in S }
<1>1. T \in SUBSET Nat /\ T # {}
  OBVIOUS
<1>2. Min(T) \in T /\ \A n \in T : Min(T) <= n
  BY <1>1, Least
<1>3. PICK b \in S : Min(T) = N - f[b]
  BY <1>2
<1>4. \A c \in S : N - f[b] <= N - f[c]
  BY <1>2, <1>3
<1> QED
  BY <1>4

\* What a superblock says of its transaction.
LEMMA SuperFacts ==
    ASSUME NEW block, IsSuper(committed, block)
    PROVE  /\ block # Torn /\ block.is = "superblock"
           /\ block.xid \in 1 .. Xid /\ block = SuperOf(committed, block.xid)
<1>1. PICK y \in 1 .. Xid : block = SuperOf(committed, y)
  BY DEF IsSuper, Xid
<1>2. /\ SuperOf(committed, y).is = "superblock" /\ SuperOf(committed, y).xid = y
  BY DEF SuperOf, Superblock
<1>3. Torn.is = "torn"
  BY DEF Torn
<1> QED
  BY <1>1, <1>2, <1>3

\* The newest superblock that can be read.
LEMMA LatestIs ==
    ASSUME RingOK, NEW e, Part(e, disk), NEW zero, IsSuper(committed, zero)
    PROVE  \E x \in 1 .. Xid :
              /\ FindLatestNxsb(e, zero) = SuperOf(committed, x)
              /\ x = Xid \/ SuperSlot(Xid) \notin DOMAIN e
<1> DEFINE slot == SuperSlot(Xid)
           newer == { b \in Candidates(e) : e[b].xid > zero.xid }
<1>1. Xid \in Nat /\ Xid >= 1 /\ slot \in {2, 4}
  BY Slots DEF RingOK, IsSeq, Xid
<1>2. zero.xid \in 1 .. Xid /\ zero = SuperOf(committed, zero.xid)
  BY SuperFacts
<1>3. ASSUME NEW b \in Candidates(e)
      PROVE  /\ b \in DOMAIN e /\ IsSuper(committed, e[b])
             /\ e[b].xid \in 1 .. Xid /\ e[b] = SuperOf(committed, e[b].xid)
  <2>1. b \in DOMAIN e /\ b \in 1 .. 4 /\ e[b] # Torn /\ e[b].is = "superblock"
    BY DEF Candidates, DescBase, DescBlocks
  <2>2. e[b] = disk[b] /\ b \in DOMAIN disk
    BY <2>1 DEF Part
  <2>3. e[b] # CheckpointMap
    BY <2>1 DEF CheckpointMap
  <2>4. IsSuper(committed, e[b])
    BY <2>1, <2>2, <2>3 DEF RingOK
  <2> QED
    BY <2>1, <2>4, SuperFacts
<1>4. slot \in DOMAIN e => slot \in Candidates(e) /\ e[slot].xid = Xid
  <2> SUFFICES ASSUME slot \in DOMAIN e PROVE slot \in Candidates(e) /\ e[slot].xid = Xid
    OBVIOUS
  <2>1. e[slot] = SuperOf(committed, Xid)
    BY DEF Part, RingOK
  <2>2. e[slot] # Torn /\ e[slot].is = "superblock" /\ e[slot].xid = Xid
    BY <2>1 DEF SuperOf, Superblock, Torn
  <2> QED
    BY <1>1, <2>2 DEF Candidates, DescBase, DescBlocks
<1> HIDE DEF slot
<1>5. CASE newer = {}
  <2>1. FindLatestNxsb(e, zero) = zero
    BY <1>5 DEF FindLatestNxsb
  <2>2. slot \in DOMAIN e => ~(Xid > zero.xid)
    BY <1>4, <1>5
  <2>3. slot \in DOMAIN e => zero.xid = Xid
    BY <1>1, <1>2, <2>2
  <2> QED
    BY <1>2, <2>1, <2>3 DEF slot
<1>6. CASE newer # {}
  <2> DEFINE f == [b \in newer |-> e[b].xid]
             b == CHOOSE b \in newer : \A c \in newer : e[b].xid >= e[c].xid
  <2>1. f \in [newer -> Nat] /\ \A a \in newer : f[a] <= Xid /\ f[a] = e[a].xid
    BY <1>1, <1>3
  <2> HIDE DEF f, newer
  <2>2. \E a \in newer : \A c \in newer : f[a] >= f[c]
    BY <1>1, <1>6, <2>1, Highest
  <2>3. b \in newer /\ \A c \in newer : e[b].xid >= e[c].xid
    <3>1. \E a \in newer : \A c \in newer : e[a].xid >= e[c].xid
      BY <2>1, <2>2
    <3> QED
      BY <3>1
  <2>4. FindLatestNxsb(e, zero) = e[b]
    BY <1>6 DEF FindLatestNxsb, newer
  <2> HIDE DEF b
  <2>5. e[b].xid \in 1 .. Xid /\ e[b] = SuperOf(committed, e[b].xid)
    BY <1>3, <2>3 DEF newer
  <2>6. slot \in DOMAIN e => e[b].xid = Xid
    <3> SUFFICES ASSUME slot \in DOMAIN e PROVE e[b].xid = Xid
      OBVIOUS
    <3>1. CASE slot \in newer
      <4>1. e[b].xid >= Xid
        BY <1>4, <2>3, <3>1
      <4> QED
        BY <1>1, <2>5, <4>1
    <3>2. CASE slot \notin newer
      <4>1. ~(Xid > zero.xid)
        BY <1>4, <3>2 DEF newer
      <4>2. e[b].xid > zero.xid
        BY <2>3 DEF newer
      <4> QED
        BY <1>1, <1>2, <2>5, <4>1, <4>2
    <3> QED
      BY <3>1, <3>2
  <2> QED
    BY <2>4, <2>5, <2>6 DEF slot
<1> QED
  BY <1>5, <1>6

\* What ApfsVolume::open gives for the blocks that can be read.
LEMMA OpenVolumeIs ==
    ASSUME RingOK, NEW e, Part(e, disk)
    PROVE  \/ OpenVolume(e) = Err("Io") /\ DOMAIN e # DOMAIN disk
           \/ OpenVolume(e) = Err("InvalidChecksum") /\ disk[0] = Torn
           \/ \E x \in 1 .. Xid : \E r \in FirstFree .. committed[x].free - 1 :
                 /\ OpenVolume(e) = Ok([xid |-> x, omap |-> committed[x].free - 5, root |-> r])
                 /\ IsNode(disk[r]) /\ IsNode(disk[committed[x].free - 5])
                 /\ IsRoot(committed[x], r)
                 /\ x = Xid \/ SuperSlot(Xid) \notin DOMAIN e
                 /\ disk[0] # Torn
<1> DEFINE v == OpenVolume(e)
           zero == ReadNxsb(e)
<1>1. v = IF zero.ok THEN FirstVolume(e, FindLatestNxsb(e, zero.val)) ELSE zero
  BY DEF OpenVolume, Then
<1> DEFINE block == ReadBlock(e, 0)
<1>5. zero = IF block.ok
             THEN IF block.val = Torn THEN Err("InvalidChecksum")
                  ELSE IF block.val.is # "superblock" THEN Err("InvalidMagic")
                  ELSE Ok(block.val)
             ELSE block
  BY DEF ReadNxsb, Then
<1> HIDE DEF zero
<1>2. \/ ReadBlock(e, 0) = Err("Io") /\ DOMAIN e # DOMAIN disk
      \/ ReadBlock(e, 0) = Ok(disk[0])
  BY ReadFacts DEF RingOK
<1>3. CASE ReadBlock(e, 0) = Err("Io") /\ DOMAIN e # DOMAIN disk
  <2>1. zero = Err("Io")
    <3>1. block = Err("Io")
      BY <1>3
    <3> HIDE DEF block
    <3> QED
      BY <1>5, <3>1, ResultFacts
  <2> QED
    BY <1>1, <1>3, <2>1 DEF Err
<1>4. CASE ReadBlock(e, 0) = Ok(disk[0])
  <2>1. zero = IF disk[0] = Torn THEN Err("InvalidChecksum")
               ELSE IF disk[0].is # "superblock" THEN Err("InvalidMagic")
               ELSE Ok(disk[0])
    <3>1. block = Ok(disk[0])
      BY <1>4
    <3> HIDE DEF block
    <3> QED
      BY <1>5, <3>1, ResultFacts
  <2>2. CASE disk[0] = Torn
    BY <1>1, <2>1, <2>2 DEF Err
  <2>3. CASE disk[0] # Torn
    <3>1. zero.ok /\ zero.val = disk[0] /\ IsSuper(committed, disk[0])
      <4>1. IsSuper(committed, disk[0])
        BY <2>3 DEF RingOK
      <4>2. disk[0].is = "superblock"
        BY <4>1 DEF IsSuper, SuperOf, Superblock
      <4> QED
        BY <2>1, <2>3, <4>1, <4>2 DEF Ok
    <3>2. PICK x \in 1 .. Xid : /\ FindLatestNxsb(e, disk[0]) = SuperOf(committed, x)
                                /\ x = Xid \/ SuperSlot(Xid) \notin DOMAIN e
      BY <3>1, LatestIs
    <3>3. v = FirstVolume(e, Superblock(x, committed[x].free - 1))
      BY <1>1, <3>1, <3>2 DEF SuperOf
    <3> HIDE DEF v
    <3>4. Stored(disk, committed[x], x) /\ x \in Nat
      BY DEF RingOK, IsSeq, Xid
    <3>5. IsOpened(v, disk, e, committed[x], x)
      BY <3>3, <3>4, FirstVolumeIs
    <3>6. IsNode(disk[committed[x].free - 5])
      BY <3>4 DEF Stored, HoldsOmap
    <3> QED
      BY <2>3, <3>2, <3>5, <3>6 DEF IsOpened, v
  <2> QED
    BY <2>2, <2>3
<1> QED
  BY <1>2, <1>3, <1>4
-----------------------------------------------------------------------------
(***************************************************************************)
(* The inductive invariant, and the steps that write.                      *)
(***************************************************************************)
\* A later transaction is written behind the earlier ones.
FreesOK == \A x \in 1 .. Xid : committed[x].free <= committed[Xid].free

BlocksOK ==
    \A b \in DOMAIN disk : disk[b].is \in
        {"torn", "map", "superblock", "omap", "volume", "node"}

PhaseOK ==
    /\ phase \in {"idle", "trees", "map", "off", "open"}
    /\ (pending # None) <=> phase \in {"trees", "map"}
    /\ snap \in 0 .. Xid

\* The transaction that is being written is on the disk, and only not reached.
PendingOK ==
    phase \in {"trees", "map"} =>
        /\ Stored(disk, pending.state, Xid + 1)
        /\ committed[Xid].free <= pending.state.free
        /\ pending.super = Superblock(Xid + 1, pending.state.free - 1)

BadOK ==
    /\ bad \subseteq DOMAIN disk
    /\ bad = {} \/ (phase = "open" /\ \E b : bad = {b})

\* The volume is open in the last transaction, if nothing keeps it from that.
OpenOK ==
    IF phase = "open"
    THEN \/ vol = Err("Io") /\ bad # {}
         \/ vol = Err("InvalidChecksum") /\ disk[0] = Torn
         \/ \E x \in 1 .. Xid : \E r \in FirstFree .. committed[x].free - 1 :
               /\ vol = Ok([xid |-> x, omap |-> committed[x].free - 5, root |-> r])
               /\ IsNode(disk[r]) /\ IsNode(disk[committed[x].free - 5])
               /\ IsRoot(committed[x], r)
               /\ x = Xid \/ bad = {SuperSlot(Xid)}
               /\ disk[0] # Torn
    ELSE vol = Err("closed")

IInv ==
    /\ RingOK /\ FreesOK /\ BlocksOK /\ PhaseOK /\ PendingOK /\ BadOK /\ OpenOK

\* A transaction stays on the disk while its blocks are kept.
LEMMA StoredFrame ==
    ASSUME NEW d, NEW s, NEW x, Stored(d, s, x), NEW e, Keeps(e, d, s.free)
    PROVE  Stored(e, s, x)
<1>1. /\ s.free \in Nat /\ FirstFree = 5 /\ 10 <= s.free
      /\ \A i \in 1 .. 5 : s.free - i \in FirstFree .. s.free - 1
  BY StoredFree
<1>2. /\ IsFree(d, s.free) /\ AreMaps(s.free, s.newest \cup s.maps, x)
      /\ Lead(d, s.newest \cup s.maps) /\ Places(d, s.nodes, s.newest)
  BY DEF Stored, MapsTo
<1>3. \A m \in s.newest \cup s.maps : e[m.val] = d[m.val]
  BY <1>2 DEF AreMaps, Keeps
<1>4. IsFree(e, s.free)
  BY <1>2 DEF IsFree, Keeps
<1>5. Lead(e, s.newest \cup s.maps) /\ Places(e, s.nodes, s.newest)
  BY <1>2, <1>3 DEF Lead, Places
<1>6. MapsTo(e, s, x)
  BY <1>2, <1>4, <1>5 DEF MapsTo
<1>7. \A i \in 1 .. 5 : e[s.free - i] = d[s.free - i]
  BY <1>1 DEF Keeps
<1>8. LeadsTo(e, s.free, x)
  <2>1. /\ e[s.free - 1] = d[s.free - 1] /\ e[s.free - 2] = d[s.free - 2]
        /\ e[s.free - 3] = d[s.free - 3] /\ e[s.free - 4] = d[s.free - 4]
    BY <1>7
  <2>2. LeadsTo(d, s.free, x)
    BY DEF Stored
  <2> QED
    BY <2>1, <2>2 DEF LeadsTo
<1>9. HoldsOmap(e, s.free - 5, s.newest \cup s.maps, FirstFree, s.free - 5)
  <2> DEFINE recs == s.newest \cup s.maps
             root == s.free - 5
  <2>1. HoldsOmap(d, root, recs, FirstFree, root)
    BY DEF Stored
  <2>2. \A b \in FirstFree .. root : b \in DOMAIN e /\ e[b] = d[b] /\ b \in DOMAIN d
    <3>1. \A b \in FirstFree .. root : b \in FirstFree .. s.free - 1
      BY <1>1
    <3> QED
      BY <1>2, <3>1 DEF Keeps, IsFree
  <2> HIDE DEF root, recs
  <2>3. PICK tree, R, T : /\ IsOmap(d, root, tree, R, T)
                          /\ Enumerates(R, recs)
                          /\ DOMAIN tree \subseteq FirstFree .. root
    BY <2>1 DEF HoldsOmap
  <2>4. \A b \in DOMAIN tree : Holds(e, b, tree[b])
    BY <2>2, <2>3 DEF IsOmap, Holds
  <2>5. IsOmap(e, root, tree, R, T)
    BY <2>3, <2>4 DEF IsOmap
  <2>6. IsNode(e[root]) /\ root \in FirstFree .. root
    BY <2>1, <2>2 DEF HoldsOmap
  <2> QED
    BY <2>3, <2>5, <2>6 DEF HoldsOmap, root, recs
<1> QED
  BY <1>6, <1>8, <1>9 DEF Stored

\* A write that leaves the transactions that count alone.
LEMMA RingStep ==
    ASSUME RingOK, FreesOK, committed' = committed,
           Keeps(disk', disk, committed[Xid].free),
           0 \in DOMAIN disk', disk'[0] = Torn \/ IsSuper(committed, disk'[0]),
           \A b \in DOMAIN disk' \cap (1 .. 4) :
               disk'[b] \in {Torn, CheckpointMap} \/ IsSuper(committed, disk'[b]),
           SuperSlot(Xid) \in DOMAIN disk', disk'[SuperSlot(Xid)] = SuperOf(committed, Xid)
    PROVE  RingOK' /\ FreesOK'
<1>1. Xid' = Xid /\ \A block : IsSuper(committed', block) <=> IsSuper(committed, block)
  BY DEF Xid, IsSuper, SuperOf
<1>2. SuperOf(committed', Xid') = SuperOf(committed, Xid) /\ SuperSlot(Xid)' = SuperSlot(Xid)
  BY <1>1 DEF SuperOf, SuperSlot, MapSlot
<1>3. ASSUME NEW x \in 1 .. Xid PROVE Stored(disk', committed[x], x)
  <2>1. Stored(disk, committed[x], x) /\ committed[x].free <= committed[Xid].free
        /\ Xid \in 1 .. Xid
    BY DEF RingOK, FreesOK, IsSeq, Xid
  <2>2. committed[x].free \in Nat /\ committed[Xid].free \in Nat
    BY <2>1, StoredFree DEF RingOK
  <2>3. FirstFree .. committed[x].free - 1 \subseteq FirstFree .. committed[Xid].free - 1
    BY <2>1, <2>2 DEF FirstFree, DescBase, DescBlocks
  <2>4. Keeps(disk', disk, committed[x].free)
    BY <2>3 DEF Keeps
  <2> QED
    BY <2>1, <2>4, StoredFrame
<1>4. FreesOK'
  BY <1>1 DEF FreesOK
<1>5. RingOK'
  BY <1>1, <1>2, <1>3 DEF RingOK
<1> QED
  BY <1>4, <1>5

\* The last of the transactions.
LEMMA FreeFacts ==
    ASSUME RingOK, FreesOK
    PROVE  /\ Xid \in Nat /\ Xid \in 1 .. Xid /\ DOMAIN committed = 1 .. Xid
           /\ committed[Xid].free \in Nat /\ FirstFree = 5 /\ 10 <= committed[Xid].free
           /\ Stored(disk, committed[Xid], Xid)
           /\ \A x \in 1 .. Xid : committed[x].free \in Nat /\ IsContent(committed[x].content)
<1>1. Xid \in Nat /\ Xid \in 1 .. Xid /\ DOMAIN committed = 1 .. Xid
  BY DEF RingOK, IsSeq, Xid
<1>2. \A x \in 1 .. Xid : Stored(disk, committed[x], x)
  BY DEF RingOK
<1>3. \A x \in 1 .. Xid : committed[x].free \in Nat /\ FirstFree = 5 /\ 10 <= committed[x].free
  BY <1>2, StoredFree
<1>4. \A x \in 1 .. Xid : IsContent(committed[x].content)
  BY <1>2 DEF Stored
<1> QED
  BY <1>1, <1>2, <1>3, <1>4

\* A transaction is written where nothing was.
LEMMA WriteTreesKeeps ==
    ASSUME IInv, WriteTrees
    PROVE  IInv'
<1>1. PICK c \in Changes(committed[Xid].content, Xid + 1) :
          \E next \in { Transaction(committed[Xid], c, Xid + 1, snap) } :
             /\ next.fits
             /\ disk' = Over(next.blocks, disk)
             /\ pending' = [super |-> next.super, state |-> next.state]
  BY DEF WriteTrees
<1> DEFINE next == Transaction(committed[Xid], c, Xid + 1, snap)
           old == committed[Xid]
<1>2. /\ next.fits /\ disk' = Over(next.blocks, disk)
      /\ pending' = [super |-> next.super, state |-> next.state]
  BY <1>1
<1>3. /\ phase = "idle" /\ phase' = "trees" /\ bad' = bad /\ committed' = committed
      /\ snap' = snap /\ vol' = vol
  BY DEF WriteTrees
<1>4. /\ Xid \in Nat /\ Xid \in 1 .. Xid /\ old.free \in Nat /\ FirstFree = 5 /\ 10 <= old.free
      /\ Stored(disk, old, Xid) /\ IsContent(old.content)
  BY FreeFacts DEF IInv
<1>5. IsContent(c)
  <2>1. Xid + 1 \in Nat
    BY <1>4
  <2> QED
    BY <1>4, <2>1, ChangesAre
<1>6. MapsTo(disk, old, Xid)
  BY <1>4 DEF Stored
<1> HIDE DEF old
<1>7. IsTransaction(next, disk, old, Xid, c)
  BY <1>2, <1>4, <1>5, <1>6, TransactionIs DEF old
<1> HIDE DEF next
<1>8. /\ next.state.free \in Nat /\ old.free < next.state.free
      /\ DOMAIN next.blocks = old.free .. next.state.free - 1
      /\ \A b \in DOMAIN next.blocks : next.blocks[b].is \in {"node", "omap", "volume"}
      /\ next.super = Superblock(Xid + 1, next.state.free - 1)
      /\ \A e : Keeps(e, disk, old.free) /\ Has(e, next.blocks) => Stored(e, next.state, Xid + 1)
  BY <1>7 DEF IsTransaction
<1>9. /\ DOMAIN disk' = DOMAIN disk \cup DOMAIN next.blocks
      /\ \A b \in DOMAIN next.blocks : disk'[b] = next.blocks[b]
      /\ \A b \in DOMAIN disk : b \notin DOMAIN next.blocks => disk'[b] = disk[b]
  BY <1>2 DEF Over
<1>10. \A b : b \in 0 .. old.free - 1 => b \notin DOMAIN next.blocks
  BY <1>4, <1>8
<1>11. Keeps(disk', disk, old.free)
  <2>1. FirstFree .. old.free - 1 \subseteq DOMAIN disk
    BY <1>6 DEF MapsTo, IsFree
  <2>2. FirstFree .. old.free - 1 \subseteq 0 .. old.free - 1
    BY <1>4
  <2> QED
    BY <1>9, <1>10, <2>1, <2>2 DEF Keeps
<1>12. \A b \in 0 .. 4 : (b \in DOMAIN disk' <=> b \in DOMAIN disk)
                         /\ (b \in DOMAIN disk => disk'[b] = disk[b])
  <2>1. \A b \in 0 .. 4 : b \notin DOMAIN next.blocks
    BY <1>4, <1>10
  <2> QED
    BY <1>9, <2>1
<1>13. RingOK' /\ FreesOK'
  <2>1. RingOK /\ FreesOK
    BY DEF IInv
  <2>2. SuperSlot(Xid) \in 0 .. 4 /\ 0 \in 0 .. 4 /\ 1 .. 4 \subseteq 0 .. 4
    BY <1>4, Slots
  <2>3. /\ 0 \in DOMAIN disk' /\ (disk'[0] = Torn \/ IsSuper(committed, disk'[0]))
        /\ SuperSlot(Xid) \in DOMAIN disk' /\ disk'[SuperSlot(Xid)] = SuperOf(committed, Xid)
    BY <1>12, <2>1, <2>2 DEF RingOK
  <2>4. \A b \in DOMAIN disk' \cap (1 .. 4) :
            disk'[b] \in {Torn, CheckpointMap} \/ IsSuper(committed, disk'[b])
    BY <1>12, <2>1, <2>2 DEF RingOK
  <2> QED
    BY <1>3, <1>11, <2>1, <2>3, <2>4, RingStep DEF old
<1>14. BlocksOK'
  BY <1>8, <1>9 DEF IInv, BlocksOK
<1>15. Xid' = Xid
  BY <1>3 DEF Xid
<1>16. PhaseOK'
  <2>1. pending' # None
    BY <1>2 DEF None
  <2> QED
    BY <1>3, <1>15, <2>1 DEF IInv, PhaseOK
<1>17. PendingOK'
  <2>1. Has(disk', next.blocks)
    BY <1>9 DEF Has
  <2>2. Stored(disk', next.state, Xid + 1)
    BY <1>8, <1>11, <2>1
  <2>3. pending'.state = next.state /\ pending'.super = next.super
    BY <1>2
  <2>4. committed'[Xid'].free <= next.state.free
    BY <1>3, <1>4, <1>8, <1>15 DEF old
  <2> QED
    BY <1>8, <1>15, <2>2, <2>3, <2>4 DEF PendingOK
<1>18. BadOK' /\ OpenOK'
  BY <1>3, <1>9 DEF IInv, BadOK, OpenOK
<1> QED
  BY <1>13, <1>14, <1>16, <1>17, <1>18 DEF IInv

\* A write of one block that no transaction needs.
LEMMA OneBlock ==
    ASSUME RingOK, FreesOK, committed' = committed,
           NEW b \in 0 .. 4, b # SuperSlot(Xid), NEW block, disk' = With(disk, b, block),
           b = 0 => block = Torn \/ IsSuper(committed, block),
           b # 0 => block \in {Torn, CheckpointMap} \/ IsSuper(committed, block)
    PROVE  /\ RingOK' /\ FreesOK'
           /\ DOMAIN disk' = DOMAIN disk \cup {b}
           /\ \A a \in DOMAIN disk \ {b} : disk'[a] = disk[a]
           /\ \A n \in Nat : 5 .. n \subseteq DOMAIN disk
                             => \A a \in 5 .. n : a \in DOMAIN disk' /\ disk'[a] = disk[a]
<1>1. /\ DOMAIN disk' = DOMAIN disk \cup {b} /\ disk'[b] = block
      /\ \A a \in DOMAIN disk \ {b} : disk'[a] = disk[a]
  BY DEF With
<1>2. \A n \in Nat : 5 .. n \subseteq DOMAIN disk
                     => \A a \in 5 .. n : a \in DOMAIN disk' /\ disk'[a] = disk[a]
  BY <1>1
<1>3. /\ committed[Xid].free \in Nat /\ FirstFree = 5 /\ 10 <= committed[Xid].free
      /\ Stored(disk, committed[Xid], Xid) /\ Xid \in Nat
  BY FreeFacts
<1>4. Keeps(disk', disk, committed[Xid].free)
  <2>1. 5 .. committed[Xid].free - 1 \subseteq DOMAIN disk /\ committed[Xid].free - 1 \in Nat
    BY <1>3, StoredFree
  <2> QED
    BY <1>2, <1>3, <2>1 DEF Keeps
<1>5. 0 \in DOMAIN disk' /\ (disk'[0] = Torn \/ IsSuper(committed, disk'[0]))
  BY <1>1 DEF RingOK
<1>6. \A a \in DOMAIN disk' \cap (1 .. 4) :
          disk'[a] \in {Torn, CheckpointMap} \/ IsSuper(committed, disk'[a])
  BY <1>1 DEF RingOK
<1>7. SuperSlot(Xid) \in DOMAIN disk' /\ disk'[SuperSlot(Xid)] = SuperOf(committed, Xid)
  BY <1>1 DEF RingOK
<1>8. RingOK' /\ FreesOK'
  BY <1>4, <1>5, <1>6, <1>7, RingStep
<1> QED
  BY <1>1, <1>2, <1>8

\* The blocks that a Mac writes.
LEMMA BlockKinds ==
    /\ Torn.is = "torn" /\ CheckpointMap.is = "map"
    /\ \A block : IsSuper(committed, block) => block.is = "superblock"
  BY SuperFacts DEF Torn, CheckpointMap

\* The transaction that is being written stays on the disk, as the others do.
LEMMA PendingFrame ==
    ASSUME PendingOK, phase \in {"trees", "map"},
           NEW d, \A n \in Nat : 5 .. n \subseteq DOMAIN disk
                                 => \A a \in 5 .. n : a \in DOMAIN d /\ d[a] = disk[a]
    PROVE  Stored(d, pending.state, Xid + 1)
<1> DEFINE s == pending.state
<1>1. Stored(disk, s, Xid + 1)
  BY DEF PendingOK
<1> HIDE DEF s
<1>2. /\ s.free \in Nat /\ FirstFree = 5 /\ 10 <= s.free
      /\ FirstFree .. s.free - 1 \subseteq DOMAIN disk
  BY <1>1, StoredFree
<1>3. s.free - 1 \in Nat
  BY <1>2
<1>4. Keeps(d, disk, s.free)
  BY <1>2, <1>3 DEF Keeps
<1> QED
  BY <1>1, <1>4, StoredFrame DEF s

\* The checkpoint map replaces one that no superblock that counts needs.
LEMMA WriteMapKeeps ==
    ASSUME IInv, WriteMap
    PROVE  IInv'
<1> DEFINE slot == MapSlot(Xid + 1)
<1>1. /\ phase = "trees" /\ phase' = "map" /\ disk' = With(disk, slot, CheckpointMap)
      /\ bad' = bad /\ committed' = committed /\ snap' = snap /\ vol' = vol
      /\ pending' = pending
  BY DEF WriteMap, macVars
<1>2. RingOK /\ FreesOK /\ Xid' = Xid
  BY <1>1 DEF IInv, Xid
<1>3. slot \in {1, 3} /\ SuperSlot(Xid) \in {2, 4}
  <2>1. Xid \in Nat /\ Xid + 1 \in Nat
    BY <1>2, FreeFacts
  <2> QED
    BY <2>1, Slots
<1> HIDE DEF slot
<1>4. slot \in 0 .. 4 /\ slot # SuperSlot(Xid) /\ slot # 0
  BY <1>3
<1>5. CheckpointMap \in {Torn, CheckpointMap} \/ IsSuper(committed, CheckpointMap)
  OBVIOUS
<1>6. /\ RingOK' /\ FreesOK'
      /\ DOMAIN disk' = DOMAIN disk \cup {slot}
      /\ \A a \in DOMAIN disk \ {slot} : disk'[a] = disk[a]
      /\ \A n \in Nat : 5 .. n \subseteq DOMAIN disk
                        => \A a \in 5 .. n : a \in DOMAIN disk' /\ disk'[a] = disk[a]
  BY <1>1, <1>2, <1>4, <1>5, OneBlock
<1>7. BlocksOK'
  <2>1. disk'[slot] = CheckpointMap
    BY <1>1 DEF With
  <2> QED
    BY <1>6, <2>1, BlockKinds DEF IInv, BlocksOK
<1>8. PhaseOK'
  BY <1>1, <1>2 DEF IInv, PhaseOK
<1>9. PendingOK'
  <2>1. Stored(disk', pending.state, Xid + 1)
    BY <1>1, <1>6, PendingFrame DEF IInv
  <2> QED
    BY <1>1, <1>2, <2>1 DEF IInv, PendingOK
<1>10. BadOK' /\ OpenOK'
  BY <1>1, <1>6 DEF IInv, BadOK, OpenOK
<1> QED
  BY <1>6, <1>7, <1>8, <1>9, <1>10 DEF IInv

\* One transaction more.
LEMMA AppendFacts ==
    ASSUME NEW s, IsSeq(s), NEW e
    PROVE  /\ IsSeq(Append(s, e)) /\ Len(Append(s, e)) = Len(s) + 1
           /\ \A i \in 1 .. Len(s) : Append(s, e)[i] = s[i]
           /\ Append(s, e)[Len(s) + 1] = e
<1> DEFINE S == { s[i] : i \in DOMAIN s } \cup {e}
<1>1. s \in [1 .. Len(s) -> S] /\ e \in S /\ Len(s) \in Nat
  BY DEF IsSeq
<1> HIDE DEF S
<1>2. s \in Seq(S)
  BY <1>1, IsASeq
<1>3. Append(s, e) \in Seq(S)
  BY <1>1, <1>2
<1>4. IsSeq(Append(s, e))
  BY <1>3, SeqFacts
<1> QED
  BY <1>1, <1>2, <1>4

\* With its superblock a transaction becomes the last.
LEMMA WriteSuperblockKeeps ==
    ASSUME IInv, WriteSuperblock
    PROVE  IInv'
<1> DEFINE slot == SuperSlot(Xid + 1)
           s == pending.state
<1>1. /\ phase = "map" /\ phase' = "idle" /\ disk' = With(disk, slot, pending.super)
      /\ committed' = Append(committed, s) /\ pending' = None
      /\ bad' = bad /\ snap' = snap /\ vol' = vol
  BY DEF WriteSuperblock
<1>2. RingOK /\ FreesOK /\ PendingOK
  BY DEF IInv
<1>3. /\ Xid \in Nat /\ Xid \in 1 .. Xid /\ FirstFree = 5
      /\ \A x \in 1 .. Xid : committed[x].free \in Nat
  BY <1>2, FreeFacts
<1>4. /\ IsSeq(committed') /\ Xid' = Xid + 1
      /\ \A x \in 1 .. Xid : committed'[x] = committed[x]
      /\ committed'[Xid + 1] = s
  BY <1>1, <1>2, AppendFacts DEF RingOK, Xid
<1>5. slot \in {2, 4}
  <2>1. Xid + 1 \in Nat
    BY <1>3
  <2> QED
    BY <2>1, Slots
<1> HIDE DEF slot
<1>6. /\ DOMAIN disk' = DOMAIN disk \cup {slot} /\ disk'[slot] = pending.super
      /\ \A a \in DOMAIN disk \ {slot} : disk'[a] = disk[a]
  BY <1>1 DEF With
<1>7. \A n \in Nat : 5 .. n \subseteq DOMAIN disk
                     => \A a \in 5 .. n : a \in DOMAIN disk' /\ disk'[a] = disk[a]
  BY <1>5, <1>6
<1>8. /\ Stored(disk', s, Xid + 1)
      /\ committed[Xid].free <= s.free
      /\ pending.super = Superblock(Xid + 1, s.free - 1)
  BY <1>1, <1>2, <1>7, PendingFrame DEF PendingOK
<1>9. s.free \in Nat
  BY <1>8, StoredFree
<1> HIDE DEF s
<1>10. ASSUME NEW x \in 1 .. Xid PROVE Stored(disk', committed[x], x)
  <2>1. Stored(disk, committed[x], x)
    BY <1>2 DEF RingOK
  <2>2. /\ committed[x].free \in Nat /\ 10 <= committed[x].free
        /\ FirstFree .. committed[x].free - 1 \subseteq DOMAIN disk
    BY <2>1, StoredFree
  <2>3. committed[x].free - 1 \in Nat
    BY <2>2
  <2>4. Keeps(disk', disk, committed[x].free)
    BY <1>3, <1>7, <2>2, <2>3 DEF Keeps
  <2> QED
    BY <2>1, <2>4, StoredFrame
<1>11. \A x \in 1 .. Xid + 1 : x \in 1 .. Xid \/ x = Xid + 1
  BY <1>3
<1>12. \A x \in 1 .. Xid + 1 : Stored(disk', committed'[x], x)
  BY <1>4, <1>8, <1>10, <1>11
<1>13. FreesOK'
  <2>1. ASSUME NEW x \in 1 .. Xid + 1 PROVE committed'[x].free <= s.free
    <3>1. CASE x \in 1 .. Xid
      <4>1. committed[x].free <= committed[Xid].free
        BY <1>2, <3>1 DEF FreesOK
      <4>2. committed[x].free \in Nat /\ committed[Xid].free \in Nat
        BY <1>3, <3>1
      <4> QED
        BY <1>4, <1>8, <1>9, <3>1, <4>1, <4>2
    <3>2. CASE x = Xid + 1
      BY <1>4, <1>9, <3>2
    <3> QED
      BY <1>11, <3>1, <3>2
  <2> QED
    BY <1>4, <2>1 DEF FreesOK
<1>14. /\ SuperOf(committed', Xid') = pending.super /\ SuperSlot(Xid)' = slot
       /\ \A block : IsSuper(committed, block) => IsSuper(committed', block)
  <2>1. SuperOf(committed', Xid') = pending.super
    BY <1>4, <1>8 DEF SuperOf
  <2>2. SuperSlot(Xid)' = slot
    BY <1>4 DEF slot, SuperSlot, MapSlot
  <2>3. ASSUME NEW block, IsSuper(committed, block) PROVE IsSuper(committed', block)
    <3>1. PICK y \in 1 .. Xid : block = Superblock(y, committed[y].free - 1)
      BY <2>3 DEF IsSuper, SuperOf, Xid
    <3>2. y \in 1 .. Xid + 1 /\ committed'[y] = committed[y]
      BY <1>3, <1>4
    <3> QED
      BY <1>4, <3>1, <3>2 DEF IsSuper, SuperOf, Xid
  <2> QED
    BY <2>1, <2>2, <2>3
<1>15. IsSuper(committed', disk'[slot])
  <2>1. Xid' \in 1 .. Xid'
    BY <1>3, <1>4
  <2>2. disk'[slot] = SuperOf(committed', Xid')
    BY <1>6, <1>14
  <2> QED
    BY <2>1, <2>2 DEF IsSuper, Xid
<1>16. RingOK'
  <2>1. 0 \in DOMAIN disk' /\ (disk'[0] = Torn \/ IsSuper(committed', disk'[0]))
    <3>1. 0 \in DOMAIN disk /\ 0 # slot /\ (disk[0] = Torn \/ IsSuper(committed, disk[0]))
      BY <1>2, <1>5 DEF RingOK
    <3> QED
      BY <1>6, <1>14, <3>1
  <2>2. ASSUME NEW b \in DOMAIN disk' \cap (1 .. 4)
        PROVE  disk'[b] \in {Torn, CheckpointMap} \/ IsSuper(committed', disk'[b])
    <3>1. CASE b = slot
      BY <1>15, <3>1
    <3>2. CASE b # slot
      <4>1. b \in DOMAIN disk \cap (1 .. 4) /\ disk'[b] = disk[b]
        BY <1>6, <3>2
      <4>2. disk[b] \in {Torn, CheckpointMap} \/ IsSuper(committed, disk[b])
        BY <1>2, <4>1 DEF RingOK
      <4> QED
        BY <1>14, <4>1, <4>2
    <3> QED
      BY <3>1, <3>2
  <2>3. SuperSlot(Xid)' \in DOMAIN disk' /\ disk'[SuperSlot(Xid)'] = SuperOf(committed', Xid')
    BY <1>6, <1>14
  <2>4. Xid' >= 1
    BY <1>3, <1>4
  <2> QED
    BY <1>4, <1>12, <2>1, <2>2, <2>3, <2>4 DEF RingOK
<1>17. BlocksOK'
  <2>1. disk'[slot].is = "superblock"
    BY <1>6, <1>8 DEF Superblock
  <2> QED
    BY <1>6, <2>1 DEF IInv, BlocksOK
<1>18. PhaseOK'
  <2>1. snap' \in 0 .. Xid'
    BY <1>1, <1>3, <1>4 DEF IInv, PhaseOK
  <2> QED
    BY <1>1, <2>1 DEF PhaseOK
<1>19. PendingOK' /\ BadOK' /\ OpenOK'
  BY <1>1, <1>6 DEF IInv, PendingOK, BadOK, OpenOK
<1> QED
  BY <1>13, <1>16, <1>17, <1>18, <1>19 DEF IInv
-----------------------------------------------------------------------------
(***************************************************************************)
(* The other steps, and the theorems.                                      *)
(***************************************************************************)
LEMMA TakeSnapshotKeeps ==
    ASSUME IInv, TakeSnapshot
    PROVE  IInv'
<1>1. /\ disk' = disk /\ bad' = bad /\ phase' = phase /\ pending' = pending
      /\ committed' = committed /\ vol' = vol /\ snap' = Xid
  BY DEF TakeSnapshot, diskVars
<1>2. Xid' = Xid
  BY <1>1 DEF Xid
<1>3. snap' \in 0 .. Xid
  BY <1>1, FreeFacts DEF IInv
<1> QED
  BY <1>1, <1>2, <1>3 DEF IInv, RingOK, FreesOK, BlocksOK, PhaseOK, PendingOK, BadOK, OpenOK,
       SuperSlot, MapSlot

\* A volume that is ejected has its last superblock in block 0 too.
LEMMA EjectKeeps ==
    ASSUME IInv, Eject
    PROVE  IInv'
<1>1. /\ phase = "idle" /\ phase' = "off" /\ disk' = With(disk, 0, disk[SuperSlot(Xid)])
      /\ bad' = bad /\ committed' = committed /\ snap' = snap /\ vol' = vol
      /\ pending' = pending
  BY DEF Eject, macVars
<1>2. RingOK /\ FreesOK /\ Xid' = Xid
  BY <1>1 DEF IInv, Xid
<1>3. Xid \in Nat /\ Xid \in 1 .. Xid /\ SuperSlot(Xid) \in {2, 4}
  BY <1>2, FreeFacts, Slots
<1>4. IsSuper(committed, disk[SuperSlot(Xid)])
  BY <1>2, <1>3 DEF RingOK, IsSuper, Xid
<1>5. 0 \in 0 .. 4 /\ 0 # SuperSlot(Xid)
  BY <1>3
<1>6. /\ RingOK' /\ FreesOK'
      /\ DOMAIN disk' = DOMAIN disk \cup {0}
      /\ \A a \in DOMAIN disk \ {0} : disk'[a] = disk[a]
  BY <1>1, <1>2, <1>4, <1>5, OneBlock
<1>7. BlocksOK'
  <2>1. disk'[0].is = "superblock"
    BY <1>1, <1>4, BlockKinds DEF With
  <2> QED
    BY <1>6, <2>1 DEF IInv, BlocksOK
<1>8. PhaseOK' /\ PendingOK' /\ BadOK' /\ OpenOK'
  BY <1>1, <1>2, <1>6 DEF IInv, PhaseOK, PendingOK, BadOK, OpenOK
<1> QED
  BY <1>6, <1>7, <1>8 DEF IInv

\* Whatever block was being written, the last transaction is on the disk.
LEMMA UnplugKeeps ==
    ASSUME IInv, Unplug
    PROVE  IInv'
<1> DEFINE free == committed[Xid].free
           kept == [b \in { b \in DOMAIN disk : b < free } |-> disk[b]]
<1>1. /\ phase \in {"idle", "trees", "map"} /\ phase' = "off" /\ pending' = None
      /\ bad' = bad /\ committed' = committed /\ snap' = snap /\ vol' = vol
  BY DEF Unplug
<1>2. RingOK /\ FreesOK /\ Xid' = Xid
  BY <1>1 DEF IInv, Xid
<1>3. /\ Xid \in Nat /\ Xid \in 1 .. Xid /\ free \in Nat /\ FirstFree = 5 /\ 10 <= free
      /\ FirstFree .. free - 1 \subseteq DOMAIN disk
  BY <1>2, FreeFacts, StoredFree
<1>4. PICK b \in 0 .. 4 : /\ b # SuperSlot(Xid)
                          /\ disk' = kept \/ disk' = With(kept, b, Torn)
  <2>1. MapSlot(Xid + 1) \in {1, 3} /\ SuperSlot(Xid + 1) \in {2, 4} /\ SuperSlot(Xid) \in {2, 4}
        /\ SuperSlot(Xid + 1) # SuperSlot(Xid)
    <3>1. Xid + 1 \in Nat
      BY <1>3
    <3> QED
      BY <1>3, <3>1, Slots
  <2>2. \E b \in {0, MapSlot(Xid + 1), SuperSlot(Xid + 1)} :
            disk' = kept \/ disk' = With(kept, b, Torn)
    BY DEF Unplug
  <2> HIDE DEF kept
  <2> QED
    BY <2>1, <2>2
<1>5. /\ DOMAIN kept = { a \in DOMAIN disk : a < free }
      /\ \A a \in DOMAIN kept : kept[a] = disk[a]
  OBVIOUS
<1> HIDE DEF kept
<1>6. /\ DOMAIN disk' \subseteq DOMAIN disk \cup {b}
      /\ \A a \in DOMAIN disk : a < free => a \in DOMAIN disk'
      /\ \A a \in DOMAIN disk' : \/ a \in DOMAIN disk /\ disk'[a] = disk[a]
                                 \/ a = b /\ disk'[a] = Torn
      /\ \A a \in DOMAIN disk' : a # b => disk'[a] = disk[a] /\ a \in DOMAIN disk
  <2>1. CASE disk' = kept
    BY <1>5, <2>1
  <2>2. CASE disk' = With(kept, b, Torn)
    <3>1. /\ DOMAIN disk' = DOMAIN kept \cup {b} /\ disk'[b] = Torn
          /\ \A a \in DOMAIN kept : a # b => disk'[a] = kept[a]
      BY <2>2 DEF With
    <3> QED
      BY <1>5, <3>1
  <2> QED
    BY <1>4, <2>1, <2>2
<1>7. Keeps(disk', disk, free)
  <2>1. \A a \in FirstFree .. free - 1 : a \in DOMAIN disk /\ a < free /\ a # b
    BY <1>3, <1>4
  <2> QED
    BY <1>6, <2>1 DEF Keeps
<1>8. \A a \in 0 .. 4 : a \in DOMAIN disk => a \in DOMAIN disk'
  <2>1. \A a \in 0 .. 4 : a < free
    BY <1>3
  <2> QED
    BY <1>6, <2>1
<1>9. RingOK' /\ FreesOK'
  <2>1. 0 \in DOMAIN disk' /\ (disk'[0] = Torn \/ IsSuper(committed, disk'[0]))
    BY <1>2, <1>6, <1>8 DEF RingOK
  <2>2. \A a \in DOMAIN disk' \cap (1 .. 4) :
            disk'[a] \in {Torn, CheckpointMap} \/ IsSuper(committed, disk'[a])
    BY <1>2, <1>6 DEF RingOK
  <2>3. SuperSlot(Xid) \in DOMAIN disk' /\ disk'[SuperSlot(Xid)] = SuperOf(committed, Xid)
    <3>1. SuperSlot(Xid) \in 0 .. 4
      BY <1>3, Slots
    <3> QED
      BY <1>2, <1>4, <1>6, <1>8, <3>1 DEF RingOK
  <2> QED
    BY <1>1, <1>2, <1>7, <2>1, <2>2, <2>3, RingStep DEF free
<1>10. BlocksOK'
  BY <1>6, BlockKinds DEF IInv, BlocksOK
<1>11. PhaseOK' /\ PendingOK'
  BY <1>1, <1>2 DEF IInv, PhaseOK, PendingOK
<1>12. BadOK' /\ OpenOK'
  BY <1>1 DEF IInv, BadOK, OpenOK
<1> QED
  BY <1>9, <1>10, <1>11, <1>12 DEF IInv

\* Back at the Mac.
LEMMA MacMountsKeeps ==
    ASSUME IInv, MacMounts
    PROVE  IInv'
<1>1. /\ phase = "off" /\ phase' = "idle" /\ disk' = disk /\ bad' = bad
      /\ committed' = committed /\ snap' = snap /\ vol' = vol /\ pending' = pending
  BY DEF MacMounts, diskVars, macVars
<1>2. Xid' = Xid
  BY <1>1 DEF Xid
<1> QED
  BY <1>1, <1>2 DEF IInv, RingOK, FreesOK, BlocksOK, PhaseOK, PendingOK, BadOK, OpenOK,
       SuperSlot, MapSlot

\* What ApfsVolume::open gives.
LEMMA OpenKeeps ==
    ASSUME IInv, Open
    PROVE  IInv'
<1>1. /\ phase = "off" /\ phase' = "open" /\ disk' = disk
      /\ committed' = committed /\ snap' = snap /\ pending' = pending
  BY DEF Open, macVars
<1>2. Xid' = Xid /\ SuperSlot(Xid') = SuperSlot(Xid)
  BY <1>1 DEF Xid
<1>3. RingOK' /\ FreesOK' /\ BlocksOK' /\ PhaseOK' /\ PendingOK'
  BY <1>1, <1>2 DEF IInv, RingOK, FreesOK, BlocksOK, PhaseOK, PendingOK
<1>4. PICK unreadable \in {{}} \cup { {b} : b \in DOMAIN disk } :
          bad' = unreadable /\ vol' = OpenVolume(Without(unreadable))
  BY DEF Open
<1> DEFINE e == Without(unreadable)
<1>5. BadOK'
  BY <1>1, <1>4 DEF BadOK
<1>6. /\ DOMAIN e = DOMAIN disk \ unreadable
      /\ Part(e, disk)
  BY DEF Without, Part
<1>7. RingOK
  BY DEF IInv
<1> HIDE DEF e
<1>8. vol' = OpenVolume(e)
  BY <1>4 DEF e
<1>9. DOMAIN e # DOMAIN disk => bad' # {}
  BY <1>4, <1>6
<1>10. SuperSlot(Xid) \notin DOMAIN e => bad' = {SuperSlot(Xid)}
  <2>1. SuperSlot(Xid) \in DOMAIN disk
    BY <1>7 DEF RingOK
  <2> QED
    BY <1>4, <1>6, <2>1
<1>11. OpenOK'
  <2>1. CASE OpenVolume(e) = Err("Io") /\ DOMAIN e # DOMAIN disk
    BY <1>1, <1>8, <1>9, <2>1 DEF OpenOK
  <2>2. CASE OpenVolume(e) = Err("InvalidChecksum") /\ disk[0] = Torn
    BY <1>1, <1>8, <2>2 DEF OpenOK
  <2>3. CASE \E x \in 1 .. Xid : \E r \in FirstFree .. committed[x].free - 1 :
                 /\ OpenVolume(e) = Ok([xid |-> x, omap |-> committed[x].free - 5, root |-> r])
                 /\ IsNode(disk[r]) /\ IsNode(disk[committed[x].free - 5])
                 /\ IsRoot(committed[x], r)
                 /\ x = Xid \/ SuperSlot(Xid) \notin DOMAIN e
                 /\ disk[0] # Torn
    BY <1>1, <1>2, <1>8, <1>10, <2>3 DEF OpenOK
  <2> QED
    BY <1>6, <1>7, <2>1, <2>2, <2>3, OpenVolumeIs
<1> QED
  BY <1>3, <1>5, <1>11 DEF IInv

\* A block that turns bad while the volume is open.
LEMMA TurnsBadKeeps ==
    ASSUME IInv, TurnsBad
    PROVE  IInv'
<1>1. /\ phase = "open" /\ phase' = phase /\ disk' = disk /\ bad = {}
      /\ committed' = committed /\ snap' = snap /\ pending' = pending /\ vol' = vol
  BY DEF TurnsBad, macVars
<1>2. PICK b \in DOMAIN disk : bad' = {b}
  BY DEF TurnsBad
<1>3. Xid' = Xid /\ SuperSlot(Xid') = SuperSlot(Xid)
  BY <1>1 DEF Xid
<1>4. RingOK' /\ FreesOK' /\ BlocksOK' /\ PhaseOK' /\ PendingOK' /\ BadOK'
  BY <1>1, <1>2, <1>3 DEF IInv, RingOK, FreesOK, BlocksOK, PhaseOK, PendingOK, BadOK
<1>5. OpenOK'
  BY <1>1, <1>2, <1>3 DEF IInv, OpenOK
<1> QED
  BY <1>4, <1>5 DEF IInv

\* The volume is closed.
LEMMA CloseKeeps ==
    ASSUME IInv, Close
    PROVE  IInv'
<1>1. /\ phase = "open" /\ phase' = "off" /\ disk' = disk /\ bad' = {} /\ vol' = Err("closed")
      /\ committed' = committed /\ snap' = snap /\ pending' = pending
  BY DEF Close, macVars
<1>2. Xid' = Xid
  BY <1>1 DEF Xid
<1> QED
  BY <1>1, <1>2 DEF IInv, RingOK, FreesOK, BlocksOK, PhaseOK, PendingOK, BadOK, OpenOK,
       SuperSlot, MapSlot
-----------------------------------------------------------------------------
\* A disk that was formatted.
LEMMA InitHolds ==
    ASSUME Init
    PROVE  IInv
<1> DEFINE first == Transaction(NoState, FirstContent, 1, 0)
           s == first.state
<1>1. /\ disk = With(With(With(first.blocks, SuperSlot(1), first.super),
                          MapSlot(1), CheckpointMap), 0, first.super)
      /\ committed = << s >>
      /\ bad = {} /\ phase = "idle" /\ pending = None /\ snap = 0 /\ vol = Err("closed")
  BY DEF Init
<1>2. IsTransaction(first, disk, NoState, 0, FirstContent)
  <2>1. IsContent(FirstContent) /\ Transaction(NoState, FirstContent, 0 + 1, 0).fits
        /\ first = Transaction(NoState, FirstContent, 0 + 1, 0)
    BY FirstContentAssumption
  <2>2. MapsTo(disk, NoState, 0) /\ 0 \in Nat
    BY NoStateMaps
  <2> HIDE DEF first
  <2> QED
    BY <2>1, <2>2, TransactionIs
<1> HIDE DEF first
<1>3. /\ s.free \in Nat /\ 5 < s.free
      /\ DOMAIN first.blocks = 5 .. s.free - 1
      /\ \A b \in DOMAIN first.blocks : first.blocks[b].is \in {"node", "omap", "volume"}
      /\ first.super = Superblock(1, s.free - 1)
      /\ Keeps(disk, disk, 5) /\ Has(disk, first.blocks) => Stored(disk, s, 1)
  <2>1. NoState.free = 5 /\ 0 + 1 = 1
    BY DEF NoState, FirstFree, DescBase, DescBlocks
  <2> QED
    BY <1>2, <2>1 DEF IsTransaction
<1>4. SuperSlot(1) = 4 /\ MapSlot(1) = 3
  <2>1. (2 * 1) % 4 = 2
    OBVIOUS
  <2> QED
    BY <2>1 DEF SuperSlot, MapSlot, DescBase, DescBlocks
<1>5. /\ DOMAIN disk = DOMAIN first.blocks \cup {0, 3, 4}
      /\ disk[0] = first.super /\ disk[3] = CheckpointMap /\ disk[4] = first.super
      /\ \A b \in DOMAIN first.blocks : disk[b] = first.blocks[b]
  <2>1. 0 \notin DOMAIN first.blocks /\ 3 \notin DOMAIN first.blocks /\ 4 \notin DOMAIN first.blocks
    BY <1>3
  <2> QED
    BY <1>1, <1>4, <2>1 DEF With
<1>6. Stored(disk, s, 1)
  <2>1. Keeps(disk, disk, 5)
    BY DEF Keeps, FirstFree, DescBase, DescBlocks
  <2>2. Has(disk, first.blocks)
    BY <1>5 DEF Has
  <2> QED
    BY <1>3, <2>1, <2>2
<1> HIDE DEF s
<1>7. Xid = 1 /\ IsSeq(committed) /\ committed[1] = s /\ 1 .. Xid = {1}
  BY <1>1 DEF Xid, IsSeq
<1>8. SuperOf(committed, Xid) = first.super
  BY <1>3, <1>7 DEF SuperOf
<1>9. IsSuper(committed, first.super)
  BY <1>7, <1>8 DEF IsSuper, Xid
<1>10. RingOK
  <2>1. \A b \in DOMAIN disk \cap (1 .. 4) :
            disk[b] \in {Torn, CheckpointMap} \/ IsSuper(committed, disk[b])
    <3>1. \A b \in DOMAIN disk \cap (1 .. 4) : b \in {3, 4}
      BY <1>3, <1>5
    <3> QED
      BY <1>5, <1>9, <3>1
  <2> QED
    BY <1>4, <1>5, <1>6, <1>7, <1>8, <1>9, <2>1 DEF RingOK
<1>11. FreesOK
  BY <1>3, <1>7 DEF FreesOK, s
<1>12. BlocksOK
  BY <1>3, <1>5, <1>9, BlockKinds DEF BlocksOK
<1>13. PhaseOK /\ PendingOK /\ BadOK /\ OpenOK
  BY <1>1, <1>7 DEF PhaseOK, PendingOK, BadOK, OpenOK
<1> QED
  BY <1>10, <1>11, <1>12, <1>13 DEF IInv

\* Every state that is reached satisfies the invariant.
LEMMA Inductive == Spec => []IInv
<1>1. Init => IInv
  BY InitHolds
<1>2. IInv /\ [Next]_vars => IInv'
  <2> SUFFICES ASSUME IInv, [Next]_vars PROVE IInv'
    OBVIOUS
  <2>1. CASE UNCHANGED vars
    <3>1. /\ disk' = disk /\ bad' = bad /\ phase' = phase /\ pending' = pending
          /\ committed' = committed /\ snap' = snap /\ vol' = vol
      BY <2>1 DEF vars, diskVars, macVars
    <3>2. Xid' = Xid
      BY <3>1 DEF Xid
    <3> QED
      BY <3>1, <3>2 DEF IInv, RingOK, FreesOK, BlocksOK, PhaseOK, PendingOK, BadOK, OpenOK,
           SuperSlot, MapSlot
  <2> QED
    BY <2>1, WriteTreesKeeps, WriteMapKeeps, WriteSuperblockKeeps, TakeSnapshotKeeps, EjectKeeps,
       UnplugKeeps, MacMountsKeeps, OpenKeeps, TurnsBadKeeps, CloseKeeps DEF Next
<1> QED
  BY <1>1, <1>2, PTL DEF Spec

\* ApfsVolume::open finds the last transaction that was committed, wherever the
\* Mac was interrupted: block 0 being whole, it fails only if a block is bad,
\* and a bad block can take it back only if that block is the newest superblock
\* of the ring (OpensTheLastCommit).
THEOREM OpensTheLastCommitAlways == Spec => []OpensTheLastCommit
<1>1. IInv => OpensTheLastCommit
  <2> SUFFICES ASSUME IInv, phase = "open"
               PROVE  /\ vol.ok => vol.val.xid = Xid \/ bad = {SuperSlot(Xid)}
                      /\ bad = {} /\ disk[0] # Torn => vol.ok
                      /\ disk[0] = Torn => vol \in {Err("InvalidChecksum"), Err("Io")}
    BY DEF OpensTheLastCommit
  <2>1. CASE vol = Err("Io") /\ bad # {}
    BY <2>1, ResultFacts
  <2>2. CASE vol = Err("InvalidChecksum") /\ disk[0] = Torn
    BY <2>2, ResultFacts
  <2>3. CASE \E x \in 1 .. Xid : \E r \in FirstFree .. committed[x].free - 1 :
               /\ vol = Ok([xid |-> x, omap |-> committed[x].free - 5, root |-> r])
               /\ IsNode(disk[r]) /\ IsNode(disk[committed[x].free - 5])
               /\ IsRoot(committed[x], r)
               /\ x = Xid \/ bad = {SuperSlot(Xid)}
               /\ disk[0] # Torn
    BY <2>3, ResultFacts
  <2> QED
    BY <2>1, <2>2, <2>3 DEF IInv, OpenOK
<1> QED
  BY <1>1, Inductive, PTL
-----------------------------------------------------------------------------
(***************************************************************************)
(* The catalog of a content, as an open volume has it.                      *)
(***************************************************************************)
\* The nodes are a tree over the records R with the root o.
IsRooted(tree, R, o) ==
    \E T : \E h \in 0 .. MaxHeight : IsTree(tree, R, T) /\ <<h, o, 1, Len(R)>> \in T

\* The nodes below a root and the root that holds all records are a tree.
LEMMA Rooted ==
    ASSUME NEW tree, NEW R, NEW T, IsTree(tree, R, T), NEW h \in 0 .. MaxHeight,
           NEW o \in Nat, o \notin DOMAIN tree,
           NEW all, DOMAIN all = DOMAIN tree \cup {o}, Spans(all[o], h, R, 1, Len(R), T),
           \A p \in DOMAIN tree : all[p] = tree[p]
    PROVE  IsRooted(all, R, o)
<1> DEFINE entry == <<h, o, 1, Len(R)>>
           new == {entry}
           more == T \cup new
<1>1. Len(R) \in Nat /\ h \in Nat /\ 1 \in Nat
  BY BTreeAssumption DEF Spans
<1>2. new \subseteq Nat \X (DOMAIN all) \X Nat \X Nat
  BY <1>1
<1>3. ASSUME NEW n \in Nat, NEW p \in Nat, NEW lo \in Nat, NEW hi \in Nat, <<n, p, lo, hi>> \in new
      PROVE  n = h /\ p = o /\ lo = 1 /\ hi = Len(R)
  BY <1>3
<1>4. entry \in more /\ more = T \cup new
  OBVIOUS
<1> HIDE DEF new, more
<1>5. \A n, p, lo, hi \in Nat : <<n, p, lo, hi>> \in new =>
          /\ 1 <= lo /\ lo <= hi /\ hi <= Len(R)
          /\ n = 0 => IsLeaf(all[p], R, lo, hi)
          /\ n > 0 => \E cut : IsIndex(all[p], R, lo, hi, cut, T, n)
  BY <1>3 DEF Spans
<1>6. IsTree(all, R, more)
  BY <1>2, <1>4, <1>5, TreeGrows
<1> QED
  BY <1>4, <1>6 DEF IsRooted

\* The nodes of a catalog are a tree over its records.
LEMMA CatalogTree ==
    ASSUME NEW c, IsContent(c), DOMAIN CatalogNodes(c) # {}
    PROVE  IsRooted(CatalogNodes(c), InOrder(CatalogRecords(c)), RootTreeOid)
<1> DEFINE R == InOrder(CatalogRecords(c))
           nodes == Grow(R, RootTreeOid)
           N == Len(nodes)
           place(oid) == IF oid = RootTreeOid THEN N ELSE oid - RootTreeOid
           all == CatalogNodes(c)
           tree == BelowRoot(nodes, RootTreeOid)
<1>1. all = [oid \in RootTreeOid .. RootTreeOid + N - 1 |-> nodes[place(oid)]]
  BY DEF CatalogNodes
<1>2. IsSeq(R) /\ Len(R) > 0
  <2>1. Enumerates(R, CatalogRecords(c)) /\ CatalogRecords(c) # {}
        /\ IsFiniteSet(CatalogRecords(c))
    BY CatalogRecordsAre, InOrderIs DEF AreRecords
  <2> HIDE DEF R
  <2> QED
    BY <2>1, FS_EmptySet DEF Enumerates
<1>3. RootTreeOid = 100
  BY DEF RootTreeOid
<1> HIDE DEF R
<1>4. nodes # <<>>
  <2> SUFFICES ASSUME nodes = <<>> PROVE FALSE
    OBVIOUS
  <2>1. N = 0
    OBVIOUS
  <2> HIDE DEF nodes, N
  <2>2. DOMAIN all = 100 .. 99
    BY <1>1, <1>3, <2>1
  <2> QED
    BY <2>2
<1>5. IsGrown(nodes, R, RootTreeOid)
  BY <1>2, <1>3, <1>4, GrowIs
<1>6. PICK T : \E h \in 0 .. MaxHeight : IsTree(tree, R, T) /\ Spans(nodes[N], h, R, 1, Len(R), T)
  BY <1>5 DEF IsGrown
<1>7. tree = [o \in 101 .. 100 + N - 1 |-> nodes[o - 100]]
  BY <1>3 DEF BelowRoot
<1>8. N \in Nat /\ N > 0
  BY <1>5 DEF IsGrown, IsSeq
<1> HIDE DEF nodes, tree, N, all
<1>9. DOMAIN all = DOMAIN tree \cup {100} /\ 100 \notin DOMAIN tree
  BY <1>1, <1>3, <1>7, <1>8
<1>10. all[100] = nodes[N] /\ \A p \in DOMAIN tree : all[p] = tree[p]
  BY <1>1, <1>3, <1>7, <1>8
<1>11. PICK h \in 0 .. MaxHeight : IsTree(tree, R, T) /\ Spans(nodes[N], h, R, 1, Len(R), T)
  BY <1>6
<1>12. IsRooted(all, R, 100)
  <2>1. 100 \in Nat
    OBVIOUS
  <2>2. IsTree(tree, R, T) /\ Spans(all[100], h, R, 1, Len(R), T)
    BY <1>10, <1>11
  <2>3. \A p \in DOMAIN tree : all[p] = tree[p]
    BY <1>10
  <2> QED
    BY <1>9, <2>1, <2>2, <2>3, Rooted
<1> QED
  BY <1>3, <1>12 DEF R, all

\* The volume v has the catalog of the content c; lost are blocks that cannot be
\* read.
IsServed(v, c, lost) ==
    \E tree, R :
        /\ Sorted(R) /\ Enumerates(R, CatalogRecords(c))
        /\ IsRooted(tree, R, RootTreeOid)
        /\ Located(v.disk, Children(v), tree)
        /\ Holds(v.disk, v.root, tree[RootTreeOid])
        /\ lost = {} => v.root \in DOMAIN v.disk /\ Readable(v.disk, Children(v), tree)

\* An operation has failed, with the error of the disk.
Failed(result, lost) == lost # {} /\ result = Err("Io")

\* A volume that is open has the catalog of its transaction.
LEMMA ServedIs ==
    ASSUME IInv, Served
    PROVE  IsContent(Content) /\ IsServed(Volume, Content, bad)
<1>1. phase = "open" /\ \A err : vol # Err(err)
  BY ResultFacts DEF Served
<1>2. PICK x \in 1 .. Xid : \E r \in FirstFree .. committed[x].free - 1 :
          /\ vol = Ok([xid |-> x, omap |-> committed[x].free - 5, root |-> r])
          /\ IsRoot(committed[x], r)
  BY <1>1 DEF IInv, OpenOK
<1>3. PICK r \in FirstFree .. committed[x].free - 1 :
          /\ vol = Ok([xid |-> x, omap |-> committed[x].free - 5, root |-> r])
          /\ IsRoot(committed[x], r)
  BY <1>2
<1> DEFINE s == committed[x]
           c == s.content
           tree == s.nodes
           R == InOrder(CatalogRecords(c))
           e == Without(bad)
           v == Volume
<1>4. vol.val.xid = x /\ vol.val.root = r /\ vol.val.omap = s.free - 5
  BY <1>3, ResultFacts
<1>5. Content = c /\ s.maps = {}
  BY <1>4 DEF Content, Served
<1>6. v.disk = e /\ v.omap = s.free - 5 /\ v.root = r
  BY <1>4 DEF Volume
<1>7. Part(e, disk) /\ DOMAIN e = DOMAIN disk \ bad
  BY DEF Without, Part
<1>8. Stored(disk, s, x)
  BY DEF IInv, RingOK
<1> HIDE DEF v, e, s
<1>9. s.newest \cup s.maps = s.newest
  BY <1>5
<1>10. /\ IsContent(c) /\ tree = CatalogNodes(c) /\ RootTreeOid \in DOMAIN tree
       /\ HoldsOmap(disk, s.free - 5, s.newest, FirstFree, s.free - 5)
       /\ AreMaps(s.free, s.newest, x) /\ Places(disk, tree, s.newest)
  BY <1>8, <1>9 DEF Stored, MapsTo
<1>11. /\ FirstFree \in Nat /\ s.free \in Nat /\ FirstFree .. s.free - 1 \subseteq DOMAIN disk
       /\ FirstFree .. s.free - 5 \subseteq DOMAIN disk
  BY <1>8, StoredFree
<1>12. AreNodes(tree)
  BY <1>10, CatalogNodesAre
<1> HIDE DEF c, tree
<1>13. Sorted(R) /\ Enumerates(R, CatalogRecords(c)) /\ IsRooted(tree, R, RootTreeOid)
  BY <1>10, CatalogRecordsAre, InOrderIs, CatalogTree
<1>14. ASSUME NEW m \in s.newest
       PROVE  /\ Holds(e, m.val, tree[m.key.oid])
              /\ bad = {} => m.val \in DOMAIN e
  <2>1. m.val \in FirstFree .. s.free - 1
    BY <1>10 DEF AreMaps
  <2>2. m.val \in Nat /\ m.val \in DOMAIN disk
    BY <1>11, <2>1
  <2>3. disk[m.val] = tree[m.key.oid]
    BY <1>10 DEF Places
  <2> QED
    BY <1>7, <2>2, <2>3 DEF Holds, Part
<1>15. ASSUME NEW o \in DOMAIN tree
       PROVE  \/ Children(v)[o] = Err("Io") /\ bad # {}
              \/ \E m \in s.newest : m.key.oid = o /\ Children(v)[o] = Ok(m.val)
  <2>1. o \in Nat
    BY <1>12 DEF AreNodes
  <2>2. Children(v)[o] = OmapLookup(e, s.free - 5, o)
    BY <1>6, <2>1 DEF Children, Virtual
  <2>3. \E m \in s.newest : m.key.oid = o
    BY <1>10 DEF Places
  <2>4. \/ OmapLookup(e, s.free - 5, o) = Err("Io") /\ DOMAIN e # DOMAIN disk
        \/ \E m \in s.newest : m.key.oid = o /\ OmapLookup(e, s.free - 5, o) = Ok(m.val)
    BY <1>7, <1>10, <1>11, <2>1, <2>3, OmapFinds
  <2> QED
    BY <1>7, <2>2, <2>4
<1>16. Located(e, Children(v), tree)
  <2>1. DOMAIN tree \subseteq Nat
    BY <1>12 DEF AreNodes
  <2>2. ASSUME NEW o \in DOMAIN tree
        PROVE  \/ Children(v)[o] = Err("Io")
               \/ \E b \in Nat : Children(v)[o] = Ok(b) /\ Holds(e, b, tree[o])
    <3>1. CASE \E m \in s.newest : m.key.oid = o /\ Children(v)[o] = Ok(m.val)
      <4>1. PICK m \in s.newest : m.key.oid = o /\ Children(v)[o] = Ok(m.val)
        BY <3>1
      <4>2. Holds(e, m.val, tree[o]) /\ m.val \in Nat
        BY <1>14, <4>1 DEF Holds
      <4> QED
        BY <4>1, <4>2
    <3> QED
      BY <1>15, <3>1
  <2> QED
    BY <2>1, <2>2 DEF Located
<1>17. Holds(e, r, tree[RootTreeOid]) /\ (bad = {} => r \in DOMAIN e)
  <2>1. PICK m \in s.newest : m.key.oid = RootTreeOid /\ m.val = r
    BY <1>3, <1>9 DEF IsRoot, s
  <2> QED
    BY <1>14, <2>1
<1>18. bad = {} => Readable(e, Children(v), tree)
  <2> SUFFICES ASSUME bad = {}, NEW o \in DOMAIN tree
               PROVE  Children(v)[o].ok /\ Children(v)[o].val \in DOMAIN e
    BY DEF Readable
  <2>1. PICK m \in s.newest : m.key.oid = o /\ Children(v)[o] = Ok(m.val)
    BY <1>15
  <2> QED
    BY <1>14, <2>1, ResultFacts
<1>19. IsServed(v, c, bad)
  <2> HIDE DEF R
  <2> QED
    BY <1>6, <1>13, <1>16, <1>17, <1>18 DEF IsServed
<1> QED
  BY <1>5, <1>10, <1>19 DEF v, c
-----------------------------------------------------------------------------
\* What a key of the catalog has.
LEMMA KeyFacts ==
    ASSUME NEW oid \in Nat, NEW type \in {InodeType, ExtentType, DirRecType}
    PROVE  /\ IsKey(Key(oid, type)) /\ Key(oid, type).oid = oid /\ Key(oid, type).type = type
           /\ \A k : Same(k, Key(oid, type)) <=> k.oid = oid /\ k.type = type
  BY DEF Key, IsKey, Same, InodeType, ExtentType, DirRecType

\* A record of the catalog that a lookup is after.
IsLooked(found, c, oid, type) ==
    \/ found = Ok(Nothing) /\ \A r \in CatalogRecords(c) : ~(r.key.oid = oid /\ r.key.type = type)
    \/ \E r \in CatalogRecords(c) : found = Ok(r) /\ r.key.oid = oid /\ r.key.type = type

LookedUp(v, oid, type) == Lookup(v.disk, v.root, Key(oid, type), Children(v))

\* A lookup in the catalog.
LEMMA CatalogLookup ==
    ASSUME NEW v, NEW c, NEW lost, IsServed(v, c, lost), NEW oid \in Nat,
           NEW type \in {InodeType, ExtentType, DirRecType}
    PROVE  Failed(LookedUp(v, oid, type), lost) \/ IsLooked(LookedUp(v, oid, type), c, oid, type)
<1> DEFINE key == Key(oid, type)
           found == LookedUp(v, oid, type)
<1>1. PICK tree, R :
        /\ Sorted(R) /\ Enumerates(R, CatalogRecords(c))
        /\ IsRooted(tree, R, RootTreeOid)
        /\ Located(v.disk, Children(v), tree)
        /\ Holds(v.disk, v.root, tree[RootTreeOid])
        /\ lost = {} => v.root \in DOMAIN v.disk /\ Readable(v.disk, Children(v), tree)
  BY DEF IsServed
<1>2. PICK T : \E h \in 0 .. MaxHeight : IsTree(tree, R, T) /\ <<h, RootTreeOid, 1, Len(R)>> \in T
  BY <1>1 DEF IsRooted
<1>3. /\ IsKey(key)
      /\ \A k : Same(k, key) <=> k.oid = oid /\ k.type = type
  BY KeyFacts
<1>4. RootTreeOid \in Nat
  BY DEF RootTreeOid
<1>5. found = Lookup(v.disk, v.root, key, Children(v))
  BY DEF LookedUp
<1> HIDE DEF found, key
<1>6. \/ /\ found = Err("Io")
         /\ v.root \notin DOMAIN v.disk \/ ~Readable(v.disk, Children(v), tree)
      \/ IsFound(found, R, 1, Len(R), key)
  BY <1>1, <1>2, <1>3, <1>4, <1>5, LookupIsRight
<1>7. CASE IsFound(found, R, 1, Len(R), key)
  <2>1. /\ \A i \in 1 .. Len(R) : R[i] \in CatalogRecords(c)
        /\ \A r \in CatalogRecords(c) : \E i \in 1 .. Len(R) : R[i] = r
    BY <1>1 DEF Enumerates
  <2>2. CASE found = Ok(Nothing) /\ \A i \in 1 .. Len(R) : ~Same(R[i].key, key)
    <3>1. \A r \in CatalogRecords(c) : ~(r.key.oid = oid /\ r.key.type = type)
      BY <1>3, <2>1, <2>2
    <3> QED
      BY <2>2, <3>1 DEF IsLooked, found
  <2>3. CASE \E i \in 1 .. Len(R) : found = Ok(R[i]) /\ Same(R[i].key, key)
    <3>1. \E r \in CatalogRecords(c) : found = Ok(r) /\ r.key.oid = oid /\ r.key.type = type
      BY <1>3, <2>1, <2>3
    <3> QED
      BY <3>1 DEF IsLooked, found
  <2> QED
    BY <1>7, <2>2, <2>3 DEF IsFound
<1> QED
  BY <1>1, <1>6, <1>7 DEF Failed, found

\* The records of the catalog with a key, all of them and in order.
AreAll(recs, c, oid, type) ==
    /\ IsSeq(recs)
    /\ \A i \in 1 .. Len(recs) : /\ recs[i] \in CatalogRecords(c)
                                 /\ recs[i].key.oid = oid /\ recs[i].key.type = type
    /\ \A r \in CatalogRecords(c) : r.key.oid = oid /\ r.key.type = type
                                       => \E i \in 1 .. Len(recs) : recs[i] = r
    /\ \A i, j \in 1 .. Len(recs) : i < j => recs[i].key.sub < recs[j].key.sub

IsScanOf(found, c, oid, type) ==
    \E recs : found.ok /\ found.val.recs = recs /\ AreAll(recs, c, oid, type)

\* A run of the records in order are those with the key.
LEMMA RunIsAll ==
    ASSUME NEW recs, NEW R, NEW c, Sorted(R), Enumerates(R, CatalogRecords(c)),
           NEW oid \in Nat, NEW type \in {InodeType, ExtentType, DirRecType},
           IsRun(recs, R, 1, Len(R), Key(oid, type))
    PROVE  AreAll(recs, c, oid, type)
<1> DEFINE key == Key(oid, type)
<1>1. /\ IsKey(key) /\ key.oid = oid /\ key.type = type
      /\ \A k : Same(k, key) <=> k.oid = oid /\ k.type = type
  BY KeyFacts
<1>2. IsRun(recs, R, 1, Len(R), key)
  OBVIOUS
<1> HIDE DEF key
<1>3. PICK f, n \in Nat :
        /\ 1 <= f /\ f + n - 1 <= Len(R)
        /\ recs = [i \in 1 .. n |-> R[f + i - 1]]
        /\ \A i \in 1 .. Len(R) : Same(R[i].key, key) <=> f <= i /\ i <= f + n - 1
  BY <1>2 DEF IsRun
<1>4. /\ Len(R) \in Nat
      /\ \A i \in 1 .. Len(R) : R[i] \in CatalogRecords(c)
      /\ \A r \in CatalogRecords(c) : \E i \in 1 .. Len(R) : R[i] = r
      /\ \A i, j \in 1 .. Len(R) : i < j => Precedes(R[i].key, R[j].key)
  BY SortedFacts DEF Enumerates
<1>5. IsSeq(recs) /\ Len(recs) = n
  <2>1. recs = [i \in 1 .. n |-> recs[i]]
    BY <1>3
  <2> QED
    BY <2>1, IsSeqOf
<1>6. ASSUME NEW i \in 1 .. n
      PROVE  f + i - 1 \in 1 .. Len(R) /\ recs[i] = R[f + i - 1] /\ Same(R[f + i - 1].key, key)
  <2>1. f + i - 1 \in 1 .. Len(R) /\ f <= f + i - 1 /\ f + i - 1 <= f + n - 1
    BY <1>3, <1>4
  <2> QED
    BY <1>3, <2>1
<1>7. \A i \in 1 .. n : /\ recs[i] \in CatalogRecords(c)
                        /\ recs[i].key.oid = oid /\ recs[i].key.type = type
  BY <1>1, <1>4, <1>6
<1>8. ASSUME NEW r \in CatalogRecords(c), r.key.oid = oid, r.key.type = type
      PROVE  \E i \in 1 .. n : recs[i] = r
  <2>1. PICK i \in 1 .. Len(R) : R[i] = r
    BY <1>4
  <2>2. f <= i /\ i <= f + n - 1
    BY <1>1, <1>3, <1>8, <2>1
  <2>3. i - f + 1 \in 1 .. n /\ f + (i - f + 1) - 1 = i
    BY <2>2
  <2> QED
    BY <1>6, <2>1, <2>3
<1>9. ASSUME NEW i \in 1 .. n, NEW j \in 1 .. n, i < j
      PROVE  recs[i].key.sub < recs[j].key.sub
  <2>1. f + i - 1 < f + j - 1
    BY <1>9
  <2>2. Precedes(recs[i].key, recs[j].key)
    BY <1>4, <1>6, <2>1
  <2>3. ~Before(recs[i].key, recs[j].key)
    BY <1>1, <1>7 DEF Before, IsKey
  <2> QED
    BY <2>2, <2>3 DEF Precedes
<1> QED
  BY <1>5, <1>7, <1>8, <1>9 DEF AreAll

\* A scan of the catalog.
LEMMA CatalogScan ==
    ASSUME NEW v, NEW c, NEW lost, IsServed(v, c, lost), NEW oid \in Nat,
           NEW type \in {InodeType, ExtentType, DirRecType}
    PROVE  Failed(InCatalog(v, oid, type), lost) \/ IsScanOf(InCatalog(v, oid, type), c, oid, type)
<1> DEFINE key == Key(oid, type)
           found == InCatalog(v, oid, type)
<1>1. PICK tree, R :
        /\ Sorted(R) /\ Enumerates(R, CatalogRecords(c))
        /\ IsRooted(tree, R, RootTreeOid)
        /\ Located(v.disk, Children(v), tree)
        /\ Holds(v.disk, v.root, tree[RootTreeOid])
        /\ lost = {} => v.root \in DOMAIN v.disk /\ Readable(v.disk, Children(v), tree)
  BY DEF IsServed
<1>2. PICK T : \E h \in 0 .. MaxHeight : IsTree(tree, R, T) /\ <<h, RootTreeOid, 1, Len(R)>> \in T
  BY <1>1 DEF IsRooted
<1>3. IsKey(key)
  BY KeyFacts
<1>4. RootTreeOid \in Nat
  BY DEF RootTreeOid
<1>5. found = Scan(v.disk, v.root, key, Children(v))
  BY DEF InCatalog
<1> HIDE DEF found, key
<1>6. \/ /\ found = Err("Io")
         /\ v.root \notin DOMAIN v.disk \/ ~Readable(v.disk, Children(v), tree)
      \/ IsScanned(found, R, 1, Len(R), key)
  BY <1>1, <1>2, <1>3, <1>4, <1>5, ScanIsRight
<1>7. CASE IsScanned(found, R, 1, Len(R), key)
  <2>1. PICK recs, done : /\ found = Ok([recs |-> recs, done |-> done])
                          /\ IsRun(recs, R, 1, Len(R), key)
    BY <1>7 DEF IsScanned
  <2>2. found.ok /\ found.val.recs = recs
    BY <2>1, ResultFacts
  <2>3. AreAll(recs, c, oid, type)
    BY <1>1, <2>1, RunIsAll DEF key
  <2> QED
    BY <2>2, <2>3 DEF IsScanOf, found
<1> QED
  BY <1>1, <1>6, <1>7 DEF Failed, found

\* The records of the catalog by what they are for.
LEMMA RecordsByType ==
    ASSUME NEW c, IsContent(c), NEW r \in CatalogRecords(c)
    PROVE  /\ r.key.type = InodeType => \E oid \in DOMAIN c.inodes :
                 r = InodeRec(c, oid) /\ r.key.oid = oid
           /\ r.key.type = ExtentType => \E oid \in DOMAIN c.inodes :
                 \E i \in DOMAIN c.inodes[oid].extents :
                    r = ExtentRec(c, oid, i) /\ r.key.oid = Private(oid) /\ r.key.sub = i - 1
           /\ r.key.type = DirRecType => \E e \in DOMAIN c.drecs :
                 /\ r = DirRec(c, e) /\ r.key.oid = e[1] /\ r.key.sub = e[2]
                 /\ e = <<r.key.oid, r.key.sub>>
<1>1. InodeType # ExtentType /\ InodeType # DirRecType /\ ExtentType # DirRecType
  BY DEF InodeType, ExtentType, DirRecType
<1>2. CASE r \in InodeRecs(c)
  <2>1. PICK oid \in DOMAIN c.inodes : r = InodeRec(c, oid)
    BY <1>2 DEF InodeRecs
  <2>2. IsRec(r, oid, InodeType, 0)
    BY <2>1, CatalogKeys
  <2> QED
    BY <1>1, <2>1, <2>2 DEF IsRec
<1>3. CASE r \in ExtentRecs(c)
  <2>1. PICK oid \in DOMAIN c.inodes : \E i \in DOMAIN c.inodes[oid].extents : r = ExtentRec(c, oid, i)
    BY <1>3 DEF ExtentRecs
  <2>2. PICK i \in DOMAIN c.inodes[oid].extents : r = ExtentRec(c, oid, i)
    BY <2>1
  <2>3. IsRec(r, Private(oid), ExtentType, i - 1)
    BY <2>2, CatalogKeys
  <2> QED
    BY <1>1, <2>2, <2>3 DEF IsRec
<1>4. CASE r \in DirRecs(c)
  <2>1. PICK e \in DOMAIN c.drecs : r = DirRec(c, e)
    BY <1>4 DEF DirRecs
  <2>2. e = <<e[1], e[2]>> /\ IsRec(r, e[1], DirRecType, e[2])
    BY <2>1, CatalogKeys
  <2> QED
    BY <1>1, <2>1, <2>2 DEF IsRec
<1> QED
  BY <1>2, <1>3, <1>4, CatalogRecs

\* The records that a content has.
LEMMA RecordsOf ==
    ASSUME NEW c, IsContent(c)
    PROVE  /\ \A oid \in DOMAIN c.inodes :
                 /\ InodeRec(c, oid) \in CatalogRecords(c)
                 /\ InodeRec(c, oid).key.oid = oid /\ InodeRec(c, oid).key.type = InodeType
                 /\ \A i \in DOMAIN c.inodes[oid].extents :
                       /\ ExtentRec(c, oid, i) \in CatalogRecords(c)
                       /\ ExtentRec(c, oid, i).key.oid = Private(oid)
                       /\ ExtentRec(c, oid, i).key.type = ExtentType
                       /\ ExtentRec(c, oid, i).key.sub = i - 1
           /\ \A e \in DOMAIN c.drecs :
                 /\ DirRec(c, e) \in CatalogRecords(c)
                 /\ DirRec(c, e).key.oid = e[1] /\ DirRec(c, e).key.type = DirRecType
                 /\ DirRec(c, e).key.sub = e[2]
<1>1. CatalogRecords(c) = InodeRecs(c) \cup ExtentRecs(c) \cup DirRecs(c)
  BY CatalogRecs
<1>2. ASSUME NEW oid \in DOMAIN c.inodes
      PROVE  /\ InodeRec(c, oid) \in CatalogRecords(c)
             /\ InodeRec(c, oid).key.oid = oid /\ InodeRec(c, oid).key.type = InodeType
  <2>1. IsRec(InodeRec(c, oid), oid, InodeType, 0)
    BY CatalogKeys
  <2>2. InodeRec(c, oid) \in InodeRecs(c)
    BY DEF InodeRecs
  <2> QED
    BY <1>1, <2>1, <2>2 DEF IsRec
<1>3. ASSUME NEW oid \in DOMAIN c.inodes, NEW i \in DOMAIN c.inodes[oid].extents
      PROVE  /\ ExtentRec(c, oid, i) \in CatalogRecords(c)
             /\ ExtentRec(c, oid, i).key.oid = Private(oid)
             /\ ExtentRec(c, oid, i).key.type = ExtentType
             /\ ExtentRec(c, oid, i).key.sub = i - 1
  <2>1. IsRec(ExtentRec(c, oid, i), Private(oid), ExtentType, i - 1)
    BY CatalogKeys
  <2>2. ExtentRec(c, oid, i) \in ExtentRecs(c)
    BY DEF ExtentRecs
  <2> QED
    BY <1>1, <2>1, <2>2 DEF IsRec
<1>4. ASSUME NEW e \in DOMAIN c.drecs
      PROVE  /\ DirRec(c, e) \in CatalogRecords(c)
             /\ DirRec(c, e).key.oid = e[1] /\ DirRec(c, e).key.type = DirRecType
             /\ DirRec(c, e).key.sub = e[2]
  <2>1. IsRec(DirRec(c, e), e[1], DirRecType, e[2])
    BY CatalogKeys
  <2>2. DirRec(c, e) \in DirRecs(c)
    BY DEF DirRecs
  <2> QED
    BY <1>1, <2>1, <2>2 DEF IsRec
<1> QED
  BY <1>2, <1>3, <1>4
-----------------------------------------------------------------------------
(***************************************************************************)
(* What the lookups of catalog.rs give.                                     *)
(***************************************************************************)
InodeOf(c, oid) ==
    InodeVal(c.inodes[oid].kind, Private(oid), Len(c.inodes[oid].extents))

\* The inode of an object.
LEMMA LookupInodeIs ==
    ASSUME NEW v, NEW c, NEW lost, IsServed(v, c, lost), IsContent(c), NEW oid \in DOMAIN c.inodes
    PROVE  \/ Failed(LookupInode(v, oid), lost)
           \/ LookupInode(v, oid) = Ok(InodeOf(c, oid))
<1> DEFINE found == LookedUp(v, oid, InodeType)
<1>1. LookupInode(v, oid) =
          IF found.ok
          THEN IF found.val = Nothing THEN Err("FileNotFound") ELSE Ok(found.val.val)
          ELSE found
  BY DEF LookupInode, Then, LookedUp
<1>2. oid \in Nat
  BY ContentFacts
<1>3. Failed(found, lost) \/ IsLooked(found, c, oid, InodeType)
  BY <1>2, CatalogLookup
<1> HIDE DEF found
<1>4. CASE Failed(found, lost)
  BY <1>1, <1>4, ResultFacts DEF Failed
<1>5. CASE IsLooked(found, c, oid, InodeType)
  <2>1. PICK r \in CatalogRecords(c) : found = Ok(r) /\ r.key.oid = oid /\ r.key.type = InodeType
    BY <1>5, RecordsOf DEF IsLooked
  <2>2. r = InodeRec(c, oid)
    BY <2>1, RecordsByType
  <2>3. r = [key |-> FullKey(oid, InodeType, 0), val |-> InodeOf(c, oid)]
    BY <2>2 DEF InodeRec, InodeOf
  <2>4. r # Nothing /\ r.val = InodeOf(c, oid)
    BY <2>3 DEF Nothing
  <2>5. found.ok /\ found.val = r
    BY <2>1, ResultFacts
  <2> QED
    BY <1>1, <2>4, <2>5
<1> QED
  BY <1>3, <1>4, <1>5

\* The directory record of a name.
LEMMA LookupDrecIs ==
    ASSUME NEW v, NEW c, NEW lost, IsServed(v, c, lost), IsContent(c),
           NEW parent \in Nat, NEW name \in Nat,
           NEW result, result = LookupDrec(v, parent, name)
    PROVE  \/ Failed(result, lost)
           \/ <<parent, name>> \notin DOMAIN c.drecs /\ result = Err("FileNotFound")
           \/ /\ <<parent, name>> \in DOMAIN c.drecs
              /\ result = Ok(DirRec(c, <<parent, name>>).val)
<1> DEFINE found == InCatalog(v, parent, DirRecType)
           recs == found.val.recs
           named == { i \in DOMAIN recs : recs[i].key.sub = name }
<1>1. result = IF found.ok
               THEN IF named = {} THEN Err("FileNotFound") ELSE Ok(recs[Min(named)].val)
               ELSE found
  BY DEF LookupDrec, Then
<1>2. Failed(found, lost) \/ IsScanOf(found, c, parent, DirRecType)
  BY CatalogScan
<1> HIDE DEF found
<1>3. CASE Failed(found, lost)
  BY <1>1, <1>3, ResultFacts DEF Failed
<1>4. CASE IsScanOf(found, c, parent, DirRecType)
  <2>1. found.ok /\ AreAll(recs, c, parent, DirRecType)
    BY <1>4 DEF IsScanOf
  <2> HIDE DEF recs
  <2>2. DOMAIN recs = 1 .. Len(recs) /\ Len(recs) \in Nat
    BY <2>1 DEF AreAll, IsSeq
  <2>3. CASE named = {}
    <3>1. <<parent, name>> \notin DOMAIN c.drecs
      <4> SUFFICES ASSUME <<parent, name>> \in DOMAIN c.drecs PROVE FALSE
        OBVIOUS
      <4> DEFINE r == DirRec(c, <<parent, name>>)
      <4>1. /\ r \in CatalogRecords(c)
            /\ r.key.oid = parent /\ r.key.type = DirRecType /\ r.key.sub = name
        BY RecordsOf
      <4> HIDE DEF r
      <4>2. PICK i \in 1 .. Len(recs) : recs[i] = r
        BY <2>1, <4>1 DEF AreAll
      <4> QED
        BY <2>2, <2>3, <4>1, <4>2
    <3> QED
      BY <1>1, <2>1, <2>3, <3>1
  <2>4. CASE named # {}
    <3>1. named \in SUBSET Nat
      BY <2>2
    <3>2. Min(named) \in named
      BY <2>4, <3>1, Least
    <3> DEFINE r == recs[Min(named)]
    <3>3. /\ r \in CatalogRecords(c)
          /\ r.key.oid = parent /\ r.key.type = DirRecType /\ r.key.sub = name
      BY <2>1, <2>2, <3>2 DEF AreAll
    <3>4. result = Ok(r.val)
      BY <1>1, <2>1, <2>4
    <3> HIDE DEF r
    <3>5. PICK e \in DOMAIN c.drecs : r = DirRec(c, e) /\ e = <<r.key.oid, r.key.sub>>
      BY <3>3, RecordsByType
    <3>6. e = <<parent, name>>
      BY <3>3, <3>5
    <3> QED
      BY <3>4, <3>5, <3>6
  <2> QED
    BY <2>3, <2>4
<1> QED
  BY <1>2, <1>3, <1>4

\* Numbers that ascend and leave none out.
LEMMA Consecutive ==
    ASSUME NEW k \in Nat, NEW n \in Nat, NEW s, \A i \in 1 .. k : s[i] \in 0 .. n - 1,
           \A i, j \in 1 .. k : i < j => s[i] < s[j],
           \A m \in 0 .. n - 1 : \E i \in 1 .. k : s[i] = m
    PROVE  k = n /\ \A i \in 1 .. k : s[i] = i - 1
<1> DEFINE S == { m \in Nat : \A i \in 1 .. k : i <= m => s[i] = i - 1 }
<1>1. S \in SUBSET Nat /\ 0 \in S
  OBVIOUS
<1>2. ASSUME NEW m \in Nat, m \in S PROVE m + 1 \in S
  <2> SUFFICES ASSUME m + 1 \in 1 .. k PROVE s[m + 1] = m
    BY <1>2
  <2> DEFINE i == m + 1
  <2>1. i \in 1 .. k /\ i \in Nat /\ i - 1 = m
    OBVIOUS
  <2>2. s[i] >= m
    <3>1. CASE m = 0
      BY <2>1, <3>1
    <3>2. CASE m # 0
      <4>1. m \in 1 .. k /\ m < i
        BY <2>1, <3>2
      <4>2. s[m] = m - 1 /\ s[m] < s[i]
        BY <1>2, <2>1, <4>1
      <4>3. s[i] \in Int
        BY <2>1
      <4> HIDE DEF i
      <4> QED
        BY <4>2, <4>3
    <3> QED
      BY <3>1, <3>2
  <2>3. ~(s[i] > m)
    <3> SUFFICES ASSUME s[i] > m PROVE FALSE
      OBVIOUS
    <3>1. s[i] \in 0 .. n - 1
      BY <2>1
    <3>2. m \in 0 .. n - 1
      BY <3>1
    <3>3. PICK j \in 1 .. k : s[j] = m
      BY <3>2
    <3>4. CASE j <= m
      BY <1>2, <3>3, <3>4
    <3>5. CASE j = i
      BY <3>3, <3>5
    <3>6. CASE i < j
      <4>1. s[i] < s[j]
        BY <2>1, <3>6
      <4> QED
        BY <3>1, <3>3, <4>1
    <3> QED
      BY <2>1, <3>4, <3>5, <3>6
  <2>4. s[i] \in Int
    BY <2>1
  <2> QED
    BY <2>2, <2>3, <2>4
<1>3. S = Nat
  <2> HIDE DEF S
  <2> QED
    BY <1>1, <1>2, Induction
<1>4. \A i \in 1 .. k : s[i] = i - 1
  BY <1>3
<1>5. k <= n
  <2>1. CASE k = 0
    BY <2>1
  <2>2. CASE k # 0
    <3>1. k \in 1 .. k
      BY <2>2
    <3>2. s[k] = k - 1 /\ s[k] \in 0 .. n - 1
      BY <1>4, <3>1
    <3> QED
      BY <3>2
  <2> QED
    BY <2>1, <2>2
<1>6. n <= k
  <2> SUFFICES ASSUME k < n PROVE FALSE
    OBVIOUS
  <2>1. k \in 0 .. n - 1
    OBVIOUS
  <2>2. PICK i \in 1 .. k : s[i] = k
    BY <2>1
  <2> QED
    BY <1>4, <2>2
<1> QED
  BY <1>4, <1>5, <1>6

\* The extents of a file's data, in order.
LEMMA LookupExtentsIs ==
    ASSUME NEW v, NEW c, NEW lost, IsServed(v, c, lost), IsContent(c), NEW oid \in DOMAIN c.inodes,
           NEW result, result = LookupExtents(v, Private(oid))
    PROVE  Failed(result, lost) \/ result = Ok(c.inodes[oid].extents)
<1> DEFINE found == InCatalog(v, Private(oid), ExtentType)
           recs == found.val.recs
           extents == c.inodes[oid].extents
<1>1. result = IF found.ok THEN Ok([i \in DOMAIN recs |-> recs[i].val]) ELSE found
  BY DEF LookupExtents, Then
<1>2. oid \in Nat /\ Private(oid) \in Nat
  BY ContentFacts, PrivateIsPrivate
<1>3. Failed(found, lost) \/ IsScanOf(found, c, Private(oid), ExtentType)
  BY <1>2, CatalogScan
<1> HIDE DEF found
<1>4. CASE Failed(found, lost)
  BY <1>1, <1>4, ResultFacts DEF Failed
<1>5. CASE IsScanOf(found, c, Private(oid), ExtentType)
  <2>1. found.ok /\ AreAll(recs, c, Private(oid), ExtentType)
    BY <1>5 DEF IsScanOf
  <2> HIDE DEF recs
  <2> DEFINE k == Len(recs)
             n == Len(extents)
             s == [i \in 1 .. k |-> recs[i].key.sub]
  <2>2. DOMAIN recs = 1 .. k /\ k \in Nat
    BY <2>1 DEF AreAll, IsSeq
  <2>3. n \in Nat /\ DOMAIN extents = 1 .. n /\ extents = [i \in 1 .. n |-> extents[i]]
    BY ContentFacts DEF IsSeq
  <2>4. ASSUME NEW i \in 1 .. k
        PROVE  \E p \in 1 .. n : recs[i].val = extents[p] /\ s[i] = p - 1
    <3>1. /\ recs[i] \in CatalogRecords(c)
          /\ recs[i].key.oid = Private(oid) /\ recs[i].key.type = ExtentType
      BY <2>1 DEF AreAll
    <3>2. PICK q \in DOMAIN c.inodes : \E p \in DOMAIN c.inodes[q].extents :
              recs[i] = ExtentRec(c, q, p) /\ recs[i].key.oid = Private(q) /\ recs[i].key.sub = p - 1
      BY <3>1, RecordsByType
    <3>3. q = oid
      BY <1>2, <3>1, <3>2, ContentFacts, PrivateIsPrivate
    <3>4. PICK p \in DOMAIN extents : recs[i] = ExtentRec(c, oid, p) /\ recs[i].key.sub = p - 1
      BY <3>2, <3>3
    <3> QED
      BY <2>3, <3>4 DEF ExtentRec
  <2>5. \A i \in 1 .. k : s[i] \in 0 .. n - 1
    BY <2>3, <2>4
  <2>6. \A i, j \in 1 .. k : i < j => s[i] < s[j]
    BY <2>1 DEF AreAll
  <2>7. ASSUME NEW m \in 0 .. n - 1 PROVE \E i \in 1 .. k : s[i] = m
    <3>1. m + 1 \in DOMAIN extents /\ (m + 1) - 1 = m
      BY <2>3
    <3> DEFINE r == ExtentRec(c, oid, m + 1)
    <3>2. r \in CatalogRecords(c) /\ r.key.oid = Private(oid) /\ r.key.type = ExtentType
          /\ r.key.sub = m
      BY <3>1, RecordsOf
    <3> HIDE DEF r
    <3>3. PICK i \in 1 .. k : recs[i] = r
      BY <2>1, <3>2 DEF AreAll
    <3> QED
      BY <3>2, <3>3
  <2> HIDE DEF s, k, n
  <2>8. k = n /\ \A i \in 1 .. k : s[i] = i - 1
    BY <2>2, <2>3, <2>5, <2>6, <2>7, Consecutive
  <2>9. \A i \in 1 .. n : recs[i].val = extents[i]
    <3> TAKE i \in 1 .. n
    <3>1. PICK p \in 1 .. n : recs[i].val = extents[p] /\ s[i] = p - 1
      BY <2>4, <2>8
    <3>2. p = i
      BY <2>3, <2>8, <3>1
    <3> QED
      BY <3>1, <3>2
  <2>10. [i \in DOMAIN recs |-> recs[i].val] = extents
    BY <2>2, <2>3, <2>8, <2>9
  <2> QED
    BY <1>1, <2>1, <2>10
<1> QED
  BY <1>3, <1>4, <1>5
-----------------------------------------------------------------------------
(***************************************************************************)
(* What a directory is listed as.                                          *)
(***************************************************************************)
\* An entry as the content has it.
EntryIn(c, e) ==
    [name |-> e[2], oid |-> c.drecs[e], kind |-> c.inodes[c.drecs[e]].kind,
     size |-> Sized(c, c.drecs[e])]

EntriesIn(c, dir) == { e \in DOMAIN c.drecs : e[1] = dir }

\* A sequence that has each element of S, once.
Once(a, S) ==
    /\ IsSeq(a)
    /\ \A i \in 1 .. Len(a) : a[i] \in S
    /\ \A p \in S : \E i \in 1 .. Len(a) : a[i] = p
    /\ \A i, j \in 1 .. Len(a) : a[i] = a[j] => i = j

\* An answer that is a listing, whole if no block is lost.
IsListing(answer, c, dir, lost) ==
    /\ ListsNames(answer, EntriesOf(c, dir))
    /\ lost = {} => Lists(answer, EntriesOf(c, dir)) /\ Once(answer, EntriesOf(c, dir))

\* One record of a directory gives one entry.
LEMMA EntryIs ==
    ASSUME NEW v, NEW c, NEW lost, IsServed(v, c, lost), IsContent(c), NEW e \in DOMAIN c.drecs
    PROVE  /\ EntryOf(v, DirRec(c, e)) \in {EntryIn(c, e), [EntryIn(c, e) EXCEPT !.size = 0]}
           /\ lost = {} => EntryOf(v, DirRec(c, e)) = EntryIn(c, e)
<1> DEFINE oid == c.drecs[e]
           kind == c.inodes[oid].kind
           inode == LookupInode(v, oid)
           size == SizeOrZero(inode)
<1>1. oid \in DOMAIN c.inodes
  BY ContentFacts
<1>2. Failed(inode, lost) \/ inode = Ok(InodeOf(c, oid))
  BY <1>1, LookupInodeIs
<1>3. EntryOf(v, DirRec(c, e)) = [name |-> e[2], oid |-> oid, kind |-> kind, size |-> size]
  BY DEF EntryOf, DirRec, FullKey, DrecVal
<1>4. EntryIn(c, e) = [name |-> e[2], oid |-> oid, kind |-> kind, size |-> Sized(c, oid)]
  BY DEF EntryIn
<1>5. InodeOf(c, oid).size = Sized(c, oid)
  BY DEF InodeOf, InodeVal, Sized
<1> HIDE DEF inode
<1>6. Failed(inode, lost) => size = 0 /\ lost # {}
  BY ResultFacts DEF Failed, SizeOrZero
<1>7. ~Failed(inode, lost) => size = Sized(c, oid)
  BY <1>2, <1>5, ResultFacts DEF SizeOrZero
<1> HIDE DEF oid, kind, size
<1> QED
  BY <1>3, <1>4, <1>6, <1>7

\* All records of a directory give all its entries, each once.
LEMMA ListingIs ==
    ASSUME NEW v, NEW c, NEW lost, IsServed(v, c, lost), IsContent(c), NEW dir \in Nat,
           NEW recs, AreAll(recs, c, dir, DirRecType)
    PROVE  IsListing([i \in DOMAIN recs |-> EntryOf(v, recs[i])], c, dir, lost)
<1> DEFINE n == Len(recs)
           a == [i \in DOMAIN recs |-> EntryOf(v, recs[i])]
           at(i) == <<dir, recs[i].key.sub>>
           b == [i \in 1 .. n |-> EntryIn(c, at(i))]
           entries == EntriesOf(c, dir)
<1>1. DOMAIN recs = 1 .. n /\ n \in Nat
  BY DEF AreAll, IsSeq
<1>2. entries = { EntryIn(c, e) : e \in EntriesIn(c, dir) }
  BY DEF EntriesOf, EntriesIn, EntryIn
<1>3. ASSUME NEW i \in 1 .. n
      PROVE  at(i) \in EntriesIn(c, dir) /\ recs[i] = DirRec(c, at(i)) /\ recs[i].key.sub \in Nat
  <2>1. recs[i] \in CatalogRecords(c) /\ recs[i].key.oid = dir /\ recs[i].key.type = DirRecType
    BY DEF AreAll
  <2>2. PICK e \in DOMAIN c.drecs : /\ recs[i] = DirRec(c, e) /\ recs[i].key.sub = e[2]
                                    /\ e = <<recs[i].key.oid, recs[i].key.sub>>
    BY <2>1, RecordsByType
  <2>3. e = at(i) /\ e[1] = dir /\ e[2] \in Nat
    BY <2>1, <2>2, ContentFacts
  <2> QED
    BY <2>2, <2>3 DEF EntriesIn
<1>4. ASSUME NEW e \in EntriesIn(c, dir)
      PROVE  \E i \in 1 .. n : at(i) = e
  <2>1. e \in DOMAIN c.drecs /\ e[1] = dir /\ e = <<e[1], e[2]>>
    BY ContentFacts DEF EntriesIn
  <2>2. /\ DirRec(c, e) \in CatalogRecords(c)
        /\ DirRec(c, e).key.oid = dir /\ DirRec(c, e).key.type = DirRecType
        /\ DirRec(c, e).key.sub = e[2]
    BY <2>1, RecordsOf
  <2>3. PICK i \in 1 .. n : recs[i] = DirRec(c, e)
    BY <2>2 DEF AreAll
  <2> QED
    BY <2>1, <2>2, <2>3
<1>5. \A i \in 1 .. n : b[i] \in entries /\ b[i].name = recs[i].key.sub
  BY <1>2, <1>3 DEF EntryIn
<1>6. \A t \in entries : \E i \in 1 .. n : b[i] = t
  BY <1>2, <1>4
<1>7. \A i, j \in 1 .. n : b[i] = b[j] => i = j
  <2> SUFFICES ASSUME NEW i \in 1 .. n, NEW j \in 1 .. n, i < j PROVE b[i] # b[j]
    BY <1>1
  <2>1. recs[i].key.sub < recs[j].key.sub
    BY DEF AreAll
  <2>2. recs[i].key.sub # recs[j].key.sub
    <3>1. recs[i].key.sub \in Nat
      BY <1>3
    <3>2. \A p \in Nat : \A q : p < q => p # q
      OBVIOUS
    <3> QED
      BY <2>1, <3>1, <3>2
  <2> QED
    BY <1>5, <2>2
<1>8. Cardinality(entries) = n
  <2>1. b \in [1 .. n -> entries]
    BY <1>5
  <2> HIDE DEF b, entries
  <2>2. b \in Bijection(1 .. n, entries)
    BY <1>6, <1>7, <2>1, Fun_IsBij
  <2>3. ExistsBijection(1 .. n, entries)
    BY <2>2 DEF ExistsBijection
  <2> QED
    BY <1>1, <2>3, FS_CountingElements
<1>9. ASSUME NEW i \in 1 .. n
      PROVE  a[i] \in {b[i], [b[i] EXCEPT !.size = 0]} /\ (lost = {} => a[i] = b[i])
  <2>1. at(i) \in DOMAIN c.drecs /\ recs[i] = DirRec(c, at(i))
    BY <1>3 DEF EntriesIn
  <2>2. a[i] = EntryOf(v, DirRec(c, at(i))) /\ b[i] = EntryIn(c, at(i))
    BY <1>1, <2>1
  <2> HIDE DEF at
  <2> QED
    BY <2>1, <2>2, EntryIs
<1>10. DOMAIN a = 1 .. n /\ Len(a) = n /\ IsSeq(a)
  <2>1. a = [i \in 1 .. n |-> a[i]]
    BY <1>1
  <2> HIDE DEF a
  <2> QED
    BY <1>1, <2>1, IsSeqOf
<1> HIDE DEF a, b, entries, at
<1>11. ListsNames(a, entries)
  <2>1. ASSUME NEW t \in entries
        PROVE  \E i \in DOMAIN a : a[i] \in {t, [t EXCEPT !.size = 0]}
    BY <1>6, <1>9, <1>10
  <2> QED
    BY <1>8, <1>10, <2>1 DEF ListsNames
<1>12. lost = {} => Lists(a, entries)
  <2> SUFFICES ASSUME lost = {} PROVE Range(a) = entries
    BY <1>8, <1>10 DEF Lists
  <2>1. \A i \in 1 .. n : a[i] = b[i]
    BY <1>9
  <2> QED
    BY <1>5, <1>6, <1>10, <2>1 DEF Range
<1>13. lost = {} => Once(a, entries)
  <2> SUFFICES ASSUME lost = {} PROVE Once(a, entries)
    OBVIOUS
  <2>1. \A i \in 1 .. n : a[i] = b[i]
    BY <1>9
  <2> QED
    BY <1>5, <1>6, <1>7, <1>10, <2>1 DEF Once
<1> QED
  BY <1>11, <1>12, <1>13 DEF IsListing, a, entries

\* The answer is a directory, or the error of the disk.
IsListed(result, c, dir, lost) ==
    Failed(result, lost) \/ (result.ok /\ IsListing(result.val, c, dir, lost))

\* What list_directory gives of a directory.
LEMMA EntriesAre ==
    ASSUME NEW v, NEW c, NEW lost, IsServed(v, c, lost), IsContent(c), NEW dir \in Nat
    PROVE  IsListed(Entries(v, dir), c, dir, lost)
<1> DEFINE result == Entries(v, dir)
           found == InCatalog(v, dir, DirRecType)
           recs == found.val.recs
           a == [i \in DOMAIN recs |-> EntryOf(v, recs[i])]
<1>1. result = IF found.ok THEN Ok(a) ELSE found
  BY DEF Entries, Then
<1>2. Failed(found, lost) \/ IsScanOf(found, c, dir, DirRecType)
  BY CatalogScan
<1> HIDE DEF found, result
<1>3. CASE Failed(found, lost)
  <2>1. Failed(result, lost)
    BY <1>1, <1>3, ResultFacts DEF Failed
  <2> QED
    BY <2>1 DEF IsListed, result
<1>4. CASE IsScanOf(found, c, dir, DirRecType)
  <2>1. found.ok /\ AreAll(recs, c, dir, DirRecType)
    BY <1>4 DEF IsScanOf
  <2>2. IsListing(a, c, dir, lost)
    BY <2>1, ListingIs
  <2> HIDE DEF a
  <2>3. result.ok /\ result.val = a
    BY <1>1, <2>1, ResultFacts
  <2> QED
    BY <2>2, <2>3 DEF IsListed, result
<1> QED
  BY <1>2, <1>3, <1>4
-----------------------------------------------------------------------------
(***************************************************************************)
(* The objects along a path.                                               *)
(***************************************************************************)
\* The objects that the beginnings of a path name, as Reached has them.
Along(at, c, path, n) ==
    at = [i \in 0 .. n |->
             IF i = 0 THEN RootDir
             ELSE IF <<at[i - 1], path[i]>> \in DOMAIN c.drecs
                  THEN c.drecs[<<at[i - 1], path[i]>>] ELSE 0]

\* What the beginnings of a path lead to, as ParentOf has it.
NextParent(v, before, name) ==
    Then(before, LAMBDA dir :
    Then(LookupDrec(v, dir, name), LAMBDA drec :
        IF drec.kind # "directory" THEN Err("NotADirectory") ELSE Ok(drec.file)))

Parenthood(parent, v, path, n) ==
    parent = [i \in 1 .. n |-> IF i = 1 THEN Ok(RootDir)
                               ELSE NextParent(v, parent[i - 1], path[i - 1])]

\* The recursive definition of Reached has a function.
LEMMA AlongExists ==
    ASSUME NEW c, NEW path, NEW m \in Nat
    PROVE  \E at : Along(at, c, path, m)
<1> DEFINE Step(i, x) == IF <<x, path[i]>> \in DOMAIN c.drecs THEN c.drecs[<<x, path[i]>>] ELSE 0
           P(k) == \E g : g = [i \in 0 .. k |-> IF i = 0 THEN RootDir ELSE Step(i, g[i - 1])]
           S == { k \in Nat : P(k) }
<1>0. \A at, k : Along(at, c, path, k)
                  <=> at = [i \in 0 .. k |-> IF i = 0 THEN RootDir ELSE Step(i, at[i - 1])]
  BY DEF Along
<1> HIDE DEF Step
<1>1. P(0)
  <2> DEFINE g == [i \in 0 .. 0 |-> RootDir]
  <2>1. g = [i \in 0 .. 0 |-> IF i = 0 THEN RootDir ELSE Step(i, g[i - 1])]
    OBVIOUS
  <2> QED
    BY <2>1
<1>2. ASSUME NEW k \in Nat, P(k) PROVE P(k + 1)
  <2>1. PICK g : g = [i \in 0 .. k |-> IF i = 0 THEN RootDir ELSE Step(i, g[i - 1])]
    BY <1>2
  <2> DEFINE h == [i \in 0 .. k + 1 |-> IF i = 0 THEN RootDir ELSE Step(i, g[i - 1])]
  <2>2. \A i \in 0 .. k : h[i] = g[i]
    <3> TAKE i \in 0 .. k
    <3>1. h[i] = IF i = 0 THEN RootDir ELSE Step(i, g[i - 1])
      OBVIOUS
    <3>2. g[i] = IF i = 0 THEN RootDir ELSE Step(i, g[i - 1])
      BY <2>1
    <3> QED
      BY <3>1, <3>2
  <2>3. \A i \in 0 .. k + 1 : i = 0 \/ h[i - 1] = g[i - 1]
    <3> HIDE DEF h
    <3>1. \A i \in 0 .. k + 1 : i = 0 \/ i - 1 \in 0 .. k
      OBVIOUS
    <3> QED
      BY <2>2, <3>1
  <2>4. h = [i \in 0 .. k + 1 |-> IF i = 0 THEN RootDir ELSE Step(i, h[i - 1])]
    <3> HIDE DEF h
    <3>1. h = [i \in 0 .. k + 1 |-> IF i = 0 THEN RootDir ELSE Step(i, g[i - 1])]
      BY DEF h
    <3> QED
      BY <2>3, <3>1
  <2> QED
    BY <2>4
<1> HIDE DEF P
<1>3. S \in SUBSET Nat /\ 0 \in S /\ \A k \in Nat : k \in S => k + 1 \in S
  BY <1>1, <1>2
<1>4. S = Nat
  <2> HIDE DEF S
  <2> QED
    BY <1>3, Induction
<1>5. P(m)
  BY <1>4
<1> QED
  BY <1>0, <1>5 DEF P

\* That of ParentOf has one.
LEMMA ParenthoodExists ==
    ASSUME NEW v, NEW path, NEW m \in Nat
    PROVE  \E parent : Parenthood(parent, v, path, m)
<1> DEFINE Step(i, x) == NextParent(v, x, path[i - 1])
           P(k) == \E g : g = [i \in 1 .. k |-> IF i = 1 THEN Ok(RootDir) ELSE Step(i, g[i - 1])]
           S == { k \in Nat : P(k) }
<1>0. \A p, k : Parenthood(p, v, path, k)
                  <=> p = [i \in 1 .. k |-> IF i = 1 THEN Ok(RootDir) ELSE Step(i, p[i - 1])]
  BY DEF Parenthood
<1> HIDE DEF Step
<1>1. P(0)
  <2> DEFINE g == [i \in 1 .. 0 |-> Ok(RootDir)]
  <2>1. g = [i \in 1 .. 0 |-> IF i = 1 THEN Ok(RootDir) ELSE Step(i, g[i - 1])]
    OBVIOUS
  <2> QED
    BY <2>1
<1>2. ASSUME NEW k \in Nat, P(k) PROVE P(k + 1)
  <2>1. PICK g : g = [i \in 1 .. k |-> IF i = 1 THEN Ok(RootDir) ELSE Step(i, g[i - 1])]
    BY <1>2
  <2> DEFINE h == [i \in 1 .. k + 1 |-> IF i = 1 THEN Ok(RootDir) ELSE Step(i, g[i - 1])]
  <2>2. \A i \in 1 .. k : h[i] = g[i]
    <3> TAKE i \in 1 .. k
    <3>1. h[i] = IF i = 1 THEN Ok(RootDir) ELSE Step(i, g[i - 1])
      OBVIOUS
    <3>2. g[i] = IF i = 1 THEN Ok(RootDir) ELSE Step(i, g[i - 1])
      BY <2>1
    <3> QED
      BY <3>1, <3>2
  <2>3. \A i \in 1 .. k + 1 : i = 1 \/ h[i - 1] = g[i - 1]
    <3> HIDE DEF h
    <3>1. \A i \in 1 .. k + 1 : i = 1 \/ i - 1 \in 1 .. k
      OBVIOUS
    <3> QED
      BY <2>2, <3>1
  <2>4. h = [i \in 1 .. k + 1 |-> IF i = 1 THEN Ok(RootDir) ELSE Step(i, h[i - 1])]
    <3> HIDE DEF h
    <3>1. h = [i \in 1 .. k + 1 |-> IF i = 1 THEN Ok(RootDir) ELSE Step(i, g[i - 1])]
      BY DEF h
    <3> QED
      BY <2>3, <3>1
  <2> QED
    BY <2>4
<1> HIDE DEF P
<1>3. S \in SUBSET Nat /\ 0 \in S /\ \A k \in Nat : k \in S => k + 1 \in S
  BY <1>1, <1>2
<1>4. S = Nat
  <2> HIDE DEF S
  <2> QED
    BY <1>3, Induction
<1>5. P(m)
  BY <1>4
<1> QED
  BY <1>0, <1>5 DEF P
-----------------------------------------------------------------------------
IsPath(path) == IsSeq(path) /\ \A i \in 1 .. Len(path) : path[i] \in Nat

\* The paths that are asked for.
LEMMA PathsAre ==
    ASSUME NEW depth, NEW path \in PathsUpTo(depth)
    PROVE  IsPath(path)
<1>1. PICK n \in 0 .. depth : path \in [1 .. n -> Names]
  BY DEF PathsUpTo
<1>2. path = [i \in 1 .. n |-> path[i]] /\ \A i \in 1 .. n : path[i] \in Nat
  BY <1>1, ApfsVolumeAssumption
<1>3. n \in Nat
  BY <1>1
<1>4. IsSeq(path) /\ Len(path) = n
  BY <1>2, <1>3, IsSeqOf
<1> QED
  BY <1>2, <1>4 DEF IsPath

\* The object that a path names is that of its parent's entry.
LEMMA ReachedUnfolds ==
    ASSUME NEW c, NEW path, IsPath(path)
    PROVE  \E at : Along(at, c, path, Len(path)) /\ Reached(c, path) = at[Len(path)]
<1>1. Len(path) \in Nat
  BY DEF IsPath, IsSeq
<1>2. \E at : Along(at, c, path, Len(path))
  BY <1>1, AlongExists
<1> DEFINE A == CHOOSE at : at =
                  [i \in 0 .. Len(path) |->
                      IF i = 0 THEN RootDir
                      ELSE IF <<at[i - 1], path[i]>> \in DOMAIN c.drecs
                           THEN c.drecs[<<at[i - 1], path[i]>>] ELSE 0]
<1>3. Along(A, c, path, Len(path))
  BY <1>2 DEF Along
<1>4. Reached(c, path) = A[Len(path)]
  BY DEF Reached
<1> HIDE DEF A
<1> QED
  BY <1>3, <1>4

\* What ParentOf gives is what its loop has at the end.
LEMMA ParentUnfolds ==
    ASSUME NEW v, NEW path, IsPath(path)
    PROVE  \E parent : Parenthood(parent, v, path, Len(path))
                       /\ ParentOf(v, path) = parent[Len(path)]
<1>1. Len(path) \in Nat
  BY DEF IsPath, IsSeq
<1>2. \E parent : Parenthood(parent, v, path, Len(path))
  BY <1>1, ParenthoodExists
<1> DEFINE A == CHOOSE parent : parent =
                  [i \in 1 .. Len(path) |->
                      IF i = 1 THEN Ok(RootDir)
                      ELSE Then(parent[i - 1], LAMBDA dir :
                           Then(LookupDrec(v, dir, path[i - 1]), LAMBDA drec :
                               IF drec.kind # "directory" THEN Err("NotADirectory")
                               ELSE Ok(drec.file)))]
<1>3. Parenthood(A, v, path, Len(path))
  BY <1>2 DEF Parenthood, NextParent
<1>4. ParentOf(v, path) = A[Len(path)]
  BY DEF ParentOf
<1> HIDE DEF A
<1> QED
  BY <1>3, <1>4

\* The object that the name leads to.
NextOf(c, oid, name) ==
    IF <<oid, name>> \in DOMAIN c.drecs THEN c.drecs[<<oid, name>>] ELSE 0

\* What current_parent is for the object oid.
IsParent(p, oid, c, lost) ==
    \/ Failed(p, lost)
    \/ p = Ok(oid) /\ oid \in Dirs(c)
    \/ p \in {Err("FileNotFound"), Err("NotADirectory")} /\ oid \notin Dirs(c)

\* No object has the number 0, and only a directory has entries.
LEMMA NextFacts ==
    ASSUME NEW c, IsContent(c), NEW oid, NEW name
    PROVE  /\ 0 \notin DOMAIN c.inodes /\ RootDir \in Dirs(c) /\ Dirs(c) \subseteq DOMAIN c.inodes
           /\ oid \notin Dirs(c) => NextOf(c, oid, name) = 0
           /\ <<oid, name>> \in DOMAIN c.drecs =>
                 /\ NextOf(c, oid, name) \in DOMAIN c.inodes
                 /\ DirRec(c, <<oid, name>>).val.file = NextOf(c, oid, name)
                 /\ DirRec(c, <<oid, name>>).val.kind = c.inodes[NextOf(c, oid, name)].kind
           /\ <<oid, name>> \notin DOMAIN c.drecs => NextOf(c, oid, name) = 0
<1>1. 0 \notin DOMAIN c.inodes
  BY ApfsVolumeAssumption DEF IsContent, RootDir
<1>2. RootDir \in Dirs(c) /\ Dirs(c) \subseteq DOMAIN c.inodes
  BY DEF IsContent, Dirs
<1>3. oid \notin Dirs(c) => <<oid, name>> \notin DOMAIN c.drecs
  BY DEF IsContent
<1>4. <<oid, name>> \in DOMAIN c.drecs => c.drecs[<<oid, name>>] \in DOMAIN c.inodes
  BY ContentFacts
<1>5. <<oid, name>> \in DOMAIN c.drecs =>
         /\ DirRec(c, <<oid, name>>).val.file = c.drecs[<<oid, name>>]
         /\ DirRec(c, <<oid, name>>).val.kind = c.inodes[c.drecs[<<oid, name>>]].kind
  BY DEF DirRec, DrecVal
<1> QED
  BY <1>1, <1>2, <1>3, <1>4, <1>5 DEF NextOf

\* One component further.
LEMMA NextParentIs ==
    ASSUME NEW v, NEW c, NEW lost, IsServed(v, c, lost), IsContent(c),
           NEW p, NEW oid, IsParent(p, oid, c, lost), NEW name \in Nat
    PROVE  IsParent(NextParent(v, p, name), NextOf(c, oid, name), c, lost)
<1> DEFINE result == NextParent(v, p, name)
           drec == LookupDrec(v, p.val, name)
           next == NextOf(c, oid, name)
           val == DirRec(c, <<oid, name>>).val
<1>1. result = IF p.ok
               THEN IF drec.ok
                    THEN IF drec.val.kind # "directory" THEN Err("NotADirectory")
                         ELSE Ok(drec.val.file)
                    ELSE drec
               ELSE p
  BY DEF NextParent, Then
<1>2. CASE Failed(p, lost)
  BY <1>1, <1>2, ResultFacts DEF Failed, IsParent
<1>3. CASE p \in {Err("FileNotFound"), Err("NotADirectory")} /\ oid \notin Dirs(c)
  <2>1. result = p
    BY <1>1, <1>3, ResultFacts
  <2>2. next \notin Dirs(c)
    BY <1>3, NextFacts
  <2> QED
    BY <1>3, <2>1, <2>2 DEF IsParent
<1>4. CASE p = Ok(oid) /\ oid \in Dirs(c)
  <2>1. p.ok /\ p.val = oid
    BY <1>4, ResultFacts
  <2>2. oid \in Nat
    BY <1>4, ContentFacts, NextFacts
  <2>3. drec = LookupDrec(v, oid, name)
    BY <2>1
  <2> HIDE DEF result, drec, next, val
  <2>4. \/ Failed(drec, lost)
        \/ <<oid, name>> \notin DOMAIN c.drecs /\ drec = Err("FileNotFound")
        \/ <<oid, name>> \in DOMAIN c.drecs /\ drec = Ok(val)
    BY <2>2, <2>3, LookupDrecIs DEF val
  <2>5. CASE Failed(drec, lost)
    <3>1. result = drec
      BY <1>1, <2>1, <2>5, ResultFacts DEF Failed
    <3> QED
      BY <2>5, <3>1 DEF IsParent, result
  <2>6. CASE <<oid, name>> \notin DOMAIN c.drecs /\ drec = Err("FileNotFound")
    <3>1. result = Err("FileNotFound")
      BY <1>1, <2>1, <2>6, ResultFacts
    <3>2. next \notin Dirs(c)
      BY <2>6, NextFacts DEF next
    <3> QED
      BY <3>1, <3>2 DEF IsParent, result, next
  <2>7. CASE <<oid, name>> \in DOMAIN c.drecs /\ drec = Ok(val)
    <3>1. drec.ok /\ drec.val = val
      BY <2>7, ResultFacts
    <3>2. next \in DOMAIN c.inodes /\ val.file = next /\ val.kind = c.inodes[next].kind
      BY <2>7, NextFacts DEF next, val
    <3>3. CASE val.kind = "directory"
      <4>1. result = Ok(next) /\ next \in Dirs(c)
        BY <1>1, <2>1, <3>1, <3>2, <3>3 DEF Dirs
      <4> QED
        BY <4>1 DEF IsParent, result, next
    <3>4. CASE val.kind # "directory"
      <4>1. result = Err("NotADirectory") /\ next \notin Dirs(c)
        BY <1>1, <2>1, <3>1, <3>2, <3>4 DEF Dirs
      <4> QED
        BY <4>1 DEF IsParent, result, next
    <3> QED
      BY <3>3, <3>4
  <2> QED
    BY <2>4, <2>5, <2>6, <2>7 DEF result, next
<1> QED
  BY <1>2, <1>3, <1>4 DEF IsParent

\* What the loop of resolve_path has come to.
LEMMA ParentIs ==
    ASSUME NEW v, NEW c, NEW lost, IsServed(v, c, lost), IsContent(c),
           NEW path, IsPath(path), NEW at, Along(at, c, path, Len(path)),
           NEW parent, Parenthood(parent, v, path, Len(path))
    PROVE  \A i \in 1 .. Len(path) : IsParent(parent[i], at[i - 1], c, lost)
<1> DEFINE n == Len(path)
           S == { i \in Nat : i + 1 \in 1 .. n => IsParent(parent[i + 1], at[i], c, lost) }
<1>1. n \in Nat /\ \A i \in 1 .. n : path[i] \in Nat
  BY DEF IsPath, IsSeq
<1>2. at[0] = RootDir /\ \A i \in 1 .. n : at[i] = NextOf(c, at[i - 1], path[i])
  <2>1. 0 \in 0 .. n /\ \A i \in 1 .. n : i \in 0 .. n /\ i # 0
    BY <1>1
  <2> QED
    BY <2>1 DEF Along, NextOf
<1>3. /\ 1 \in 1 .. n => parent[1] = Ok(RootDir)
      /\ \A i \in 1 .. n : i # 1 => parent[i] = NextParent(v, parent[i - 1], path[i - 1])
  BY DEF Parenthood
<1>4. 0 \in S
  <2> SUFFICES ASSUME 0 + 1 \in 1 .. n PROVE IsParent(parent[0 + 1], at[0], c, lost)
    OBVIOUS
  <2>1. parent[0 + 1] = Ok(RootDir) /\ at[0] = RootDir
    BY <1>2, <1>3
  <2> QED
    BY <2>1, NextFacts DEF IsParent
<1>5. ASSUME NEW i \in Nat, i \in S PROVE i + 1 \in S
  <2> SUFFICES ASSUME i + 1 + 1 \in 1 .. n PROVE IsParent(parent[i + 1 + 1], at[i + 1], c, lost)
    OBVIOUS
  <2>1. i + 1 \in 1 .. n /\ i + 1 + 1 # 1 /\ (i + 1 + 1) - 1 = i + 1 /\ (i + 1) - 1 = i
    BY <1>1
  <2>2. IsParent(parent[i + 1], at[i], c, lost) /\ path[i + 1] \in Nat
    BY <1>1, <1>5, <2>1
  <2>3. parent[i + 1 + 1] = NextParent(v, parent[i + 1], path[i + 1])
    BY <1>3, <2>1
  <2>4. at[i + 1] = NextOf(c, at[i], path[i + 1])
    BY <1>2, <2>1
  <2>5. IsParent(NextParent(v, parent[i + 1], path[i + 1]), NextOf(c, at[i], path[i + 1]), c, lost)
    BY <2>2, NextParentIs
  <2> QED
    BY <2>3, <2>4, <2>5
<1>6. S = Nat
  <2>1. S \in SUBSET Nat
    OBVIOUS
  <2> HIDE DEF S
  <2> QED
    BY <1>4, <1>5, <2>1, Induction
<1> SUFFICES ASSUME NEW i \in 1 .. n PROVE IsParent(parent[i], at[i - 1], c, lost)
  OBVIOUS
<1>7. i - 1 \in Nat /\ (i - 1) + 1 = i
  BY <1>1
<1>8. i - 1 \in S
  BY <1>6, <1>7
<1> QED
  BY <1>7, <1>8

\* What resolve_path gives for the object oid, 0 if none.
Resolved(result, c, oid, lost) ==
    \/ Failed(result, lost)
    \/ oid \in DOMAIN c.inodes /\ result = Ok([oid |-> oid, inode |-> InodeOf(c, oid)])
    \/ oid = 0 /\ result \in {Err("FileNotFound"), Err("NotADirectory")}

\* An object and its inode.
LEMMA WithInodeIs ==
    ASSUME NEW v, NEW c, NEW lost, IsServed(v, c, lost), IsContent(c), NEW oid \in DOMAIN c.inodes
    PROVE  Resolved(WithInode(v, oid), c, oid, lost)
<1> DEFINE inode == LookupInode(v, oid)
           result == WithInode(v, oid)
<1>1. result = IF inode.ok THEN Ok([oid |-> oid, inode |-> inode.val]) ELSE inode
  BY DEF WithInode, Then
<1>2. Failed(inode, lost) \/ inode = Ok(InodeOf(c, oid))
  BY LookupInodeIs
<1> HIDE DEF inode, result
<1>3. CASE Failed(inode, lost)
  <2>1. result = inode
    BY <1>1, <1>3, ResultFacts DEF Failed
  <2> QED
    BY <1>3, <2>1 DEF Resolved, result
<1>4. CASE inode = Ok(InodeOf(c, oid))
  <2>1. inode.ok /\ inode.val = InodeOf(c, oid)
    BY <1>4, ResultFacts
  <2> QED
    BY <1>1, <2>1 DEF Resolved, result
<1> QED
  BY <1>2, <1>3, <1>4

\* What is done with the last component.
LastOf(v, p, name) ==
    Then(p, LAMBDA dir :
    Then(LookupDrec(v, dir, name), LAMBDA drec : WithInode(v, drec.file)))

\* The last component.
LEMMA LastIs ==
    ASSUME NEW v, NEW c, NEW lost, IsServed(v, c, lost), IsContent(c),
           NEW p, NEW oid, IsParent(p, oid, c, lost), NEW name \in Nat
    PROVE  Resolved(LastOf(v, p, name), c, NextOf(c, oid, name), lost)
<1> DEFINE result == LastOf(v, p, name)
           drec == LookupDrec(v, p.val, name)
           next == NextOf(c, oid, name)
           val == DirRec(c, <<oid, name>>).val
<1>1. result = IF p.ok THEN IF drec.ok THEN WithInode(v, drec.val.file) ELSE drec ELSE p
  BY DEF Then, LastOf
<1> HIDE DEF result
<1>2. CASE Failed(p, lost)
  <2>1. result = p
    BY <1>1, <1>2, ResultFacts DEF Failed
  <2> QED
    BY <1>2, <2>1 DEF Resolved, result
<1>3. CASE p \in {Err("FileNotFound"), Err("NotADirectory")} /\ oid \notin Dirs(c)
  <2>1. result = p
    BY <1>1, <1>3, ResultFacts
  <2>2. next = 0
    BY <1>3, NextFacts
  <2> QED
    BY <1>3, <2>1, <2>2 DEF Resolved, result
<1>4. CASE p = Ok(oid) /\ oid \in Dirs(c)
  <2>1. p.ok /\ p.val = oid
    BY <1>4, ResultFacts
  <2>2. oid \in Nat
    BY <1>4, ContentFacts, NextFacts
  <2>3. drec = LookupDrec(v, oid, name)
    BY <2>1
  <2> HIDE DEF drec, next, val
  <2>4. \/ Failed(drec, lost)
        \/ <<oid, name>> \notin DOMAIN c.drecs /\ drec = Err("FileNotFound")
        \/ <<oid, name>> \in DOMAIN c.drecs /\ drec = Ok(val)
    BY <2>2, <2>3, LookupDrecIs DEF val
  <2>5. CASE Failed(drec, lost)
    <3>1. result = drec
      BY <1>1, <2>1, <2>5, ResultFacts DEF Failed
    <3> QED
      BY <2>5, <3>1 DEF Resolved, result
  <2>6. CASE <<oid, name>> \notin DOMAIN c.drecs /\ drec = Err("FileNotFound")
    <3>1. result = Err("FileNotFound")
      BY <1>1, <2>1, <2>6, ResultFacts
    <3>2. next = 0
      BY <2>6, NextFacts DEF next
    <3> QED
      BY <3>1, <3>2 DEF Resolved, result, next
  <2>7. CASE <<oid, name>> \in DOMAIN c.drecs /\ drec = Ok(val)
    <3>1. drec.ok /\ drec.val = val
      BY <2>7, ResultFacts
    <3>2. next \in DOMAIN c.inodes /\ val.file = next
      BY <2>7, NextFacts DEF next, val
    <3>3. result = WithInode(v, next)
      BY <1>1, <2>1, <3>1, <3>2
    <3> QED
      BY <3>2, <3>3, WithInodeIs DEF result, next
  <2> QED
    BY <2>4, <2>5, <2>6, <2>7
<1> QED
  BY <1>2, <1>3, <1>4 DEF IsParent

\* resolve_path finds the object that the path names.
LEMMA ResolvePathIs ==
    ASSUME NEW v, NEW c, NEW lost, IsServed(v, c, lost), IsContent(c), NEW path, IsPath(path)
    PROVE  Resolved(ResolvePath(v, path), c, Reached(c, path), lost)
<1> DEFINE n == Len(path)
           result == ResolvePath(v, path)
<1>1. n \in Nat /\ path = [i \in 1 .. n |-> path[i]] /\ \A i \in 1 .. n : path[i] \in Nat
  BY DEF IsPath, IsSeq
<1>2. PICK at : Along(at, c, path, n) /\ Reached(c, path) = at[n]
  BY ReachedUnfolds
<1>3. PICK parent : Parenthood(parent, v, path, n) /\ ParentOf(v, path) = parent[n]
  BY ParentUnfolds
<1>4. CASE path = <<>>
  <2>1. n = 0 /\ result = WithInode(v, RootDir)
    BY <1>4 DEF ResolvePath
  <2>2. at[n] = RootDir
    BY <1>2, <2>1 DEF Along
  <2>3. RootDir \in DOMAIN c.inodes
    BY NextFacts
  <2> QED
    BY <1>2, <2>1, <2>2, <2>3, WithInodeIs
<1>5. CASE path # <<>>
  <2>1. n # 0
    <3> SUFFICES ASSUME n = 0 PROVE FALSE
      OBVIOUS
    <3> HIDE DEF n
    <3> QED
      BY <1>1, <1>5
  <2>2. n \in 1 .. n /\ n \in 0 .. n /\ n # 0
    BY <1>1, <2>1
  <2>3. IsParent(parent[n], at[n - 1], c, lost)
    BY <1>2, <1>3, <2>2, ParentIs
  <2>4. result = LastOf(v, parent[n], path[n])
    BY <1>3, <1>5 DEF ResolvePath, LastOf
  <2>5. at[n] = NextOf(c, at[n - 1], path[n])
    BY <1>2, <2>2 DEF Along, NextOf
  <2>6. path[n] \in Nat
    BY <1>1, <2>2
  <2> HIDE DEF result, n
  <2>7. Resolved(result, c, NextOf(c, at[n - 1], path[n]), lost)
    BY <2>3, <2>4, <2>6, LastIs
  <2> QED
    BY <1>2, <2>5, <2>7 DEF result
<1> QED
  BY <1>4, <1>5
-----------------------------------------------------------------------------
(***************************************************************************)
(* What the operations answer.                                             *)
(***************************************************************************)
\* An answer about the object oid, 0 if none, that is val if there is one.
Answers(result, oid, val, lost) ==
    \/ Failed(result, lost)
    \/ oid # 0 /\ result = Ok(val)
    \/ oid = 0 /\ ~ result.ok

\* What Resolved says, with the fields that the operations use.
LEMMA FoundIs ==
    ASSUME NEW c, IsContent(c), NEW lost, NEW oid, NEW found, Resolved(found, c, oid, lost)
    PROVE  \/ Failed(found, lost) /\ ~ found.ok /\ found.err = "Io"
           \/ /\ oid \in DOMAIN c.inodes /\ oid # 0
              /\ found.ok /\ found.val.oid = oid
              /\ found.val.inode.kind = c.inodes[oid].kind
              /\ found.val.inode.size = Sized(c, oid)
              /\ found.val.inode.private = Private(oid)
           \/ oid = 0 /\ ~ found.ok /\ found.err \in {"FileNotFound", "NotADirectory"}
<1>1. CASE Failed(found, lost)
  <2>1. found = Err("Io")
    BY <1>1 DEF Failed
  <2> QED
    BY <1>1, <2>1, ResultFacts
<1>2. CASE oid \in DOMAIN c.inodes /\ found = Ok([oid |-> oid, inode |-> InodeOf(c, oid)])
  <2>1. found.ok /\ found.val = [oid |-> oid, inode |-> InodeOf(c, oid)]
    BY <1>2, ResultFacts
  <2>2. found.val.oid = oid /\ found.val.inode = InodeOf(c, oid)
    BY <2>1
  <2>3. /\ InodeOf(c, oid).kind = c.inodes[oid].kind
        /\ InodeOf(c, oid).size = Sized(c, oid)
        /\ InodeOf(c, oid).private = Private(oid)
    BY DEF InodeOf, InodeVal, Sized
  <2>4. oid # 0
    BY <1>2, NextFacts
  <2> QED
    BY <1>2, <2>1, <2>2, <2>3, <2>4
<1>3. CASE oid = 0 /\ found \in {Err("FileNotFound"), Err("NotADirectory")}
  BY <1>3, ResultFacts
<1> QED
  BY <1>1, <1>2, <1>3 DEF Resolved

\* ApfsVolume::stat.
LEMMA StatIs ==
    ASSUME NEW v, NEW c, NEW lost, IsServed(v, c, lost), IsContent(c), NEW path, IsPath(path)
    PROVE  Answers(Stat(v, path), Reached(c, path), StatOf(c, path), lost)
<1> DEFINE oid == Reached(c, path)
           found == ResolvePath(v, path)
           result == Stat(v, path)
<1>1. result = IF found.ok
               THEN Ok([oid |-> found.val.oid, kind |-> found.val.inode.kind,
                        size |-> found.val.inode.size])
               ELSE found
  BY DEF Stat, Then
<1>2. Resolved(found, c, oid, lost)
  BY ResolvePathIs
<1>3. StatOf(c, path) = [oid |-> oid, kind |-> c.inodes[oid].kind, size |-> Sized(c, oid)]
  BY DEF StatOf
<1> HIDE DEF oid, found, result
<1> QED
  BY <1>1, <1>2, <1>3, FoundIs DEF Answers, result, oid

\* ApfsVolume::stat_and_extents.
LEMMA StatAndExtentsIs ==
    ASSUME NEW v, NEW c, NEW lost, IsServed(v, c, lost), IsContent(c), NEW path, IsPath(path)
    PROVE  Answers(StatAndExtents(v, path), Reached(c, path), ExtentsOf(c, path), lost)
<1> DEFINE oid == Reached(c, path)
           found == ResolvePath(v, path)
           extents == LookupExtents(v, found.val.inode.private)
           result == StatAndExtents(v, path)
           val == ExtentsOf(c, path)
<1>1. result =
          IF found.ok
          THEN IF found.val.inode.kind = "directory"
               THEN Ok([oid |-> found.val.oid, kind |-> "directory", extents |-> <<>>,
                        size |-> 0])
               ELSE IF extents.ok
                    THEN Ok([oid |-> found.val.oid, kind |-> found.val.inode.kind, extents |-> extents.val,
                             size |-> found.val.inode.size])
                    ELSE extents
          ELSE found
  BY DEF StatAndExtents, Then
<1>2. Resolved(found, c, oid, lost)
  BY ResolvePathIs
<1>3. val = [oid |-> oid, kind |-> c.inodes[oid].kind, extents |-> c.inodes[oid].extents,
             size |-> Sized(c, oid)]
  BY DEF ExtentsOf
<1>4. extents = LookupExtents(v, found.val.inode.private)
  OBVIOUS
<1> HIDE DEF oid, found, extents, result, val
<1>5. CASE ~ found.ok
  BY <1>1, <1>2, <1>5, FoundIs DEF Answers, result, oid, val
<1>6. CASE found.ok
  <2>1. /\ oid \in DOMAIN c.inodes /\ oid # 0
        /\ found.val.oid = oid
        /\ found.val.inode.kind = c.inodes[oid].kind
        /\ found.val.inode.size = Sized(c, oid)
        /\ found.val.inode.private = Private(oid)
    BY <1>2, <1>6, FoundIs
  <2>2. CASE c.inodes[oid].kind = "directory"
    <3>1. c.inodes[oid].extents = <<>>
      BY <2>1, <2>2 DEF IsContent, Dirs
    <3>2. Sized(c, oid) = 0
      BY <3>1 DEF Sized
    <3>3. result = Ok(val)
      BY <1>1, <1>3, <1>6, <2>1, <2>2, <3>1, <3>2
    <3> QED
      BY <2>1, <3>3 DEF Answers, result, oid, val
  <2>3. CASE c.inodes[oid].kind # "directory"
    <3>1. Failed(extents, lost) \/ extents = Ok(c.inodes[oid].extents)
      <4>1. extents = LookupExtents(v, Private(oid))
        BY <1>4, <2>1
      <4> QED
        BY <2>1, <4>1, LookupExtentsIs
    <3>2. CASE Failed(extents, lost)
      <4>1. result = extents
        BY <1>1, <1>6, <2>1, <2>3, <3>2, ResultFacts DEF Failed
      <4> QED
        BY <3>2, <4>1 DEF Answers, result
    <3>3. CASE extents = Ok(c.inodes[oid].extents)
      <4>1. extents.ok /\ extents.val = c.inodes[oid].extents
        BY <3>3, ResultFacts
      <4>2. result = Ok(val)
        BY <1>1, <1>3, <1>6, <2>1, <2>3, <4>1
      <4> QED
        BY <2>1, <4>2 DEF Answers, result, oid, val
    <3> QED
      BY <3>1, <3>2, <3>3
  <2> QED
    BY <2>2, <2>3
<1> QED
  BY <1>5, <1>6

\* ApfsVolume::list_directory.
LEMMA ListDirectoryIs ==
    ASSUME NEW v, NEW c, NEW lost, IsServed(v, c, lost), IsContent(c), NEW path, IsPath(path),
           NEW result, result = ListDirectory(v, path)
    PROVE  \/ Failed(result, lost)
           \/ /\ IsDir(c, Reached(c, path))
              /\ result.ok /\ IsListing(result.val, c, Reached(c, path), lost)
           \/ ~ IsDir(c, Reached(c, path)) /\ ~ result.ok
<1> DEFINE oid == Reached(c, path)
           found == ResolvePath(v, path)
<1>1. CASE path = <<>>
  <2>1. result = Entries(v, RootDir)
    BY <1>1 DEF ListDirectory
  <2>2. oid = RootDir
    <3>1. PICK at : Along(at, c, path, Len(path)) /\ oid = at[Len(path)]
      BY ReachedUnfolds
    <3>2. Len(path) = 0
      BY <1>1
    <3> QED
      BY <3>1, <3>2 DEF Along
  <2>3. RootDir \in Nat /\ IsDir(c, RootDir)
    BY NextFacts, ContentFacts DEF IsDir, Dirs
  <2>4. IsListed(result, c, RootDir, lost)
    BY <2>1, <2>3, EntriesAre
  <2> QED
    BY <2>2, <2>3, <2>4 DEF IsListed
<1>2. CASE path # <<>>
  <2>1. result = IF found.ok
                 THEN IF found.val.inode.kind # "directory" THEN Err("NotADirectory")
                      ELSE Entries(v, found.val.oid)
                 ELSE found
    BY <1>2 DEF ListDirectory, Then
  <2>2. Resolved(found, c, oid, lost)
    BY ResolvePathIs
  <2> HIDE DEF oid, found
  <2>3. CASE ~ found.ok
    <3>1. result = found
      BY <2>1, <2>3
    <3>2. Failed(found, lost) \/ oid = 0
      BY <2>2, <2>3, FoundIs
    <3> QED
      BY <2>3, <3>1, <3>2 DEF IsDir, oid
  <2>4. CASE found.ok
    <3>1. /\ oid \in DOMAIN c.inodes /\ oid # 0
          /\ found.val.oid = oid
          /\ found.val.inode.kind = c.inodes[oid].kind
      BY <2>2, <2>4, FoundIs
    <3>2. CASE c.inodes[oid].kind = "directory"
      <4>1. oid \in Nat /\ IsDir(c, oid)
        BY <3>1, <3>2, ContentFacts DEF IsDir
      <4>2. result = Entries(v, oid)
        BY <2>1, <2>4, <3>1, <3>2
      <4>3. IsListed(result, c, oid, lost)
        BY <4>1, <4>2, EntriesAre
      <4> QED
        BY <4>1, <4>3 DEF IsListed, oid
    <3>3. CASE c.inodes[oid].kind # "directory"
      <4>1. ~ IsDir(c, oid)
        BY <3>3 DEF IsDir
      <4>2. result = Err("NotADirectory")
        BY <2>1, <2>4, <3>1, <3>3
      <4> QED
        BY <4>1, <4>2, ResultFacts DEF oid
    <3> QED
      BY <3>2, <3>3
  <2> QED
    BY <2>3, <2>4
<1> QED
  BY <1>1, <1>2

\* ApfsVolume::exists.
LEMMA ExistsIs ==
    ASSUME NEW v, NEW c, NEW lost, IsServed(v, c, lost), IsContent(c), NEW path, IsPath(path),
           NEW result, result = Exists(v, path)
    PROVE  \/ Failed(result, lost)
           \/ Reached(c, path) # 0 /\ result.ok /\ result.val = TRUE
           \/ Reached(c, path) = 0 /\ (result.ok => result.val = FALSE)
<1> DEFINE oid == Reached(c, path)
           found == ResolvePath(v, path)
<1>1. result = IF found.ok THEN Ok(TRUE)
               ELSE IF found.err = "FileNotFound" THEN Ok(FALSE) ELSE found
  BY DEF Exists
<1>2. Resolved(found, c, oid, lost)
  BY ResolvePathIs
<1> HIDE DEF oid, found
<1>3. CASE Failed(found, lost) /\ ~ found.ok /\ found.err = "Io"
  <2>1. result = found
    BY <1>1, <1>3
  <2> QED
    BY <1>3, <2>1
<1>4. CASE oid # 0 /\ found.ok
  <2>1. result = Ok(TRUE)
    BY <1>1, <1>4
  <2> QED
    BY <1>4, <2>1, ResultFacts DEF oid
<1>5. CASE oid = 0 /\ ~ found.ok
  <2>1. result = Ok(FALSE) \/ result = found
    BY <1>1, <1>5
  <2>2. CASE result = Ok(FALSE)
    BY <1>5, <2>2, ResultFacts DEF oid
  <2>3. CASE result = found
    BY <1>5, <2>3 DEF oid
  <2> QED
    BY <2>1, <2>2, <2>3
<1>6. \/ Failed(found, lost) /\ ~ found.ok /\ found.err = "Io"
      \/ oid # 0 /\ found.ok
      \/ oid = 0 /\ ~ found.ok
  BY <1>2, FoundIs
<1> QED
  BY <1>3, <1>4, <1>5, <1>6
-----------------------------------------------------------------------------
\* With every block readable, the operations answer what the volume holds.
LEMMA AnswersTrue ==
    ASSUME NEW v, NEW c, IsServed(v, c, {}), IsContent(c), NEW path, IsPath(path)
    PROVE  AreTrue(c, path, Stat(v, path), ListDirectory(v, path),
                   StatAndExtents(v, path), Exists(v, path))
<1> DEFINE oid == Reached(c, path)
           stat == Stat(v, path)
           list == ListDirectory(v, path)
           file == StatAndExtents(v, path)
           exists == Exists(v, path)
<1>1. ~ Failed(stat, {}) /\ ~ Failed(list, {}) /\ ~ Failed(file, {}) /\ ~ Failed(exists, {})
  BY DEF Failed
<1>2. Answers(stat, oid, StatOf(c, path), {}) /\ Answers(file, oid, ExtentsOf(c, path), {})
  BY StatIs, StatAndExtentsIs
<1>3. \/ IsDir(c, oid) /\ list.ok /\ IsListing(list.val, c, oid, {})
      \/ ~ IsDir(c, oid) /\ ~ list.ok
  BY <1>1, ListDirectoryIs
<1>4. \/ oid # 0 /\ exists.ok /\ exists.val = TRUE
      \/ oid = 0 /\ (exists.ok => exists.val = FALSE)
  BY <1>1, ExistsIs
<1> HIDE DEF oid, stat, list, file, exists
<1>5. stat.ok <=> oid # 0
  BY <1>1, <1>2, ResultFacts DEF Answers
<1>6. stat.ok => stat.val = StatOf(c, path)
  BY <1>1, <1>2, ResultFacts DEF Answers
<1>7. file.ok <=> oid # 0
  BY <1>1, <1>2, ResultFacts DEF Answers
<1>8. file.ok => file.val = ExtentsOf(c, path)
  BY <1>1, <1>2, ResultFacts DEF Answers
<1>9. list.ok <=> IsDir(c, oid)
  BY <1>3
<1>10. list.ok => Lists(list.val, EntriesOf(c, oid))
  BY <1>3 DEF IsListing
<1>11. exists.ok /\ exists.val <=> oid # 0
  BY <1>4
<1> QED
  BY <1>5, <1>6, <1>7, <1>8, <1>9, <1>10, <1>11
  DEF AreTrue, oid, stat, list, file, exists

\* With blocks that cannot be read, they answer it or fail with that error.
LEMMA AnswersNoLies ==
    ASSUME NEW v, NEW c, NEW lost, IsServed(v, c, lost), IsContent(c), NEW path, IsPath(path)
    PROVE  AreNoLies(c, path, Stat(v, path), ListDirectory(v, path),
                     StatAndExtents(v, path), Exists(v, path))
<1> DEFINE oid == Reached(c, path)
           stat == Stat(v, path)
           list == ListDirectory(v, path)
           file == StatAndExtents(v, path)
           exists == Exists(v, path)
<1>1. \A r : Failed(r, lost) => ~ r.ok /\ r.err = "Io"
  BY ResultFacts DEF Failed
<1>2. Answers(stat, oid, StatOf(c, path), lost) /\ Answers(file, oid, ExtentsOf(c, path), lost)
  BY StatIs, StatAndExtentsIs
<1>3. \/ Failed(list, lost)
      \/ IsDir(c, oid) /\ list.ok /\ IsListing(list.val, c, oid, lost)
      \/ ~ IsDir(c, oid) /\ ~ list.ok
  BY ListDirectoryIs
<1>4. \/ Failed(exists, lost)
      \/ oid # 0 /\ exists.ok /\ exists.val = TRUE
      \/ oid = 0 /\ (exists.ok => exists.val = FALSE)
  BY ExistsIs
<1> HIDE DEF oid, stat, list, file, exists
<1>5. IF stat.ok THEN oid # 0 /\ stat.val = StatOf(c, path) ELSE oid = 0 \/ stat.err = "Io"
  BY <1>1, <1>2, ResultFacts DEF Answers
<1>6. IF file.ok THEN oid # 0 /\ file.val = ExtentsOf(c, path) ELSE oid = 0 \/ file.err = "Io"
  BY <1>1, <1>2, ResultFacts DEF Answers
<1>7. IF list.ok THEN IsDir(c, oid) /\ ListsNames(list.val, EntriesOf(c, oid))
      ELSE ~ IsDir(c, oid) \/ list.err = "Io"
  <2>1. CASE Failed(list, lost)
    BY <1>1, <2>1
  <2>2. CASE IsDir(c, oid) /\ list.ok /\ IsListing(list.val, c, oid, lost)
    BY <2>2 DEF IsListing
  <2>3. CASE ~ IsDir(c, oid) /\ ~ list.ok
    BY <2>3
  <2> QED
    BY <1>3, <2>1, <2>2, <2>3
<1>8. exists.ok => (exists.val <=> oid # 0)
  <2>1. CASE Failed(exists, lost)
    BY <1>1, <2>1
  <2>2. CASE oid # 0 /\ exists.ok /\ exists.val = TRUE
    BY <2>2
  <2>3. CASE oid = 0 /\ (exists.ok => exists.val = FALSE)
    BY <2>3
  <2> QED
    BY <1>4, <2>1, <2>2, <2>3
<1> QED
  BY <1>5, <1>6, <1>7, <1>8 DEF AreNoLies, oid, stat, list, file, exists

\* With every block readable, stat, list_directory, stat_and_extents and exists
\* answer for each path what the committed content says, whichever transactions
\* made it, and refuse exactly the paths that name nothing or the wrong kind of
\* object (AnswersAreTrue).
THEOREM AnswersAreTrueAlways == Spec => []AnswersAreTrue
<1>1. IInv => AnswersAreTrue
  <2> SUFFICES ASSUME IInv, Served, bad = {}, NEW path \in PathsUpTo(MaxDepth + 1)
               PROVE  AreTrue(Content, path, Stat(Volume, path), ListDirectory(Volume, path),
                              StatAndExtents(Volume, path), Exists(Volume, path))
    BY DEF AnswersAreTrue
  <2>1. IsContent(Content) /\ IsServed(Volume, Content, {})
    BY ServedIs
  <2>2. IsPath(path)
    BY PathsAre
  <2> QED
    BY <2>1, <2>2, AnswersTrue
<1> QED
  BY <1>1, Inductive, PTL

\* With a bad block, each of these operations answers the truth or fails with the
\* error of the disk: what cannot be read is never taken for something that does
\* not exist, and only the sizes of a listing may be 0 (NoLieOverABadBlock).
THEOREM NoLieOverABadBlockAlways == Spec => []NoLieOverABadBlock
<1>1. IInv => NoLieOverABadBlock
  <2> SUFFICES ASSUME IInv, Served, NEW path \in PathsUpTo(MaxDepth)
               PROVE  AreNoLies(Content, path, Stat(Volume, path), ListDirectory(Volume, path),
                                StatAndExtents(Volume, path), Exists(Volume, path))
    BY DEF NoLieOverABadBlock
  <2>1. IsContent(Content) /\ IsServed(Volume, Content, bad)
    BY ServedIs
  <2>2. IsPath(path)
    BY PathsAre
  <2> QED
    BY <2>1, <2>2, AnswersNoLies
<1> QED
  BY <1>1, Inductive, PTL
-----------------------------------------------------------------------------
(***************************************************************************)
(* How deep directories are.                                               *)
(***************************************************************************)
IsDepth(depth, c) ==
    /\ depth \in [Dirs(c) -> 0 .. MaxDepth]
    /\ depth[RootDir] = 0
    /\ \A e \in DOMAIN c.drecs :
          c.drecs[e] \in Dirs(c) => depth[c.drecs[e]] = depth[e[1]] + 1

\* The steps along a path.
LEMMA StepsAre ==
    ASSUME NEW c, NEW path, IsPath(path), NEW at, Along(at, c, path, Len(path))
    PROVE  /\ at[0] = RootDir
           /\ \A i \in 1 .. Len(path) : at[i] = NextOf(c, at[i - 1], path[i])
<1>1. Len(path) \in Nat
  BY DEF IsPath, IsSeq
<1>2. 0 \in 0 .. Len(path) /\ \A i \in 1 .. Len(path) : i \in 0 .. Len(path) /\ i # 0
  BY <1>1
<1> QED
  BY <1>2 DEF Along, NextOf

\* An object other than 0 that a step leads to has an entry in a directory.
LEMMA StepFacts ==
    ASSUME NEW c, IsContent(c), NEW oid, NEW name, NextOf(c, oid, name) # 0
    PROVE  /\ <<oid, name>> \in DOMAIN c.drecs
           /\ c.drecs[<<oid, name>>] = NextOf(c, oid, name)
           /\ oid \in Dirs(c) /\ name \in Names
           /\ NextOf(c, oid, name) \in DOMAIN c.inodes
<1>1. <<oid, name>> \in DOMAIN c.drecs /\ c.drecs[<<oid, name>>] = NextOf(c, oid, name)
  BY DEF NextOf
<1>2. DOMAIN c.drecs \subseteq Dirs(c) \X Names
  BY DEF IsContent
<1> QED
  BY <1>1, <1>2, NextFacts

\* The depth of a directory is the length of each path to it.
LEMMA DepthIs ==
    ASSUME NEW c, IsContent(c), NEW depth, IsDepth(depth, c), NEW path, IsPath(path),
           NEW at, Along(at, c, path, Len(path))
    PROVE  \A i \in 0 .. Len(path) : at[i] \in Dirs(c) => depth[at[i]] = i
<1> DEFINE n == Len(path)
           S == { i \in Nat : i \in 0 .. n /\ at[i] \in Dirs(c) => depth[at[i]] = i }
<1>1. n \in Nat
  BY DEF IsPath, IsSeq
<1>2. at[0] = RootDir /\ \A i \in 1 .. n : at[i] = NextOf(c, at[i - 1], path[i])
  BY StepsAre
<1>3. 0 \in S
  BY <1>2 DEF IsDepth
<1>4. ASSUME NEW i \in Nat, i \in S PROVE i + 1 \in S
  <2> SUFFICES ASSUME i + 1 \in 0 .. n, at[i + 1] \in Dirs(c) PROVE depth[at[i + 1]] = i + 1
    OBVIOUS
  <2>1. i + 1 \in 1 .. n /\ (i + 1) - 1 = i /\ i \in 0 .. n
    BY <1>1
  <2>2. at[i + 1] = NextOf(c, at[i], path[i + 1])
    BY <1>2, <2>1
  <2>3. at[i + 1] # 0
    BY NextFacts
  <2>4. /\ <<at[i], path[i + 1]>> \in DOMAIN c.drecs
        /\ c.drecs[<<at[i], path[i + 1]>>] = at[i + 1]
        /\ at[i] \in Dirs(c)
    BY <2>2, <2>3, StepFacts
  <2>5. depth[at[i + 1]] = depth[at[i]] + 1
    <3> DEFINE e == <<at[i], path[i + 1]>>
    <3>1. e \in DOMAIN c.drecs /\ e[1] = at[i] /\ c.drecs[e] = at[i + 1]
      BY <2>4
    <3> HIDE DEF e
    <3> QED
      BY <3>1 DEF IsDepth
  <2> QED
    BY <1>4, <2>1, <2>4, <2>5
<1>5. S = Nat
  <2>1. S \in SUBSET Nat
    OBVIOUS
  <2> HIDE DEF S
  <2> QED
    BY <1>3, <1>4, <2>1, Induction
<1> QED
  BY <1>1, <1>5

\* A content without a directory more, in which none has moved.
LEMMA NestedKept ==
    ASSUME NEW c, IsNested(c), NEW c2, Dirs(c2) \subseteq Dirs(c), RootDir \in Dirs(c2),
           DOMAIN c2.drecs \subseteq Dirs(c2) \X Names,
           \A e \in DOMAIN c2.drecs : c2.drecs[e] \in Dirs(c2)
               => e \in DOMAIN c.drecs /\ c.drecs[e] = c2.drecs[e]
    PROVE  IsNested(c2)
<1>1. PICK depth : IsDepth(depth, c)
  BY DEF IsNested, IsDepth
<1> DEFINE d2 == [dir \in Dirs(c2) |-> depth[dir]]
<1>2. d2 \in [Dirs(c2) -> 0 .. MaxDepth] /\ d2[RootDir] = 0
  BY <1>1 DEF IsDepth
<1>3. ASSUME NEW e \in DOMAIN c2.drecs, c2.drecs[e] \in Dirs(c2)
      PROVE  d2[c2.drecs[e]] = d2[e[1]] + 1
  <2>1. e \in DOMAIN c.drecs /\ c.drecs[e] = c2.drecs[e] /\ e[1] \in Dirs(c2)
    BY <1>3
  <2>2. depth[c2.drecs[e]] = depth[e[1]] + 1
    BY <1>1, <1>3, <2>1 DEF IsDepth
  <2> QED
    BY <1>3, <2>1, <2>2
<1> HIDE DEF d2
<1> QED
  BY <1>2, <1>3 DEF IsNested

\* Each change leaves it nested: what is created,
LEMMA CreatedNested ==
    ASSUME NEW c, IsContent(c), IsNested(c), NEW xid \in Nat, NEW c2 \in Created(c, xid)
    PROVE  IsNested(c2)
<1>1. IsContent(c2)
  BY CreatedAre
<1>2. RootDir \in Dirs(c2) /\ DOMAIN c2.drecs \subseteq Dirs(c2) \X Names
  BY <1>1 DEF IsContent
<1>3. PICK e \in FreeEntries(c), oid \in FileIds \ DOMAIN c.inodes,
           inode \in {Inode("file", Pieces(1, xid)), Inode("directory", <<>>)} :
          /\ c2 = WithObject(c, e, oid, inode)
          /\ inode = Inode("file", Pieces(1, xid)) \/ Within(c, e[1], MaxDepth - 1)
  BY DEF Created
<1>4. /\ c2.inodes = With(c.inodes, oid, inode) /\ c2.drecs = With(c.drecs, e, oid)
  BY <1>3 DEF WithObject
<1>5. /\ DOMAIN c2.inodes = DOMAIN c.inodes \cup {oid} /\ c2.inodes[oid] = inode
      /\ \A z \in DOMAIN c.inodes : c2.inodes[z] = c.inodes[z]
      /\ DOMAIN c2.drecs = DOMAIN c.drecs \cup {e} /\ c2.drecs[e] = oid
      /\ \A z \in DOMAIN c.drecs : z # e => c2.drecs[z] = c.drecs[z]
  BY <1>4 DEF With
<1>6. e \notin DOMAIN c.drecs /\ e \in Dirs(c) \X Names
  BY DEF FreeEntries
<1>7. Dirs(c2) = Dirs(c) \cup IF inode.kind = "directory" THEN {oid} ELSE {}
  BY <1>5 DEF Dirs
<1>8. CASE inode = Inode("file", Pieces(1, xid))
  <2>1. inode.kind # "directory"
    BY <1>8 DEF Inode
  <2>2. Dirs(c2) = Dirs(c) /\ oid \notin Dirs(c2)
    BY <1>5, <1>7, <2>1 DEF Dirs
  <2>3. \A f \in DOMAIN c2.drecs : c2.drecs[f] \in Dirs(c2)
            => f \in DOMAIN c.drecs /\ c.drecs[f] = c2.drecs[f]
    BY <1>5, <1>6, <2>2
  <2> QED
    BY <1>2, <2>2, <2>3, NestedKept
<1>9. CASE Within(c, e[1], MaxDepth - 1) /\ inode = Inode("directory", <<>>)
  <2>1. PICK depth : IsDepth(depth, c)
    BY DEF IsNested, IsDepth
  <2>2. PICK path \in PathsUpTo(MaxDepth - 1) : Reached(c, path) = e[1]
    BY <1>9 DEF Within
  <2>3. IsPath(path) /\ Len(path) \in 0 .. MaxDepth - 1
    <3>1. IsPath(path)
      BY PathsAre
    <3>2. PICK n \in 0 .. MaxDepth - 1 : path \in [1 .. n -> Names]
      BY DEF PathsUpTo
    <3>3. Len(path) = n
      BY <3>2, IsASeq
    <3> QED
      BY <3>1, <3>2, <3>3
  <2>4. PICK at : Along(at, c, path, Len(path)) /\ Reached(c, path) = at[Len(path)]
    BY <2>3, ReachedUnfolds
  <2>5. depth[e[1]] = Len(path) /\ e[1] \in Dirs(c)
    <3>1. Len(path) \in 0 .. Len(path)
      BY <2>3
    <3>2. at[Len(path)] = e[1] /\ e[1] \in Dirs(c)
      BY <1>6, <2>2, <2>4
    <3> QED
      BY <2>1, <2>3, <2>4, <3>1, <3>2, DepthIs
  <2> DEFINE d2 == [dir \in Dirs(c2) |-> IF dir = oid THEN Len(path) + 1 ELSE depth[dir]]
  <2>6. Dirs(c2) = Dirs(c) \cup {oid} /\ oid \notin Dirs(c)
    BY <1>7, <1>9 DEF Inode, Dirs
  <2>7. RootDir \in Dirs(c) /\ depth[RootDir] = 0
    BY <2>1 DEF IsContent, IsDepth
  <2>8. d2 \in [Dirs(c2) -> 0 .. MaxDepth] /\ d2[RootDir] = 0
    <3>1. \A dir \in Dirs(c) : depth[dir] \in 0 .. MaxDepth
      BY <2>1 DEF IsDepth
    <3>2. Len(path) + 1 \in 0 .. MaxDepth
      BY <2>3, CatalogAssumption
    <3> QED
      BY <1>2, <2>6, <2>7, <3>1, <3>2
  <2>9. ASSUME NEW f \in DOMAIN c2.drecs, c2.drecs[f] \in Dirs(c2)
        PROVE  d2[c2.drecs[f]] = d2[f[1]] + 1
    <3>1. CASE f = e
      <4>1. d2[oid] = Len(path) + 1 /\ d2[e[1]] = depth[e[1]]
        BY <2>5, <2>6
      <4> QED
        BY <1>5, <2>5, <3>1, <4>1
    <3>2. CASE f # e
      <4>1. f \in DOMAIN c.drecs /\ c2.drecs[f] = c.drecs[f]
        BY <1>5, <3>2
      <4>2. c.drecs[f] \in DOMAIN c.inodes /\ f[1] \in Dirs(c)
        BY <4>1 DEF IsContent
      <4>3. c.drecs[f] # oid /\ f[1] # oid /\ c.drecs[f] \in Dirs(c)
        BY <2>6, <2>9, <4>1, <4>2
      <4>4. depth[c.drecs[f]] = depth[f[1]] + 1
        BY <2>1, <4>1, <4>3 DEF IsDepth
      <4>5. d2[c.drecs[f]] = depth[c.drecs[f]] /\ d2[f[1]] = depth[f[1]]
        BY <2>6, <4>2, <4>3
      <4> QED
        BY <4>1, <4>4, <4>5
    <3> QED
      BY <3>1, <3>2
  <2> HIDE DEF d2
  <2> QED
    BY <2>8, <2>9 DEF IsNested
<1> QED
  BY <1>3, <1>8, <1>9

\* a hard link,
LEMMA HardLinkedNested ==
    ASSUME NEW c, IsContent(c), IsNested(c), NEW c2 \in HardLinked(c)
    PROVE  IsNested(c2)
<1>1. IsContent(c2) /\ c = Contents(c.inodes, c.drecs)
  BY HardLinkedAre, ContentParts
<1>2. PICK oid \in Files(c), e \in FreeEntries(c) : c2 = [c EXCEPT !.drecs = With(@, e, oid)]
  BY DEF HardLinked
<1> DEFINE d2 == With(c.drecs, e, oid)
<1>3. c2 = Contents(c.inodes, d2)
  BY <1>1, <1>2 DEF Contents
<1>4. c2.inodes = c.inodes /\ c2.drecs = d2
  BY <1>3 DEF Contents
<1>5. Dirs(c2) = Dirs(c)
  BY <1>4 DEF Dirs
<1>6. DOMAIN d2 = DOMAIN c.drecs \cup {e} /\ d2[e] = oid /\ \A z \in DOMAIN c.drecs \ {e} : d2[z] = c.drecs[z]
  BY DEF With
<1> HIDE DEF d2
<1>7. \A f \in DOMAIN c2.drecs : c2.drecs[f] \in Dirs(c2)
          => f \in DOMAIN c.drecs /\ c.drecs[f] = c2.drecs[f]
  BY <1>4, <1>5, <1>6 DEF Files
<1>8. RootDir \in Dirs(c2) /\ DOMAIN c2.drecs \subseteq Dirs(c2) \X Names
  BY <1>1 DEF IsContent
<1> QED
  BY <1>5, <1>7, <1>8, NestedKept

\* a file that is renamed or moved,
LEMMA RenamedNested ==
    ASSUME NEW c, IsContent(c), IsNested(c), NEW c2 \in Renamed(c)
    PROVE  IsNested(c2)
<1>1. IsContent(c2) /\ c = Contents(c.inodes, c.drecs)
  BY RenamedAre, ContentParts
<1>2. PICK from \in DOMAIN c.drecs, to \in FreeEntries(c) :
          /\ c2 = [c EXCEPT !.drecs = With(Less(@, from), to, c.drecs[from])]
          /\ c.drecs[from] \in Files(c)
  BY DEF Renamed
<1> DEFINE d2 == With(Less(c.drecs, from), to, c.drecs[from])
<1>3. c2 = Contents(c.inodes, d2)
  BY <1>1, <1>2 DEF Contents
<1>4. c2.inodes = c.inodes /\ c2.drecs = d2
  BY <1>3 DEF Contents
<1>5. Dirs(c2) = Dirs(c)
  BY <1>4 DEF Dirs
<1>6. /\ DOMAIN d2 = (DOMAIN c.drecs \ {from}) \cup {to} /\ d2[to] = c.drecs[from]
      /\ \A z \in DOMAIN c.drecs \ {from, to} : d2[z] = c.drecs[z]
  BY DEF With, Less
<1> HIDE DEF d2
<1>7. \A f \in DOMAIN c2.drecs : c2.drecs[f] \in Dirs(c2)
          => f \in DOMAIN c.drecs /\ c.drecs[f] = c2.drecs[f]
  BY <1>2, <1>4, <1>5, <1>6 DEF Files
<1>8. RootDir \in Dirs(c2) /\ DOMAIN c2.drecs \subseteq Dirs(c2) \X Names
  BY <1>1 DEF IsContent
<1> QED
  BY <1>5, <1>7, <1>8, NestedKept

\* an entry that goes,
LEMMA UnlinkedNested ==
    ASSUME NEW c, IsContent(c), IsNested(c), NEW c2 \in Unlinked(c)
    PROVE  IsNested(c2)
<1>1. IsContent(c2)
  BY UnlinkedAre
<1> DEFINE D(e) == Less(c.drecs, e)
           Left(e) == {RootDir} \cup { D(e)[f] : f \in DOMAIN D(e) }
<1>2. PICK e \in DOMAIN c.drecs : c2 = Contents([oid \in Left(e) |-> c.inodes[oid]], D(e))
  BY Zenon DEF Unlinked, Contents
<1>3. c2.inodes = [oid \in Left(e) |-> c.inodes[oid]] /\ c2.drecs = D(e)
  BY <1>2 DEF Contents
<1>4. /\ DOMAIN c2.inodes = {RootDir} \cup { c2.drecs[f] : f \in DOMAIN c2.drecs }
      /\ \A z \in DOMAIN c2.inodes : c2.inodes[z] = c.inodes[z]
  BY <1>3
<1>5. DOMAIN c2.drecs = DOMAIN c.drecs \ {e} /\ \A z \in DOMAIN c2.drecs : c2.drecs[z] = c.drecs[z]
  BY <1>3 DEF Less
<1> HIDE DEF D, Left
<1>6. DOMAIN c2.inodes \subseteq DOMAIN c.inodes
  <2>1. RootDir \in DOMAIN c.inodes
    BY NextFacts
  <2>2. \A f \in DOMAIN c2.drecs : c2.drecs[f] \in DOMAIN c.inodes
    BY <1>5, ContentFacts
  <2> QED
    BY <1>4, <2>1, <2>2
<1>7. Dirs(c2) \subseteq Dirs(c)
  BY <1>4, <1>6 DEF Dirs
<1>8. RootDir \in Dirs(c2) /\ DOMAIN c2.drecs \subseteq Dirs(c2) \X Names
  BY <1>1 DEF IsContent
<1> QED
  BY <1>5, <1>7, <1>8, NestedKept

\* and a file that is written.
LEMMA WrittenNested ==
    ASSUME NEW c, IsContent(c), IsNested(c), NEW xid \in Nat, NEW c2 \in Written(c, xid)
    PROVE  IsNested(c2)
<1>1. IsContent(c2) /\ c = Contents(c.inodes, c.drecs)
  BY WrittenAre, ContentParts
<1>2. PICK oid \in Files(c), n \in 0 .. MaxPieces :
          c2 = [c EXCEPT !.inodes[oid].extents = Pieces(n, xid)]
  BY DEF Written
<1> DEFINE i2 == [c.inodes EXCEPT ![oid].extents = Pieces(n, xid)]
<1>3. c2 = Contents(i2, c.drecs)
  BY <1>1, <1>2 DEF Contents
<1>4. c2.inodes = i2 /\ c2.drecs = c.drecs
  BY <1>3 DEF Contents
<1>5. /\ DOMAIN i2 = DOMAIN c.inodes
      /\ \A o \in DOMAIN c.inodes \ {oid} : i2[o] = c.inodes[o]
  OBVIOUS
<1> HIDE DEF i2
<1>6. Dirs(c2) \subseteq Dirs(c) \cup {oid}
  BY <1>4, <1>5 DEF Dirs
<1>7. i2[oid].kind = c.inodes[oid].kind
  <2> DEFINE node == c.inodes[oid]
             s == Pieces(n, xid)
  <2>1. node \in Inodes
    BY <1>2, ContentParts DEF Fits, Files
  <2>2. i2 = [c.inodes EXCEPT ![oid] = [node EXCEPT !.extents = s]] /\ oid \in DOMAIN c.inodes
    BY <1>2 DEF i2, Files
  <2>3. i2[oid] = [node EXCEPT !.extents = s]
    BY <2>2
  <2> HIDE DEF node, s
  <2>4. [node EXCEPT !.extents = s].kind = node.kind
    BY <2>1 DEF Inodes
  <2> QED
    BY <2>3, <2>4 DEF node
<1>8. Dirs(c2) \subseteq Dirs(c)
  BY <1>4, <1>5, <1>7 DEF Dirs
<1>9. RootDir \in Dirs(c2) /\ DOMAIN c2.drecs \subseteq Dirs(c2) \X Names
  BY <1>1 DEF IsContent
<1>10. \A e \in DOMAIN c2.drecs : c2.drecs[e] \in Dirs(c2)
          => e \in DOMAIN c.drecs /\ c.drecs[e] = c2.drecs[e]
  BY <1>4
<1> QED
  BY <1>8, <1>9, <1>10, NestedKept

\* Any change.
LEMMA ChangesNested ==
    ASSUME NEW c, IsContent(c), IsNested(c), NEW xid \in Nat, NEW c2 \in Changes(c, xid)
    PROVE  IsNested(c2)
  BY CreatedNested, HardLinkedNested, UnlinkedNested, RenamedNested, WrittenNested DEF Changes

\* Besides IInv: no content has a directory in itself, or one that is too deep.
NestedOK ==
    /\ \A x \in 1 .. Xid : IsNested(committed[x].content)
    /\ pending # None => IsNested(pending.state.content)

\* The step of each action that it depends on, with IInv.
LEMMA NestedAlways == Spec => []NestedOK
<1>1. Init => NestedOK
  <2> SUFFICES ASSUME Init PROVE NestedOK
    OBVIOUS
  <2> DEFINE s == Transaction(NoState, FirstContent, 1, 0).state
  <2>1. committed = << s >> /\ pending = None
    BY DEF Init
  <2>2. s.content = FirstContent
    BY DEF Transaction, WithSuperblock
  <2> HIDE DEF s
  <2>3. Xid = 1 /\ committed[1] = s
    BY <2>1 DEF Xid
  <2>4. IsNested(FirstContent)
    BY FirstContentAssumption
  <2>5. \A x \in 1 .. Xid : x = 1
    BY <2>3
  <2> QED
    BY <2>1, <2>2, <2>3, <2>4, <2>5 DEF NestedOK
<1>2. IInv /\ NestedOK /\ [Next]_vars => NestedOK'
  <2> SUFFICES ASSUME IInv, NestedOK, [Next]_vars PROVE NestedOK'
    OBVIOUS
  <2>1. CASE WriteTrees
    <3>1. /\ Xid \in Nat /\ Xid \in 1 .. Xid /\ Xid + 1 \in Nat
          /\ IsContent(committed[Xid].content)
      BY FreeFacts DEF IInv, RingOK, IsSeq, Xid
    <3>2. PICK c \in Changes(committed[Xid].content, Xid + 1) :
              pending' = [super |-> Transaction(committed[Xid], c, Xid + 1, snap).super,
                          state |-> Transaction(committed[Xid], c, Xid + 1, snap).state]
      BY <2>1 DEF WriteTrees
    <3>3. IsNested(c)
      BY <3>1, ChangesNested DEF NestedOK
    <3>4. pending'.state.content = c
      BY <3>2 DEF Transaction, WithSuperblock
    <3>5. committed' = committed /\ Xid' = Xid
      BY <2>1 DEF WriteTrees, Xid
    <3> QED
      BY <3>3, <3>4, <3>5 DEF NestedOK
  <2>2. CASE WriteSuperblock
    <3>1. pending # None /\ pending' = None
      BY <2>2 DEF WriteSuperblock, IInv, PhaseOK
    <3> DEFINE s == pending.state
    <3>2. committed' = Append(committed, s) /\ IsSeq(committed) /\ Xid \in Nat
      BY <2>2, FreeFacts DEF WriteSuperblock, IInv, RingOK
    <3>3. /\ Xid' = Xid + 1 /\ committed'[Xid + 1] = s
          /\ \A x \in 1 .. Xid : committed'[x] = committed[x]
      BY <3>2, AppendFacts DEF Xid
    <3>4. IsNested(s.content)
      BY <3>1 DEF NestedOK
    <3> HIDE DEF s
    <3>5. \A x \in 1 .. Xid + 1 : IsNested(committed'[x].content)
      <4>1. \A x \in 1 .. Xid + 1 : x \in 1 .. Xid \/ x = Xid + 1
        BY <3>2
      <4> QED
        BY <3>3, <3>4, <4>1 DEF NestedOK
    <3> QED
      BY <3>1, <3>3, <3>5 DEF NestedOK
  <2>3. CASE WriteMap \/ TakeSnapshot \/ Eject \/ MacMounts \/ Open \/ TurnsBad \/ Close
             \/ UNCHANGED vars
    <3>1. committed' = committed /\ pending' = pending /\ Xid' = Xid
      BY <2>3 DEF WriteMap, TakeSnapshot, Eject, MacMounts, Open, TurnsBad, Close, vars, diskVars,
          macVars, Xid
    <3> QED
      BY <3>1 DEF NestedOK
  <2>4. CASE Unplug
    <3>1. committed' = committed /\ pending' = None /\ Xid' = Xid
      BY <2>4 DEF Unplug, Xid
    <3> QED
      BY <3>1 DEF NestedOK
  <2> QED
    BY <2>1, <2>2, <2>3, <2>4 DEF Next
<1> QED
  BY <1>1, <1>2, Inductive, PTL DEF Spec

-----------------------------------------------------------------------------
(***************************************************************************)
(* Sequences that have each element of a set once.                         *)
(***************************************************************************)
\* An element more.
LEMMA OnceMore ==
    ASSUME NEW S, NEW a, Once(a, S), NEW p, p \notin S
    PROVE  Once(Append(a, p), S \cup {p})
<1> DEFINE n == Len(a)
           b == Append(a, p)
<1>1. n \in Nat /\ IsSeq(a)
  BY DEF Once, IsSeq
<1>2. /\ IsSeq(b) /\ Len(b) = n + 1
      /\ \A i \in 1 .. n : b[i] = a[i]
      /\ b[n + 1] = p
  BY <1>1, AppendFacts
<1> HIDE DEF b
<1>3. \A i \in 1 .. n + 1 : i \in 1 .. n \/ i = n + 1
  BY <1>1
<1>4. \A i \in 1 .. n : i \in 1 .. n + 1 /\ i # n + 1
  BY <1>1
<1>5. n + 1 \in 1 .. n + 1
  BY <1>1
<1>6. /\ \A i \in 1 .. n : a[i] \in S
      /\ \A q \in S : \E i \in 1 .. n : a[i] = q
      /\ \A i, j \in 1 .. n : a[i] = a[j] => i = j
  BY DEF Once
<1> HIDE DEF n
<1>7. \A i \in 1 .. n + 1 : b[i] \in S \cup {p}
  BY <1>2, <1>3, <1>6
<1>8. \A q \in S \cup {p} : \E i \in 1 .. n + 1 : b[i] = q
  BY <1>2, <1>4, <1>5, <1>6
<1>9. \A i, j \in 1 .. n + 1 : b[i] = b[j] => i = j
  BY <1>2, <1>3, <1>6
<1> QED
  BY <1>2, <1>7, <1>8, <1>9 DEF Once, b

\* Two sequences of different elements.
LEMMA OnceBoth ==
    ASSUME NEW S, NEW a, Once(a, S), NEW T, NEW b, Once(b, T), S \cap T = {}
    PROVE  Once(a \o b, S \cup T)
<1> DEFINE n == Len(a)
           m == Len(b)
           c == a \o b
<1>1. n \in Nat /\ m \in Nat /\ IsSeq(a) /\ IsSeq(b)
  BY DEF Once, IsSeq
<1>2. /\ IsSeq(c) /\ Len(c) = n + m
      /\ \A i \in 1 .. n : c[i] = a[i]
      /\ \A i \in 1 .. m : c[n + i] = b[i]
  BY <1>1, Concatenation
<1> HIDE DEF c
<1>3. ASSUME NEW i \in 1 .. n + m
      PROVE  i \in 1 .. n \/ \E k \in 1 .. m : i = n + k
  <2>1. CASE i <= n
    BY <1>1, <2>1
  <2>2. CASE i > n
    <3>1. i - n \in 1 .. m /\ i = n + (i - n)
      BY <1>1, <2>2
    <3> QED
      BY <3>1
  <2> QED
    BY <1>1, <2>1, <2>2
<1>4. /\ \A i \in 1 .. n : i \in 1 .. n + m
      /\ \A k \in 1 .. m : n + k \in 1 .. n + m
  BY <1>1
<1>5. /\ \A i \in 1 .. n : a[i] \in S
      /\ \A q \in S : \E i \in 1 .. n : a[i] = q
      /\ \A i, j \in 1 .. n : a[i] = a[j] => i = j
  BY DEF Once
<1>6. /\ \A i \in 1 .. m : b[i] \in T
      /\ \A q \in T : \E i \in 1 .. m : b[i] = q
      /\ \A i, j \in 1 .. m : b[i] = b[j] => i = j
  BY DEF Once
<1> HIDE DEF n, m
<1>7. \A i \in 1 .. n + m : c[i] \in S \cup T
  BY <1>2, <1>3, <1>5, <1>6
<1>8. \A q \in S \cup T : \E i \in 1 .. n + m : c[i] = q
  BY <1>2, <1>4, <1>5, <1>6
<1>9. ASSUME NEW i \in 1 .. n + m, NEW j \in 1 .. n + m, c[i] = c[j]
      PROVE  i = j
  <2>1. CASE i \in 1 .. n /\ j \in 1 .. n
    BY <1>2, <1>5, <1>9, <2>1
  <2>2. CASE (\E k \in 1 .. m : i = n + k) /\ (\E k \in 1 .. m : j = n + k)
    <3>1. PICK k \in 1 .. m : i = n + k
      BY <2>2
    <3>2. PICK l \in 1 .. m : j = n + l
      BY <2>2
    <3>3. b[k] = b[l]
      BY <1>2, <1>9, <3>1, <3>2
    <3> QED
      BY <1>6, <3>1, <3>2, <3>3
  <2>3. CASE i \in 1 .. n /\ \E k \in 1 .. m : j = n + k
    <3>1. c[i] \in S /\ c[j] \in T
      BY <1>2, <1>5, <1>6, <2>3
    <3> QED
      BY <1>9, <3>1
  <2>4. CASE j \in 1 .. n /\ \E k \in 1 .. m : i = n + k
    <3>1. c[j] \in S /\ c[i] \in T
      BY <1>2, <1>5, <1>6, <2>4
    <3> QED
      BY <1>9, <3>1
  <2> QED
    BY <1>3, <2>1, <2>2, <2>3, <2>4
<1> QED
  BY <1>2, <1>7, <1>8, <1>9 DEF Once, c, n, m

\* Such a sequence lists the set.
LEMMA OnceLists ==
    ASSUME NEW S, NEW a, Once(a, S)
    PROVE  Lists(a, S)
<1> DEFINE n == Len(a)
<1>1. n \in Nat /\ a = [i \in 1 .. n |-> a[i]]
  BY DEF Once, IsSeq
<1>2. DOMAIN a = 1 .. n
  BY <1>1
<1>3. a \in [1 .. n -> S]
  BY <1>1 DEF Once
<1>4. a \in Bijection(1 .. n, S)
  BY <1>3, Fun_IsBij DEF Once
<1>5. ExistsBijection(1 .. n, S)
  BY <1>4 DEF ExistsBijection
<1>6. Cardinality(S) = n
  BY <1>1, <1>5, FS_CountingElements
<1>7. Range(a) = S
  BY <1>2 DEF Once, Range
<1> QED
  BY <1>6, <1>7 DEF Lists

\* No element at all.
LEMMA OnceNone == Once(<<>>, {})
<1>1. Len(<<>>) = 0 /\ <<>> = [i \in 1 .. 0 |-> <<>>[i]]
  OBVIOUS
<1> QED
  BY <1>1 DEF Once, IsSeq
-----------------------------------------------------------------------------
(***************************************************************************)
(* What is below a path.                                                   *)
(***************************************************************************)
\* Paths are sequences of numbers.
LEMMA PathFacts ==
    ASSUME NEW path
    PROVE  IsPath(path) <=> path \in Seq(Nat)
<1>1. ASSUME IsPath(path) PROVE path \in Seq(Nat)
  <2>1. path \in [1 .. Len(path) -> Nat] /\ Len(path) \in Nat
    BY <1>1 DEF IsPath, IsSeq
  <2> QED
    BY <2>1, IsASeq
<1>2. ASSUME path \in Seq(Nat) PROVE IsPath(path)
  <2>1. IsSeq(path)
    BY <1>2, SeqFacts
  <2>2. \A i \in 1 .. Len(path) : path[i] \in Nat
    BY <1>2
  <2> QED
    BY <2>1, <2>2 DEF IsPath
<1> QED
  BY <1>1, <1>2

\* The object that a path names is met on the longer ones.
LEMMA SameObject ==
    ASSUME NEW c, NEW p, IsPath(p), NEW q, IsPath(q), Len(p) <= Len(q),
           \A i \in 1 .. Len(p) : p[i] = q[i],
           NEW a, Along(a, c, p, Len(p)), NEW b, Along(b, c, q, Len(q))
    PROVE  a[Len(p)] = b[Len(p)]
<1> DEFINE m == Len(p)
           S == { i \in Nat : i <= m => a[i] = b[i] }
<1>1. m \in Nat /\ Len(q) \in Nat
  BY DEF IsPath, IsSeq
<1>2. a[0] = RootDir /\ \A i \in 1 .. m : a[i] = NextOf(c, a[i - 1], p[i])
  BY StepsAre
<1>3. b[0] = RootDir /\ \A i \in 1 .. Len(q) : b[i] = NextOf(c, b[i - 1], q[i])
  BY StepsAre
<1>4. 0 \in S
  BY <1>2, <1>3
<1>5. ASSUME NEW i \in Nat, i \in S PROVE i + 1 \in S
  <2> SUFFICES ASSUME i + 1 <= m PROVE a[i + 1] = b[i + 1]
    OBVIOUS
  <2>1. /\ i + 1 \in 1 .. m /\ i + 1 \in 1 .. Len(q) /\ (i + 1) - 1 = i /\ i <= m
    BY <1>1
  <2>2. a[i + 1] = NextOf(c, a[i], p[i + 1]) /\ b[i + 1] = NextOf(c, b[i], q[i + 1])
    BY <1>2, <1>3, <2>1
  <2>3. a[i] = b[i] /\ p[i + 1] = q[i + 1]
    BY <1>5, <2>1
  <2> QED
    BY <2>2, <2>3
<1>6. S = Nat
  <2>1. S \in SUBSET Nat
    OBVIOUS
  <2> HIDE DEF S
  <2> QED
    BY <1>4, <1>5, <2>1, Induction
<1>7. m \in S
  BY <1>1, <1>6
<1> QED
  BY <1>1, <1>7

\* A path that names something leads through directories only.
LEMMA ThroughDirectories ==
    ASSUME NEW c, IsContent(c), NEW p, IsPath(p), NEW at, Along(at, c, p, Len(p)), at[Len(p)] # 0
    PROVE  \A i \in 1 .. Len(p) :
               /\ at[i - 1] \in Dirs(c) /\ p[i] \in Names
               /\ <<at[i - 1], p[i]>> \in DOMAIN c.drecs /\ at[i] = c.drecs[<<at[i - 1], p[i]>>]
               /\ at[i] # 0
<1> DEFINE n == Len(p)
           S == { k \in Nat : k <= n => at[n - k] # 0 }
<1>1. n \in Nat
  BY DEF IsPath, IsSeq
<1>2. at[0] = RootDir /\ \A i \in 1 .. n : at[i] = NextOf(c, at[i - 1], p[i])
  BY StepsAre
<1>3. 0 \in S
  BY <1>1
<1>4. ASSUME NEW k \in Nat, k \in S PROVE k + 1 \in S
  <2> SUFFICES ASSUME k + 1 <= n PROVE at[n - (k + 1)] # 0
    OBVIOUS
  <2>1. n - k \in 1 .. n /\ (n - k) - 1 = n - (k + 1) /\ k <= n
    BY <1>1
  <2>2. at[n - k] = NextOf(c, at[n - (k + 1)], p[n - k]) /\ at[n - k] # 0
    BY <1>2, <1>4, <2>1
  <2>3. at[n - (k + 1)] \in Dirs(c)
    BY <2>2, StepFacts
  <2> QED
    BY <2>3, NextFacts
<1>5. S = Nat
  <2>1. S \in SUBSET Nat
    OBVIOUS
  <2> HIDE DEF S
  <2> QED
    BY <1>3, <1>4, <2>1, Induction
<1>6. \A i \in 1 .. n : at[i] # 0
  <2> TAKE i \in 1 .. n
  <2>1. n - i \in Nat /\ n - i <= n /\ n - (n - i) = i
    BY <1>1
  <2>2. n - i \in S
    BY <1>5, <2>1
  <2> QED
    BY <2>1, <2>2
<1> HIDE DEF n
<1>7. ASSUME NEW i \in 1 .. n
      PROVE  /\ at[i - 1] \in Dirs(c) /\ p[i] \in Names
             /\ <<at[i - 1], p[i]>> \in DOMAIN c.drecs /\ at[i] = c.drecs[<<at[i - 1], p[i]>>]
             /\ at[i] # 0
  <2>1. at[i] = NextOf(c, at[i - 1], p[i]) /\ at[i] # 0
    BY <1>2, <1>6
  <2> QED
    BY <2>1, StepFacts
<1> QED
  BY <1>7 DEF n

\* One name further.
LEMMA ReachedNext ==
    ASSUME NEW c, NEW path, IsPath(path), NEW name \in Nat
    PROVE  LET here == Append(path, name) IN
           /\ IsPath(here) /\ Len(here) = Len(path) + 1
           /\ \A i \in 1 .. Len(path) : here[i] = path[i]
           /\ here[Len(path) + 1] = name
           /\ Reached(c, here) = NextOf(c, Reached(c, path), name)
<1> DEFINE n == Len(path)
           here == Append(path, name)
<1>1. IsSeq(path) /\ n \in Nat /\ \A i \in 1 .. n : path[i] \in Nat
  BY DEF IsPath, IsSeq
<1>2. /\ IsSeq(here) /\ Len(here) = n + 1
      /\ \A i \in 1 .. n : here[i] = path[i]
      /\ here[n + 1] = name
  BY <1>1, AppendFacts
<1> HIDE DEF here
<1>3. IsPath(here)
  <2>1. \A i \in 1 .. n + 1 : i \in 1 .. n \/ i = n + 1
    BY <1>1
  <2> QED
    BY <1>1, <1>2, <2>1 DEF IsPath
<1>4. PICK a : Along(a, c, path, n) /\ Reached(c, path) = a[n]
  BY ReachedUnfolds
<1>5. PICK b : Along(b, c, here, Len(here)) /\ Reached(c, here) = b[Len(here)]
  BY <1>3, ReachedUnfolds
<1>6. a[n] = b[n]
  <2>1. Len(path) <= Len(here) /\ \A i \in 1 .. Len(path) : path[i] = here[i]
    BY <1>1, <1>2
  <2>2. Along(a, c, path, Len(path)) /\ Along(b, c, here, Len(here))
    BY <1>4, <1>5
  <2> QED
    BY <1>3, <2>1, <2>2, SameObject
<1>7. b[n + 1] = NextOf(c, b[n], here[n + 1])
  <2>1. n + 1 \in 1 .. Len(here) /\ (n + 1) - 1 = n
    BY <1>1, <1>2
  <2> QED
    BY <1>3, <1>5, <2>1, StepsAre
<1> QED
  BY <1>2, <1>3, <1>4, <1>5, <1>6, <1>7 DEF here
-----------------------------------------------------------------------------
(***************************************************************************)
(* What a walk meets.                                                      *)
(***************************************************************************)
\* The paths that go on from a path and name something,
Below(c, path) ==
    { p \in Seq(Nat) : /\ Len(path) < Len(p)
                       /\ \A i \in 1 .. Len(path) : p[i] = path[i]
                       /\ Reached(c, p) # 0 }

\* and those of them that go on with a name, which is one of the directory.
Under(c, path, name) == {Append(path, name)} \cup Below(c, Append(path, name))

\* A path below another goes through an entry of what that names, a directory.
LEMMA BelowIs ==
    ASSUME NEW c, IsContent(c), NEW path, IsPath(path), NEW p \in Below(c, path)
    PROVE  /\ Reached(c, path) \in Dirs(c)
           /\ p[Len(path) + 1] \in Nat
           /\ <<Reached(c, path), p[Len(path) + 1]>> \in DOMAIN c.drecs
           /\ p \in Under(c, path, p[Len(path) + 1])
<1> DEFINE n == Len(path)
           name == p[n + 1]
           here == Append(path, name)
<1>1. /\ p \in Seq(Nat) /\ IsPath(p) /\ Len(p) \in Nat /\ IsSeq(p) /\ n < Len(p)
      /\ \A i \in 1 .. n : p[i] = path[i]
      /\ Reached(c, p) # 0
  BY PathFacts DEF Below, IsPath, IsSeq
<1>2. n \in Nat /\ n + 1 \in 1 .. Len(p) /\ (n + 1) - 1 = n
  BY <1>1 DEF IsPath, IsSeq
<1>3. name \in Nat
  BY <1>1, <1>2 DEF IsPath
<1>4. PICK a : Along(a, c, path, n) /\ Reached(c, path) = a[n]
  BY ReachedUnfolds
<1>5. PICK b : Along(b, c, p, Len(p)) /\ Reached(c, p) = b[Len(p)]
  BY <1>1, ReachedUnfolds
<1>6. a[n] = b[n]
  <2>1. IsPath(p) /\ Len(path) <= Len(p) /\ \A i \in 1 .. Len(path) : path[i] = p[i]
    BY <1>1, <1>2
  <2>2. Along(a, c, path, Len(path)) /\ Along(b, c, p, Len(p))
    BY <1>4, <1>5
  <2> QED
    BY <2>1, <2>2, SameObject
<1>7. b[Len(p)] # 0
  BY <1>1, <1>5
<1>8. b[n] \in Dirs(c) /\ <<b[n], name>> \in DOMAIN c.drecs
  BY <1>1, <1>2, <1>5, <1>7, ThroughDirectories
<1>9. /\ IsPath(here) /\ Len(here) = n + 1 /\ IsSeq(here)
      /\ \A i \in 1 .. n : here[i] = path[i]
      /\ here[n + 1] = name
  BY <1>3, ReachedNext DEF IsPath
<1> HIDE DEF here
<1>10. \A i \in 1 .. n + 1 : p[i] = here[i]
  <2>1. \A i \in 1 .. n + 1 : i \in 1 .. n \/ i = n + 1
    BY <1>2
  <2> QED
    BY <1>1, <1>9, <2>1
<1> HIDE DEF name
<1>11. CASE Len(p) = n + 1
  <2>1. p = [i \in 1 .. n + 1 |-> p[i]] /\ here = [i \in 1 .. n + 1 |-> here[i]]
    BY <1>1, <1>9, <1>11 DEF IsSeq
  <2>2. [i \in 1 .. n + 1 |-> p[i]] = [i \in 1 .. n + 1 |-> here[i]]
    BY <1>10
  <2>3. p = here
    BY <2>1, <2>2
  <2>4. p \in Under(c, path, name)
    BY <2>3 DEF Under, here
  <2> QED
    BY <1>3, <1>4, <1>6, <1>8, <2>4 DEF name
<1>12. CASE Len(p) # n + 1
  <2>1. Len(here) < Len(p)
    BY <1>1, <1>2, <1>9, <1>12
  <2>2. \A i \in 1 .. Len(here) : p[i] = here[i]
    BY <1>9, <1>10
  <2>3. p \in Below(c, here)
    BY <1>1, <2>1, <2>2 DEF Below
  <2>4. p \in Under(c, path, name)
    BY <2>3 DEF Under, here
  <2> QED
    BY <1>3, <1>4, <1>6, <1>8, <2>4 DEF name
<1> QED
  BY <1>11, <1>12

\* An entry and what is below it are below the directory, and nowhere else in it.
LEMMA UnderIs ==
    ASSUME NEW c, IsContent(c), NEW path, IsPath(path), NEW name \in Nat,
           <<Reached(c, path), name>> \in DOMAIN c.drecs
    PROVE  LET here == Append(path, name) IN
           /\ here \in Below(c, path) /\ Below(c, here) \subseteq Below(c, path)
           /\ here \notin Below(c, here)
           /\ here[Len(path) + 1] = name
           /\ \A p \in Below(c, here) : p[Len(path) + 1] = name
           /\ Reached(c, here) = c.drecs[<<Reached(c, path), name>>]
<1> DEFINE n == Len(path)
           here == Append(path, name)
<1>1. n \in Nat
  BY DEF IsPath, IsSeq
<1>2. /\ IsPath(here) /\ Len(here) = n + 1
      /\ \A i \in 1 .. n : here[i] = path[i]
      /\ here[n + 1] = name
      /\ Reached(c, here) = NextOf(c, Reached(c, path), name)
  BY ReachedNext
<1>3. here \in Seq(Nat)
  BY <1>2, PathFacts
<1> HIDE DEF here
<1>4. Reached(c, here) = c.drecs[<<Reached(c, path), name>>] /\ Reached(c, here) # 0
  BY <1>2, NextFacts DEF NextOf
<1>5. here \in Below(c, path)
  BY <1>1, <1>2, <1>3, <1>4 DEF Below
<1>6. ASSUME NEW p \in Below(c, here)
      PROVE  p \in Below(c, path) /\ p[n + 1] = name
  <2>1. p \in Seq(Nat) /\ Len(p) \in Nat /\ n + 1 < Len(p) /\ Reached(c, p) # 0
    BY <1>2, <1>6 DEF Below
  <2>2. \A i \in 1 .. n + 1 : p[i] = here[i]
    BY <1>2, <1>6 DEF Below
  <2>3. n < Len(p) /\ n + 1 \in 1 .. n + 1 /\ \A i \in 1 .. n : i \in 1 .. n + 1
    BY <1>1, <2>1
  <2> QED
    BY <1>2, <2>1, <2>2, <2>3 DEF Below
<1>7. here \notin Below(c, here)
  BY <1>1, <1>2 DEF Below
<1> QED
  BY <1>2, <1>4, <1>5, <1>6, <1>7 DEF here

\* What a listing says of each entry.
LEMMA EntryFacts ==
    ASSUME NEW c, IsContent(c), NEW dir, NEW entries, Once(entries, EntriesOf(c, dir))
    PROVE  /\ \A i \in 1 .. Len(entries) :
                 /\ entries[i].name \in Nat
                 /\ <<dir, entries[i].name>> \in DOMAIN c.drecs
                 /\ entries[i].oid = c.drecs[<<dir, entries[i].name>>]
                 /\ entries[i].kind = c.inodes[entries[i].oid].kind
           /\ \A i, j \in 1 .. Len(entries) : entries[i].name = entries[j].name => i = j
           /\ \A name : <<dir, name>> \in DOMAIN c.drecs
                 => \E i \in 1 .. Len(entries) : entries[i].name = name
<1> DEFINE n == Len(entries)
<1>1. EntriesOf(c, dir) = { EntryIn(c, e) : e \in EntriesIn(c, dir) }
  BY DEF EntriesOf, EntriesIn, EntryIn
<1>2. ASSUME NEW e \in EntriesIn(c, dir)
      PROVE  /\ e = <<dir, EntryIn(c, e).name>> /\ EntryIn(c, e).name \in Nat
             /\ e \in DOMAIN c.drecs
             /\ EntryIn(c, e).oid = c.drecs[e]
             /\ EntryIn(c, e).kind = c.inodes[c.drecs[e]].kind
  <2>1. e \in DOMAIN c.drecs /\ e[1] = dir /\ e = <<e[1], e[2]>> /\ e[2] \in Nat
    BY ContentFacts DEF EntriesIn
  <2> QED
    BY <2>1 DEF EntryIn
<1>3. ASSUME NEW i \in 1 .. n
      PROVE  /\ entries[i].name \in Nat
             /\ <<dir, entries[i].name>> \in EntriesIn(c, dir)
             /\ entries[i] = EntryIn(c, <<dir, entries[i].name>>)
  <2>1. entries[i] \in EntriesOf(c, dir)
    BY DEF Once
  <2>2. PICK e \in EntriesIn(c, dir) : entries[i] = EntryIn(c, e)
    BY <1>1, <2>1
  <2>3. e = <<dir, entries[i].name>> /\ entries[i].name \in Nat
    BY <1>2, <2>2
  <2> QED
    BY <2>2, <2>3
<1>4. ASSUME NEW i \in 1 .. n
      PROVE  /\ <<dir, entries[i].name>> \in DOMAIN c.drecs
             /\ entries[i].oid = c.drecs[<<dir, entries[i].name>>]
             /\ entries[i].kind = c.inodes[entries[i].oid].kind
  <2> DEFINE e == <<dir, entries[i].name>>
  <2>1. e \in EntriesIn(c, dir) /\ entries[i] = EntryIn(c, e)
    BY <1>3
  <2> HIDE DEF e
  <2>2. e \in DOMAIN c.drecs /\ entries[i].oid = c.drecs[e]
        /\ entries[i].kind = c.inodes[c.drecs[e]].kind
    BY <1>2, <2>1
  <2> QED
    BY <2>2 DEF e
<1>5. ASSUME NEW i \in 1 .. n, NEW j \in 1 .. n, entries[i].name = entries[j].name
      PROVE  i = j
  <2>1. entries[i] = entries[j]
    BY <1>3, <1>5
  <2> QED
    BY <2>1 DEF Once
<1>6. ASSUME NEW name, <<dir, name>> \in DOMAIN c.drecs
      PROVE  \E i \in 1 .. n : entries[i].name = name
  <2> DEFINE e == <<dir, name>>
  <2>1. e \in EntriesIn(c, dir)
    BY <1>6 DEF EntriesIn
  <2>2. EntryIn(c, e) \in EntriesOf(c, dir) /\ EntryIn(c, e).name = name
    BY <1>1, <2>1 DEF EntryIn
  <2> HIDE DEF e
  <2>3. PICK i \in 1 .. n : entries[i] = EntryIn(c, e)
    BY <2>2 DEF Once
  <2> QED
    BY <2>2, <2>3
<1> QED
  BY <1>3, <1>4, <1>5, <1>6
-----------------------------------------------------------------------------
\* An answer that lists each path of S, once.
IsWalk(result, S) == result.ok /\ Once(result.val, S)

\* One entry more, as the loop of walk_recursive has it.
NextEntry(before, e, path, below) ==
    LET here == Append(path, e.name)
    IN  Then(before, LAMBDA sofar :
        Then(IF e.kind = "directory" THEN below[[dir |-> e.oid, path |-> here]] ELSE Ok(<<>>),
             LAMBDA more : Ok(Append(sofar, here) \o more)))

Running(upTo, entries, path, below, n) ==
    upTo = [i \in 0 .. n |-> IF i = 0 THEN Ok(<<>>)
                             ELSE NextEntry(upTo[i - 1], entries[i], path, below)]

\* The entry comes after what was met before, and what is below it after that.
LEMMA NextEntryIs ==
    ASSUME NEW before, NEW S, IsWalk(before, S), NEW e, NEW path, NEW below, NEW T,
           Append(path, e.name) \notin S \cup T, S \cap T = {},
           IF e.kind = "directory"
           THEN IsWalk(below[[dir |-> e.oid, path |-> Append(path, e.name)]], T) ELSE T = {}
    PROVE  IsWalk(NextEntry(before, e, path, below), S \cup ({Append(path, e.name)} \cup T))
<1> DEFINE here == Append(path, e.name)
           more == IF e.kind = "directory" THEN below[[dir |-> e.oid, path |-> here]] ELSE Ok(<<>>)
           result == NextEntry(before, e, path, below)
           U == S \cup {here}
<1>1. IsWalk(more, T)
  <2>1. CASE e.kind = "directory"
    BY <2>1
  <2>2. CASE e.kind # "directory"
    BY <2>2, OnceNone, ResultFacts DEF IsWalk
  <2> QED
    BY <2>1, <2>2
<1>2. before.ok /\ more.ok
  BY <1>1 DEF IsWalk
<1>3. result = Ok(Append(before.val, here) \o more.val)
  BY <1>2 DEF NextEntry, Then
<1> HIDE DEF here, more, result
<1>4. Once(Append(before.val, here), U)
  BY OnceMore DEF IsWalk, here
<1>5. U \cap T = {}
  BY DEF here
<1> HIDE DEF U
<1>6. Once(Append(before.val, here) \o more.val, U \cup T)
  BY <1>1, <1>4, <1>5, OnceBoth DEF IsWalk
<1>7. U \cup T = S \cup ({here} \cup T)
  BY DEF U
<1>8. result.ok /\ result.val = Append(before.val, here) \o more.val
  BY <1>3, ResultFacts
<1> QED
  BY <1>6, <1>7, <1>8 DEF IsWalk, result, here

\* The recursive definition of the loop has a function.
LEMMA RunningExists ==
    ASSUME NEW entries, NEW path, NEW below, NEW m \in Nat
    PROVE  \E upTo : Running(upTo, entries, path, below, m)
<1> DEFINE Step(i, x) == NextEntry(x, entries[i], path, below)
           P(k) == \E g : g = [i \in 0 .. k |-> IF i = 0 THEN Ok(<<>>) ELSE Step(i, g[i - 1])]
           S == { k \in Nat : P(k) }
<1>0. \A u, k : Running(u, entries, path, below, k)
                  <=> u = [i \in 0 .. k |-> IF i = 0 THEN Ok(<<>>) ELSE Step(i, u[i - 1])]
  BY DEF Running
<1> HIDE DEF Step
<1>1. P(0)
  <2> DEFINE g == [i \in 0 .. 0 |-> Ok(<<>>)]
  <2>1. g = [i \in 0 .. 0 |-> IF i = 0 THEN Ok(<<>>) ELSE Step(i, g[i - 1])]
    OBVIOUS
  <2> QED
    BY <2>1
<1>2. ASSUME NEW k \in Nat, P(k) PROVE P(k + 1)
  <2>1. PICK g : g = [i \in 0 .. k |-> IF i = 0 THEN Ok(<<>>) ELSE Step(i, g[i - 1])]
    BY <1>2
  <2> DEFINE h == [i \in 0 .. k + 1 |-> IF i = 0 THEN Ok(<<>>) ELSE Step(i, g[i - 1])]
  <2>2. \A i \in 0 .. k : h[i] = g[i]
    <3> TAKE i \in 0 .. k
    <3>1. h[i] = IF i = 0 THEN Ok(<<>>) ELSE Step(i, g[i - 1])
      OBVIOUS
    <3>2. g[i] = IF i = 0 THEN Ok(<<>>) ELSE Step(i, g[i - 1])
      BY <2>1
    <3> QED
      BY <3>1, <3>2
  <2>3. \A i \in 0 .. k + 1 : i = 0 \/ h[i - 1] = g[i - 1]
    <3> HIDE DEF h
    <3>1. \A i \in 0 .. k + 1 : i = 0 \/ i - 1 \in 0 .. k
      OBVIOUS
    <3> QED
      BY <2>2, <3>1
  <2>4. h = [i \in 0 .. k + 1 |-> IF i = 0 THEN Ok(<<>>) ELSE Step(i, h[i - 1])]
    <3> HIDE DEF h
    <3>1. h = [i \in 0 .. k + 1 |-> IF i = 0 THEN Ok(<<>>) ELSE Step(i, g[i - 1])]
      BY DEF h
    <3> QED
      BY <2>3, <3>1
  <2> QED
    BY <2>4
<1> HIDE DEF P
<1>3. S \in SUBSET Nat /\ 0 \in S /\ \A k \in Nat : k \in S => k + 1 \in S
  BY <1>1, <1>2
<1>4. S = Nat
  <2> HIDE DEF S
  <2> QED
    BY <1>3, Induction
<1>5. P(m)
  BY <1>4
<1> QED
  BY <1>0, <1>5 DEF P

\* The entries of a directory as its loop goes through them.
LEMMA RunningUnfolds ==
    ASSUME NEW entries, Len(entries) \in Nat, NEW path, NEW below
    PROVE  \E upTo : Running(upTo, entries, path, below, Len(entries))
                     /\ WalkEntries(entries, path, below) = upTo[Len(entries)]
<1>1. \E upTo : Running(upTo, entries, path, below, Len(entries))
  BY RunningExists
<1> DEFINE A == CHOOSE upTo : upTo =
                  [i \in 0 .. Len(entries) |->
                      IF i = 0 THEN Ok(<<>>)
                      ELSE LET e == entries[i]
                               here == Append(path, e.name)
                           IN  Then(upTo[i - 1], LAMBDA sofar :
                               Then(IF e.kind = "directory" THEN below[[dir |-> e.oid, path |-> here]] ELSE Ok(<<>>),
                                    LAMBDA more : Ok(Append(sofar, here) \o more)))]
<1>2. Running(A, entries, path, below, Len(entries))
  BY <1>1 DEF Running, NextEntry
<1>3. WalkEntries(entries, path, below) = A[Len(entries)]
  BY DEF WalkEntries
<1> HIDE DEF A
<1> QED
  BY <1>2, <1>3

\* The loop over the entries of a directory meets all that is below it.
LEMMA WalkEntriesIs ==
    ASSUME NEW c, IsContent(c), NEW path, IsPath(path),
           NEW entries, Once(entries, EntriesOf(c, Reached(c, path))), NEW below,
           \A i \in 1 .. Len(entries) : entries[i].kind = "directory" =>
               IsWalk(below[[dir |-> entries[i].oid, path |-> Append(path, entries[i].name)]],
                      Below(c, Append(path, entries[i].name)))
    PROVE  IsWalk(WalkEntries(entries, path, below), Below(c, path))
<1> DEFINE n == Len(entries)
           m == Len(path)
           dir == Reached(c, path)
           Met(i) == { p \in Below(c, path) : \E k \in 1 .. i : p[m + 1] = entries[k].name }
           here(i) == Append(path, entries[i].name)
<1>1. n \in Nat
  BY DEF Once, IsSeq
<1>2. PICK upTo : Running(upTo, entries, path, below, n)
                  /\ WalkEntries(entries, path, below) = upTo[n]
  BY <1>1, RunningUnfolds
<1>3. /\ \A i \in 1 .. n : /\ entries[i].name \in Nat
                           /\ <<dir, entries[i].name>> \in DOMAIN c.drecs
                           /\ entries[i].oid = c.drecs[<<dir, entries[i].name>>]
                           /\ entries[i].kind = c.inodes[entries[i].oid].kind
      /\ \A i, j \in 1 .. n : entries[i].name = entries[j].name => i = j
      /\ \A name : <<dir, name>> \in DOMAIN c.drecs => \E i \in 1 .. n : entries[i].name = name
  BY EntryFacts
<1>4. upTo[0] = Ok(<<>>)
  BY <1>1, <1>2 DEF Running
<1>5. ASSUME NEW i \in Nat, i + 1 <= n
      PROVE  upTo[i + 1] = NextEntry(upTo[i], entries[i + 1], path, below)
  <2>1. i + 1 \in 0 .. n /\ i + 1 # 0 /\ (i + 1) - 1 = i
    BY <1>1, <1>5
  <2> QED
    BY <1>2, <2>1 DEF Running
<1> HIDE DEF dir
<1>6. ASSUME NEW i \in 1 .. n
      PROVE  /\ here(i) \in Below(c, path) /\ Below(c, here(i)) \subseteq Below(c, path)
             /\ here(i) \notin Below(c, here(i))
             /\ here(i)[m + 1] = entries[i].name
             /\ \A p \in Below(c, here(i)) : p[m + 1] = entries[i].name
             /\ Reached(c, here(i)) = entries[i].oid
  <2> DEFINE name == entries[i].name
  <2>1. /\ name \in Nat /\ <<Reached(c, path), name>> \in DOMAIN c.drecs
        /\ entries[i].oid = c.drecs[<<Reached(c, path), name>>]
    BY <1>3 DEF dir
  <2>2. here(i) = Append(path, name)
    OBVIOUS
  <2> HIDE DEF name, here
  <2>3. /\ Append(path, name) \in Below(c, path)
        /\ Below(c, Append(path, name)) \subseteq Below(c, path)
        /\ Append(path, name) \notin Below(c, Append(path, name))
        /\ Append(path, name)[m + 1] = name
        /\ \A p \in Below(c, Append(path, name)) : p[m + 1] = name
        /\ Reached(c, Append(path, name)) = c.drecs[<<Reached(c, path), name>>]
    BY <2>1, UnderIs
  <2> QED
    BY <2>1, <2>2, <2>3 DEF name
<1>7. ASSUME NEW i \in 1 .. n, NEW p \in Below(c, path), p[m + 1] = entries[i].name
      PROVE  p \in {here(i)} \cup Below(c, here(i))
  BY <1>7, BelowIs DEF Under
<1>8. ASSUME NEW i \in 1 .. n, entries[i].kind # "directory"
      PROVE  Below(c, here(i)) = {}
  <2>1. c.inodes[Reached(c, here(i))].kind # "directory"
    <3> DEFINE oid == entries[i].oid
    <3>1. c.inodes[oid].kind # "directory"
      BY <1>3, <1>8
    <3>2. Reached(c, here(i)) = oid
      BY <1>6
    <3> HIDE DEF oid, here
    <3> QED
      BY <3>1, <3>2
  <2>2. Reached(c, here(i)) \notin Dirs(c)
    BY <2>1 DEF Dirs
  <2>3. IsPath(here(i))
    BY <1>3, ReachedNext
  <2> HIDE DEF here
  <2> QED
    BY <2>2, <2>3, BelowIs
<1> DEFINE S == { i \in Nat : i <= n => IsWalk(upTo[i], Met(i)) }
<1>9. 0 \in S
  <2>1. Met(0) = {}
    OBVIOUS
  <2> HIDE DEF Met
  <2> QED
    BY <1>4, <2>1, OnceNone, ResultFacts DEF IsWalk
<1>10. ASSUME NEW i \in Nat, i \in S PROVE i + 1 \in S
  <2> SUFFICES ASSUME i + 1 <= n PROVE IsWalk(upTo[i + 1], Met(i + 1))
    OBVIOUS
  <2> DEFINE e == entries[i + 1]
             x == here(i + 1)
             T == Below(c, x)
  <2>1. i + 1 \in 1 .. n /\ i <= n /\ \A k \in 1 .. i : k \in 1 .. n /\ k # i + 1
    BY <1>1
  <2>2. IsWalk(upTo[i], Met(i))
    BY <1>10, <2>1
  <2>3. \A p \in Met(i) : p[m + 1] # e.name
    BY <1>3, <2>1
  <2>4. /\ x \in Below(c, path) /\ T \subseteq Below(c, path)
        /\ x \notin T /\ x[m + 1] = e.name /\ \A p \in T : p[m + 1] = e.name
    BY <1>6, <2>1
  <2>5. \A p \in Below(c, path) : p[m + 1] = e.name => p \in {x} \cup T
    BY <1>7, <2>1
  <2>6. IF e.kind = "directory" THEN IsWalk(below[[dir |-> e.oid, path |-> x]], T)
        ELSE T = {}
    BY <1>8, <2>1
  <2>7. upTo[i + 1] = NextEntry(upTo[i], e, path, below) /\ x = Append(path, e.name)
    BY <1>5
  <2> HIDE DEF e, x, T
  <2>8. Met(i + 1) = Met(i) \cup ({x} \cup T)
    <3>1. \A k : k \in 1 .. i + 1 <=> k \in 1 .. i \/ k = i + 1
      OBVIOUS
    <3>2. \A p : p \in Met(i + 1)
                   <=> p \in Below(c, path) /\ (p \in Met(i) \/ p[m + 1] = e.name)
      BY <3>1 DEF e
    <3>3. \A p \in Met(i) : p \in Below(c, path)
      OBVIOUS
    <3> HIDE DEF Met
    <3> QED
      BY <2>4, <2>5, <3>2, <3>3
  <2> HIDE DEF Met
  <2>9. x \notin Met(i) \cup T /\ Met(i) \cap T = {}
    BY <2>3, <2>4
  <2>10. IsWalk(NextEntry(upTo[i], e, path, below), Met(i) \cup ({x} \cup T))
    BY <2>2, <2>6, <2>7, <2>9, NextEntryIs
  <2> QED
    BY <2>7, <2>8, <2>10
<1>11. S = Nat
  <2>1. S \in SUBSET Nat
    OBVIOUS
  <2> HIDE DEF S
  <2> QED
    BY <1>9, <1>10, <2>1, Induction
<1>12. IsWalk(upTo[n], Met(n))
  <2> HIDE DEF Met
  <2> QED
    BY <1>1, <1>11
<1>13. Met(n) = Below(c, path)
  <2>1. ASSUME NEW p \in Below(c, path) PROVE \E k \in 1 .. n : p[m + 1] = entries[k].name
    <3>1. <<dir, p[m + 1]>> \in DOMAIN c.drecs
      BY BelowIs DEF dir
    <3> QED
      BY <1>3, <3>1
  <2> QED
    BY <2>1
<1> HIDE DEF Met
<1> QED
  BY <1>2, <1>12, <1>13
-----------------------------------------------------------------------------
(***************************************************************************)
(* The recursion of the walk.                                              *)
(***************************************************************************)
Walking(level, v, m) ==
    level = [n \in 0 .. m |-> WalkDir(v, IF n = 0 THEN WalkTooDeep ELSE level[n - 1])]

\* The recursive definition of the walk has a function.
LEMMA WalkLevels ==
    ASSUME NEW v, NEW m \in Nat
    PROVE  \E level : Walking(level, v, m)
<1> DEFINE Step(below) == WalkDir(v, below)
           P(k) == \E g : g = [n \in 0 .. k |-> Step(IF n = 0 THEN WalkTooDeep ELSE g[n - 1])]
           S == { k \in Nat : P(k) }
<1> HIDE DEF Step
<1>1. P(0)
  <2> DEFINE g == [n \in 0 .. 0 |-> Step(WalkTooDeep)]
  <2>1. g = [n \in 0 .. 0 |-> Step(IF n = 0 THEN WalkTooDeep ELSE g[n - 1])]
    OBVIOUS
  <2> QED
    BY <2>1
<1>2. ASSUME NEW k \in Nat, P(k) PROVE P(k + 1)
  <2>1. PICK g : g = [n \in 0 .. k |-> Step(IF n = 0 THEN WalkTooDeep ELSE g[n - 1])]
    BY <1>2
  <2> DEFINE h == [n \in 0 .. k + 1 |-> Step(IF n = 0 THEN WalkTooDeep ELSE g[n - 1])]
  <2>2. \A n \in 0 .. k : h[n] = g[n]
    <3> TAKE n \in 0 .. k
    <3>1. h[n] = Step(IF n = 0 THEN WalkTooDeep ELSE g[n - 1])
      OBVIOUS
    <3>2. g[n] = Step(IF n = 0 THEN WalkTooDeep ELSE g[n - 1])
      BY <2>1
    <3> QED
      BY <3>1, <3>2
  <2>3. \A n \in 0 .. k + 1 : n = 0 \/ h[n - 1] = g[n - 1]
    <3> HIDE DEF h
    <3>1. \A n \in 0 .. k + 1 : n = 0 \/ n - 1 \in 0 .. k
      OBVIOUS
    <3> QED
      BY <2>2, <3>1
  <2>4. h = [n \in 0 .. k + 1 |-> Step(IF n = 0 THEN WalkTooDeep ELSE h[n - 1])]
    <3> HIDE DEF h
    <3>1. h = [n \in 0 .. k + 1 |-> Step(IF n = 0 THEN WalkTooDeep ELSE g[n - 1])]
      BY DEF h
    <3> QED
      BY <2>3, <3>1
  <2> QED
    BY <2>4
<1> HIDE DEF P
<1>3. S \in SUBSET Nat /\ 0 \in S /\ \A k \in Nat : k \in S => k + 1 \in S
  BY <1>1, <1>2
<1>4. S = Nat
  <2> HIDE DEF S
  <2> QED
    BY <1>3, Induction
<1> QED
  BY <1>4 DEF P, Step, Walking

\* The walk is what the last level gives for the root.
LEMMA WalkUnfolds ==
    ASSUME NEW v
    PROVE  \E level : /\ Walking(level, v, MaxDepth)
                      /\ Walk(v) = level[MaxDepth][[dir |-> RootDir, path |-> <<>>]]
<1>1. \E level : Walking(level, v, MaxDepth)
  BY WalkLevels, CatalogAssumption
<1> DEFINE L == CHOOSE level : level =
                  [n \in 0 .. MaxDepth |->
                      WalkDir(v, IF n = 0 THEN WalkTooDeep ELSE level[n - 1])]
<1>2. Walking(L, v, MaxDepth)
  BY <1>1 DEF Walking
<1>3. Walk(v) = L[MaxDepth][[dir |-> RootDir, path |-> <<>>]]
  BY DEF Walk
<1> HIDE DEF L
<1> QED
  BY <1>2, <1>3

\* What the walk does for the directory of a path.
WalkOf(level, c, path) == level[[dir |-> Reached(c, path), path |-> path]]

\* A path leads to a directory within the bound only, and to nothing beyond that.
LEMMA PathsWithin ==
    ASSUME NEW c, IsContent(c), IsNested(c), NEW path, IsPath(path)
    PROVE  /\ Reached(c, path) \in Dirs(c) => Len(path) <= MaxDepth
           /\ Reached(c, path) # 0 => Len(path) <= MaxDepth + 1
<1> DEFINE n == Len(path)
<1>1. n \in Nat /\ MaxDepth \in Nat
  BY CatalogAssumption DEF IsPath, IsSeq
<1>2. PICK depth : IsDepth(depth, c)
  BY DEF IsNested, IsDepth
<1>3. PICK at : Along(at, c, path, n) /\ Reached(c, path) = at[n]
  BY ReachedUnfolds
<1>4. \A i \in 0 .. n : at[i] \in Dirs(c) => depth[at[i]] = i
  BY <1>2, <1>3, DepthIs
<1>5. \A i \in 0 .. n : at[i] \in Dirs(c) => i <= MaxDepth
  <2> TAKE i \in 0 .. n
  <2>1. at[i] \in Dirs(c) => depth[at[i]] \in 0 .. MaxDepth
    BY <1>2 DEF IsDepth
  <2> QED
    BY <1>1, <1>4, <2>1
<1>6. Reached(c, path) \in Dirs(c) => n <= MaxDepth
  BY <1>1, <1>3, <1>5
<1>7. ASSUME Reached(c, path) # 0 PROVE n <= MaxDepth + 1
  <2>1. CASE n = 0
    BY <1>1, <2>1
  <2>2. CASE n # 0
    <3>1. n \in 1 .. n /\ n - 1 \in 0 .. n
      BY <1>1, <2>2
    <3>2. at[n] # 0
      BY <1>3, <1>7
    <3>3. at[n - 1] \in Dirs(c)
      BY <1>3, <3>1, <3>2, ThroughDirectories
    <3> QED
      BY <1>1, <1>5, <3>1, <3>3
  <2> QED
    BY <2>1, <2>2
<1> QED
  BY <1>6, <1>7

\* A directory is walked if those in it are.
LEMMA WalkDirIs ==
    ASSUME NEW v, NEW c, IsServed(v, c, {}), IsContent(c), NEW path, IsPath(path),
           Reached(c, path) \in Dirs(c), NEW below,
           \A name \in Nat : Reached(c, Append(path, name)) \in Dirs(c)
               => IsWalk(WalkOf(below, c, Append(path, name)), Below(c, Append(path, name)))
    PROVE  IsWalk(WalkOf(WalkDir(v, below), c, path), Below(c, path))
<1> DEFINE dir == Reached(c, path)
           found == Entries(v, dir)
           entries == found.val
           result == WalkOf(WalkDir(v, below), c, path)
<1>1. dir \in Nat /\ path \in Seq(Nat)
  BY PathFacts, NextFacts, ContentFacts
<1>2. result = IF found.ok THEN WalkEntries(entries, path, below) ELSE found
  <2> DEFINE arg == [dir |-> dir, path |-> path]
  <2>1. arg \in WalkArgs /\ arg.dir = dir /\ arg.path = path
    BY <1>1 DEF WalkArgs
  <2>2. result = WalkDir(v, below)[arg]
    BY DEF WalkOf
  <2> HIDE DEF arg, result, dir
  <2>3. WalkDir(v, below)[arg] = IF Entries(v, arg.dir).ok
                                 THEN WalkEntries(Entries(v, arg.dir).val, arg.path, below)
                                 ELSE Entries(v, arg.dir)
    BY <2>1 DEF WalkDir, Then
  <2> QED
    BY <2>1, <2>2, <2>3
<1>3. IsListed(found, c, dir, {})
  BY <1>1, EntriesAre
<1> HIDE DEF found, result, dir
<1>4. found.ok /\ Once(entries, EntriesOf(c, dir))
  BY <1>3 DEF IsListed, IsListing, Failed
<1>5. result = WalkEntries(entries, path, below)
  BY <1>2, <1>4
<1> HIDE DEF entries
<1>6. ASSUME NEW i \in 1 .. Len(entries), entries[i].kind = "directory"
      PROVE  IsWalk(below[[dir |-> entries[i].oid, path |-> Append(path, entries[i].name)]],
                    Below(c, Append(path, entries[i].name)))
  <2> DEFINE name == entries[i].name
             here == Append(path, name)
  <2>1. /\ name \in Nat /\ <<Reached(c, path), name>> \in DOMAIN c.drecs
        /\ entries[i].oid = c.drecs[<<Reached(c, path), name>>]
        /\ c.inodes[entries[i].oid].kind = "directory"
    BY <1>4, <1>6, EntryFacts DEF dir
  <2> HIDE DEF name
  <2>2. Reached(c, here) = entries[i].oid
    BY <2>1, UnderIs
  <2>3. entries[i].oid \in Dirs(c)
    BY <2>1, ContentFacts DEF Dirs
  <2>4. IsWalk(WalkOf(below, c, here), Below(c, here))
    BY <2>1, <2>2, <2>3
  <2> HIDE DEF here
  <2>5. IsWalk(below[[dir |-> entries[i].oid, path |-> here]], Below(c, here))
    BY <2>2, <2>4 DEF WalkOf
  <2> QED
    BY <2>5 DEF here, name
<1>7. IsWalk(WalkEntries(entries, path, below), Below(c, path))
  BY <1>4, <1>6, WalkEntriesIs DEF dir
<1> QED
  BY <1>5, <1>7 DEF result
-----------------------------------------------------------------------------
\* Each level walks the directories from which it is enough.
LEMMA WalkLevelIs ==
    ASSUME NEW v, NEW c, IsServed(v, c, {}), IsContent(c), IsNested(c),
           NEW level, Walking(level, v, MaxDepth), NEW n \in Nat, n <= MaxDepth,
           NEW path, IsPath(path), Reached(c, path) \in Dirs(c), Len(path) + n = MaxDepth
    PROVE  IsWalk(WalkOf(level[n], c, path), Below(c, path))
<1> DEFINE Good(k) == \A q : IsPath(q) /\ Reached(c, q) \in Dirs(c) /\ Len(q) + k = MaxDepth
                        => IsWalk(WalkOf(level[k], c, q), Below(c, q))
           S == { k \in Nat : k <= MaxDepth => Good(k) }
           Next1(k) == IF k = 0 THEN WalkTooDeep ELSE level[k - 1]
<1>1. MaxDepth \in Nat
  BY CatalogAssumption
<1>2. ASSUME NEW k \in 0 .. MaxDepth
      PROVE  level[k] = WalkDir(v, Next1(k))
  BY <1>1 DEF Walking
<1>3. ASSUME NEW k \in 0 .. MaxDepth, k = 0 \/ Good(k - 1)
      PROVE  Good(k)
  <2> SUFFICES ASSUME NEW q, IsPath(q), Reached(c, q) \in Dirs(c), Len(q) + k = MaxDepth
               PROVE  IsWalk(WalkOf(level[k], c, q), Below(c, q))
    OBVIOUS
  <2>1. ASSUME NEW name \in Nat, Reached(c, Append(q, name)) \in Dirs(c)
        PROVE  IsWalk(WalkOf(Next1(k), c, Append(q, name)), Below(c, Append(q, name)))
    <3> DEFINE here == Append(q, name)
    <3>1. IsPath(here) /\ Len(here) = Len(q) + 1 /\ Len(q) \in Nat
      BY ReachedNext DEF IsPath, IsSeq
    <3> HIDE DEF here
    <3>2. Reached(c, here) \in Dirs(c)
      BY <2>1 DEF here
    <3>3. Len(here) <= MaxDepth
      BY <3>1, <3>2, PathsWithin
    <3>4. k # 0 /\ Len(here) + (k - 1) = MaxDepth
      BY <1>1, <3>1, <3>3
    <3>5. Good(k - 1)
      BY <1>3, <3>4
    <3>6. IsWalk(WalkOf(level[k - 1], c, here), Below(c, here))
      BY <3>1, <3>2, <3>4, <3>5
    <3>7. Next1(k) = level[k - 1]
      BY <3>4
    <3> QED
      BY <3>6, <3>7 DEF here
  <2> HIDE DEF Next1
  <2>2. IsWalk(WalkOf(WalkDir(v, Next1(k)), c, q), Below(c, q))
    BY <2>1, WalkDirIs
  <2> QED
    BY <1>2, <2>2
<1> HIDE DEF Good
<1>4. 0 \in S
  BY <1>1, <1>3
<1>5. ASSUME NEW k \in Nat, k \in S PROVE k + 1 \in S
  <2> SUFFICES ASSUME k + 1 <= MaxDepth PROVE Good(k + 1)
    OBVIOUS
  <2>1. k + 1 \in 0 .. MaxDepth /\ (k + 1) - 1 = k /\ k <= MaxDepth
    BY <1>1
  <2>2. Good(k)
    BY <1>5, <2>1
  <2> QED
    BY <1>3, <2>1, <2>2
<1>6. S = Nat
  <2>1. S \in SUBSET Nat
    OBVIOUS
  <2> HIDE DEF S
  <2> QED
    BY <1>4, <1>5, <2>1, Induction
<1>7. Good(n)
  BY <1>6
<1> QED
  BY <1>7 DEF Good

\* All that is below the root is within the bound.
LEMMA AllPaths ==
    ASSUME NEW c, IsContent(c), IsNested(c)
    PROVE  Below(c, <<>>) = { p \in PathsUpTo(MaxDepth + 1) \ {<<>>} : Reached(c, p) # 0 }
<1>1. MaxDepth \in Nat /\ Len(<<>>) = 0
  BY CatalogAssumption
<1>2. ASSUME NEW p \in Below(c, <<>>)
      PROVE  p \in PathsUpTo(MaxDepth + 1) \ {<<>>} /\ Reached(c, p) # 0
  <2>1. p \in Seq(Nat) /\ 0 < Len(p) /\ Reached(c, p) # 0
    BY <1>1 DEF Below
  <2>2. IsPath(p) /\ p # <<>>
    BY <1>1, <2>1, PathFacts
  <2>3. Len(p) \in Nat /\ p = [i \in 1 .. Len(p) |-> p[i]]
    BY <2>2 DEF IsPath, IsSeq
  <2>4. Len(p) \in 0 .. MaxDepth + 1
    BY <1>1, <2>1, <2>2, <2>3, PathsWithin
  <2>5. PICK at : Along(at, c, p, Len(p)) /\ Reached(c, p) = at[Len(p)]
    BY <2>2, ReachedUnfolds
  <2>6. at[Len(p)] # 0
    BY <2>1, <2>5
  <2>7. \A i \in 1 .. Len(p) : p[i] \in Names
    BY <2>2, <2>5, <2>6, ThroughDirectories
  <2>8. p \in [1 .. Len(p) -> Names]
    BY <2>3, <2>7
  <2>9. p \in PathsUpTo(MaxDepth + 1)
    BY <2>4, <2>8 DEF PathsUpTo
  <2> QED
    BY <2>1, <2>2, <2>9
<1>3. ASSUME NEW p \in PathsUpTo(MaxDepth + 1), p # <<>>, Reached(c, p) # 0
      PROVE  p \in Below(c, <<>>)
  <2>1. IsPath(p)
    BY PathsAre
  <2>2. p \in Seq(Nat)
    BY <2>1, PathFacts
  <2>3. Len(p) # 0 /\ Len(p) \in Nat
    BY <1>3, <2>2
  <2> QED
    BY <1>1, <1>3, <2>2, <2>3 DEF Below
<1> QED
  BY <1>2, <1>3

\* The root is walked to the end.
LEMMA WalkIs ==
    ASSUME NEW v, NEW c, IsServed(v, c, {}), IsContent(c), IsNested(c)
    PROVE  IsWalk(Walk(v), Below(c, <<>>))
<1>1. PICK level : /\ Walking(level, v, MaxDepth)
                   /\ Walk(v) = level[MaxDepth][[dir |-> RootDir, path |-> <<>>]]
  BY WalkUnfolds
<1>2. MaxDepth \in Nat /\ MaxDepth <= MaxDepth /\ Len(<<>>) + MaxDepth = MaxDepth
  BY CatalogAssumption
<1>3. IsPath(<<>>)
  <2>1. <<>> \in Seq(Nat)
    OBVIOUS
  <2> QED
    BY <2>1, PathFacts
<1>4. Reached(c, <<>>) = RootDir
  <2>1. PICK at : Along(at, c, <<>>, Len(<<>>)) /\ Reached(c, <<>>) = at[Len(<<>>)]
    BY <1>3, ReachedUnfolds
  <2>2. Len(<<>>) = 0
    OBVIOUS
  <2> QED
    BY <2>1, <2>2 DEF Along
<1>5. Reached(c, <<>>) \in Dirs(c)
  BY <1>4, NextFacts
<1> DEFINE root == <<>>
<1> HIDE DEF root
<1>6. /\ IsPath(root) /\ Reached(c, root) \in Dirs(c) /\ Len(root) + MaxDepth = MaxDepth
      /\ Reached(c, root) = RootDir
  BY <1>2, <1>3, <1>4, <1>5 DEF root
<1>7. IsWalk(WalkOf(level[MaxDepth], c, root), Below(c, root))
  BY <1>1, <1>2, <1>6, WalkLevelIs
<1>8. Walk(v) = WalkOf(level[MaxDepth], c, root)
  BY <1>1, <1>6 DEF WalkOf, root
<1> QED
  BY <1>7, <1>8 DEF root

\* With every block readable, walk meets each object below the root once for each
\* of its names, whatever the transactions and the depth of the directories
\* (WalkIsComplete).
THEOREM WalkIsCompleteAlways == Spec => []WalkIsComplete
<1>1. IInv /\ NestedOK => WalkIsComplete
  <2> SUFFICES ASSUME IInv, NestedOK, Served, bad = {}
               PROVE  ListsAll(Walk(Volume),
                          { p \in PathsUpTo(MaxDepth + 1) \ {<<>>} : Reached(Content, p) # 0 })
    BY DEF WalkIsComplete
  <2>1. IsContent(Content) /\ IsServed(Volume, Content, {})
    BY ServedIs
  <2>2. IsNested(Content)
    <3>1. phase = "open" /\ \A err : vol # Err(err)
      BY ResultFacts DEF Served
    <3>2. PICK x \in 1 .. Xid : \E r \in FirstFree .. committed[x].free - 1 :
              vol = Ok([xid |-> x, omap |-> committed[x].free - 5, root |-> r])
      BY <3>1 DEF IInv, OpenOK
    <3>3. vol.val.xid = x
      BY <3>2, ResultFacts
    <3> QED
      BY <3>3 DEF NestedOK, Content
  <2>3. IsWalk(Walk(Volume), Below(Content, <<>>))
    BY <2>1, <2>2, WalkIs
  <2>4. Lists(Walk(Volume).val, Below(Content, <<>>)) /\ Walk(Volume).ok
    BY <2>3, OnceLists DEF IsWalk
  <2> QED
    BY <2>1, <2>2, <2>4, AllPaths DEF ListsAll
<1> QED
  BY <1>1, Inductive, NestedAlways, PTL
-----------------------------------------------------------------------------
\* Superblocks lead to blocks of the right kind, contents are such as an APFS
\* volume can have, their directories nested within the bound, and a volume that
\* is open is one of a transaction that was committed (TypeOK).
THEOREM TypeCorrect == Spec => []TypeOK
<1>1. IInv /\ NestedOK => TypeOK
  <2> SUFFICES ASSUME IInv, NestedOK PROVE TypeOK
    OBVIOUS
  <2>1. bad \subseteq DOMAIN disk /\ Cardinality(bad) <= 1
    <3>1. Cardinality({}) = 0 /\ \A b : Cardinality({b}) = 1
      BY FS_EmptySet, FS_Singleton
    <3>2. bad = {} \/ \E b : bad = {b}
      BY DEF IInv, BadOK
    <3>3. Cardinality(bad) = 0 \/ Cardinality(bad) = 1
      BY <3>1, <3>2
    <3> QED
      BY <3>3 DEF IInv, BadOK
  <2>2. \A x \in DOMAIN committed :
            IsContent(committed[x].content) /\ IsNested(committed[x].content)
    BY FreeFacts DEF IInv, NestedOK
  <2>3. vol.ok => /\ phase = "open"
                  /\ vol.val.xid \in DOMAIN committed
                  /\ disk[vol.val.root].is = "node"
                  /\ disk[vol.val.omap].is = "node"
    <3> SUFFICES ASSUME vol.ok
                 PROVE  /\ phase = "open"
                        /\ vol.val.xid \in DOMAIN committed
                        /\ disk[vol.val.root].is = "node"
                        /\ disk[vol.val.omap].is = "node"
      OBVIOUS
    <3>1. phase = "open" /\ \A err : vol # Err(err)
      BY ResultFacts DEF IInv, OpenOK
    <3>5. PICK x \in 1 .. Xid : \E r \in FirstFree .. committed[x].free - 1 :
              /\ vol = Ok([xid |-> x, omap |-> committed[x].free - 5, root |-> r])
              /\ IsNode(disk[r]) /\ IsNode(disk[committed[x].free - 5])
      BY <3>1 DEF IInv, OpenOK
    <3>2. PICK r \in FirstFree .. committed[x].free - 1 :
              /\ vol = Ok([xid |-> x, omap |-> committed[x].free - 5, root |-> r])
              /\ IsNode(disk[r]) /\ IsNode(disk[committed[x].free - 5])
      BY <3>5
    <3>3. /\ vol.val.xid = x /\ vol.val.root = r /\ vol.val.omap = committed[x].free - 5
      BY <3>2, ResultFacts
    <3>4. DOMAIN committed = 1 .. Xid
      BY FreeFacts DEF IInv
    <3> QED
      BY <3>1, <3>2, <3>3, <3>4 DEF IsNode, Node
  <2> QED
    BY <2>1, <2>2, <2>3 DEF IInv, PhaseOK, BlocksOK, TypeOK
<1> QED
  BY <1>1, Inductive, NestedAlways, PTL
=============================================================================
