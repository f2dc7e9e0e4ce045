--------------------------- MODULE FileReadProofs ---------------------------
(* What the reads of files and of metadata return, for any disk, any files   *)
(* and any number of threads.                                               *)
EXTENDS FileRead, WellFoundedInduction, SequenceTheorems, TLAPS

-----------------------------------------------------------------------------
(***************************************************************************)
(* The extent map, whatever the records of the files.                       *)
(***************************************************************************)

(* The pairs of numbers of which the first is the smaller.                  *)
Smaller == { p \in Nat \X Nat : p[1] < p[2] }

\* A set of numbers has a least one.
LEMMA Least ==
    ASSUME NEW T \in SUBSET Nat, T # {}
    PROVE  \E n \in T : \A m \in T : n <= m
PROOF
<1>1. IsWellFoundedOn(Smaller, Nat)
  BY NatLessThanWellFounded DEF OpToRel, Smaller
<1>2. PICK n \in T : \A m \in T : ~ (<<m, n>> \in Smaller)
  BY <1>1, WFMin
<1>3. \A m \in T : n <= m
  <2> TAKE m \in T
  <2>1. <<m, n>> \notin Smaller
    BY <1>2
  <2>2. m \in Nat /\ n \in Nat /\ ~ (m < n)
    BY <2>1 DEF Smaller
  <2> QED
    BY <2>2, SMT
<1> QED
  BY <1>3

\* Induction over the natural numbers, for the set of those that it is about.
LEMMA Induction ==
    ASSUME NEW S \in SUBSET Nat, 0 \in S, \A n \in Nat : n \in S => n + 1 \in S
    PROVE  S = Nat
PROOF
<1>1. SUFFICES ASSUME Nat \ S # {} PROVE FALSE
  OBVIOUS
<1>2. PICK n \in Nat \ S : \A m \in Nat \ S : n <= m
  BY <1>1, Least
<1>3. n # 0 /\ n - 1 \in Nat /\ n - 1 \in S
  BY <1>2
<1> QED
  BY <1>2, <1>3
-----------------------------------------------------------------------------
(* g[i] is the sum of the numbers of a from 1 to i - 1, for i up to n.      *)
IsSum(g, n, a) ==
    g = [i \in 0 .. n |-> IF i <= 1 THEN 0 ELSE g[i - 1] + a[i - 1]]

\* The sum of the first numbers of a up to a place exists.
LEMMA PartialSum ==
    ASSUME NEW a, NEW n \in Nat
    PROVE  \E g : IsSum(g, n, a)
PROOF
<1> USE DEF IsSum
<1> DEFINE P(m) == \E g : g = [i \in 0 .. m |->
                                  IF i <= 1 THEN 0 ELSE g[i - 1] + a[i - 1]]
           S == { m \in Nat : P(m) }
<1>1. P(0)
  <2> DEFINE g0 == [i \in 0 .. 0 |-> 0]
  <2>1. g0 = [i \in 0 .. 0 |-> IF i <= 1 THEN 0 ELSE g0[i - 1] + a[i - 1]]
    OBVIOUS
  <2> QED
    BY <2>1
<1>2. ASSUME NEW m \in Nat, P(m) PROVE P(m + 1)
  <2>1. PICK g : g = [i \in 0 .. m |-> IF i <= 1 THEN 0 ELSE g[i - 1] + a[i - 1]]
    BY <1>2
  <2> DEFINE h == [i \in 0 .. m + 1 |-> IF i <= 1 THEN 0 ELSE g[i - 1] + a[i - 1]]
  <2>2. \A i \in 0 .. m : h[i] = g[i]
    <3> TAKE i \in 0 .. m
    <3>1. h[i] = IF i <= 1 THEN 0 ELSE g[i - 1] + a[i - 1]
      OBVIOUS
    <3>2. g[i] = IF i <= 1 THEN 0 ELSE g[i - 1] + a[i - 1]
      BY <2>1
    <3> QED
      BY <3>1, <3>2
  <2>3. \A i \in 0 .. m + 1 : i <= 1 \/ i - 1 \in 0 .. m
    BY SMT
  <2>4. h = [i \in 0 .. m + 1 |-> IF i <= 1 THEN 0 ELSE h[i - 1] + a[i - 1]]
    <3> HIDE DEF h
    <3>1. h = [i \in 0 .. m + 1 |-> IF i <= 1 THEN 0 ELSE g[i - 1] + a[i - 1]]
      BY DEF h
    <3> QED
      BY <2>2, <2>3, <3>1
  <2> QED
    BY <2>4
<1> HIDE DEF P
<1>3. S = Nat
  <2>1. S \in SUBSET Nat /\ 0 \in S /\ \A m \in Nat : m \in S => m + 1 \in S
    BY <1>1, <1>2
  <2> HIDE DEF S
  <2> QED
    BY <2>1, Induction
<1> QED
  BY <1>3 DEF P

\* Two such sums agree as far as both go.
LEMMA SumsAgree ==
    ASSUME NEW a, NEW n \in Nat, NEW m \in Nat, NEW g, NEW h,
           IsSum(g, n, a), IsSum(h, m, a)
    PROVE  \A i \in Nat : i <= n /\ i <= m => g[i] = h[i]
PROOF
<1> USE DEF IsSum
<1> DEFINE S == { i \in Nat : i <= n /\ i <= m => g[i] = h[i] }
<1>1. \A i \in Nat : i <= n => g[i] = IF i <= 1 THEN 0 ELSE g[i - 1] + a[i - 1]
  <2> TAKE i \in Nat
  <2> HAVE i <= n
  <2>1. i \in 0 .. n
    OBVIOUS
  <2> QED
    BY <2>1
<1>2. \A i \in Nat : i <= m => h[i] = IF i <= 1 THEN 0 ELSE h[i - 1] + a[i - 1]
  <2> TAKE i \in Nat
  <2> HAVE i <= m
  <2>1. i \in 0 .. m
    OBVIOUS
  <2> QED
    BY <2>1
<1>3. 0 \in S
  BY <1>1, <1>2
<1>4. \A i \in Nat : i \in S => i + 1 \in S
  <2> TAKE i \in Nat
  <2> SUFFICES ASSUME i \in S, i + 1 <= n, i + 1 <= m PROVE g[i + 1] = h[i + 1]
    OBVIOUS
  <2>1. g[i] = h[i]
    OBVIOUS
  <2>2. (i + 1) - 1 = i /\ i + 1 \in Nat
    OBVIOUS
  <2> QED
    BY <1>1, <1>2, <2>1, <2>2
<1>5. S = Nat
  <2>1. S \in SUBSET Nat
    OBVIOUS
  <2> HIDE DEF S
  <2> QED
    BY <1>3, <1>4, <2>1, Induction
<1> QED
  BY <1>5

\* All of the sum exists.
LEMMA SumExists ==
    ASSUME NEW a
    PROVE  \E g : g = [i \in Nat |-> IF i <= 1 THEN 0 ELSE g[i - 1] + a[i - 1]]
PROOF
<1> DEFINE part(n) == CHOOSE g : IsSum(g, n, a)
           all == [n \in Nat |-> part(n)[n]]
<1>1. \A n \in Nat : IsSum(part(n), n, a)
  <2> TAKE n \in Nat
  <2> QED
    BY PartialSum
<1>2. \A n \in Nat : n > 1 => part(n)[n - 1] = part(n - 1)[n - 1]
  <2> TAKE n \in Nat
  <2> HAVE n > 1
  <2>1. n - 1 \in Nat /\ n - 1 <= n
    OBVIOUS
  <2>2. IsSum(part(n), n, a) /\ IsSum(part(n - 1), n - 1, a)
    BY <1>1, <2>1
  <2> HIDE DEF part
  <2> QED
    BY <2>1, <2>2, SumsAgree
<1>3. \A n \in Nat : part(n)[n] = IF n <= 1 THEN 0 ELSE part(n)[n - 1] + a[n - 1]
  <2> TAKE n \in Nat
  <2>1. IsSum(part(n), n, a) /\ n \in 0 .. n
    BY <1>1
  <2> HIDE DEF part
  <2> QED
    BY <2>1 DEF IsSum
<1>4. \A n \in Nat : all[n] = IF n <= 1 THEN 0 ELSE all[n - 1] + a[n - 1]
  <2> TAKE n \in Nat
  <2> HIDE DEF part
  <2>1. CASE n <= 1
    BY <1>3, <2>1
  <2>2. CASE n > 1
    <3>1. n - 1 \in Nat /\ ~ n <= 1
      BY <2>2
    <3>2. all[n] = part(n)[n] /\ all[n - 1] = part(n - 1)[n - 1]
      BY <3>1
    <3> QED
      BY <1>2, <1>3, <2>2, <3>1, <3>2
  <2> QED
    BY <2>1, <2>2
<1>5. all = [i \in Nat |-> IF i <= 1 THEN 0 ELSE all[i - 1] + a[i - 1]]
  <2>1. all = [i \in Nat |-> all[i]]
    OBVIOUS
  <2> HIDE DEF all
  <2> QED
    BY <1>4, <2>1
<1> QED
  BY <1>5

\* LogicalOffset is the sum that its definition says it is.
LEMMA OffsetIsSum ==
    ASSUME NEW f
    PROVE  \A i \in Nat : LogicalOffset(f)[i] =
               IF i <= 1 THEN 0 ELSE LogicalOffset(f)[i - 1] + Records[f][i - 1].len
PROOF
<1> DEFINE a == [i \in Nat |-> Records[f][i].len]
           Is(g) == g = [i \in Nat |-> IF i <= 1 THEN 0
                                       ELSE g[i - 1] + Records[f][i - 1].len]
<1>1. PICK g : g = [i \in Nat |-> IF i <= 1 THEN 0 ELSE g[i - 1] + a[i - 1]]
  BY SumExists
<1>2. Is(g)
  <2>1. \A i \in Nat : i <= 1 \/ (i - 1 \in Nat /\ a[i - 1] = Records[f][i - 1].len)
    OBVIOUS
  <2> HIDE DEF a
  <2> QED
    BY <1>1, <2>1
<1>3. LogicalOffset(f) = CHOOSE s : Is(s)
  BY DEF LogicalOffset
<1>4. Is(LogicalOffset(f))
  BY <1>2, <1>3
<1> QED
  BY <1>4

\* The offsets are numbers, up to the end of the file.
LEMMA OffsetType ==
    ASSUME NEW f \in Files
    PROVE  \A i \in DOMAIN Records[f] : LogicalOffset(f)[i] \in Nat
PROOF
<1> DEFINE S == { i \in Nat : i <= Len(Records[f]) => LogicalOffset(f)[i] \in Nat }
<1>1. /\ Records[f] \in Seq(Record) /\ Len(Records[f]) \in Nat
      /\ DOMAIN Records[f] = 1 .. Len(Records[f])
      /\ \A i \in DOMAIN Records[f] : Records[f][i].len \in Nat
  <2>1. Records[f] \in Seq(Record)
    BY ExtentsAssumption
  <2>2. Len(Records[f]) \in Nat /\ DOMAIN Records[f] = 1 .. Len(Records[f])
    BY <2>1
  <2>3. \A i \in DOMAIN Records[f] : Records[f][i] \in Record
    BY <2>1
  <2> QED
    BY <2>1, <2>2, <2>3 DEF Record
<1>2. 0 \in S
  BY OffsetIsSum
<1>3. \A i \in Nat : i \in S => i + 1 \in S
  <2> TAKE i \in Nat
  <2> SUFFICES ASSUME i \in S, i + 1 <= Len(Records[f])
               PROVE  LogicalOffset(f)[i + 1] \in Nat
    OBVIOUS
  <2>1. LogicalOffset(f)[i] \in Nat
    BY <1>1
  <2>2. CASE i = 0
    BY <2>2, OffsetIsSum
  <2>3. CASE i # 0
    <3>1. i \in DOMAIN Records[f] /\ (i + 1) - 1 = i /\ i + 1 \in Nat /\ ~ i + 1 <= 1
      BY <1>1, <2>3
    <3>2. LogicalOffset(f)[i + 1] = LogicalOffset(f)[i] + Records[f][i].len
      BY <3>1, OffsetIsSum
    <3>3. Records[f][i].len \in Nat
      BY <1>1, <3>1
    <3>4. PICK a \in Nat, b \in Nat : a = LogicalOffset(f)[i] /\ b = Records[f][i].len
      BY <2>1, <3>3
    <3> QED
      BY <3>2, <3>4
  <2> QED
    BY <2>2, <2>3
<1>4. S = Nat
  <2>1. S \in SUBSET Nat
    OBVIOUS
  <2> HIDE DEF S
  <2> QED
    BY <1>2, <1>3, <2>1, Induction
<1> QED
  BY <1>1, <1>4
-----------------------------------------------------------------------------
\* An extent is a record, laid where the records before it end.
LEMMA ExtentIsRecord ==
    ASSUME NEW f \in Files, NEW e \in ExtentMap(f)
    PROVE  /\ e.log \in Nat /\ e.len \in Nat /\ e.phys \in Nat
           /\ \E i \in DOMAIN Records[f] :
                  /\ e.log = LogicalOffset(f)[i]
                  /\ e.len = Records[f][i].len
                  /\ e.phys = Records[f][i].block * BlockSize
PROOF
<1>1. PICK i \in DOMAIN Records[f] :
          e = [log |-> LogicalOffset(f)[i], len |-> Records[f][i].len,
               phys |-> Records[f][i].block * BlockSize]
  BY DEF ExtentMap
<1>2. Records[f][i] \in Record
  <2>1. Records[f] \in Seq(Record)
    BY ExtentsAssumption
  <2> QED
    BY <2>1
<1>3. Records[f][i].len \in Nat /\ Records[f][i].block \in Nat /\ BlockSize \in Nat
  BY <1>2, ExtentsAssumption DEF Record
<1>4. Records[f][i].block * BlockSize \in Nat
  BY <1>3, SMT
<1>5. LogicalOffset(f)[i] \in Nat
  BY OffsetType
<1> QED
  BY <1>1, <1>3, <1>4, <1>5

\* A byte that has an extent has it and those after it, to the extent's end.
LEMMA Located ==
    ASSUME NEW f \in Files, NEW l \in Nat, Mapped(f, l)
    PROVE  /\ LogicalToPhysical(f, l) \in Nat
           /\ ExtentRemaining(f, l) \in Nat \ {0}
           /\ \E e \in ExtentMap(f) :
                  LogicalToPhysical(f, l) + ExtentRemaining(f, l) = e.phys + e.len
PROOF
<1> DEFINE e == ExtentAt(f, l)
<1>1. e \in ExtentMap(f) /\ Covers(e, l)
  BY DEF Mapped, ExtentAt
<1> HIDE DEF e
<1>2. e.log \in Nat /\ e.len \in Nat /\ e.phys \in Nat
  BY <1>1, ExtentIsRecord
<1>3. /\ LogicalToPhysical(f, l) = e.phys + (l - e.log)
      /\ ExtentRemaining(f, l) = (e.log + e.len) - l
  BY DEF LogicalToPhysical, ExtentRemaining, e
<1>4. e.log <= l /\ l < e.log + e.len
  BY <1>1 DEF Covers
<1>5. LogicalToPhysical(f, l) + ExtentRemaining(f, l) = e.phys + e.len
  BY <1>2, <1>3
<1> QED
  BY <1>1, <1>2, <1>3, <1>4, <1>5

\* In a file that is dense, they are the bytes of the file.
LEMMA LocatedIsByte ==
    ASSUME NEW f \in Files, NEW l \in Nat, Mapped(f, l), Dense(f),
           NEW j \in Nat, j < ExtentRemaining(f, l)
    PROVE  IsByteOf(f, l + j, PartitionOffset + LogicalToPhysical(f, l) + j)
PROOF
<1> DEFINE e == ExtentAt(f, l)
<1>1. e \in ExtentMap(f) /\ Covers(e, l)
  BY DEF Mapped, ExtentAt
<1> HIDE DEF e
<1>2. /\ LogicalToPhysical(f, l) = e.phys + (l - e.log)
      /\ ExtentRemaining(f, l) = (e.log + e.len) - l
  BY DEF LogicalToPhysical, ExtentRemaining, e
<1>3. e.log \in Nat /\ e.len \in Nat /\ e.phys \in Nat
  BY <1>1, ExtentIsRecord
<1>4. PICK i \in DOMAIN Records[f] :
          /\ e.log = LogicalOffset(f)[i]
          /\ e.len = Records[f][i].len
          /\ e.phys = Records[f][i].block * BlockSize
  BY <1>1, ExtentIsRecord
<1>5. e.log = Records[f][i].addr
  BY <1>4 DEF Dense
<1>6. e.log <= l /\ l < e.log + e.len
  BY <1>1 DEF Covers
<1>7. Holds(Records[f][i], l + j)
  BY <1>2, <1>3, <1>4, <1>5, <1>6 DEF Holds
<1>8. PartitionOffset \in Nat
  BY ExtentsAssumption
<1>9. PartitionOffset + LogicalToPhysical(f, l) + j
      = PartitionOffset + e.phys + ((l + j) - e.log)
  BY <1>2, <1>3, <1>8
<1> QED
  BY <1>4, <1>5, <1>7, <1>9 DEF IsByteOf

-----------------------------------------------------------------------------
\* A position is a sector's beginning and an offset in the sector.
LEMMA Aligned ==
    ASSUME NEW pos \in Nat
    PROVE  /\ SectorOffset(pos) \in Nat /\ AlignedPos(pos) \in Nat
           /\ AlignedPos(pos) + SectorOffset(pos) = pos
PROOF
<1>1. SectorSize \in Nat \ {0}
  BY DiskReaderAssumption
<1> DEFINE q == pos \div SectorSize
           r == pos % SectorSize
<1>2. q \in Nat /\ r \in 0 .. SectorSize - 1 /\ pos = SectorSize * q + r
  BY <1>1, SMT
<1>3. SectorSize * q \in Nat
  BY <1>1, <1>2, SMT
<1> HIDE DEF q, r
<1>4. r \in Nat /\ pos - r \in Nat /\ (pos - r) + r = pos
  BY <1>1, <1>2, <1>3
<1> QED
  BY <1>4 DEF SectorOffset, AlignedPos, r

\* The sectors that are read hold all that was asked for.
LEMMA EnoughSectors ==
    ASSUME NEW pos \in Nat, NEW len \in Nat
    PROVE  AlignedLen(pos, len) \in Nat /\ AlignedLen(pos, len) >= SectorOffset(pos) + len
PROOF
<1>1. SectorSize \in Nat \ {0} /\ SectorOffset(pos) \in Nat
  BY DiskReaderAssumption, Aligned
<1> DEFINE x == SectorOffset(pos) + len + SectorSize - 1
           q == x \div SectorSize
           r == x % SectorSize
<1>2. x \in Nat
  BY <1>1
<1> HIDE DEF x
<1>3. q \in Nat /\ r \in 0 .. SectorSize - 1 /\ x = SectorSize * q + r
  BY <1>1, <1>2, SMT
<1>4. q * SectorSize \in Nat /\ SectorSize * q = q * SectorSize
  BY <1>1, <1>3, SMT
<1> HIDE DEF q, r
<1>5. AlignedLen(pos, len) = q * SectorSize
  BY DEF AlignedLen, q, x
<1>6. q * SectorSize >= x - (SectorSize - 1)
  BY <1>1, <1>2, <1>3, <1>4
<1>7. x - (SectorSize - 1) = SectorOffset(pos) + len
  BY <1>1 DEF x
<1> QED
  BY <1>4, <1>5, <1>6, <1>7

LEMMA BytesType ==
    ASSUME NEW place \in Nat, NEW n \in Nat
    PROVE  /\ Bytes(place, n) \in Seq(Nat) /\ Len(Bytes(place, n)) = n
           /\ \A i \in 1 .. n : Bytes(place, n)[i] = place + i - 1
PROOF
<1>1. \A i \in 1 .. n : place + i - 1 \in Nat
  OBVIOUS
<1>2. Bytes(place, n) \in Seq(Nat)
  BY <1>1, IsASeq DEF Bytes
<1> QED
  BY <1>2 DEF Bytes

LEMMA LesserIs ==
    ASSUME NEW a \in Nat, NEW b \in Nat
    PROVE  /\ Lesser(a, b) \in Nat /\ Lesser(a, b) <= a /\ Lesser(a, b) <= b
           /\ Lesser(a, b) = a \/ Lesser(a, b) = b
PROOF
  BY DEF Lesser

(* What Transfer reads, and how many bytes it returns.                      *)
Available(pos, len) ==
    LET left == IF AlignedPos(pos) <= DiskSize THEN DiskSize - AlignedPos(pos) ELSE 0
    IN  Lesser(AlignedLen(pos, len), left)

Returned(pos, len) ==
    Lesser(IF Available(pos, len) <= SectorOffset(pos) THEN 0
           ELSE Available(pos, len) - SectorOffset(pos), len)

\* A transfer returns something unless the disk has nothing there.
LEMMA TransferGives ==
    ASSUME NEW pos \in Nat, NEW len \in Nat \ {0}
    PROVE  /\ Available(pos, len) \in Nat
           /\ Returned(pos, len) \in 0 .. len
           /\ Returned(pos, len) # 0 => pos + Returned(pos, len) <= DiskSize
           /\ Returned(pos, len) = 0 => pos >= DiskSize
PROOF
<1> DEFINE from == AlignedPos(pos)
           so == SectorOffset(pos)
           al == AlignedLen(pos, len)
           left == IF from <= DiskSize THEN DiskSize - from ELSE 0
           read == Lesser(al, left)
           available == IF read <= so THEN 0 ELSE read - so
           n == Lesser(available, len)
<1>1. /\ from \in Nat /\ so \in Nat /\ al \in Nat /\ from + so = pos
      /\ al >= so + len /\ DiskSize \in Nat
  BY Aligned, EnoughSectors, DiskReaderAssumption
<1>2. Available(pos, len) = read /\ Returned(pos, len) = n
  BY DEF Available, Returned
<1> HIDE DEF from, so, al
<1>3. left \in Nat
  BY <1>1
<1>4. read \in Nat /\ (read = al \/ read = left) /\ read <= left
  BY <1>1, <1>3 DEF Lesser
<1> HIDE DEF read
<1>5. available \in Nat
  BY <1>1, <1>4
<1>6. n \in Nat /\ n <= len /\ n <= available /\ (n = available \/ n = len)
  BY <1>5 DEF Lesser
<1> HIDE DEF n
<1>7. n # 0 => pos + n <= DiskSize
  BY <1>1, <1>3, <1>4, <1>6
<1>8. n = 0 => pos >= DiskSize
  BY <1>1, <1>3, <1>4, <1>6
<1> QED
  BY <1>2, <1>4, <1>6, <1>7, <1>8
-----------------------------------------------------------------------------
(* Where on the disk the next byte of a job lies, and how many are asked     *)
(* for with it.                                                             *)
NextPlace(t) ==
    IF job[t].task = "file"
    THEN PartitionOffset + LogicalToPhysical(job[t].file, LogicalPos(t))
    ELSE PartitionOffset + LogicalPos(t)

NextLen(t) ==
    IF job[t].task = "file"
    THEN Lesser(job[t].want - Got(t),
                ExtentRemaining(job[t].file, LogicalPos(t)))
    ELSE job[t].want - Got(t)

(* A job under the mutex holds it, and never has more than it wants.         *)
JobIsRight(t) ==
    /\ job[t].stage \in {"wait", "seek"} => job[t].buf = <<>>
    /\ job[t].stage \in {"seek", "loop"} => lock[HandleOf[job[t].task]] = t
    /\ job[t].stage = "seek" => job[t].task = "block"
    /\ job[t].stage = "wait" => job[t].want > 0
    /\ job[t].task = "block" => job[t].want = BlockSize
    /\ job[t].task = "file" => job[t].todo = <<>>
    /\ Got(t) <= job[t].want

(* A seek goes to the block of its job.                                      *)
SeekIsRight(t) ==
    /\ job[t].stage = "seek"
    /\ call[t].method = "seek"
    /\ call[t].stage \in {"move", "done", "failed"}
    /\ call[t].pos = PartitionOffset + job[t].at
    /\ call[t].stage = "done" => pointer["volume"] = call[t].pos

(* A read is for the next bytes of its job, from where they lie.             *)
ReadIsRight(t) ==
    /\ job[t].stage = "loop"
    /\ call[t].method = IF job[t].task = "file" THEN "read_at_absolute" ELSE "read"
    /\ job[t].task = "file" => Mapped(job[t].file, LogicalPos(t))
    /\ Got(t) < job[t].want
    /\ call[t].len = NextLen(t)
    /\ call[t].stage # "move"
    /\ call[t].stage \in {"query", "restore"} => job[t].task = "block"
    /\ call[t].stage = "query" => pointer["volume"] = NextPlace(t)
    /\ call[t].stage \in {"align", "transfer", "restore", "done"} =>
           call[t].pos = NextPlace(t)
    /\ call[t].stage = "transfer" =>
           pointer[call[t].handle] = AlignedPos(call[t].pos)
    /\ call[t].stage \in {"restore", "done"} =>
           /\ call[t].data = Bytes(call[t].pos, Len(call[t].data))
           /\ Len(call[t].data) <= call[t].len
           /\ call[t].data # <<>> => call[t].pos + Len(call[t].data) <= DiskSize
           /\ call[t].data = <<>> => call[t].pos >= DiskSize
    /\ call[t].stage = "done" /\ job[t].task = "block" =>
           pointer["volume"] = call[t].pos + Len(call[t].data)

CallIsRight(t) ==
    call[t].stage # "none" =>
        /\ call[t].handle = HandleOf[job[t].task]
        /\ SeekIsRight(t) \/ ReadIsRight(t)

(* Between two reads of a block the file pointer is where the next goes on.  *)
PointerIsRight(t) ==
    job[t].stage = "loop" /\ job[t].task = "block" /\ call[t].stage = "none"
        => pointer["volume"] = NextPlace(t)

BufferIsRight(t) ==
    \A i \in DOMAIN job[t].buf :
        /\ job[t].task = "block" =>
               job[t].buf[i] = PartitionOffset + job[t].at + i - 1
        /\ job[t].task = "file" /\ Dense(job[t].file) =>
               IsByteOf(job[t].file, job[t].at + i - 1, job[t].buf[i])

AnswerIsWhole(t) ==
    job[t].stage = "ok" /\ (job[t].task = "file" => OnDisk(job[t].file))
        => Got(t) = job[t].want

ThreadIsRight(t) ==
    /\ JobIsRight(t) /\ CallIsRight(t) /\ PointerIsRight(t)
    /\ BufferIsRight(t) /\ AnswerIsWhole(t)

IInv == TypeOK /\ \A t \in Threads : ThreadIsRight(t)
-----------------------------------------------------------------------------
\* The assumptions on constants, as the proofs use them.
LEMMA Constants ==
    /\ Handles = {"volume", "raw"} /\ None \notin Threads
    /\ StartOf["volume"] = PartitionOffset
    /\ PartitionOffset \in Nat /\ BlockSize \in Nat \ {0} /\ DiskSize \in Nat
    /\ NoJob \in Job /\ NoCall \in Call
    /\ NoJob.stage = "idle" /\ NoJob.todo = <<>> /\ NoJob.buf = <<>>
    /\ NoJob.task = "file" /\ NoJob.want = 0
    /\ NoCall.stage = "none"
    /\ NoJob.file \in Files
    /\ HandleOf["file"] = "raw" /\ HandleOf["block"] = "volume"
PROOF
<1>1. Handles = {"volume", "raw"} /\ None \notin Threads /\ Files # {}
  BY FileReadAssumption
<1>2. StartOf["volume"] = PartitionOffset
  BY FileReadAssumption
<1>3. PartitionOffset \in Nat /\ BlockSize \in Nat \ {0} /\ DiskSize \in Nat
  BY ExtentsAssumption, DiskReaderAssumption
<1>4. (CHOOSE f \in Files : TRUE) \in Files /\ (CHOOSE h \in Handles : TRUE) \in Handles
  BY <1>1
<1>5. <<>> \in Seq(Nat)
  OBVIOUS
<1>6. NoJob \in Job /\ NoJob.file \in Files
  BY <1>4, <1>5 DEF NoJob, Job
<1>7. NoCall \in Call
  BY <1>4, <1>5 DEF NoCall, Call, Stages, Methods
<1> QED
  BY <1>1, <1>2, <1>3, <1>6, <1>7 DEF NoJob, NoCall, HandleOf

\* The types of what a job holds, and of what follows from it.
LEMMA JobTypes ==
    ASSUME TypeOK, NEW t \in Threads
    PROVE  /\ job[t] \in Job /\ job[t].buf \in Seq(Nat) /\ job[t].at \in Nat
           /\ job[t].want \in Nat /\ job[t].file \in Files
           /\ job[t].task \in {"file", "block"}
           /\ Got(t) \in Nat /\ LogicalPos(t) \in Nat
           /\ DOMAIN job[t].buf = 1 .. Got(t)
           /\ HandleOf[job[t].task] \in Handles
PROOF
<1>1. job[t] \in Job
  BY DEF TypeOK
<1>2. job[t].buf \in Seq(Nat) /\ job[t].at \in Nat /\ job[t].want \in Nat
      /\ job[t].file \in Files /\ job[t].task \in {"file", "block"}
  BY <1>1 DEF Job
<1>3. Got(t) \in Nat /\ DOMAIN job[t].buf = 1 .. Got(t)
  BY <1>2 DEF Got
<1>4. LogicalPos(t) \in Nat
  BY <1>2, <1>3 DEF LogicalPos
<1>5. HandleOf[job[t].task] \in Handles
  BY <1>2, Constants
<1> QED
  BY <1>1, <1>2, <1>3, <1>4, <1>5

LEMMA CallTypes ==
    ASSUME TypeOK, NEW t \in Threads
    PROVE  /\ call[t] \in Call /\ call[t].handle \in Handles /\ call[t].pos \in Nat
           /\ call[t].len \in Nat /\ call[t].data \in Seq(Nat)
           /\ call[t].stage \in Stages /\ call[t].method \in Methods
           /\ Len(call[t].data) \in Nat
           /\ pointer[call[t].handle] \in Nat
PROOF
<1>1. call[t] \in Call /\ pointer \in [Handles -> Nat]
  BY DEF TypeOK, ReaderTypeOK
<1>2. call[t].handle \in Handles /\ call[t].data \in Seq(Nat)
  BY <1>1 DEF Call
<1> QED
  BY <1>1, <1>2 DEF Call
-----------------------------------------------------------------------------
(* A step of t leaves alone the others, the locks that they hold, and the    *)
(* file pointers behind them.                                               *)
Leaves(t) ==
    /\ \A s \in Threads \ {t} : job'[s] = job[s] /\ call'[s] = call[s]
    /\ \A s \in Threads \ {t}, h \in Handles :
           lock[h] = s => lock'[h] = s /\ pointer'[h] = pointer[h]

\* What is right of the others stays so.
LEMMA OthersStayRight ==
    ASSUME IInv, NEW t \in Threads, NEW s \in Threads \ {t}, Leaves(t)
    PROVE  ThreadIsRight(s)'
PROOF
<1>1. job'[s] = job[s] /\ call'[s] = call[s]
  BY DEF Leaves
<1>2. ThreadIsRight(s) /\ TypeOK
  BY DEF IInv
<1>3. /\ Got(s)' = Got(s) /\ LogicalPos(s)' = LogicalPos(s)
      /\ NextPlace(s)' = NextPlace(s) /\ NextLen(s)' = NextLen(s)
  BY <1>1 DEF Got, LogicalPos, NextPlace, NextLen
<1> DEFINE h == HandleOf[job[s].task]
<1>4. h \in Handles
  BY <1>2, JobTypes
<1>5. job[s].stage \in {"seek", "loop"} => lock'[h] = s /\ pointer'[h] = pointer[h]
  BY <1>2, <1>4 DEF Leaves, ThreadIsRight, JobIsRight
<1>6. JobIsRight(s)'
  BY <1>1, <1>2, <1>3, <1>5 DEF ThreadIsRight, JobIsRight
<1>7. CallIsRight(s)'
  <2> SUFFICES ASSUME call[s].stage # "none"
               PROVE  /\ call[s].handle = h
                      /\ SeekIsRight(s)' \/ ReadIsRight(s)'
    BY <1>1 DEF CallIsRight
  <2>1. call[s].handle = h /\ (SeekIsRight(s) \/ ReadIsRight(s))
    BY <1>2 DEF ThreadIsRight, CallIsRight
  <2>2. CASE SeekIsRight(s)
    <3>1. job[s].stage = "seek"
      BY <2>2 DEF SeekIsRight
    <3>2. h = "volume"
      BY <1>2, <3>1, Constants DEF ThreadIsRight, JobIsRight
    <3> QED
      BY <1>1, <1>5, <2>1, <2>2, <3>1, <3>2 DEF SeekIsRight
  <2>3. CASE ReadIsRight(s)
    <3>1. pointer'[h] = pointer[h] /\ job[s].stage = "loop"
      BY <1>5, <2>3 DEF ReadIsRight
    <3>2. job[s].task = "block" => h = "volume"
      BY Constants
    <3> HIDE DEF h
    <3>3. ReadIsRight(s)'
      BY <1>1, <1>3, <2>1, <2>3, <3>1, <3>2 DEF ReadIsRight
    <3> QED
      BY <2>1, <3>3
  <2> QED
    BY <2>1, <2>2, <2>3
<1>8. PointerIsRight(s)'
  <2>1. job[s].task = "block" => h = "volume"
    BY Constants
  <2> QED
    BY <1>1, <1>2, <1>3, <1>5, <2>1 DEF ThreadIsRight, PointerIsRight
<1>9. BufferIsRight(s)'
  BY <1>1, <1>2 DEF ThreadIsRight, BufferIsRight
<1>10. AnswerIsWhole(s)'
  BY <1>1, <1>2, <1>3 DEF ThreadIsRight, AnswerIsWhole
<1> QED
  BY <1>6, <1>7, <1>8, <1>9, <1>10 DEF ThreadIsRight

LEMMA StepSuffices ==
    ASSUME IInv, NEW t \in Threads, TypeOK', Leaves(t), ThreadIsRight(t)'
    PROVE  IInv'
PROOF
  BY OthersStayRight DEF IInv
-----------------------------------------------------------------------------
\* A step that changes only what is the thread's own.
LEMMA OwnStep ==
    ASSUME TypeOK, NEW t \in Threads, NEW j \in Job, NEW c \in Call,
           job' = [job EXCEPT ![t] = j], call' = [call EXCEPT ![t] = c],
           UNCHANGED <<pointer, lock>>
    PROVE  /\ TypeOK' /\ Leaves(t)
           /\ job'[t] = j /\ call'[t] = c
PROOF
<1>1. job \in [Threads -> Job] /\ call \in [Threads -> Call]
  BY DEF TypeOK, ReaderTypeOK
<1>2. job' \in [Threads -> Job] /\ call' \in [Threads -> Call]
  BY <1>1
<1>3. TypeOK'
  BY <1>2 DEF TypeOK, ReaderTypeOK
<1>4. Leaves(t)
  BY <1>1 DEF Leaves
<1> QED
  BY <1>1, <1>3, <1>4

(* A step on one handle, of a thread that is in the job j and the call c     *)
(* after it.                                                                *)
StepOn(h, t, j, c) ==
    /\ job' = [job EXCEPT ![t] = j] /\ call' = [call EXCEPT ![t] = c]
    /\ lock' \in [Handles -> Threads \cup {None}] /\ pointer' \in [Handles -> Nat]
    /\ \A g \in Handles \ {h} : lock'[g] = lock[g] /\ pointer'[g] = pointer[g]

\* Whose mutex the thread holds, or takes.
LEMMA HandleStep ==
    ASSUME TypeOK, NEW t \in Threads, NEW j \in Job, NEW c \in Call,
           NEW h \in Handles, lock[h] \in {t, None}, StepOn(h, t, j, c)
    PROVE  TypeOK' /\ Leaves(t) /\ job'[t] = j /\ call'[t] = c
PROOF
<1> USE DEF StepOn
<1>1. /\ job \in [Threads -> Job] /\ call \in [Threads -> Call]
      /\ lock \in [Handles -> Threads \cup {None}] /\ pointer \in [Handles -> Nat]
  BY DEF TypeOK, ReaderTypeOK
<1>2. job' \in [Threads -> Job] /\ call' \in [Threads -> Call]
  BY <1>1
<1>4. TypeOK'
  BY <1>2 DEF TypeOK, ReaderTypeOK
<1>5. \A s \in Threads \ {t} : job'[s] = job[s] /\ call'[s] = call[s]
  BY <1>1
<1>6. \A s \in Threads \ {t}, g \in Handles :
          lock[g] = s => lock'[g] = s /\ pointer'[g] = pointer[g]
  <2> TAKE s \in Threads \ {t}, g \in Handles
  <2> HAVE lock[g] = s
  <2>1. s # None
    BY Constants
  <2>2. g # h
    BY <2>1
  <2> QED
    BY <1>1, <2>2
<1>7. Leaves(t)
  BY <1>5, <1>6 DEF Leaves
<1> QED
  BY <1>1, <1>4, <1>7

\* A thread outside of the mutexes is in no call.
LEMMA OutsideNoCall ==
    ASSUME IInv, NEW t \in Threads, job[t].stage \notin {"seek", "loop"}
    PROVE  call[t].stage = "none"
PROOF
  BY DEF IInv, ThreadIsRight, CallIsRight, SeekIsRight, ReadIsRight

\* A thread in a call holds the mutex of its handle.
LEMMA CallerHolds ==
    ASSUME IInv, NEW t \in Threads, call[t].stage # "none"
    PROVE  /\ job[t].stage \in {"seek", "loop"}
           /\ call[t].handle = HandleOf[job[t].task]
           /\ call[t].handle \in Handles
           /\ lock[call[t].handle] = t
PROOF
<1>1. ThreadIsRight(t) /\ TypeOK
  BY DEF IInv
<1>2. job[t].stage \in {"seek", "loop"} /\ call[t].handle = HandleOf[job[t].task]
  BY <1>1 DEF ThreadIsRight, CallIsRight, SeekIsRight, ReadIsRight
<1> QED
  BY <1>1, <1>2, CallTypes DEF ThreadIsRight, JobIsRight

\* After a step, a job without bytes and outside of the mutex is right.
LEMMA EmptyJobIsRight ==
    ASSUME NEW t \in Threads, job'[t].buf = <<>>, call'[t].stage = "none",
           job'[t].stage \in {"idle", "wait", "ok"}, job'[t].want \in Nat,
           job'[t].stage = "wait" => job'[t].want > 0,
           job'[t].stage = "ok" => job'[t].want = 0,
           job'[t].task = "block" => job'[t].want = BlockSize,
           job'[t].task = "file" => job'[t].todo = <<>>
    PROVE  ThreadIsRight(t)'
PROOF
<1>1. Got(t)' = 0 /\ DOMAIN job'[t].buf = {}
  BY DEF Got
<1> QED
  BY <1>1 DEF ThreadIsRight, JobIsRight, CallIsRight, PointerIsRight,
              BufferIsRight, AnswerIsWhole

LEMMA ReadFileKeeps ==
    ASSUME IInv, NEW t \in Threads, NEW f \in Files, NEW r \in Ranges,
           ReadFile(t, f, r[1], r[2])
    PROVE  IInv'
PROOF
<1> DEFINE want == IF r[1] >= FileSize[f] THEN 0
                   ELSE Lesser(r[2], FileSize[f] - r[1])
           j == [task |-> "file", file |-> f, todo |-> <<>>,
                 stage |-> IF want = 0 THEN "ok" ELSE "wait",
                 at |-> r[1], want |-> want, buf |-> <<>>]
<1>1. TypeOK /\ job[t].stage \notin {"seek", "loop"}
  BY DEF IInv, ReadFile, Outside
<1>2. r[1] \in Nat /\ r[2] \in Nat /\ FileSize[f] \in Nat
  BY FileReadAssumption, ExtentsAssumption
<1>3. want \in Nat
  <2>1. CASE r[1] >= FileSize[f]
    BY <2>1
  <2>2. CASE ~ r[1] >= FileSize[f]
    <3>1. FileSize[f] - r[1] \in Nat
      BY <1>2, <2>2
    <3> QED
      BY <1>2, <2>2, <3>1, LesserIs
  <2> QED
    BY <2>1, <2>2
<1>4. job' = [job EXCEPT ![t] = j] /\ UNCHANGED <<pointer, call, lock>>
  BY DEF ReadFile
<1> HIDE DEF want
<1>5. <<>> \in Seq(Nat)
  OBVIOUS
<1>6. j \in Job
  BY <1>2, <1>3, <1>5 DEF Job
<1>7. /\ j.buf = <<>> /\ j.stage \in {"wait", "ok"} /\ j.want = want /\ j.task = "file"
      /\ j.todo = <<>> /\ (j.stage = "wait" => want # 0)
      /\ j.stage = "ok" => want = 0
  OBVIOUS
<1> HIDE DEF j
<1>8. call[t].stage = "none" /\ call[t] \in Call
  BY <1>1, OutsideNoCall, CallTypes
<1>9. call' = [call EXCEPT ![t] = call[t]]
  BY <1>1, <1>4 DEF TypeOK, ReaderTypeOK
<1>10. TypeOK' /\ Leaves(t) /\ job'[t] = j /\ call'[t] = call[t]
  BY <1>1, <1>4, <1>6, <1>8, <1>9, OwnStep
<1>11. ThreadIsRight(t)'
  BY <1>3, <1>7, <1>8, <1>10, EmptyJobIsRight
<1> QED
  BY <1>10, <1>11, StepSuffices

LEMMA ReadBlocksKeeps ==
    ASSUME IInv, NEW t \in Threads, NEW blocks \in BlockLists, ReadBlocks(t, blocks)
    PROVE  IInv'
PROOF
<1> DEFINE j == [task |-> "block", file |-> NoJob.file, todo |-> blocks,
                 stage |-> "wait", at |-> Head(blocks) * BlockSize,
                 want |-> BlockSize, buf |-> <<>>]
<1>1. TypeOK /\ job[t].stage \notin {"seek", "loop"}
  BY DEF IInv, ReadBlocks, Outside
<1>2. blocks \in Seq(Nat) /\ Head(blocks) \in Nat
  BY FileReadAssumption
<1>3. Head(blocks) * BlockSize \in Nat /\ BlockSize \in Nat /\ BlockSize > 0
  BY <1>2, Constants, SMT
<1>4. job' = [job EXCEPT ![t] = j] /\ UNCHANGED <<pointer, call, lock>>
  BY DEF ReadBlocks
<1>5. <<>> \in Seq(Nat)
  OBVIOUS
<1>6. j \in Job
  BY <1>2, <1>3, <1>5, Constants DEF Job
<1>7. j.buf = <<>> /\ j.stage = "wait" /\ j.want = BlockSize /\ j.task = "block"
  OBVIOUS
<1> HIDE DEF j
<1>8. call[t].stage = "none" /\ call[t] \in Call
  BY <1>1, OutsideNoCall, CallTypes
<1>9. call' = [call EXCEPT ![t] = call[t]]
  BY <1>1, <1>4 DEF TypeOK, ReaderTypeOK
<1>10. TypeOK' /\ Leaves(t) /\ job'[t] = j /\ call'[t] = call[t]
  BY <1>1, <1>4, <1>6, <1>8, <1>9, OwnStep
<1>11. ThreadIsRight(t)'
  BY <1>3, <1>7, <1>8, <1>10, EmptyJobIsRight
<1> QED
  BY <1>10, <1>11, StepSuffices

LEMMA LockKeeps ==
    ASSUME IInv, NEW t \in Threads, Lock(t)
    PROVE  IInv'
PROOF
<1> DEFINE s == IF job[t].task = "block" THEN "seek" ELSE "loop"
           j == [job[t] EXCEPT !.stage = s]
           h == HandleOf[job[t].task]
<1>1. TypeOK /\ ThreadIsRight(t) /\ job[t].stage = "wait" /\ lock[h] = None
  BY DEF IInv, Lock
<1>2. call[t].stage = "none" /\ call[t] \in Call /\ h \in Handles /\ pointer[h] \in Nat
  BY <1>1, OutsideNoCall, CallTypes, JobTypes DEF TypeOK, ReaderTypeOK
<1>3. job[t] \in Job /\ job[t].task \in {"file", "block"}
  BY <1>1, JobTypes
<1>4. j \in Job
  BY <1>3 DEF Job
<1>5. /\ j.stage = s /\ j.task = job[t].task /\ j.buf = job[t].buf
      /\ j.want = job[t].want /\ j.at = job[t].at /\ j.file = job[t].file
      /\ j.todo = job[t].todo
  BY <1>3 DEF Job
<1>6. StepOn(h, t, j, call[t]) /\ lock'[h] = t
  BY <1>1, <1>2 DEF Lock, TypeOK, ReaderTypeOK, StepOn
<1> HIDE DEF j
<1>7. TypeOK' /\ Leaves(t) /\ job'[t] = j /\ call'[t] = call[t] /\ lock'[h] = t
  <2>1. lock[h] \in {t, None}
    BY <1>1
  <2> HIDE DEF h
  <2> QED
    BY <1>1, <1>2, <1>4, <1>6, <2>1, HandleStep
<1>8. ThreadIsRight(t)'
  <2>1. JobIsRight(t)'
    <3>1. Got(t)' = Got(t) /\ job[t].buf = <<>>
      BY <1>1, <1>5, <1>7 DEF Got, ThreadIsRight, JobIsRight
    <3> QED
      BY <1>1, <1>5, <1>7, <3>1 DEF ThreadIsRight, JobIsRight
  <2>2. CallIsRight(t)'
    BY <1>2, <1>7 DEF CallIsRight
  <2>3. PointerIsRight(t)'
    BY <1>3, <1>5, <1>7 DEF PointerIsRight
  <2>4. BufferIsRight(t)'
    BY <1>1, <1>5, <1>7 DEF ThreadIsRight, BufferIsRight
  <2>5. AnswerIsWhole(t)'
    BY <1>5, <1>7 DEF AnswerIsWhole
  <2> QED
    BY <2>1, <2>2, <2>3, <2>4, <2>5 DEF ThreadIsRight
<1> QED
  BY <1>7, <1>8, StepSuffices

\* A return gives the mutex back.
LEMMA Returns ==
    ASSUME IInv, NEW t \in Threads, NEW j \in Job, NEW c \in Call,
           job[t].stage \in {"seek", "loop"},
           job' = [job EXCEPT ![t] = j], Unlock(t),
           call' = [call EXCEPT ![t] = c], UNCHANGED pointer
    PROVE  TypeOK' /\ Leaves(t) /\ job'[t] = j /\ call'[t] = c
PROOF
<1> DEFINE h == HandleOf[job[t].task]
<1>1. TypeOK /\ ThreadIsRight(t)
  BY DEF IInv
<1>2. h \in Handles
  BY <1>1, JobTypes
<1>3. lock[h] \in {t, None}
  BY <1>1, Constants DEF ThreadIsRight, JobIsRight
<1>4. StepOn(h, t, j, c)
  BY <1>1, <1>2 DEF Unlock, TypeOK, ReaderTypeOK, StepOn
<1> HIDE DEF h
<1> QED
  BY <1>1, <1>2, <1>3, <1>4, HandleStep

\* An error leaves nothing of the job.
LEMMA ErrorKeeps ==
    ASSUME IInv, NEW t \in Threads, job[t].stage \in {"seek", "loop"},
           NEW c \in Call, c.stage = "none",
           ReturnError(t), call' = [call EXCEPT ![t] = c], UNCHANGED pointer
    PROVE  IInv'
PROOF
<1>1. job' = [job EXCEPT ![t] = NoJob] /\ Unlock(t)
  BY DEF ReturnError
<1>2. TypeOK' /\ Leaves(t) /\ job'[t] = NoJob /\ call'[t] = c
  BY <1>1, Constants, Returns
<1>3. ThreadIsRight(t)'
  BY <1>2, Constants, EmptyJobIsRight
<1> QED
  BY <1>2, <1>3, StepSuffices

\* An answer without an error keeps what the job has, and must be whole.
LEMMA OkKeeps ==
    ASSUME IInv, NEW t \in Threads, job[t].stage \in {"seek", "loop"},
           NEW c \in Call, c.stage = "none",
           ReturnOk(t), call' = [call EXCEPT ![t] = c], UNCHANGED pointer,
           (job[t].task = "file" => OnDisk(job[t].file)) => Got(t) = job[t].want
    PROVE  IInv'
PROOF
<1> DEFINE j == [job[t] EXCEPT !.stage = "ok"]
<1>1. TypeOK /\ ThreadIsRight(t)
  BY DEF IInv
<1>2. job[t] \in Job
  BY <1>1, JobTypes
<1>3. j \in Job
  BY <1>2 DEF Job
<1>4. /\ j.stage = "ok" /\ j.task = job[t].task /\ j.buf = job[t].buf
      /\ j.want = job[t].want /\ j.at = job[t].at /\ j.file = job[t].file
      /\ j.todo = job[t].todo
  BY <1>2 DEF Job
<1>5. job' = [job EXCEPT ![t] = j] /\ Unlock(t)
  BY <1>1 DEF ReturnOk, TypeOK
<1> HIDE DEF j
<1>6. TypeOK' /\ Leaves(t) /\ job'[t] = j /\ call'[t] = c
  BY <1>3, <1>5, Returns
<1>7. Got(t)' = Got(t)
  BY <1>4, <1>6 DEF Got
<1>8. ThreadIsRight(t)'
  <2>1. JobIsRight(t)'
    BY <1>1, <1>4, <1>6, <1>7 DEF ThreadIsRight, JobIsRight
  <2>2. CallIsRight(t)' /\ PointerIsRight(t)'
    BY <1>4, <1>6, Constants DEF CallIsRight, PointerIsRight
  <2>3. BufferIsRight(t)'
    BY <1>1, <1>4, <1>6 DEF ThreadIsRight, BufferIsRight
  <2>4. AnswerIsWhole(t)'
    BY <1>4, <1>6, <1>7 DEF AnswerIsWhole
  <2> QED
    BY <2>1, <2>2, <2>3, <2>4 DEF ThreadIsRight
<1> QED
  BY <1>6, <1>8, StepSuffices

\* A call that was taken leaves none.
LEMMA TakenIs ==
    ASSUME NEW t \in Threads, Taken(t)
    PROVE  /\ call' = [call EXCEPT ![t] = NoCall] /\ UNCHANGED pointer
           /\ NoCall \in Call /\ NoCall.stage = "none"
PROOF
  BY Constants DEF Taken

LEMMA CallFailedKeeps ==
    ASSUME IInv, NEW t \in Threads, CallFailed(t)
    PROVE  IInv'
PROOF
  BY ErrorKeeps, TakenIs DEF CallFailed

\* Between two calls the function of calls is as with the same call again.
LEMMA BetweenIs ==
    ASSUME IInv, NEW t \in Threads, NEW stage \in {"seek", "loop"}, Between(t, stage)
    PROVE  /\ job[t].stage = stage /\ call[t].stage = "none" /\ call[t] \in Call
           /\ call = [call EXCEPT ![t] = call[t]]
           /\ lock[HandleOf[job[t].task]] = t
PROOF
<1>1. TypeOK /\ ThreadIsRight(t) /\ job[t].stage = stage /\ call[t].stage = "none"
  BY DEF IInv, Between
<1>2. call \in [Threads -> Call] /\ lock[HandleOf[job[t].task]] = t
  BY <1>1 DEF TypeOK, ReaderTypeOK, ThreadIsRight, JobIsRight
<1> QED
  BY <1>1, <1>2

LEMMA BeyondMapKeeps ==
    ASSUME IInv, NEW t \in Threads, BeyondMap(t)
    PROVE  IInv'
PROOF
<1>1. Between(t, "loop") /\ ReturnError(t) /\ UNCHANGED <<pointer, call>>
  BY DEF BeyondMap
<1> QED
  BY <1>1, BetweenIs, ErrorKeeps

LEMMA FinishKeeps ==
    ASSUME IInv, NEW t \in Threads, Finish(t)
    PROVE  IInv'
PROOF
<1>1. /\ Between(t, "loop") /\ ReturnOk(t) /\ UNCHANGED <<pointer, call>>
      /\ Got(t) = job[t].want
  BY DEF Finish
<1> QED
  BY <1>1, BetweenIs, OkKeeps

\* No bytes come back only where the disk ends, hence not for a file that is on it.
LEMMA NoBytesKeeps ==
    ASSUME IInv, NEW t \in Threads, NoBytes(t)
    PROVE  IInv'
PROOF
<1>1. /\ job[t].stage = "loop" /\ call[t].stage = "done" /\ call[t].data = <<>>
      /\ call' = [call EXCEPT ![t] = NoCall] /\ UNCHANGED pointer
      /\ NoCall \in Call /\ NoCall.stage = "none"
  BY TakenIs DEF NoBytes
<1>2. CASE job[t].task # "file"
  BY <1>1, <1>2, ErrorKeeps DEF NoBytes
<1>3. CASE job[t].task = "file"
  <2>1. TypeOK /\ ReadIsRight(t)
    BY <1>1 DEF IInv, ThreadIsRight, CallIsRight, SeekIsRight
  <2> DEFINE f == job[t].file
             l == LogicalPos(t)
  <2>2. f \in Files /\ l \in Nat /\ Mapped(f, l)
    BY <1>3, <2>1, JobTypes DEF ReadIsRight
  <2>3. call[t].pos = PartitionOffset + LogicalToPhysical(f, l) /\ call[t].pos >= DiskSize
    BY <1>1, <1>3, <2>1 DEF ReadIsRight, NextPlace
  <2> HIDE DEF f, l
  <2>4. ~ OnDisk(f)
    <3>1. PICK e \in ExtentMap(f) :
              LogicalToPhysical(f, l) + ExtentRemaining(f, l) = e.phys + e.len
      BY <2>2, Located
    <3>2. e.phys \in Nat /\ e.len \in Nat
      BY <2>2, ExtentIsRecord
    <3>3. LogicalToPhysical(f, l) \in Nat /\ ExtentRemaining(f, l) \in Nat \ {0}
      BY <2>2, Located
    <3>4. PartitionOffset + e.phys + e.len > DiskSize
      BY <2>3, <3>1, <3>2, <3>3, Constants
    <3> QED
      BY <3>2, <3>4, Constants DEF OnDisk
  <2> QED
    BY <1>1, <1>3, <2>4, OkKeeps DEF NoBytes, f
<1> QED
  BY <1>2, <1>3
-----------------------------------------------------------------------------
(* A step of t within the mutex changes its call to c, and perhaps the file  *)
(* pointer of its handle.                                                   *)
CallGoes(t, c) ==
    /\ UNCHANGED <<job, lock>>
    /\ call' = [call EXCEPT ![t] = c]
    /\ pointer' \in [Handles -> Nat]
    /\ \A g \in Handles \ {HandleOf[job[t].task]} : pointer'[g] = pointer[g]

LEMMA CallEffect ==
    ASSUME IInv, NEW t \in Threads, NEW c \in Call,
           job[t].stage \in {"seek", "loop"}, CallGoes(t, c)
    PROVE  /\ TypeOK' /\ Leaves(t) /\ job' = job /\ call'[t] = c
           /\ Got(t)' = Got(t) /\ LogicalPos(t)' = LogicalPos(t)
           /\ NextPlace(t)' = NextPlace(t) /\ NextLen(t)' = NextLen(t)
PROOF
<1> DEFINE h == HandleOf[job[t].task]
<1>1. TypeOK /\ ThreadIsRight(t)
  BY DEF IInv
<1>2. h \in Handles /\ job[t] \in Job
  BY <1>1, JobTypes
<1>3. lock[h] \in {t, None}
  BY <1>1 DEF ThreadIsRight, JobIsRight
<1>4. StepOn(h, t, job[t], c)
  BY <1>1 DEF CallGoes, StepOn, TypeOK
<1> HIDE DEF h
<1>5. TypeOK' /\ Leaves(t) /\ call'[t] = c
  BY <1>1, <1>2, <1>3, <1>4, HandleStep
<1>6. job' = job
  BY DEF CallGoes
<1> QED
  BY <1>5, <1>6 DEF Got, LogicalPos, NextPlace, NextLen

\* Such a step keeps the invariant if the call is right after it.
LEMMA CallKeeps ==
    ASSUME IInv, NEW t \in Threads, NEW c \in Call, c.stage # "none",
           job[t].stage \in {"seek", "loop"}, CallGoes(t, c), CallIsRight(t)'
    PROVE  IInv'
PROOF
<1>1. TypeOK /\ ThreadIsRight(t)
  BY DEF IInv
<1>2. TypeOK' /\ Leaves(t) /\ job' = job /\ call'[t] = c /\ lock' = lock
      /\ Got(t)' = Got(t)
  BY CallEffect DEF CallGoes
<1>3. ThreadIsRight(t)'
  <2>1. JobIsRight(t)' /\ PointerIsRight(t)'
    BY <1>1, <1>2 DEF ThreadIsRight, JobIsRight, PointerIsRight
  <2>2. BufferIsRight(t)' /\ AnswerIsWhole(t)'
    BY <1>1, <1>2 DEF ThreadIsRight, BufferIsRight, AnswerIsWhole
  <2> QED
    BY <2>1, <2>2 DEF ThreadIsRight
<1> QED
  BY <1>2, <1>3, StepSuffices

\* A call that begins.
LEMMA CallBegins ==
    ASSUME IInv, NEW t \in Threads, NEW method \in Methods, NEW stage \in Stages,
           NEW h \in Handles, NEW pos \in Nat, NEW len \in Nat,
           Calls(t, method, stage, h, pos, len), UNCHANGED <<lock, job>>
    PROVE  LET c == [stage |-> stage, method |-> method, handle |-> h, pos |-> pos,
                     len |-> len, data |-> <<>>]
           IN  c \in Call /\ CallGoes(t, c)
PROOF
<1>1. <<>> \in Seq(Nat)
  OBVIOUS
<1>2. pointer \in [Handles -> Nat]
  BY DEF IInv, TypeOK, ReaderTypeOK
<1> QED
  BY <1>1, <1>2 DEF Calls, CallGoes, Call

LEMMA SeekBlockKeeps ==
    ASSUME IInv, NEW t \in Threads, SeekBlock(t)
    PROVE  IInv'
PROOF
<1> DEFINE p == StartOf["volume"] + job[t].at
           c == [stage |-> "move", method |-> "seek", handle |-> "volume",
                 pos |-> p, len |-> 0, data |-> <<>>]
<1>1. TypeOK /\ ThreadIsRight(t) /\ job[t].stage = "seek"
  BY DEF IInv, SeekBlock, Between
<1>2. p = PartitionOffset + job[t].at /\ p \in Nat /\ "volume" \in Handles
  BY <1>1, JobTypes, Constants
<1>3. Calls(t, "seek", "move", "volume", p, 0) /\ UNCHANGED <<lock, job>>
  BY DEF SeekBlock, SeekStart
<1> HIDE DEF p
<1>4. c \in Call /\ CallGoes(t, c)
  BY <1>2, <1>3, CallBegins DEF Stages, Methods
<1>5. c.stage = "move" /\ c.method = "seek" /\ c.handle = "volume" /\ c.pos = p
  OBVIOUS
<1> HIDE DEF c
<1>6. job' = job /\ call'[t] = c
  BY <1>1, <1>4, CallEffect
<1>7. HandleOf[job[t].task] = "volume"
  BY <1>1, Constants DEF ThreadIsRight, JobIsRight
<1>8. CallIsRight(t)'
  BY <1>1, <1>2, <1>5, <1>6, <1>7 DEF CallIsRight, SeekIsRight
<1> QED
  BY <1>1, <1>4, <1>5, <1>8, CallKeeps

LEMMA ReadExactKeeps ==
    ASSUME IInv, NEW t \in Threads, ReadExact(t)
    PROVE  IInv'
PROOF
<1> DEFINE n == job[t].want - Got(t)
           c == [stage |-> "query", method |-> "read", handle |-> "volume",
                 pos |-> 0, len |-> n, data |-> <<>>]
<1>1. /\ TypeOK /\ ThreadIsRight(t) /\ job[t].stage = "loop" /\ job[t].task = "block"
      /\ Got(t) < job[t].want /\ call[t].stage = "none"
  BY DEF IInv, ReadExact, Between
<1>2. n \in Nat /\ n # 0 /\ n = NextLen(t) /\ "volume" \in Handles
  BY <1>1, JobTypes, Constants DEF NextLen
<1>3. Calls(t, "read", "query", "volume", 0, n) /\ UNCHANGED <<lock, job>>
  BY <1>2 DEF ReadExact, Read
<1> HIDE DEF n
<1>4. c \in Call /\ CallGoes(t, c)
  BY <1>2, <1>3, CallBegins DEF Stages, Methods
<1>5. c.stage = "query" /\ c.method = "read" /\ c.handle = "volume" /\ c.len = n
  OBVIOUS
<1> HIDE DEF c
<1>6. /\ job' = job /\ call'[t] = c /\ Got(t)' = Got(t)
      /\ NextPlace(t)' = NextPlace(t) /\ NextLen(t)' = NextLen(t)
  BY <1>1, <1>4, CallEffect
<1>7. HandleOf[job[t].task] = "volume"
  BY <1>1, Constants
<1>8. pointer'["volume"] = NextPlace(t)
  BY <1>1, <1>3 DEF ThreadIsRight, PointerIsRight, Calls
<1>9. CallIsRight(t)'
  BY <1>1, <1>2, <1>5, <1>6, <1>7, <1>8 DEF CallIsRight, ReadIsRight
<1> QED
  BY <1>1, <1>4, <1>5, <1>9, CallKeeps

LEMMA NextChunkKeeps ==
    ASSUME IInv, NEW t \in Threads, NextChunk(t)
    PROVE  IInv'
PROOF
<1> DEFINE f == job[t].file
           l == LogicalPos(t)
           p == PartitionOffset + LogicalToPhysical(f, l)
           n == Lesser(job[t].want - Got(t), ExtentRemaining(f, l))
           c == [stage |-> "align", method |-> "read_at_absolute", handle |-> "raw",
                 pos |-> p, len |-> n, data |-> <<>>]
<1>1. /\ TypeOK /\ ThreadIsRight(t) /\ job[t].stage = "loop" /\ job[t].task = "file"
      /\ Got(t) < job[t].want /\ call[t].stage = "none" /\ Mapped(f, l)
  BY DEF IInv, NextChunk, Between
<1>2. f \in Files /\ l \in Nat
  BY <1>1, JobTypes
<1>3. p = NextPlace(t) /\ n = NextLen(t)
  BY <1>1 DEF NextPlace, NextLen
<1>4. LogicalToPhysical(f, l) \in Nat /\ ExtentRemaining(f, l) \in Nat \ {0}
  BY <1>1, <1>2, Located
<1>5. job[t].want - Got(t) \in Nat \ {0}
  BY <1>1, JobTypes
<1>6. p \in Nat /\ n \in Nat /\ n # 0 /\ "raw" \in Handles
  BY <1>4, <1>5, Constants DEF Lesser
<1>7. Calls(t, "read_at_absolute", "align", "raw", p, n) /\ UNCHANGED <<lock, job>>
  BY <1>6 DEF NextChunk, ReadAtAbsolute
<1> HIDE DEF p, n
<1>8. c \in Call /\ CallGoes(t, c)
  BY <1>6, <1>7, CallBegins DEF Stages, Methods
<1>9. /\ c.stage = "align" /\ c.method = "read_at_absolute" /\ c.handle = "raw"
      /\ c.len = n /\ c.pos = p
  OBVIOUS
<1> HIDE DEF c
<1>10. /\ job' = job /\ call'[t] = c /\ Got(t)' = Got(t)
       /\ LogicalPos(t)' = LogicalPos(t)
       /\ NextPlace(t)' = NextPlace(t) /\ NextLen(t)' = NextLen(t)
  BY <1>1, <1>8, CallEffect
<1>11. HandleOf[job[t].task] = "raw"
  BY <1>1, Constants
<1>12. CallIsRight(t)'
  BY <1>1, <1>3, <1>9, <1>10, <1>11 DEF CallIsRight, ReadIsRight
<1> QED
  BY <1>1, <1>8, <1>9, <1>12, CallKeeps
-----------------------------------------------------------------------------
\* A call of Windows within a method.
LEMMA InACall ==
    ASSUME IInv, NEW t \in Threads, call[t].stage # "none"
    PROVE  /\ TypeOK /\ ThreadIsRight(t) /\ job[t].stage \in {"seek", "loop"}
           /\ SeekIsRight(t) \/ ReadIsRight(t)
           /\ call[t].handle = HandleOf[job[t].task]
           /\ call[t] \in Call
           /\ pointer \in [Handles -> Nat]
PROOF
<1>1. TypeOK /\ ThreadIsRight(t)
  BY DEF IInv
<1>2. pointer \in [Handles -> Nat]
  BY <1>1 DEF TypeOK, ReaderTypeOK
<1> QED
  BY <1>1, <1>2, CallerHolds, CallTypes DEF ThreadIsRight, CallIsRight

LEMMA QueryKeeps ==
    ASSUME IInv, NEW t \in Threads, Query(t), UNCHANGED <<lock, job>>
    PROVE  IInv'
PROOF
<1> DEFINE h == call[t].handle
           c == [call[t] EXCEPT !.stage = "align", !.pos = pointer[h]]
<1>1. call[t].stage = "query"
  BY DEF Query, In
<1>2. /\ TypeOK /\ job[t].stage = "loop" /\ ReadIsRight(t) /\ call[t] \in Call
      /\ h = HandleOf[job[t].task] /\ pointer \in [Handles -> Nat] /\ h \in Handles
  BY <1>1, InACall, CallerHolds DEF SeekIsRight, ReadIsRight
<1>3. job[t].task = "block" /\ h = "volume" /\ pointer[h] = NextPlace(t)
  BY <1>1, <1>2, Constants DEF ReadIsRight
<1>4. call' = [call EXCEPT ![t] = c] /\ UNCHANGED pointer
  BY <1>2 DEF Query, TypeOK, ReaderTypeOK
<1>5. pointer[h] \in Nat
  BY <1>2
<1>6. /\ c \in Call /\ c.stage = "align" /\ c.pos = pointer[h] /\ c.handle = h
      /\ c.len = call[t].len /\ c.method = call[t].method
  BY <1>2, <1>5 DEF Call, Stages
<1> HIDE DEF c
<1>7. CallGoes(t, c)
  BY <1>2, <1>4 DEF CallGoes
<1>8. /\ job' = job /\ call'[t] = c /\ Got(t)' = Got(t)
      /\ LogicalPos(t)' = LogicalPos(t)
      /\ NextPlace(t)' = NextPlace(t) /\ NextLen(t)' = NextLen(t)
  BY <1>2, <1>6, <1>7, CallEffect
<1>9. ReadIsRight(t)'
  BY <1>2, <1>3, <1>6, <1>8 DEF ReadIsRight
<1>10. CallIsRight(t)'
  BY <1>2, <1>6, <1>8, <1>9 DEF CallIsRight
<1> QED
  BY <1>2, <1>6, <1>7, <1>10, CallKeeps

LEMMA AlignKeeps ==
    ASSUME IInv, NEW t \in Threads, Align(t), UNCHANGED <<lock, job>>
    PROVE  IInv'
PROOF
<1> DEFINE h == call[t].handle
           c == [call[t] EXCEPT !.stage = "transfer"]
<1>1. call[t].stage = "align"
  BY DEF Align, In
<1>2. /\ TypeOK /\ job[t].stage = "loop" /\ ReadIsRight(t) /\ call[t] \in Call
      /\ h = HandleOf[job[t].task] /\ pointer \in [Handles -> Nat] /\ h \in Handles
  BY <1>1, InACall, CallerHolds DEF SeekIsRight, ReadIsRight
<1>3. call' = [call EXCEPT ![t] = c]
      /\ pointer' = [pointer EXCEPT ![h] = AlignedPos(call[t].pos)]
  BY <1>2 DEF Align, Goes, Moves, TypeOK, ReaderTypeOK
<1>4. AlignedPos(call[t].pos) \in Nat
  BY <1>2, CallTypes, Aligned
<1>5. /\ c \in Call /\ c.stage = "transfer" /\ c.pos = call[t].pos /\ c.handle = h
      /\ c.len = call[t].len /\ c.method = call[t].method
  BY <1>2 DEF Call, Stages
<1> HIDE DEF c
<1>6. CallGoes(t, c) /\ pointer'[h] = AlignedPos(call[t].pos)
  BY <1>2, <1>3, <1>4 DEF CallGoes
<1>7. /\ job' = job /\ call'[t] = c /\ Got(t)' = Got(t)
      /\ LogicalPos(t)' = LogicalPos(t)
      /\ NextPlace(t)' = NextPlace(t) /\ NextLen(t)' = NextLen(t)
  BY <1>2, <1>5, <1>6, CallEffect
<1>8. ReadIsRight(t)'
  BY <1>1, <1>2, <1>5, <1>6, <1>7 DEF ReadIsRight
<1>9. CallIsRight(t)'
  BY <1>2, <1>5, <1>7, <1>8 DEF CallIsRight
<1> QED
  BY <1>2, <1>5, <1>6, <1>9, CallKeeps

\* ReadFile is right because the pointer is still where Align has put it.
LEMMA TransferKeeps ==
    ASSUME IInv, NEW t \in Threads, Transfer(t), UNCHANGED <<lock, job>>
    PROVE  IInv'
PROOF
<1> DEFINE h == call[t].handle
           pos == call[t].pos
           len == call[t].len
           from == pointer[h]
           read == Available(pos, len)
           n == Returned(pos, len)
           d == Bytes(pos, n)
           c == [call[t] EXCEPT !.data = d,
                     !.stage = IF call[t].method = "read" THEN "restore" ELSE "done"]
<1>1. call[t].stage = "transfer"
  BY DEF Transfer, In
<1>2. /\ TypeOK /\ job[t].stage = "loop" /\ ReadIsRight(t) /\ call[t] \in Call
      /\ h = HandleOf[job[t].task] /\ pointer \in [Handles -> Nat] /\ h \in Handles
  BY <1>1, InACall, CallerHolds DEF SeekIsRight, ReadIsRight
<1>3. pos \in Nat /\ len \in Nat
  BY <1>2, CallTypes
<1>4. len # 0
  <2>1. len = NextLen(t) /\ Got(t) < job[t].want
    BY <1>2 DEF ReadIsRight
  <2>2. job[t].want - Got(t) \in Nat \ {0} /\ LogicalPos(t) \in Nat /\ job[t].file \in Files
    BY <1>2, <2>1, JobTypes
  <2>3. CASE job[t].task = "file"
    <3>1. Mapped(job[t].file, LogicalPos(t))
      BY <1>2, <2>3 DEF ReadIsRight
    <3>2. ExtentRemaining(job[t].file, LogicalPos(t)) \in Nat \ {0}
      BY <2>2, <3>1, Located
    <3> QED
      BY <2>1, <2>2, <2>3, <3>2 DEF NextLen, Lesser
  <2>4. CASE job[t].task # "file"
    BY <2>1, <2>2, <2>4 DEF NextLen
  <2> QED
    BY <2>3, <2>4
<1>5. from = AlignedPos(pos) /\ from + SectorOffset(pos) = pos /\ from \in Nat
  BY <1>1, <1>2, <1>3, Aligned DEF ReadIsRight
<1>6. /\ read \in Nat /\ n \in Nat /\ n <= len
      /\ n # 0 => pos + n <= DiskSize
      /\ n = 0 => pos >= DiskSize
  <2>1. PICK q \in Nat, k \in Nat \ {0} : q = pos /\ k = len
    BY <1>3, <1>4
  <2>2. /\ Available(q, k) \in Nat
        /\ Returned(q, k) \in 0 .. k
        /\ Returned(q, k) # 0 => q + Returned(q, k) <= DiskSize
        /\ Returned(q, k) = 0 => q >= DiskSize
    BY TransferGives
  <2>3. read = Available(q, k) /\ n = Returned(q, k)
    BY <2>1
  <2> HIDE DEF read, n, pos, len
  <2> QED
    BY <2>1, <2>2, <2>3
<1>7. /\ call' = [call EXCEPT ![t] = c]
      /\ pointer' = [pointer EXCEPT ![h] = from + read]
  <2> DEFINE left == IF from <= DiskSize THEN DiskSize - from ELSE 0
             rd == Lesser(AlignedLen(pos, len), left)
             av == IF rd <= SectorOffset(pos) THEN 0 ELSE rd - SectorOffset(pos)
             stage == IF call[t].method = "read" THEN "restore" ELSE "done"
  <2>1. /\ Moves(t, from + rd)
        /\ call' = [call EXCEPT
               ![t].data = Bytes(from + SectorOffset(pos), Lesser(av, len)),
               ![t].stage = stage]
    BY DEF Transfer
  <2>2. rd = read /\ Lesser(av, len) = n
    BY <1>5 DEF Available, Returned
  <2> HIDE DEF rd, av, stage, read, n
  <2>3. call' = [call EXCEPT ![t].data = d, ![t].stage = stage]
    BY <1>5, <2>1, <2>2
  <2>4. c = [call[t] EXCEPT !.data = d, !.stage = stage]
    BY DEF stage
  <2>5. pointer' = [pointer EXCEPT ![h] = from + read]
    BY <2>1, <2>2 DEF Moves
  <2> HIDE DEF c, d
  <2>6. call' = [call EXCEPT ![t] = [call[t] EXCEPT !.data = d, !.stage = stage]]
    BY <1>2, <2>3 DEF TypeOK, ReaderTypeOK
  <2> QED
    BY <2>4, <2>5, <2>6
<1>8. d \in Seq(Nat) /\ Len(d) = n /\ (d = <<>> <=> n = 0)
  <2>1. d \in Seq(Nat) /\ Len(d) = n
    BY <1>3, <1>6, BytesType
  <2> HIDE DEF d
  <2> QED
    BY <2>1, EmptySeq
<1> HIDE DEF read, n
<1>9. d = Bytes(pos, Len(d))
  BY <1>8
<1> HIDE DEF d
<1>10. /\ c \in Call /\ c.pos = pos /\ c.handle = h /\ c.data = d
       /\ c.len = len /\ c.method = call[t].method
       /\ c.stage = IF call[t].method = "read" THEN "restore" ELSE "done"
  BY <1>2, <1>8 DEF Call, Stages
<1> HIDE DEF c
<1>11. CallGoes(t, c)
  BY <1>2, <1>5, <1>6, <1>7 DEF CallGoes
<1>12. /\ job' = job /\ call'[t] = c /\ Got(t)' = Got(t)
       /\ LogicalPos(t)' = LogicalPos(t)
       /\ NextPlace(t)' = NextPlace(t) /\ NextLen(t)' = NextLen(t)
  BY <1>2, <1>10, <1>11, CallEffect
<1>13. ReadIsRight(t)'
  <2>1. call[t].method = "read" => job[t].task = "block"
    BY <1>2, JobTypes DEF ReadIsRight
  <2>2. call[t].method # "read" => job[t].task = "file"
    BY <1>2 DEF ReadIsRight
  <2> QED
    BY <1>1, <1>2, <1>6, <1>8, <1>9, <1>10, <1>12, <2>1, <2>2 DEF ReadIsRight
<1>14. CallIsRight(t)'
  BY <1>2, <1>10, <1>12, <1>13 DEF CallIsRight
<1> QED
  BY <1>2, <1>10, <1>11, <1>14, CallKeeps

\* The pointer is put behind what was read.
LEMMA RestoreKeeps ==
    ASSUME IInv, NEW t \in Threads, Restore(t), UNCHANGED <<lock, job>>
    PROVE  IInv'
PROOF
<1> DEFINE h == call[t].handle
           to == call[t].pos + Len(call[t].data)
           c == [call[t] EXCEPT !.stage = "done"]
<1>1. call[t].stage = "restore"
  BY DEF Restore, In
<1>2. /\ TypeOK /\ job[t].stage = "loop" /\ ReadIsRight(t) /\ call[t] \in Call
      /\ h = HandleOf[job[t].task] /\ pointer \in [Handles -> Nat] /\ h \in Handles
  BY <1>1, InACall, CallerHolds DEF SeekIsRight, ReadIsRight
<1>3. job[t].task = "block" /\ h = "volume"
  BY <1>1, <1>2, Constants DEF ReadIsRight
<1>4. call' = [call EXCEPT ![t] = c] /\ pointer' = [pointer EXCEPT ![h] = to]
  BY <1>2 DEF Restore, Goes, Moves, TypeOK, ReaderTypeOK
<1>5. to \in Nat
  BY <1>2, CallTypes
<1>6. /\ c \in Call /\ c.stage = "done" /\ c.pos = call[t].pos /\ c.handle = h
      /\ c.len = call[t].len /\ c.method = call[t].method /\ c.data = call[t].data
  BY <1>2 DEF Call, Stages
<1> HIDE DEF c
<1>7. CallGoes(t, c) /\ pointer'["volume"] = to
  BY <1>2, <1>3, <1>4, <1>5 DEF CallGoes
<1>8. /\ job' = job /\ call'[t] = c /\ Got(t)' = Got(t)
      /\ LogicalPos(t)' = LogicalPos(t)
      /\ NextPlace(t)' = NextPlace(t) /\ NextLen(t)' = NextLen(t)
  BY <1>2, <1>6, <1>7, CallEffect
<1>9. ReadIsRight(t)'
  BY <1>1, <1>2, <1>3, <1>6, <1>7, <1>8 DEF ReadIsRight
<1>10. CallIsRight(t)'
  BY <1>2, <1>6, <1>8, <1>9 DEF CallIsRight
<1> QED
  BY <1>2, <1>6, <1>7, <1>10, CallKeeps

LEMMA MoveKeeps ==
    ASSUME IInv, NEW t \in Threads, Move(t), UNCHANGED <<lock, job>>
    PROVE  IInv'
PROOF
<1> DEFINE h == call[t].handle
           c == [call[t] EXCEPT !.stage = "done"]
<1>1. call[t].stage = "move"
  BY DEF Move, In
<1>2. /\ TypeOK /\ job[t].stage = "seek" /\ SeekIsRight(t) /\ call[t] \in Call
      /\ h = HandleOf[job[t].task] /\ pointer \in [Handles -> Nat] /\ h \in Handles
      /\ ThreadIsRight(t)
  BY <1>1, InACall, CallerHolds DEF SeekIsRight, ReadIsRight
<1>3. h = "volume"
  BY <1>2, Constants DEF ThreadIsRight, JobIsRight
<1>4. call' = [call EXCEPT ![t] = c] /\ pointer' = [pointer EXCEPT ![h] = call[t].pos]
  BY <1>2 DEF Move, Goes, Moves, TypeOK, ReaderTypeOK
<1>5. call[t].pos \in Nat
  BY <1>2, CallTypes
<1>6. /\ c \in Call /\ c.stage = "done" /\ c.pos = call[t].pos /\ c.handle = h
      /\ c.method = call[t].method
  BY <1>2 DEF Call, Stages
<1> HIDE DEF c
<1>7. CallGoes(t, c) /\ pointer'["volume"] = call[t].pos
  BY <1>2, <1>3, <1>4, <1>5 DEF CallGoes
<1>8. job' = job /\ call'[t] = c
  BY <1>2, <1>6, <1>7, CallEffect
<1>9. SeekIsRight(t)'
  BY <1>2, <1>6, <1>7, <1>8 DEF SeekIsRight
<1>10. CallIsRight(t)'
  BY <1>2, <1>6, <1>8, <1>9 DEF CallIsRight
<1> QED
  BY <1>2, <1>6, <1>7, <1>10, CallKeeps

LEMMA WindowsFailsKeeps ==
    ASSUME IInv, NEW t \in Threads, WindowsFails(t), UNCHANGED <<lock, job>>
    PROVE  IInv'
PROOF
<1> DEFINE c == [call[t] EXCEPT !.stage = "failed", !.data = <<>>]
<1>1. call[t].stage # "none"
  BY DEF WindowsFails
<1>2. /\ TypeOK /\ job[t].stage \in {"seek", "loop"} /\ call[t] \in Call
      /\ SeekIsRight(t) \/ ReadIsRight(t)
      /\ call[t].handle = HandleOf[job[t].task] /\ pointer \in [Handles -> Nat]
  BY <1>1, InACall
<1>3. call' = [call EXCEPT ![t] = c] /\ UNCHANGED pointer
  BY <1>2 DEF WindowsFails, TypeOK, ReaderTypeOK
<1>4. <<>> \in Seq(Nat)
  OBVIOUS
<1>5. /\ c \in Call /\ c.stage = "failed" /\ c.handle = call[t].handle
      /\ c.len = call[t].len /\ c.method = call[t].method /\ c.pos = call[t].pos
  BY <1>2, <1>4 DEF Call, Stages
<1> HIDE DEF c
<1>6. CallGoes(t, c)
  BY <1>2, <1>3 DEF CallGoes
<1>7. /\ job' = job /\ call'[t] = c /\ Got(t)' = Got(t)
      /\ LogicalPos(t)' = LogicalPos(t)
      /\ NextPlace(t)' = NextPlace(t) /\ NextLen(t)' = NextLen(t)
  BY <1>2, <1>5, <1>6, CallEffect
<1>8. SeekIsRight(t)' \/ ReadIsRight(t)'
  BY <1>2, <1>5, <1>7 DEF SeekIsRight, ReadIsRight
<1>9. CallIsRight(t)'
  BY <1>2, <1>5, <1>7, <1>8 DEF CallIsRight
<1> QED
  BY <1>2, <1>5, <1>6, <1>9, CallKeeps
-----------------------------------------------------------------------------
LEMMA SoughtKeeps ==
    ASSUME IInv, NEW t \in Threads, Sought(t)
    PROVE  IInv'
PROOF
<1> DEFINE h == HandleOf[job[t].task]
           j == [job[t] EXCEPT !.stage = "loop"]
<1>1. /\ job[t].stage = "seek" /\ call[t].stage = "done" /\ UNCHANGED lock
      /\ call' = [call EXCEPT ![t] = NoCall] /\ UNCHANGED pointer
      /\ NoCall \in Call /\ NoCall.stage = "none"
  BY TakenIs DEF Sought
<1>2. TypeOK /\ ThreadIsRight(t) /\ SeekIsRight(t) /\ pointer \in [Handles -> Nat]
  BY <1>1, InACall DEF ReadIsRight
<1>3. job[t] \in Job /\ h \in Handles
  BY <1>2, JobTypes
<1>4. job[t].task = "block" /\ job[t].buf = <<>> /\ lock[h] = t
  BY <1>1, <1>2 DEF ThreadIsRight, JobIsRight
<1>5. /\ j \in Job /\ j.stage = "loop" /\ j.task = "block" /\ j.buf = <<>>
      /\ j.want = job[t].want /\ j.at = job[t].at
  BY <1>3, <1>4 DEF Job
<1>6. job' = [job EXCEPT ![t] = j]
  BY <1>2 DEF Sought, TypeOK
<1> HIDE DEF j
<1>7. StepOn(h, t, j, NoCall)
  BY <1>1, <1>2, <1>6 DEF StepOn, TypeOK
<1>8. TypeOK' /\ Leaves(t) /\ job'[t] = j /\ call'[t] = NoCall
  <2>1. lock[h] \in {t, None}
    BY <1>4
  <2> HIDE DEF h
  <2> QED
    BY <1>1, <1>2, <1>3, <1>5, <1>7, <2>1, HandleStep
<1>9. Got(t) = 0 /\ Got(t)' = 0 /\ LogicalPos(t)' = job[t].at
  <2>1. Got(t) = 0 /\ Got(t)' = 0
    BY <1>4, <1>5, <1>8 DEF Got
  <2> QED
    BY <1>2, <1>5, <1>8, <2>1, JobTypes DEF LogicalPos
<1>10. JobIsRight(t)'
  BY <1>1, <1>2, <1>4, <1>5, <1>8, <1>9, JobTypes, Constants DEF ThreadIsRight, JobIsRight
<1>11. pointer["volume"] = PartitionOffset + job[t].at
  BY <1>1, <1>2 DEF SeekIsRight
<1>12. PointerIsRight(t)'
  BY <1>1, <1>5, <1>8, <1>9, <1>11 DEF PointerIsRight, NextPlace
<1>13. CallIsRight(t)' /\ AnswerIsWhole(t)'
  BY <1>1, <1>5, <1>8 DEF CallIsRight, AnswerIsWhole
<1>14. BufferIsRight(t)'
  BY <1>5, <1>8 DEF BufferIsRight
<1> QED
  BY <1>8, <1>10, <1>12, <1>13, <1>14, StepSuffices DEF ThreadIsRight

LEMMA NextBlockKeeps ==
    ASSUME IInv, NEW t \in Threads, NextBlock(t)
    PROVE  IInv'
PROOF
<1> DEFINE j == [job[t] EXCEPT !.stage = "seek", !.todo = Tail(job[t].todo),
                     !.at = Head(Tail(job[t].todo)) * BlockSize, !.buf = <<>>]
<1>1. /\ TypeOK /\ ThreadIsRight(t) /\ job[t].stage = "loop" /\ call[t].stage = "none"
      /\ Len(job[t].todo) > 1 /\ call[t] \in Call
      /\ call = [call EXCEPT ![t] = call[t]] /\ UNCHANGED <<pointer, call, lock>>
  BY BetweenIs DEF IInv, NextBlock, Between
<1>2. job[t] \in Job /\ job[t].todo \in Seq(Nat)
  BY <1>1, JobTypes DEF Job
<1>3. Tail(job[t].todo) \in Seq(Nat) /\ Head(Tail(job[t].todo)) \in Nat
  <2> DEFINE s == job[t].todo
  <2>1. s \in Seq(Nat) /\ Len(s) > 1
    BY <1>1, <1>2
  <2> HIDE DEF s
  <2>2. Tail(s) \in Seq(Nat) /\ Len(Tail(s)) = Len(s) - 1
    BY <2>1
  <2>3. PICK u \in Seq(Nat) : u = Tail(s)
    BY <2>2
  <2>4. Len(u) \in Nat /\ Len(u) >= 1
    BY <2>1, <2>2, <2>3
  <2>5. Head(u) \in Nat
    BY <2>4
  <2> QED
    BY <2>2, <2>3, <2>5 DEF s
<1>4. Head(Tail(job[t].todo)) * BlockSize \in Nat
  <2>1. PICK x \in Nat : x = Head(Tail(job[t].todo))
    BY <1>3
  <2>2. x * BlockSize \in Nat
    BY Constants, SMT
  <2> QED
    BY <2>1, <2>2
<1>5. <<>> \in Seq(Nat)
  OBVIOUS
<1>6. /\ j \in Job /\ j.stage = "seek" /\ j.task = job[t].task /\ j.buf = <<>>
      /\ j.want = job[t].want
  BY <1>2, <1>3, <1>4, <1>5 DEF Job
<1>7. job' = [job EXCEPT ![t] = j]
  BY <1>1 DEF NextBlock, TypeOK
<1> HIDE DEF j
<1>8. TypeOK' /\ Leaves(t) /\ job'[t] = j /\ call'[t] = call[t]
  <2>1. PICK c \in Call : c = call[t] /\ call' = [call EXCEPT ![t] = c]
    BY <1>1
  <2>2. TypeOK /\ j \in Job /\ UNCHANGED <<pointer, lock>>
    BY <1>1, <1>6
  <2>3. TypeOK' /\ Leaves(t) /\ job'[t] = j /\ call'[t] = c
    BY <1>7, <2>1, <2>2, OwnStep
  <2> QED
    BY <2>1, <2>3
<1>9. Got(t)' = 0
  BY <1>6, <1>8 DEF Got
<1>10. job[t].task = "block"
  BY <1>1, <1>2, JobTypes DEF ThreadIsRight, JobIsRight
<1>11. JobIsRight(t)'
  BY <1>1, <1>6, <1>8, <1>9, <1>10, Constants DEF ThreadIsRight, JobIsRight
<1>12. CallIsRight(t)' /\ AnswerIsWhole(t)' /\ PointerIsRight(t)' /\ BufferIsRight(t)'
  BY <1>1, <1>6, <1>8 DEF CallIsRight, AnswerIsWhole, PointerIsRight, BufferIsRight
<1> QED
  BY <1>8, <1>11, <1>12, StepSuffices DEF ThreadIsRight

\* What was read is what comes next, so the buffer stays right and whole.
LEMMA AbsorbKeeps ==
    ASSUME IInv, NEW t \in Threads, Absorb(t)
    PROVE  IInv'
PROOF
<1> DEFINE h == HandleOf[job[t].task]
           d == call[t].data
           n == Len(call[t].data)
           g == Got(t)
           l == LogicalPos(t)
           j == [job[t] EXCEPT !.buf = job[t].buf \o d]
<1>1. /\ job[t].stage = "loop" /\ call[t].stage = "done" /\ UNCHANGED lock
      /\ call' = [call EXCEPT ![t] = NoCall] /\ UNCHANGED pointer
      /\ NoCall \in Call /\ NoCall.stage = "none"
  BY TakenIs DEF Absorb
<1>2. TypeOK /\ ThreadIsRight(t) /\ ReadIsRight(t) /\ pointer \in [Handles -> Nat]
  BY <1>1, InACall DEF SeekIsRight
<1>3. /\ job[t] \in Job /\ h \in Handles /\ job[t].buf \in Seq(Nat) /\ g \in Nat
      /\ DOMAIN job[t].buf = 1 .. g /\ l \in Nat /\ l = job[t].at + g
      /\ job[t].at \in Nat /\ job[t].want \in Nat /\ job[t].file \in Files
      /\ job[t].task \in {"file", "block"}
  BY <1>2, JobTypes DEF LogicalPos
<1>4. d \in Seq(Nat) /\ n \in Nat /\ call[t].pos \in Nat
  BY <1>2, CallTypes
<1>5. /\ call[t].pos = NextPlace(t) /\ n <= NextLen(t) /\ d = Bytes(call[t].pos, n)
      /\ g < job[t].want
      /\ job[t].task = "block" => pointer["volume"] = call[t].pos + n
      /\ job[t].task = "file" => Mapped(job[t].file, l)
  BY <1>1, <1>2 DEF ReadIsRight
<1>6. \A i \in 1 .. n : d[i] = call[t].pos + i - 1
  <2>1. PICK q \in Nat, m \in Nat : q = call[t].pos /\ m = n
    BY <1>4
  <2>2. \A i \in 1 .. m : Bytes(q, m)[i] = q + i - 1
    BY BytesType
  <2>3. d = Bytes(q, m)
    BY <1>5, <2>1
  <2> HIDE DEF d, n
  <2> QED
    BY <2>1, <2>2, <2>3
<1>7. lock[h] = t
  BY <1>1, <1>2 DEF ThreadIsRight, JobIsRight
<1> DEFINE e == job[t].buf \o d
<1>8. /\ e \in Seq(Nat) /\ Len(e) = g + n /\ DOMAIN e = 1 .. g + n
      /\ \A i \in 1 .. g : e[i] = job[t].buf[i]
      /\ \A i \in g + 1 .. g + n : e[i] = d[i - g]
  <2>1. PICK b \in Seq(Nat), a \in Seq(Nat) : b = job[t].buf /\ a = d
    BY <1>3, <1>4
  <2>2. Len(b) = g /\ Len(a) = n
    BY <2>1 DEF Got
  <2>3. /\ b \o a \in Seq(Nat) /\ Len(b \o a) = Len(b) + Len(a)
        /\ \A i \in 1 .. Len(b) + Len(a) :
               (b \o a)[i] = IF i <= Len(b) THEN b[i] ELSE a[i - Len(b)]
    BY ConcatProperties
  <2>4. e = b \o a
    BY <2>1
  <2> HIDE DEF e, g, n
  <2>5. DOMAIN e = 1 .. Len(e)
    BY <2>3, <2>4
  <2>6. PICK x \in Nat, y \in Nat : x = g /\ y = n
    BY <1>3, <1>4
  <2>7. \A i \in 1 .. x + y : e[i] = IF i <= x THEN b[i] ELSE a[i - x]
    BY <2>2, <2>3, <2>4, <2>6
  <2>8. /\ \A i \in 1 .. x : e[i] = b[i]
        /\ \A i \in x + 1 .. x + y : e[i] = a[i - x]
    BY <2>7
  <2> QED
    BY <2>1, <2>2, <2>3, <2>4, <2>5, <2>6, <2>8
<1>9. /\ j \in Job /\ j.stage = "loop" /\ j.task = job[t].task
      /\ j.buf = e /\ j.want = job[t].want /\ j.at = job[t].at
      /\ j.todo = job[t].todo /\ j.file = job[t].file
  BY <1>1, <1>3, <1>8 DEF Job
<1>10. job' = [job EXCEPT ![t] = j]
  BY <1>2 DEF Absorb, TypeOK
<1> HIDE DEF j, e, d, g, l, n
<1>11. StepOn(h, t, j, NoCall)
  BY <1>1, <1>2, <1>10 DEF StepOn, TypeOK
<1>12. TypeOK' /\ Leaves(t) /\ job'[t] = j /\ call'[t] = NoCall
  <2>1. lock[h] \in {t, None}
    BY <1>7
  <2> HIDE DEF h
  <2> QED
    BY <1>1, <1>2, <1>3, <1>9, <1>11, <2>1, HandleStep
<1>13. Got(t)' = g + n
  BY <1>8, <1>9, <1>12 DEF Got
<1>14. LogicalPos(t)' = l + n
  BY <1>3, <1>4, <1>9, <1>12, <1>13 DEF LogicalPos
<1>15. n <= job[t].want - g
  <2>1. NextLen(t) <= job[t].want - g
    <3>1. job[t].want - g \in Nat
      BY <1>3, <1>5
    <3>2. CASE job[t].task = "file"
      <4>1. ExtentRemaining(job[t].file, l) \in Nat
        BY <1>3, <1>5, <3>2, Located
      <4>2. NextLen(t) = Lesser(job[t].want - g, ExtentRemaining(job[t].file, l))
        BY <3>2 DEF NextLen, g, l
      <4> QED
        BY <3>1, <4>1, <4>2, LesserIs
    <3>3. CASE job[t].task # "file"
      BY <3>1, <3>3 DEF NextLen, g
    <3> QED
      BY <3>2, <3>3
  <2>2. NextLen(t) \in Nat
    BY <1>2, CallTypes DEF ReadIsRight
  <2> QED
    BY <1>3, <1>4, <1>5, <2>1, <2>2
<1>16. JobIsRight(t)'
  BY <1>1, <1>2, <1>3, <1>4, <1>7, <1>9, <1>12, <1>13, <1>15 DEF ThreadIsRight, JobIsRight
<1>17. PointerIsRight(t)'
  <2>1. job[t].task = "block" => pointer["volume"] = PartitionOffset + (l + n)
    BY <1>3, <1>4, <1>5, Constants DEF NextPlace, l
  <2> QED
    BY <1>1, <1>9, <1>12, <1>14, <2>1 DEF PointerIsRight, NextPlace
<1>18. CallIsRight(t)' /\ AnswerIsWhole(t)'
  BY <1>1, <1>9, <1>12 DEF CallIsRight, AnswerIsWhole
<1>19. BufferIsRight(t)'
  <2> SUFFICES ASSUME NEW i \in 1 .. g + n
               PROVE  /\ job[t].task = "block" =>
                             j.buf[i] = PartitionOffset + job[t].at + i - 1
                      /\ job[t].task = "file" /\ Dense(job[t].file) =>
                             IsByteOf(job[t].file, job[t].at + i - 1, j.buf[i])
    <3>1. DOMAIN j.buf = 1 .. g + n
      BY <1>8, <1>9
    <3> QED
      BY <1>9, <1>12, <3>1 DEF BufferIsRight
  <2>1. CASE i <= g
    <3>1. i \in 1 .. g
      BY <1>3, <1>4, <2>1
    <3>2. i \in DOMAIN job[t].buf /\ j.buf[i] = job[t].buf[i]
      BY <1>3, <1>8, <1>9, <3>1
    <3> QED
      BY <1>2, <3>2 DEF ThreadIsRight, BufferIsRight
  <2>2. CASE i > g
    <3> DEFINE k == i - g
    <3>1. k \in 1 .. n /\ job[t].at + i - 1 = l + (k - 1) /\ k - 1 \in Nat
      BY <1>3, <1>4, <2>2
    <3>2. j.buf[i] = d[k]
      BY <1>3, <1>4, <1>8, <1>9, <2>2
    <3>3. j.buf[i] = call[t].pos + k - 1
      BY <1>6, <3>1, <3>2
    <3>0. i \in Nat /\ k \in Nat
      <4>1. g \in Nat /\ n \in Nat /\ i \in 1 .. g + n
        BY <1>3, <1>4
      <4> QED
        BY <2>2, <4>1
    <3> HIDE DEF k
    <3>4. CASE job[t].task = "block"
      <4>1. call[t].pos = PartitionOffset + l
        BY <1>5, <3>4 DEF NextPlace, l
      <4>2. i \in Nat /\ k \in Nat
        BY <3>0
      <4>3. PartitionOffset + job[t].at + i - 1 = PartitionOffset + l + k - 1
        <5>1. PICK a \in Nat, b \in Nat, m \in Nat, o \in Nat :
                  a = job[t].at /\ b = l /\ m = k /\ o = PartitionOffset
          BY <1>3, <4>2, Constants
        <5>2. a + i - 1 = b + (m - 1)
          BY <3>1, <5>1
        <5>3. o + a + i - 1 = o + b + m - 1
          BY <4>2, <5>2
        <5> QED
          BY <5>1, <5>3
      <4> QED
        BY <3>3, <3>4, <4>1, <4>3
    <3>5. CASE job[t].task = "file" /\ Dense(job[t].file)
      <4> DEFINE f == job[t].file
                 p == LogicalToPhysical(f, l)
      <4>1. f \in Files /\ Mapped(f, l) /\ Dense(f)
        BY <1>3, <1>5, <3>5
      <4>2. p \in Nat /\ ExtentRemaining(f, l) \in Nat
        BY <1>3, <4>1, Located
      <4>3. call[t].pos = PartitionOffset + p
        BY <1>5, <3>5 DEF NextPlace, l
      <4>4. n <= ExtentRemaining(f, l)
        <5>1. job[t].want - g \in Nat
          BY <1>3, <1>5
        <5>2. NextLen(t) = Lesser(job[t].want - g, ExtentRemaining(f, l))
          BY <3>5 DEF NextLen, g, l
        <5>3. NextLen(t) \in Nat /\ NextLen(t) <= ExtentRemaining(f, l)
          BY <4>2, <5>1, <5>2, LesserIs
        <5> QED
          BY <1>4, <1>5, <4>2, <5>3
      <4> HIDE DEF f, p
      <4>5. k - 1 < ExtentRemaining(f, l)
        BY <1>4, <3>1, <4>2, <4>4
      <4>6. IsByteOf(f, l + (k - 1), PartitionOffset + p + (k - 1))
        BY <1>3, <3>1, <4>1, <4>5, LocatedIsByte DEF p
      <4>7. j.buf[i] = PartitionOffset + p + (k - 1)
        BY <3>1, <3>3, <4>2, <4>3, Constants
      <4> QED
        BY <3>1, <3>5, <4>6, <4>7 DEF f
    <3> QED
      BY <1>3, <3>4, <3>5
  <2> QED
    BY <1>3, <1>4, <2>1, <2>2
<1> QED
  BY <1>12, <1>16, <1>17, <1>18, <1>19, StepSuffices DEF ThreadIsRight
-----------------------------------------------------------------------------
LEMMA StepKeeps ==
    ASSUME IInv, [Next]_vars
    PROVE  IInv'
PROOF
<1>1. ASSUME NEW t \in Threads, ThreadStep(t) PROVE IInv'
  <2>1. CASE ReaderStep(t) /\ UNCHANGED <<lock, job>>
    BY <2>1, QueryKeeps, AlignKeeps, TransferKeeps, RestoreKeeps, MoveKeeps
       DEF ReaderStep
  <2>2. CASE ~ (ReaderStep(t) /\ UNCHANGED <<lock, job>>)
    BY <1>1, <2>2, LockKeeps, NextChunkKeeps, BeyondMapKeeps, SeekBlockKeeps,
       SoughtKeeps, ReadExactKeeps, AbsorbKeeps, NoBytesKeeps, CallFailedKeeps,
       NextBlockKeeps, FinishKeeps DEF ThreadStep
  <2> QED
    BY <2>1, <2>2
<1>2. CASE Next
  <2>1. PICK t \in Threads :
            \/ \E f \in Files, r \in Ranges : ReadFile(t, f, r[1], r[2])
            \/ \E blocks \in BlockLists : ReadBlocks(t, blocks)
            \/ ThreadStep(t)
            \/ WindowsFails(t) /\ UNCHANGED <<lock, job>>
    BY <1>2 DEF Next
  <2>2. CASE \E f \in Files, r \in Ranges : ReadFile(t, f, r[1], r[2])
    BY <2>2, ReadFileKeeps
  <2>3. CASE \E blocks \in BlockLists : ReadBlocks(t, blocks)
    BY <2>3, ReadBlocksKeeps
  <2>4. CASE ThreadStep(t)
    BY <1>1, <2>4
  <2>5. CASE WindowsFails(t) /\ UNCHANGED <<lock, job>>
    BY <2>5, WindowsFailsKeeps
  <2> QED
    BY <2>1, <2>2, <2>3, <2>4, <2>5
<1>3. CASE UNCHANGED vars
  <2>1. pointer' = pointer /\ call' = call /\ lock' = lock /\ job' = job
    BY <1>3 DEF vars
  <2>2. TypeOK'
    BY <2>1 DEF IInv, TypeOK, ReaderTypeOK
  <2>3. \A t \in Threads : ThreadIsRight(t)'
    BY <2>1 DEF IInv, ThreadIsRight, JobIsRight, CallIsRight, SeekIsRight,
                ReadIsRight, PointerIsRight, BufferIsRight, AnswerIsWhole,
                Got, LogicalPos, NextPlace, NextLen
  <2> QED
    BY <2>2, <2>3 DEF IInv
<1> QED
  BY <1>2, <1>3

LEMMA InitIsRight ==
    ASSUME Init
    PROVE  IInv
PROOF
<1>1. /\ pointer = [h \in Handles |-> 0] /\ call = [t \in Threads |-> NoCall]
      /\ lock = [h \in Handles |-> None] /\ job = [t \in Threads |-> NoJob]
  BY DEF Init, ReaderInit
<1>2. TypeOK
  BY <1>1, Constants DEF TypeOK, ReaderTypeOK
<1>3. ASSUME NEW t \in Threads PROVE ThreadIsRight(t)
  <2>1. job[t] = NoJob /\ call[t] = NoCall
    BY <1>1
  <2>2. Got(t) = 0 /\ DOMAIN job[t].buf = {}
    BY <2>1, Constants DEF Got
  <2> QED
    BY <2>1, <2>2, Constants DEF ThreadIsRight, JobIsRight, CallIsRight,
       PointerIsRight, BufferIsRight, AnswerIsWhole
<1> QED
  BY <1>2, <1>3 DEF IInv

LEMMA AlwaysRight == Spec => []IInv
PROOF
<1>1. Init => IInv
  BY InitIsRight
<1>2. IInv /\ [Next]_vars => IInv'
  BY StepKeeps
<1> QED
  BY <1>1, <1>2, PTL DEF Spec

\* The state of the handles and of the jobs has its types.
THEOREM TypeCorrect == Spec => []TypeOK
PROOF
<1>1. IInv => TypeOK
  BY DEF IInv
<1> QED
  BY <1>1, AlwaysRight, PTL

\* No two threads are in calls on one handle: what "unsafe impl Send" needs
\* (disk.rs:420).
THEOREM CallsAreSerial == Spec => []OneCallPerHandle
PROOF
<1>1. IInv => OneCallPerHandle
  <2> SUFFICES ASSUME IInv, NEW s \in Threads, NEW t \in Threads, s # t,
                      call[s].stage # "none", call[t].stage # "none"
               PROVE  call[s].handle # call[t].handle
    BY DEF OneCallPerHandle
  <2> QED
    BY CallerHolds
<1> QED
  BY <1>1, AlwaysRight, PTL

\* Each byte in a buffer is the one of its place (driver.rs, ApfsDriver::read).
THEOREM BytesAreExact == Spec => []ReadIsExact
PROOF
<1>1. IInv => ReadIsExact
  <2> SUFFICES ASSUME IInv, NEW t \in Threads, NEW i \in DOMAIN job[t].buf
               PROVE  CASE job[t].task = "block" ->
                               job[t].buf[i] = PartitionOffset + job[t].at + i - 1
                        [] job[t].task = "file" ->
                               Dense(job[t].file) =>
                                   IsByteOf(job[t].file, job[t].at + i - 1, job[t].buf[i])
    BY DEF ReadIsExact
  <2>1. TypeOK /\ BufferIsRight(t)
    BY DEF IInv, ThreadIsRight
  <2>2. job[t].task \in {"file", "block"}
    BY <2>1, JobTypes
  <2>3. CASE job[t].task = "block"
    BY <2>1, <2>3 DEF BufferIsRight
  <2>4. CASE job[t].task = "file"
    BY <2>1, <2>4 DEF BufferIsRight
  <2> QED
    BY <2>2, <2>3, <2>4
<1> QED
  BY <1>1, AlwaysRight, PTL

\* An answer without an error is whole, up to the end of the file.
THEOREM AnswersAreWhole == Spec => []ReadIsWhole
PROOF
<1>1. IInv => ReadIsWhole
  BY DEF IInv, ThreadIsRight, AnswerIsWhole, ReadIsWhole, Got
<1> QED
  BY <1>1, AlwaysRight, PTL
-----------------------------------------------------------------------------
(* The handle of the metadata as a stream of bytes.                          *)
OnVolume(t) == call[t].stage # "none" /\ call[t].handle = "volume"

ForVolume(t) == job[t].stage \in {"seek", "loop"} /\ job[t].task = "block"

\* Who works for the volume's handle is alone in calls on it.
LEMMA AloneOnVolume ==
    IInv => \A s, t \in Threads : ForVolume(t) /\ OnVolume(s) => s = t
PROOF
<1> SUFFICES ASSUME IInv, NEW s \in Threads, NEW t \in Threads,
                    ForVolume(t), OnVolume(s)
             PROVE  s = t
  OBVIOUS
<1>1. lock["volume"] = s
  BY CallerHolds DEF OnVolume
<1>2. lock["volume"] = t
  BY Constants DEF IInv, ThreadIsRight, JobIsRight, ForVolume
<1> QED
  BY <1>1, <1>2

(* The stream is as the job that holds the mutex sees it, and at the file    *)
(* pointer while nobody is in a call.                                       *)
AsHolderSees == \A t \in Threads : ForVolume(t) =>
    /\ StreamPos = (IF Reading(t) THEN call[t].pos ELSE pointer["volume"])
                       - PartitionOffset
    /\ StreamData = IF Answered(t) THEN call[t].data ELSE <<>>

AsAtRest == (\A t \in Threads : ~ OnVolume(t))
    => StreamPos = pointer["volume"] - PartitionOffset /\ StreamData = <<>>

LEMMA StreamOfHolder == IInv => AsHolderSees
PROOF
<1> SUFFICES ASSUME IInv, NEW t \in Threads, ForVolume(t)
             PROVE  /\ StreamPos = (IF Reading(t) THEN call[t].pos
                                    ELSE pointer["volume"]) - PartitionOffset
                    /\ StreamData = IF Answered(t) THEN call[t].data ELSE <<>>
  BY DEF AsHolderSees
<1>1. \A s \in Threads : Reading(s) \/ Answered(s) => s = t
  BY AloneOnVolume DEF Reading, Answered, OnVolume
<1>2. Reading(t) => t = CHOOSE s \in Threads : Reading(s)
  BY <1>1
<1>3. Answered(t) => t = CHOOSE s \in Threads : Answered(s)
  BY <1>1
<1> QED
  BY <1>1, <1>2, <1>3 DEF StreamPos, StreamData

LEMMA StreamAtRest == AsAtRest
PROOF
  BY DEF AsAtRest, OnVolume, StreamPos, StreamData, Reading, Answered

StreamUnchanged == StreamPos' = StreamPos /\ StreamData' = StreamData

LEMMA SameStream ==
    ASSUME pointer'["volume"] = pointer["volume"],
           \A s \in Threads : OnVolume(s) \/ OnVolume(s)' => call'[s] = call[s]
    PROVE  StreamUnchanged
PROOF
<1>1. \A s \in Threads : /\ Reading(s)' <=> Reading(s)
                         /\ Answered(s)' <=> Answered(s)
                         /\ Reading(s) \/ Answered(s) => call'[s] = call[s]
  BY DEF Reading, Answered, OnVolume
<1>2. (CHOOSE s \in Threads : Reading(s)') = CHOOSE s \in Threads : Reading(s)
  BY <1>1
<1>3. (CHOOSE s \in Threads : Answered(s)') = CHOOSE s \in Threads : Answered(s)
  BY <1>1
<1>4. (\E s \in Threads : Reading(s)) =>
          (CHOOSE s \in Threads : Reading(s)) \in Threads
          /\ Reading(CHOOSE s \in Threads : Reading(s))
  OBVIOUS
<1>5. (\E s \in Threads : Answered(s)) =>
          (CHOOSE s \in Threads : Answered(s)) \in Threads
          /\ Answered(CHOOSE s \in Threads : Answered(s))
  OBVIOUS
<1>6. StreamPos' = StreamPos
  BY <1>1, <1>2, <1>4 DEF StreamPos
<1>7. StreamData' = StreamData
  BY <1>1, <1>3, <1>5 DEF StreamData
<1> QED
  BY <1>6, <1>7 DEF StreamUnchanged

StreamStep == [Stream!Next]_(Stream!vars)

LEMMA StreamStutters ==
    ASSUME StreamUnchanged
    PROVE  StreamStep
PROOF
  BY DEF StreamUnchanged, StreamStep, Stream!vars

\* A step of a file's reader does not touch the stream.
LEMMA FilesLeaveStream ==
    ASSUME IInv, NEW t \in Threads, job[t].task = "file",
           call'[t].stage = "none" \/ call'[t].handle = "raw",
           \A s \in Threads \ {t} : call'[s] = call[s],
           pointer'["volume"] = pointer["volume"]
    PROVE  StreamStep
PROOF
<1>1. ~ OnVolume(t)
  BY CallerHolds, Constants DEF OnVolume
<1>2. ~ OnVolume(t)'
  BY DEF OnVolume
<1>3. \A s \in Threads : OnVolume(s) \/ OnVolume(s)' => call'[s] = call[s]
  BY <1>1, <1>2
<1> QED
  BY <1>3, SameStream, StreamStutters

\* What the stream is before and after a step within a metadata operation.
LEMMA StreamAround ==
    ASSUME IInv, IInv', NEW t \in Threads, ForVolume(t), job' = job
    PROVE  /\ StreamPos = (IF Reading(t) THEN call[t].pos ELSE pointer["volume"])
                              - PartitionOffset
           /\ StreamData = IF Answered(t) THEN call[t].data ELSE <<>>
           /\ StreamPos' = (IF Reading(t)' THEN call'[t].pos ELSE pointer'["volume"])
                               - PartitionOffset
           /\ StreamData' = IF Answered(t)' THEN call'[t].data ELSE <<>>
PROOF
<1>1. ForVolume(t)'
  BY DEF ForVolume
<1>2. AsHolderSees /\ AsHolderSees'
  BY StreamOfHolder, PTL
<1> QED
  BY <1>1, <1>2 DEF AsHolderSees

\* The answer has been taken: nobody is in a call on the stream any more.
LEMMA TakenFromStream ==
    ASSUME IInv, NEW t \in Threads, ForVolume(t), call[t].stage \in {"done", "failed"},
           call' = [call EXCEPT ![t] = NoCall], UNCHANGED pointer
    PROVE  StreamStep
PROOF
<1>1. \A s \in Threads : call'[s] = IF s = t THEN NoCall ELSE call[s]
  BY DEF IInv, TypeOK, ReaderTypeOK
<1>2. \A s \in Threads : ~ OnVolume(s)'
  BY <1>1, AloneOnVolume, Constants DEF OnVolume
<1>3. AsHolderSees /\ AsAtRest'
  BY StreamOfHolder, StreamAtRest, PTL
<1>4. ~ Reading(t)
  BY DEF Reading
<1>5. StreamPos' = StreamPos /\ StreamData' = <<>>
  BY <1>2, <1>3, <1>4 DEF AsHolderSees, AsAtRest
<1>6. Stream!Take
  BY <1>5 DEF Stream!Take
<1> QED
  BY <1>6 DEF StreamStep, Stream!Next

\* A whole read is one step of the stream: that at which it puts the pointer back.
LEMMA RestoreIsRead ==
    ASSUME IInv, IInv', NEW t \in Threads, Restore(t), UNCHANGED <<lock, job>>
    PROVE  StreamStep
PROOF
<1> DEFINE d == call[t].data
           n == Len(d)
           pos == call[t].pos
           p == pos - PartitionOffset
<1>1. call[t].stage = "restore"
  BY DEF Restore, In
<1>2. /\ TypeOK /\ ReadIsRight(t) /\ job[t].stage = "loop" /\ job[t].task = "block"
      /\ call[t].handle = "volume" /\ call[t].method = "read"
      /\ call \in [Threads -> Call] /\ pointer \in [Handles -> Nat]
  BY <1>1, InACall, Constants DEF SeekIsRight, ReadIsRight, TypeOK, ReaderTypeOK
<1>3. /\ d = Bytes(pos, n) /\ (d # <<>> => pos + n <= DiskSize)
      /\ (d = <<>> => pos >= DiskSize)
  BY <1>1, <1>2 DEF ReadIsRight
<1>4. pos \in Nat /\ d \in Seq(Nat) /\ n \in Nat /\ (d = <<>> <=> n = 0)
  BY <1>2, CallTypes, EmptySeq
<1>5. /\ call'[t].stage = "done" /\ call'[t].handle = "volume"
      /\ call'[t].method = "read" /\ call'[t].data = d /\ pointer'["volume"] = pos + n
  BY <1>2, Constants DEF Restore, Goes, Moves, Call
<1>6. ForVolume(t) /\ Reading(t) /\ ~ Answered(t) /\ ~ Reading(t)' /\ Answered(t)'
  BY <1>1, <1>2, <1>5 DEF ForVolume, Reading, Answered
<1>7. /\ StreamPos = p /\ StreamData = <<>>
      /\ StreamPos' = (pos + n) - PartitionOffset /\ StreamData' = d
  BY <1>5, <1>6, StreamAround
<1> HIDE DEF d, n, pos
<1>8. CASE n = 0
  <2>1. StreamPos' = StreamPos /\ StreamData' = StreamData
    BY <1>4, <1>7, <1>8, Constants
  <2> QED
    BY <2>1, StreamStutters DEF StreamUnchanged
<1>9. CASE n # 0
  <2>1. StreamPos' - StreamPos = n /\ StreamPos' > StreamPos
    BY <1>4, <1>7, <1>9, Constants
  <2>2. StreamPos' <= DiskSize - PartitionOffset
    BY <1>3, <1>4, <1>7, <1>9, Constants
  <2>3. PartitionOffset + StreamPos = pos
    BY <1>4, <1>7, Constants
  <2>4. d = [i \in 1 .. n |-> pos + i - 1]
    BY <1>3 DEF Bytes
  <2>5. StreamData' = [i \in 1 .. StreamPos' - StreamPos |->
                           PartitionOffset + StreamPos + i - 1]
    BY <1>7, <2>1, <2>3, <2>4
  <2>6. Stream!ReadSome
    BY <1>7, <2>1, <2>2, <2>5 DEF Stream!ReadSome
  <2> QED
    BY <2>6 DEF StreamStep, Stream!Next
<1> QED
  BY <1>8, <1>9

\* The other calls of Windows within a metadata operation leave the stream where it
\* is, move it as a seek does, or fail.
LEMMA VolumeCallStreams ==
    ASSUME IInv, IInv', NEW t \in Threads, ForVolume(t),
           ReaderStep(t) \/ WindowsFails(t), UNCHANGED <<lock, job>>
    PROVE  StreamStep
PROOF
<1>1. /\ TypeOK /\ call[t].stage # "none" /\ call[t].handle = "volume"
      /\ call[t] \in Call
      /\ (SeekIsRight(t) \/ ReadIsRight(t))
      /\ call \in [Threads -> Call] /\ pointer \in [Handles -> Nat]
      /\ job[t].task = "block"
  <2>1. call[t].stage # "none"
    BY DEF ReaderStep, Query, Align, Transfer, Restore, Move, In, WindowsFails
  <2> QED
    BY <2>1, InACall, Constants DEF TypeOK, ReaderTypeOK, ForVolume
<1>2. call[t].pos \in Nat /\ pointer["volume"] \in Nat
  BY <1>1, CallTypes
<1>3. CASE Query(t)
  <2>1. /\ call[t].stage = "query" /\ pointer' = pointer
        /\ call'[t].stage = "align" /\ call'[t].pos = pointer["volume"]
        /\ call'[t].handle = "volume" /\ call'[t].method = call[t].method
    BY <1>1, <1>3 DEF Query, In, Call
  <2>2. call[t].method = "read"
    BY <1>1, <2>1 DEF SeekIsRight, ReadIsRight
  <2> QED
    BY <2>1, <2>2, StreamAround, StreamStutters DEF Reading, Answered, StreamUnchanged
<1>4. CASE Align(t)
  <2>1. /\ call[t].stage = "align" /\ call'[t].stage = "transfer"
        /\ call'[t].pos = call[t].pos
        /\ call'[t].handle = "volume" /\ call'[t].method = call[t].method
    BY <1>1, <1>4 DEF Align, Goes, In, Call
  <2>2. call[t].method = "read"
    BY <1>1, <2>1 DEF SeekIsRight, ReadIsRight
  <2> QED
    BY <1>1, <2>1, <2>2, StreamAround, StreamStutters DEF Reading, Answered, StreamUnchanged
<1>5. CASE Transfer(t)
  <2>1. call[t].stage = "transfer"
    BY <1>5 DEF Transfer, In
  <2>2. call[t].method = "read"
    BY <1>1, <2>1 DEF SeekIsRight, ReadIsRight
  <2>3. PICK d : call' = [call EXCEPT ![t].data = d, ![t].stage = "restore"]
    BY <1>5, <2>2 DEF Transfer
  <2>4. /\ call'[t].stage = "restore" /\ call'[t].pos = call[t].pos
        /\ call'[t].handle = "volume" /\ call'[t].method = call[t].method
    BY <1>1, <2>3 DEF Call
  <2> QED
    BY <1>1, <2>1, <2>2, <2>4, StreamAround, StreamStutters
       DEF Reading, Answered, StreamUnchanged
<1>6. CASE Restore(t)
  BY <1>6, RestoreIsRead
<1>7. CASE Move(t)
  <2>1. /\ call[t].stage = "move" /\ call'[t].stage = "done"
        /\ call'[t].method = call[t].method /\ pointer'["volume"] = call[t].pos
    BY <1>1, <1>7, Constants DEF Move, Goes, Moves, In, Call
  <2>2. call[t].method = "seek" /\ call[t].pos = PartitionOffset + job[t].at
    BY <1>1, <2>1 DEF SeekIsRight, ReadIsRight
  <2>3. StreamPos' = (PartitionOffset + job[t].at) - PartitionOffset
        /\ StreamData' = <<>> /\ StreamData = <<>>
    BY <2>1, <2>2, StreamAround DEF Reading, Answered
  <2>4. job[t].at \in Nat
    BY <1>1, JobTypes
  <2>5. StreamPos' \in Nat
    BY <2>3, <2>4, Constants
  <2> QED
    BY <2>3, <2>5 DEF StreamStep, Stream!Next, Stream!SeekTo
<1>8. CASE WindowsFails(t)
  <2>1. /\ call[t].stage # "done" /\ call'[t].stage = "failed" /\ pointer' = pointer
    BY <1>1, <1>8 DEF WindowsFails, Call
  <2>2. StreamPos' = pointer["volume"] - PartitionOffset
        /\ StreamData' = <<>> /\ StreamData = <<>>
    BY <2>1, StreamAround DEF Reading, Answered
  <2>3. StreamPos' \in Int
    BY <1>2, <2>2, Constants
  <2> QED
    BY <2>2, <2>3 DEF StreamStep, Stream!Next, Stream!Fail
<1> QED
  BY <1>3, <1>4, <1>5, <1>6, <1>7, <1>8 DEF ReaderStep

\* The calls of a file's reader are on the other handle.
LEMMA FileCallStreams ==
    ASSUME IInv, NEW t \in Threads, job[t].task = "file",
           ReaderStep(t) \/ WindowsFails(t)
    PROVE  StreamStep
PROOF
<1>1. /\ call[t].handle = "raw" /\ call[t] \in Call
      /\ call \in [Threads -> Call] /\ pointer \in [Handles -> Nat]
  <2>1. call[t].stage # "none"
    BY DEF ReaderStep, Query, Align, Transfer, Restore, Move, In, WindowsFails
  <2> QED
    BY <2>1, InACall, Constants DEF TypeOK, ReaderTypeOK
<1>2. /\ call'[t].handle = "raw" /\ \A s \in Threads \ {t} : call'[s] = call[s]
      /\ pointer'["volume"] = pointer["volume"]
  <2>1. CASE Query(t)
    BY <1>1, <2>1 DEF Query, Call
  <2>2. CASE Align(t)
    BY <1>1, <2>2, Constants DEF Align, Moves, Goes, Call
  <2>3. CASE Transfer(t)
    <3>1. PICK d, s, p :
              /\ call' = [call EXCEPT ![t].data = d, ![t].stage = s]
              /\ pointer' = [pointer EXCEPT !["raw"] = p]
      BY <1>1, <2>3 DEF Transfer, Moves
    <3> QED
      BY <1>1, <3>1, Constants DEF Call
  <2>4. CASE Restore(t)
    BY <1>1, <2>4, Constants DEF Restore, Moves, Goes, Call
  <2>5. CASE Move(t)
    BY <1>1, <2>5, Constants DEF Move, Moves, Goes, Call
  <2>6. CASE WindowsFails(t)
    BY <1>1, <2>6 DEF WindowsFails, Call
  <2> QED
    BY <2>1, <2>2, <2>3, <2>4, <2>5, <2>6 DEF ReaderStep
<1> QED
  BY <1>2, FilesLeaveStream

\* A call that is taken, of a file or of a metadata operation.
LEMMA TakenStreams ==
    ASSUME IInv, NEW t \in Threads, job[t].stage \in {"seek", "loop"},
           call[t].stage \in {"done", "failed"}, Taken(t)
    PROVE  StreamStep
PROOF
<1>1. call' = [call EXCEPT ![t] = NoCall] /\ pointer' = pointer
  BY DEF Taken
<1>2. CASE job[t].task = "block"
  BY <1>1, <1>2, TakenFromStream DEF ForVolume
<1>3. CASE job[t].task = "file"
  <2>1. \A s \in Threads : call'[s] = IF s = t THEN NoCall ELSE call[s]
    BY <1>1 DEF IInv, TypeOK, ReaderTypeOK
  <2> QED
    BY <1>1, <1>3, <2>1, Constants, FilesLeaveStream
<1> QED
  BY <1>2, <1>3, JobTypes DEF IInv

LEMMA ThreadStreams ==
    ASSUME IInv, IInv', NEW t \in Threads, ThreadStep(t)
    PROVE  StreamStep
PROOF
<1>1. CASE (ReaderStep(t) \/ WindowsFails(t)) /\ UNCHANGED <<lock, job>>
  <2>1. job[t].task \in {"file", "block"}
    BY JobTypes DEF IInv
  <2>2. job[t].stage \in {"seek", "loop"}
    BY <1>1, CallerHolds
       DEF ReaderStep, Query, Align, Transfer, Restore, Move, In, WindowsFails
  <2> QED
    BY <1>1, <2>1, <2>2, FileCallStreams, VolumeCallStreams DEF ForVolume
<1>2. CASE UNCHANGED <<pointer, call>>
  BY <1>2, SameStream, StreamStutters
<1>3. CASE NextChunk(t)
  <2>1. /\ job[t].task = "file" /\ call'[t].handle = "raw" /\ pointer' = pointer
        /\ \A s \in Threads \ {t} : call'[s] = call[s]
    BY <1>3 DEF NextChunk, ReadAtAbsolute, Calls, IInv, TypeOK, ReaderTypeOK
  <2> QED
    BY <2>1, FilesLeaveStream
<1>4. CASE SeekBlock(t) \/ ReadExact(t)
  <2>1. /\ job' = job /\ pointer' = pointer /\ call[t].stage = "none" /\ ForVolume(t)
        /\ call'[t].stage \in {"move", "query", "done"} /\ call'[t].data = <<>>
    <3>1. CASE SeekBlock(t)
      BY <3>1 DEF SeekBlock, Between, SeekStart, Calls, IInv, TypeOK, ReaderTypeOK,
                  ForVolume, ThreadIsRight, JobIsRight
    <3>2. CASE ReadExact(t)
      BY <3>2 DEF ReadExact, Between, Read, Calls, IInv, TypeOK, ReaderTypeOK, ForVolume
    <3> QED
      BY <1>4, <3>1, <3>2
  <2>2. StreamPos' = StreamPos /\ StreamData' = StreamData
    BY <2>1, StreamAround DEF Reading, Answered
  <2> QED
    BY <2>2, StreamStutters DEF StreamUnchanged
<1>5. CASE Sought(t) \/ Absorb(t) \/ NoBytes(t) \/ CallFailed(t)
  BY <1>5, TakenStreams DEF Sought, Absorb, NoBytes, CallFailed
<1> QED
  BY <1>1, <1>2, <1>3, <1>4, <1>5
     DEF ThreadStep, Lock, NextBlock, Finish, BeyondMap

LEMMA StepStreams ==
    ASSUME IInv, IInv', [Next]_vars
    PROVE  StreamStep
PROOF
<1>1. CASE UNCHANGED <<pointer, call>>
  BY <1>1, SameStream, StreamStutters
<1>2. ASSUME NEW t \in Threads, WindowsFails(t), UNCHANGED <<lock, job>>
      PROVE  StreamStep
  <2>1. job[t].task \in {"file", "block"} /\ job[t].stage \in {"seek", "loop"}
    BY <1>2, JobTypes, CallerHolds DEF IInv, WindowsFails
  <2> QED
    BY <1>2, <2>1, FileCallStreams, VolumeCallStreams DEF ForVolume
<1>3. CASE Next
  BY <1>1, <1>2, <1>3, ThreadStreams DEF Next, ReadFile, ReadBlocks
<1> QED
  BY <1>1, <1>3 DEF vars

\* The handle of the metadata is a byte stream that begins at the partition: what
\* the library's read_block relies on (Read and Seek of disk.rs).
THEOREM ByteStreamImplemented == Spec => IsByteStream
PROOF
<1>1. Init => Stream!Init
  <2> SUFFICES ASSUME Init PROVE Stream!Init
    OBVIOUS
  <2>1. pointer["volume"] = 0 /\ \A t \in Threads : call[t].stage = "none"
    BY Constants DEF Init, ReaderInit
  <2>2. StreamPos = 0 - PartitionOffset /\ StreamData = <<>>
    BY <2>1, StreamAtRest DEF AsAtRest, OnVolume
  <2>3. StreamPos \in Int
    BY <2>2, Constants
  <2> QED
    BY <2>2, <2>3 DEF Stream!Init
<1>2. IInv /\ IInv' /\ [Next]_vars => [Stream!Next]_(Stream!vars)
  BY StepStreams DEF StreamStep
<1> QED
  BY <1>1, <1>2, AlwaysRight, PTL DEF Spec, IsByteStream, Stream!Spec
=============================================================================
