---------------------------- MODULE DriverProofs ----------------------------
(* What the callbacks answer, for any volume, cache and number of threads.  *)
EXTENDS Driver, FiniteSetTheorems, SequenceTheorems, TLAPS

\* Dividing a natural number.
LEMMA Division ==
    ASSUME NEW n \in Nat, NEW d \in Nat \ {0}
    PROVE  /\ n \div d \in Nat /\ n % d \in 0 .. d - 1
           /\ n = d * (n \div d) + (n % d)
PROOF
<1>1. n \div d \in Nat
  BY SMT
<1>2. n % d \in 0 .. d - 1
  BY SMT
<1>3. n = d * (n \div d) + (n % d)
  BY SMT
<1> QED
  BY <1>1, <1>2, <1>3

\* A remainder of what is small.
LEMMA SmallRemainder ==
    ASSUME NEW n \in Nat, NEW d \in Nat, n < d
    PROVE  n % d = n
PROOF
  BY SMT

LEMMA QuotientOfNatural ==
    ASSUME NEW n \in Nat, NEW d \in Nat \ {0}
    PROVE  /\ n \div d \in 0 .. n
           /\ (n \div d) * d \in n - d + 1 .. n
PROOF
<1> DEFINE q == n \div d
<1>1. q \in Nat /\ n % d \in 0 .. d - 1 /\ n = d * q + (n % d)
  BY Division
<1>2. q * d = d * q /\ q <= d * q
  BY <1>1, SMT
<1> HIDE DEF q
<1>3. q \in 0 .. n /\ q * d \in n - d + 1 .. n
  BY <1>1, <1>2, SMT
<1> QED
  BY <1>3 DEF q

\* A file time is the right one, whatever the time (driver.rs:79).
THEOREM FileTimeIsRight ==
    ASSUME NEW nanos \in Times
    PROVE  IsFileTime(FileTime(nanos), nanos)
PROOF
<1> USE FileInfoAssumption
<1> DEFINE m == IF nanos >= 0 THEN nanos ELSE -nanos
           q == m \div Interval
<1>1. m \in Nat /\ m <= Half /\ nanos \in Int
  BY DEF Times
<1>2. q \in 0 .. m /\ q * Interval \in m - Interval + 1 .. m
  BY <1>1, QuotientOfNatural
<1>3. Quotient(nanos, Interval) = IF nanos >= 0 THEN q ELSE -q
  BY DEF Quotient, Times
<1> HIDE DEF q
<1>4. CASE nanos >= 0
  <2>1. q < Half /\ q \in Nat
    BY <1>1, <1>2, <1>4 DEF Times
  <2>2. q % Word = q /\ (Epoch + q) % Word = Epoch + q /\ Epoch + q \in Words
    BY <2>1 DEF Word, Words
  <2>3. FileTime(nanos) = Epoch + q
    BY <1>3, <1>4, <2>2 DEF FileTime
  <2>4. (Epoch + q - Epoch) * Interval = q * Interval
    BY <2>1
  <2> QED
    BY <1>1, <1>2, <1>4, <2>2, <2>3, <2>4 DEF IsFileTime
<1>5. CASE nanos < 0
  <2>1. q <= Epoch /\ q <= Half /\ q \in Nat
    <3>1. q * Interval <= Epoch * Interval
      BY <1>1, <1>2
    <3>2. q \in Nat /\ q <= Half
      BY <1>1, <1>2
    <3> QED
      BY <3>1, <3>2, SMT
  <2>2. Half > 0
    BY <1>5 DEF Times
  <2>3. (-q) % Word = IF q = 0 THEN 0 ELSE Word - q
    BY <2>1, <2>2 DEF Word
  <2>4. (Epoch + ((-q) % Word)) % Word = Epoch - q /\ Epoch - q \in Words
    BY <2>1, <2>2, <2>3 DEF Word, Words
  <2>5. FileTime(nanos) = Epoch - q
    BY <1>1, <1>3, <1>5, <2>4 DEF FileTime
  <2>6. (Epoch - q - Epoch) * Interval = -(q * Interval)
    BY <2>1
  <2> QED
    BY <1>1, <1>2, <1>5, <2>4, <2>5, <2>6 DEF IsFileTime
<1> QED
  BY <1>4, <1>5 DEF Times

\* An allocation is the right one for any size that a word has room to round up.
THEOREM AllocationIsRight ==
    ASSUME NEW size \in 0 .. Word - Cluster
    PROVE  IsAllocation(Allocation(size), size)
PROOF
<1> USE FileInfoAssumption
<1> DEFINE up == size + Cluster - 1
           k == up \div Cluster
<1>1. up \in Nat /\ up % Word = up
  BY DEF Word
<1>2. k \in Nat /\ up % Cluster \in 0 .. Cluster - 1 /\ up = Cluster * k + (up % Cluster)
  BY <1>1, Division
<1>3. Allocation(size) = Cluster * k
  BY <1>1, <1>2 DEF Allocation
<1>4. (Cluster * k) % Cluster = 0
  BY <1>2, SMT
<1> QED
  BY <1>2, <1>3, <1>4 DEF IsAllocation
-----------------------------------------------------------------------------
(* The cache. *)

Distinct(s) == \A i, j \in DOMAIN s : i # j => s[i].path # s[j].path

GoodCache(s) == s \in Seq(Entry) /\ Len(s) <= Capacity /\ Distinct(s)

\* s has nothing that is not in the cache, or is e.
FromCacheOr(s, e) ==
    \A i \in DOMAIN s : s[i] = e \/ \E j \in DOMAIN cache : s[i] = cache[j]

LEMMA PlaceIsThere ==
    ASSUME NEW p, Cached(p)
    PROVE  PlaceOf(p) \in DOMAIN cache /\ EntryOf(p) = cache[PlaceOf(p)]
           /\ EntryOf(p).path = p
PROOF
  BY DEF Cached, PlaceOf, EntryOf

\* Where the ith of a sequence was before the kth was removed from it.
OldPlace(i, k) == IF i < k THEN i ELSE i + 1

\* A sequence without one of its places.
LEMMA Removing ==
    ASSUME NEW S, NEW s \in Seq(S), NEW k \in 1 .. Len(s), NEW w,
           w = SubSeq(s, 1, k - 1) \o SubSeq(s, k + 1, Len(s))
    PROVE  /\ w \in Seq(S) /\ Len(w) = Len(s) - 1
           /\ \A i \in 1 .. Len(s) - 1 : w[i] = s[OldPlace(i, k)]
PROOF
<1> DEFINE n == Len(s)
<1>1. n \in Nat /\ DOMAIN s = 1 .. n /\ \A i \in 1 .. n : s[i] \in S
  BY LenProperties, ElementOfSeq
<1> HIDE DEF n
<1>2. PICK a : a = SubSeq(s, 1, k - 1)
  OBVIOUS
<1>3. PICK b : b = SubSeq(s, k + 1, n)
  OBVIOUS
<1>4. w = a \o b
  BY <1>2, <1>3 DEF n
<1>5. k \in 1 .. n
  BY DEF n
<1>6. a \in Seq(S) /\ Len(a) = k - 1 /\ \A i \in 1 .. k - 1 : a[i] = s[i]
  <2>1. \A i \in 1 .. k - 1 : s[i] \in S
    BY <1>1, <1>5
  <2>2. /\ a \in Seq(S) /\ Len(a) = IF 1 <= k - 1 THEN k - 1 - 1 + 1 ELSE 0
        /\ \A i \in 1 .. k - 1 - 1 + 1 : a[i] = s[1 + i - 1]
    BY <1>2, <1>5, <2>1, SubSeqProperties
  <2> QED
    BY <1>5, <2>2
<1>7. b \in Seq(S) /\ Len(b) = n - k /\ \A i \in 1 .. n - k : b[i] = s[k + i]
  <2>1. \A i \in k + 1 .. n : s[i] \in S
    BY <1>1, <1>5
  <2>2. /\ b \in Seq(S) /\ Len(b) = IF k + 1 <= n THEN n - (k + 1) + 1 ELSE 0
        /\ \A i \in 1 .. n - (k + 1) + 1 : b[i] = s[k + 1 + i - 1]
    BY <1>1, <1>3, <1>5, <2>1, SubSeqProperties
  <2>3. Len(b) = n - k
    BY <1>1, <1>5, <2>2
  <2>4. ASSUME NEW i \in 1 .. n - k
        PROVE  b[i] = s[k + i]
    <3>1. i \in 1 .. n - (k + 1) + 1 /\ k + 1 + i - 1 = k + i
      BY <1>1, <1>5
    <3> QED
      BY <2>2, <3>1, Zenon
  <2> QED
    BY <2>2, <2>3, <2>4, Zenon
<1>8. /\ w \in Seq(S) /\ Len(w) = n - 1
      /\ \A i \in 1 .. n - 1 : w[i] = IF i <= k - 1 THEN a[i] ELSE b[i - (k - 1)]
  <2>1. /\ w \in Seq(S) /\ Len(w) = Len(a) + Len(b)
        /\ \A i \in 1 .. Len(a) + Len(b) : w[i] = IF i <= Len(a) THEN a[i]
                                                ELSE b[i - Len(a)]
    <3>1. a \in Seq(S) /\ b \in Seq(S)
      BY <1>6, <1>7
    <3>2. /\ a \o b \in Seq(S) /\ Len(a \o b) = Len(a) + Len(b)
          /\ \A i \in 1 .. Len(a) + Len(b) : (a \o b)[i] = IF i <= Len(a) THEN a[i]
                                                           ELSE b[i - Len(a)]
      BY <3>1, ConcatProperties
    <3> QED
      BY <1>4, <3>2, Zenon
  <2>2. Len(a) + Len(b) = n - 1
    BY <1>1, <1>5, <1>6, <1>7
  <2> QED
    BY <1>6, <2>1, <2>2
<1>9. ASSUME NEW i \in 1 .. n - 1
      PROVE  w[i] = s[OldPlace(i, k)]
  <2>1. CASE i < k
    <3>1. i <= k - 1 /\ i \in 1 .. k - 1 /\ OldPlace(i, k) = i
      BY <1>5, <2>1 DEF OldPlace
    <3> QED
      BY <1>6, <1>8, <2>1, <3>1, Zenon
  <2>2. CASE ~ (i < k)
    <3>1. i - (k - 1) \in 1 .. n - k /\ k + (i - (k - 1)) = i + 1 /\ ~ (i <= k - 1)
          /\ OldPlace(i, k) = i + 1
      BY <1>1, <1>5, <2>2 DEF OldPlace
    <3> QED
      BY <1>7, <1>8, <2>2, <3>1, Zenon
  <2> QED
    BY <2>1, <2>2
<1> QED
  BY <1>8, <1>9 DEF n

\* An element before a sequence.
LEMMA Prefixed ==
    ASSUME NEW S, NEW e \in S, NEW w \in Seq(S), NEW s, s = <<e>> \o w
    PROVE  /\ s \in Seq(S) /\ Len(s) = Len(w) + 1 /\ s[1] = e
           /\ \A i \in 2 .. Len(w) + 1 : s[i] = w[i - 1]
PROOF
<1>1. PICK o \in Seq(S) : o = <<e>> /\ Len(o) = 1 /\ o[1] = e
  <2>1. <<e>> \in Seq(S) /\ Len(<<e>>) = 1 /\ <<e>>[1] = e
    OBVIOUS
  <2> QED
    BY <2>1, Zenon
<1>2. /\ s \in Seq(S) /\ Len(s) = Len(o) + Len(w)
      /\ \A i \in 1 .. Len(o) + Len(w) : s[i] = IF i <= Len(o) THEN o[i]
                                              ELSE w[i - Len(o)]
  BY <1>1, ConcatProperties
<1>3. Len(w) \in Nat
  BY LenProperties
<1> QED
  BY <1>1, <1>2, <1>3

\* What is left of the cache without a path.
LEMMA WithoutPath ==
    ASSUME NEW p, GoodCache(cache)
    PROVE  /\ Without(p) \in Seq(Entry) /\ Len(Without(p)) <= Len(cache)
           /\ Cached(p) => Len(Without(p)) = Len(cache) - 1
           /\ Distinct(Without(p))
           /\ \A i \in DOMAIN Without(p) :
                  /\ Without(p)[i].path # p
                  /\ \E j \in DOMAIN cache : Without(p)[i] = cache[j]
PROOF
<1>1. cache \in Seq(Entry) /\ Len(cache) \in Nat /\ DOMAIN cache = 1 .. Len(cache)
      /\ Distinct(cache)
  BY LenProperties DEF GoodCache
<1>2. CASE ~ Cached(p)
  <2>1. Without(p) = cache
    BY <1>2 DEF Without
  <2>2. \A i \in DOMAIN cache : cache[i].path # p
    BY <1>2 DEF Cached
  <2>3. Len(cache) <= Len(cache)
    BY <1>1
  <2> QED
    BY <1>1, <1>2, <2>1, <2>2, <2>3, Zenon
<1>3. CASE Cached(p)
  <2>1. PICK w : w = Without(p)
    OBVIOUS
  <2>2. PICK k \in 1 .. Len(cache) : k = PlaceOf(p) /\ cache[k].path = p
    BY <1>1, <1>3, PlaceIsThere
  <2>3. w = SubSeq(cache, 1, k - 1) \o SubSeq(cache, k + 1, Len(cache))
    BY <1>3, <2>1, <2>2 DEF Without
  <2>4. /\ w \in Seq(Entry) /\ Len(w) = Len(cache) - 1
        /\ \A i \in 1 .. Len(cache) - 1 : w[i] = cache[OldPlace(i, k)]
    BY <1>1, <2>3, Removing
  <2>5. DOMAIN w = 1 .. Len(cache) - 1
    BY <2>4, LenProperties
  <2> DEFINE old(i) == OldPlace(i, k)
  <2>6. ASSUME NEW i \in DOMAIN w
        PROVE  w[i] = cache[old(i)] /\ old(i) \in DOMAIN cache /\ old(i) # k
    <3>1. old(i) \in DOMAIN cache /\ old(i) # k
      BY <1>1, <2>5 DEF OldPlace
    <3> QED
      BY <2>4, <2>5, <3>1
  <2>7. ASSUME NEW i \in DOMAIN w, NEW j \in DOMAIN w, i # j
        PROVE  old(i) # old(j)
    BY <1>1, <2>5, <2>7 DEF OldPlace
  <2> HIDE DEF old
  <2>8. Distinct(w)
    BY <1>1, <2>6, <2>7 DEF Distinct
  <2>9. \A i \in DOMAIN w : w[i].path # p /\ \E j \in DOMAIN cache : w[i] = cache[j]
    BY <1>1, <2>2, <2>6 DEF Distinct
  <2> QED
    BY <1>1, <2>1, <2>4, <2>8, <2>9
<1> QED
  BY <1>2, <1>3

\* An entry before what is left of the cache without its path.
LEMMA Before ==
    ASSUME NEW e \in Entry, GoodCache(cache), NEW s, s = <<e>> \o Without(e.path)
    PROVE  /\ s \in Seq(Entry) /\ Len(s) = Len(Without(e.path)) + 1
           /\ Distinct(s) /\ FromCacheOr(s, e)
PROOF
<1>1. PICK w \in Seq(Entry) :
          /\ w = Without(e.path) /\ Distinct(w)
          /\ \A i \in DOMAIN w : w[i].path # e.path /\ \E j \in DOMAIN cache : w[i] = cache[j]
  BY WithoutPath
<1>2. /\ s \in Seq(Entry) /\ Len(s) = Len(w) + 1 /\ s[1] = e
      /\ \A i \in 2 .. Len(w) + 1 : s[i] = w[i - 1]
  BY <1>1, Prefixed
<1>3. DOMAIN s = 1 .. Len(w) + 1 /\ DOMAIN w = 1 .. Len(w) /\ Len(w) \in Nat
  BY <1>1, <1>2, LenProperties
<1>4. ASSUME NEW i \in DOMAIN s
      PROVE  i = 1 \/ (i - 1 \in DOMAIN w /\ s[i] = w[i - 1])
  BY <1>2, <1>3
<1>5. Distinct(s)
  <2> SUFFICES ASSUME NEW i \in DOMAIN s, NEW j \in DOMAIN s, i # j
               PROVE  s[i].path # s[j].path
    BY DEF Distinct
  <2>1. CASE i = 1
    BY <1>1, <1>2, <1>4, <2>1
  <2>2. CASE j = 1
    BY <1>1, <1>2, <1>4, <2>2
  <2>3. CASE i # 1 /\ j # 1
    <3>1. i - 1 # j - 1
      BY <1>3
    <3> QED
      BY <1>1, <1>4, <2>3, <3>1 DEF Distinct
  <2> QED
    BY <2>1, <2>2, <2>3
<1>6. FromCacheOr(s, e)
  BY <1>1, <1>2, <1>4 DEF FromCacheOr
<1> QED
  BY <1>1, <1>2, <1>5, <1>6

\* LruCache::get only moves what the cache has.
LEMMA Promoting ==
    ASSUME NEW p, GoodCache(cache)
    PROVE  /\ GoodCache(Promoted(p))
           /\ \A i \in DOMAIN Promoted(p) :
                  \E j \in DOMAIN cache : Promoted(p)[i] = cache[j]
PROOF
<1>1. CASE ~ Cached(p)
  BY <1>1 DEF Promoted
<1>2. CASE Cached(p)
  <2>1. /\ EntryOf(p) \in Entry /\ EntryOf(p).path = p
        /\ PlaceOf(p) \in DOMAIN cache /\ EntryOf(p) = cache[PlaceOf(p)]
    BY <1>2, PlaceIsThere, ElementOfSeq, LenProperties DEF GoodCache
  <2>2. Promoted(p) = <<EntryOf(p)>> \o Without(EntryOf(p).path)
    BY <1>2, <2>1 DEF Promoted
  <2>3. Len(Without(p)) = Len(cache) - 1 /\ Len(cache) \in Nat
    BY <1>2, WithoutPath, LenProperties DEF GoodCache
  <2>4. /\ Promoted(p) \in Seq(Entry) /\ Len(Promoted(p)) = Len(Without(p)) + 1
        /\ Distinct(Promoted(p)) /\ FromCacheOr(Promoted(p), EntryOf(p))
    <3>1. PICK s : s = Promoted(p)
      OBVIOUS
    <3>2. /\ s \in Seq(Entry) /\ Len(s) = Len(Without(EntryOf(p).path)) + 1
          /\ Distinct(s) /\ FromCacheOr(s, EntryOf(p))
      BY <2>1, <2>2, <3>1, Before, Zenon
    <3> QED
      BY <2>1, <3>1, <3>2
  <2>5. Len(Promoted(p)) = Len(cache)
    BY <2>3, <2>4
  <2> QED
    BY <2>1, <2>4, <2>5 DEF GoodCache, FromCacheOr
<1> QED
  BY <1>1, <1>2

\* LruCache::put adds one entry and holds no more than its capacity.
LEMMA Putting ==
    ASSUME NEW e \in Entry, GoodCache(cache)
    PROVE  GoodCache(With(e)) /\ FromCacheOr(With(e), e)
PROOF
<1> DEFINE s == <<e>> \o Without(e.path)
<1>1. s \in Seq(Entry) /\ Distinct(s) /\ FromCacheOr(s, e)
  BY Before
<1> HIDE DEF s
<1>2. DOMAIN s = 1 .. Len(s) /\ Len(s) \in Nat
  BY <1>1, LenProperties
<1>3. CASE Len(s) <= Capacity
  <2>1. With(e) = s
    BY <1>3 DEF With, s
  <2> QED
    BY <1>1, <1>3, <2>1 DEF GoodCache
<1>4. CASE ~ (Len(s) <= Capacity)
  <2> DEFINE u == SubSeq(s, 1, Capacity)
  <2>1. Capacity \in Nat /\ Capacity < Len(s)
    BY <1>2, <1>4, DriverAssumption
  <2>2. u \in Seq(Entry) /\ Len(u) = Capacity /\ \A i \in 1 .. Capacity : u[i] = s[i]
    <3>1. \A i \in 1 .. Capacity : s[i] \in Entry
      BY <1>1, <2>1, <1>2, ElementOfSeq
    <3> QED
      BY <1>1, <2>1, <1>2, <3>1, SubSeqProperties
  <2>3. With(e) = u
    BY <1>4 DEF With, s
  <2> HIDE DEF u
  <2>4. DOMAIN u = 1 .. Capacity
    BY <2>2, LenProperties
  <2>5. Distinct(u) /\ FromCacheOr(u, e)
    BY <1>1, <1>2, <2>1, <2>2, <2>4 DEF Distinct, FromCacheOr
  <2> QED
    BY <2>1, <2>2, <2>3, <2>5 DEF GoodCache
<1> QED
  BY <1>3, <1>4
-----------------------------------------------------------------------------
(* The inductive invariant: what an entry, and what a callback on its way,  *)
(* knows of the volume, when f errors have happened.                        *)

TrueEntry(e, f) == (e.resolved => e.inode) /\ (f = 0 => e.inode)

IsListing(es, d, f) ==
    /\ Len(es) = Len(Listing[d])
    /\ \A i \in 1 .. Len(es) : es[i].path = Listing[d][i] /\ TrueEntry(es[i], f)

Given(n, room) == IF n < room THEN n ELSE room

TrueCallback(c, f) ==
    /\ c.stage \in {"put", "answer"} =>
           /\ c.op # "list" /\ c.path \in Existing
           /\ c.found.path = c.path /\ TrueEntry(c.found, f)
    /\ c.stage = "put" => c.found.resolved
    /\ c.stage = "answer" => Serves(c.op, c.found)
    /\ c.op = "list" => c.path \in Dirs
    /\ c.stage = "lookup" => c.op # "list"
    /\ c.stage \in {"fill", "filling", "listed", "end"} =>
           c.op = "list" /\ IsListing(c.entries, c.path, f)
    /\ c.stage \in {"listed", "end"} => c.got = Given(Len(c.entries) + 2, c.room)

IInv ==
    /\ TypeOK
    /\ \A i \in DOMAIN cache : TrueEntry(cache[i], faults)
    /\ \A t \in Threads : TrueCallback(callback[t], faults)
    /\ OpenFilesAreReadable

LEMMA CacheIsGood == TypeOK => GoodCache(cache)
PROOF
  BY DEF TypeOK, GoodCache, Distinct

LEMMA FaultsGo ==
    ASSUME NEW f \in Nat, NEW g \in Nat, g = f \/ g # 0
    PROVE  /\ \A e : TrueEntry(e, f) => TrueEntry(e, g)
           /\ \A c : TrueCallback(c, f) => TrueCallback(c, g)
PROOF
<1>1. \A e : TrueEntry(e, f) => TrueEntry(e, g)
  BY DEF TrueEntry
<1>2. \A es, d : IsListing(es, d, f) => IsListing(es, d, g)
  BY <1>1, Zenon DEF IsListing
<1>3. \A c : TrueCallback(c, f) => TrueCallback(c, g)
  BY <1>1, <1>2, Zenon DEF TrueCallback
<1> QED
  BY <1>1, <1>3

\* One callback goes on to c, while errors happen or do not.
LEMMA OneGoesOn ==
    ASSUME IInv, NEW t \in Threads, NEW c \in Callback,
           callback' = [callback EXCEPT ![t] = c],
           TrueCallback(c, faults'), faults' \in 0 .. MaxFaults,
           faults' = faults \/ faults' # 0
    PROVE  /\ callback' \in [Threads -> Callback]
           /\ \A u \in Threads : TrueCallback(callback'[u], faults')
PROOF
<1>1. callback \in [Threads -> Callback] /\ faults \in Nat /\ faults' \in Nat
  BY DriverAssumption DEF IInv, TypeOK
<1>2. callback' \in [Threads -> Callback]
  BY <1>1
<1>3. \A u \in Threads : TrueCallback(callback[u], faults')
  BY <1>1, FaultsGo, Zenon DEF IInv
<1>4. \A u \in Threads : callback'[u] = IF u = t THEN c ELSE callback[u]
  BY <1>1
<1>5. \A u \in Threads : TrueCallback(callback'[u], faults')
  BY <1>3, <1>4, Zenon
<1> QED
  BY <1>2, <1>5

\* A callback that has returned.
LEMMA Nothing ==
    /\ NoEntry \in Entry /\ NoCallback \in Callback
    /\ \A f : TrueCallback(NoCallback, f)
PROOF
<1>1. \E p : p \in Existing
  BY DriverAssumption DEF Existing
<1>2. NoEntry.path \in Existing
  BY <1>1 DEF NoEntry
<1>3. NoEntry \in Entry
  BY <1>2 DEF NoEntry, Entry
<1>4. NoCallback \in Callback
  BY <1>2, <1>3 DEF NoCallback, Callback, Paths
<1>5. \A f : TrueCallback(NoCallback, f)
  BY DEF TrueCallback, NoCallback
<1> QED
  BY <1>3, <1>4, <1>5

\* A step of one callback to c.
LEMMA OneStep ==
    ASSUME IInv, NEW t \in Threads, NEW c \in Callback,
           callback' = [callback EXCEPT ![t] = c], TrueCallback(c, faults'),
           faults' \in 0 .. MaxFaults, faults' = faults \/ faults' # 0,
           GoodCache(cache'), \A i \in DOMAIN cache' : TrueEntry(cache'[i], faults'),
           cacheLock' \in Threads \cup {NoThread},
           volumeLock' \in Threads \cup {NoThread},
           contexts' \subseteq Entry, OpenFilesAreReadable',
           calls' \in 0 .. MaxCalls
    PROVE  IInv'
PROOF
<1>1. /\ callback' \in [Threads -> Callback]
      /\ \A u \in Threads : TrueCallback(callback'[u], faults')
  BY OneGoesOn
<1>2. TypeOK'
  BY <1>1 DEF TypeOK, GoodCache, Distinct
<1> QED
  BY <1>1, <1>2 DEF IInv

\* A step of one callback that leaves the cache and the contexts as they are.
LEMMA OnlyCallbackSteps ==
    ASSUME IInv, NEW t \in Threads, NEW c \in Callback,
           callback' = [callback EXCEPT ![t] = c], TrueCallback(c, faults'),
           faults' \in 0 .. MaxFaults, faults' = faults \/ faults' # 0,
           UNCHANGED <<cache, contexts>>,
           cacheLock' \in Threads \cup {NoThread},
           volumeLock' \in Threads \cup {NoThread},
           calls' \in 0 .. MaxCalls
    PROVE  IInv'
PROOF
<1>1. GoodCache(cache') /\ contexts' \subseteq Entry
  BY CacheIsGood DEF IInv, TypeOK
<1>2. \A i \in DOMAIN cache' : TrueEntry(cache'[i], faults')
  <2>1. faults \in Nat /\ faults' \in Nat
    BY DriverAssumption DEF IInv, TypeOK
  <2> QED
    BY <2>1, FaultsGo, Zenon DEF IInv
<1>3. OpenFilesAreReadable'
  BY DEF IInv, OpenFilesAreReadable
<1> QED
  BY <1>1, <1>2, <1>3, OneStep

\* As the last, of a step in which nothing fails and nobody is called.
LEMMA QuietStep ==
    ASSUME IInv, NEW t \in Threads, NEW c \in Callback,
           callback' = [callback EXCEPT ![t] = c], TrueCallback(c, faults),
           UNCHANGED <<cache, contexts, calls, faults>>,
           cacheLock' \in {cacheLock, t, NoThread},
           volumeLock' \in {volumeLock, t, NoThread}
    PROVE  IInv'
PROOF
<1>1. /\ cacheLock' \in Threads \cup {NoThread} /\ volumeLock' \in Threads \cup {NoThread}
      /\ calls' \in 0 .. MaxCalls /\ faults' \in 0 .. MaxFaults /\ TrueCallback(c, faults')
  BY DEF IInv, TypeOK
<1> QED
  BY <1>1, OnlyCallbackSteps

LEMMA EnterKeeps ==
    ASSUME IInv, NEW t \in Threads, NEW p \in Paths,
           NEW op \in {"security", "open", "list", "info", "volume"},
           NEW stage \in {"lookup", "wait"}, Enter(t, op, stage, p),
           op = "list" => p \in Dirs /\ stage = "wait"
    PROVE  IInv'
PROOF
<1> DEFINE c == [NoCallback EXCEPT !.op = op, !.stage = stage, !.path = p]
<1>1. c \in Callback /\ c.op = op /\ c.stage = stage /\ c.path = p
  BY Nothing DEF Callback
<1>2. callback' = [callback EXCEPT ![t] = c]
  BY DEF Enter
<1> HIDE DEF c
<1>3. TrueCallback(c, faults')
  BY <1>1 DEF TrueCallback
<1>4. calls' \in 0 .. MaxCalls /\ faults' \in 0 .. MaxFaults /\ faults' = faults
      /\ cacheLock' \in Threads \cup {NoThread} /\ volumeLock' \in Threads \cup {NoThread}
      /\ UNCHANGED <<cache, contexts>>
  BY DriverAssumption DEF Enter, IInv, TypeOK, locks
<1> QED
  BY <1>1, <1>2, <1>3, <1>4, OnlyCallbackSteps

LEMMA AnswerAtOnceKeeps ==
    ASSUME IInv, NEW t \in Threads, AnswerAtOnce(t)
    PROVE  IInv'
PROOF
<1>1. calls' \in 0 .. MaxCalls /\ UNCHANGED <<cache, locks, contexts, callback, faults>>
  BY DriverAssumption DEF AnswerAtOnce, IInv, TypeOK
<1> QED
  BY <1>1 DEF locks, IInv, TypeOK, OpenFilesAreReadable

LEMMA CloseKeeps ==
    ASSUME IInv, NEW c \in contexts, Close(c)
    PROVE  IInv'
PROOF
  BY DEF IInv, TypeOK, OpenFilesAreReadable, Close, locks

LEMMA LookupKeeps ==
    ASSUME IInv, NEW t \in Threads, Lookup(t)
    PROVE  IInv'
PROOF
<1> DEFINE p == callback[t].path
<1>1. GoodCache(cache) /\ callback[t] \in Callback /\ TrueCallback(callback[t], faults)
      /\ callback[t].stage = "lookup"
  BY CacheIsGood DEF IInv, TypeOK, Lookup, At
<1>2. GoodCache(cache') /\ \A i \in DOMAIN cache' : \E j \in DOMAIN cache : cache'[i] = cache[j]
  BY <1>1, Promoting DEF Lookup
<1>3. \A i \in DOMAIN cache' : TrueEntry(cache'[i], faults')
  BY <1>2 DEF IInv, Lookup
<1>4. /\ cacheLock' \in Threads \cup {NoThread} /\ volumeLock' \in Threads \cup {NoThread}
      /\ contexts' \subseteq Entry /\ calls' \in 0 .. MaxCalls
      /\ faults' \in 0 .. MaxFaults /\ faults' = faults
  BY DEF Lookup, IInv, TypeOK, locks
<1>5. OpenFilesAreReadable'
  BY DEF Lookup, IInv, OpenFilesAreReadable
<1>6. CASE Cached(p) /\ Serves(callback[t].op, EntryOf(p))
  <2> DEFINE c == [callback[t] EXCEPT !.stage = "answer", !.found = EntryOf(p)]
  <2>1. /\ EntryOf(p) \in Entry /\ EntryOf(p).path = p /\ TrueEntry(EntryOf(p), faults)
    <3>1. PlaceOf(p) \in DOMAIN cache /\ EntryOf(p) = cache[PlaceOf(p)]
          /\ EntryOf(p).path = p
      BY <1>6, PlaceIsThere
    <3>2. \A i \in DOMAIN cache : cache[i] \in Entry
      BY <1>1, ElementOfSeq, LenProperties DEF GoodCache
    <3> QED
      BY <3>1, <3>2 DEF IInv
  <2>2. p \in Existing
    BY <2>1 DEF Entry
  <2>3. c \in Callback /\ c.op = callback[t].op /\ c.stage = "answer" /\ c.path = p
        /\ c.found = EntryOf(p)
    BY <1>1, <2>1 DEF Callback
  <2>4. callback' = [callback EXCEPT ![t] = c]
    BY <1>1, <1>6 DEF Lookup
  <2> HIDE DEF c
  <2>5. TrueCallback(c, faults')
    BY <1>1, <1>4, <1>6, <2>1, <2>2, <2>3 DEF TrueCallback, At
  <2> QED
    BY <1>2, <1>3, <1>4, <1>5, <2>3, <2>4, <2>5, OneStep
<1>7. CASE ~ (Cached(p) /\ Serves(callback[t].op, EntryOf(p)))
  <2> DEFINE c == [callback[t] EXCEPT !.stage = "wait"]
  <2>1. c \in Callback /\ c.op = callback[t].op /\ c.stage = "wait" /\ c.path = p
    BY <1>1 DEF Callback
  <2>2. callback' = [callback EXCEPT ![t] = c]
    BY <1>7 DEF Lookup, Goes
  <2> HIDE DEF c
  <2>3. TrueCallback(c, faults')
    BY <1>1, <2>1 DEF TrueCallback
  <2> QED
    BY <1>2, <1>3, <1>4, <1>5, <2>1, <2>2, <2>3, OneStep
<1> QED
  BY <1>6, <1>7

LEMMA LockVolumeKeeps ==
    ASSUME IInv, NEW t \in Threads, LockVolume(t)
    PROVE  IInv'
PROOF
<1> DEFINE c == [callback[t] EXCEPT !.stage = "inside"]
<1>1. callback[t] \in Callback /\ TrueCallback(callback[t], faults)
  BY DEF IInv, TypeOK
<1>2. /\ c \in Callback /\ c.op = callback[t].op /\ c.stage = "inside"
      /\ c.path = callback[t].path
  BY <1>1 DEF Callback
<1>3. callback' = [callback EXCEPT ![t] = c]
  BY DEF LockVolume, Goes
<1> HIDE DEF c
<1>4. TrueCallback(c, faults)
  BY <1>1, <1>2 DEF TrueCallback
<1> QED
  BY <1>2, <1>3, <1>4, QuietStep DEF LockVolume

LEMMA StatKeeps ==
    ASSUME IInv, NEW t \in Threads, Stat(t)
    PROVE  IInv'
PROOF
<1> DEFINE p == callback[t].path
           stage == IF callback[t].op = "info" THEN "answer" ELSE "put"
           c == [callback[t] EXCEPT !.found = Resolved(p), !.stage = stage]
<1>1. callback[t] \in Callback /\ TrueCallback(callback[t], faults)
  BY DEF IInv, TypeOK
<1>2. callback[t].op # "list" /\ p \in Existing /\ Resolved(p) \in Entry
  BY DEF Stat, Resolved, Entry
<1>3. /\ c \in Callback /\ c.op = callback[t].op /\ c.stage = stage
      /\ c.path = p /\ c.found = Resolved(p)
  BY <1>1, <1>2 DEF Callback
<1>4. callback' = [callback EXCEPT ![t] = c]
  BY DEF Stat
<1>5. stage \in {"answer", "put"}
  OBVIOUS
<1> HIDE DEF c, stage
<1>6. TrueCallback(c, faults)
  BY <1>2, <1>3, <1>5 DEF TrueCallback, Resolved, TrueEntry, Serves
<1> QED
  BY <1>3, <1>4, <1>6, QuietStep DEF Stat

LEMMA ListKeeps ==
    ASSUME IInv, NEW t \in Threads, List(t)
    PROVE  IInv'
PROOF
<1> DEFINE d == callback[t].path
           names == Listing[d]
           es(unread) == [i \in DOMAIN names |-> Listed(names[i], unread)]
<1>1. callback[t] \in Callback /\ TrueCallback(callback[t], faults) /\ faults \in Nat
      /\ callback[t].op = "list"
  BY DriverAssumption DEF IInv, TypeOK, List
<1>2. d \in Dirs /\ names \in Seq(Existing)
  BY <1>1, DriverAssumption DEF TrueCallback
<1>3. DOMAIN names = 1 .. Len(names) /\ Len(names) \in Nat
      /\ \A i \in 1 .. Len(names) : names[i] \in Existing
  BY <1>2, LenProperties, ElementOfSeq
<1>4. PICK unread \in {{}} \cup { {names[i]} : i \in DOMAIN names } :
          /\ faults + Cardinality(unread) <= MaxFaults
          /\ faults' = faults + Cardinality(unread)
          /\ callback' = [callback EXCEPT ![t].stage = "fill", ![t].entries = es(unread)]
  BY DEF List
<1> DEFINE c == [callback[t] EXCEPT !.stage = "fill", !.entries = es(unread)]
<1>5. /\ es(unread) \in Seq(Entry) /\ Len(es(unread)) = Len(names)
      /\ \A i \in 1 .. Len(names) : es(unread)[i] = Listed(names[i], unread)
  <2>1. \A i \in 1 .. Len(names) : Listed(names[i], unread) \in Entry
    BY <1>3 DEF Listed, Entry
  <2> QED
    BY <1>3, <2>1, SeqDef
<1>6. /\ c \in Callback /\ c.op = "list" /\ c.stage = "fill" /\ c.path = d
      /\ c.entries = es(unread)
  BY <1>1, <1>5 DEF Callback
<1>7. callback' = [callback EXCEPT ![t] = c]
  BY <1>4
<1>8. (unread = {} /\ faults' = faults) \/ faults' = faults + 1
  <2>1. Cardinality({}) = 0 /\ \A x : Cardinality({x}) = 1
    BY FS_EmptySet, FS_Singleton
  <2>2. unread = {} \/ \E x : unread = {x}
    OBVIOUS
  <2>3. Cardinality(unread) = 1 \/ unread = {}
    BY <2>1, <2>2
  <2>4. unread = {} => Cardinality(unread) = 0
    BY <2>1
  <2>5. faults' = faults + Cardinality(unread)
    BY <1>4, Zenon
  <2> QED
    BY <1>1, <2>3, <2>4, <2>5
<1>9. faults' \in 0 .. MaxFaults /\ (faults' = faults \/ faults' # 0)
      /\ (faults' = 0 => unread = {})
  BY <1>1, <1>4, <1>8, DriverAssumption
<1> HIDE DEF c
<1>10. IsListing(c.entries, d, faults')
  <2> SUFFICES ASSUME NEW i \in 1 .. Len(names)
               PROVE  /\ Listed(names[i], unread).path = names[i]
                      /\ TrueEntry(Listed(names[i], unread), faults')
    <3>1. \A i \in 1 .. Len(names) : c.entries[i] = Listed(names[i], unread)
      BY <1>5, <1>6, Zenon
    <3>2. Len(c.entries) = Len(names)
      BY <1>5, <1>6, Zenon
    <3> QED
      BY <3>1, <3>2, Zenon DEF IsListing
  <2> QED
    BY <1>9 DEF Listed, TrueEntry
<1> HIDE DEF es
<1>11. TrueCallback(c, faults')
  BY <1>2, <1>6, <1>10 DEF TrueCallback
<1>12. UNCHANGED <<cache, contexts>> /\ calls' \in 0 .. MaxCalls
       /\ cacheLock' \in Threads \cup {NoThread} /\ volumeLock' \in Threads \cup {NoThread}
  BY DEF List, IInv, TypeOK
<1> QED
  BY <1>6, <1>7, <1>9, <1>11, <1>12, OnlyCallbackSteps

LEMMA TellVolumeKeeps ==
    ASSUME IInv, NEW t \in Threads, TellVolume(t)
    PROVE  IInv'
PROOF
  BY Nothing, QuietStep DEF TellVolume, Returns

LEMMA VolumeFailsKeeps ==
    ASSUME IInv, NEW t \in Threads, VolumeFails(t)
    PROVE  IInv'
PROOF
<1>1. faults \in 0 .. MaxFaults
  BY DEF IInv, TypeOK
<1>2. faults' \in 0 .. MaxFaults /\ (faults' = faults \/ faults' # 0)
  BY <1>1, DriverAssumption DEF VolumeFails
<1>3. NoCallback \in Callback /\ TrueCallback(NoCallback, faults')
  BY Nothing
<1>4. /\ UNCHANGED <<cache, contexts>> /\ calls' \in 0 .. MaxCalls
      /\ cacheLock' \in Threads \cup {NoThread} /\ volumeLock' \in Threads \cup {NoThread}
      /\ callback' = [callback EXCEPT ![t] = NoCallback]
  BY DEF VolumeFails, Returns, IInv, TypeOK
<1> QED
  BY <1>2, <1>3, <1>4, OnlyCallbackSteps

LEMMA PutKeeps ==
    ASSUME IInv, NEW t \in Threads, Put(t)
    PROVE  IInv'
PROOF
<1> DEFINE c == [callback[t] EXCEPT !.stage = "answer"]
           e == callback[t].found
<1>1. callback[t] \in Callback /\ TrueCallback(callback[t], faults) /\ GoodCache(cache)
      /\ callback[t].stage = "put"
  BY CacheIsGood DEF IInv, TypeOK, Put, At
<1>2. e \in Entry /\ TrueEntry(e, faults) /\ e.resolved
  BY <1>1 DEF Callback, TrueCallback
<1>3. GoodCache(cache') /\ FromCacheOr(cache', e)
  BY <1>1, <1>2, Putting DEF Put
<1>4. \A i \in DOMAIN cache' : TrueEntry(cache'[i], faults')
  BY <1>2, <1>3 DEF IInv, FromCacheOr, Put
<1>5. /\ c \in Callback /\ c.op = callback[t].op /\ c.stage = "answer"
      /\ c.path = callback[t].path /\ c.found = e
  BY <1>1 DEF Callback
<1>6. callback' = [callback EXCEPT ![t] = c]
  BY DEF Put, Goes
<1> HIDE DEF c
<1>7. TrueCallback(c, faults')
  BY <1>1, <1>2, <1>5 DEF TrueCallback, Serves, Put
<1>8. /\ cacheLock' \in Threads \cup {NoThread} /\ volumeLock' \in Threads \cup {NoThread}
      /\ contexts' \subseteq Entry /\ calls' \in 0 .. MaxCalls
      /\ faults' \in 0 .. MaxFaults /\ faults' = faults
  BY DEF Put, IInv, TypeOK, locks
<1>9. OpenFilesAreReadable'
  BY DEF Put, IInv, OpenFilesAreReadable
<1> QED
  BY <1>3, <1>4, <1>5, <1>6, <1>7, <1>8, <1>9, OneStep

LEMMA LockCacheKeeps ==
    ASSUME IInv, NEW t \in Threads, LockCache(t)
    PROVE  IInv'
PROOF
<1> DEFINE c == [callback[t] EXCEPT !.stage = "filling"]
<1>1. callback[t] \in Callback /\ TrueCallback(callback[t], faults)
      /\ callback[t].stage = "fill"
  BY DEF IInv, TypeOK, LockCache, At
<1>2. /\ c \in Callback /\ c.op = callback[t].op /\ c.stage = "filling"
      /\ c.path = callback[t].path /\ c.entries = callback[t].entries
  BY <1>1 DEF Callback
<1>3. callback' = [callback EXCEPT ![t] = c]
  BY DEF LockCache, Goes
<1> HIDE DEF c
<1>4. TrueCallback(c, faults)
  BY <1>1, <1>2 DEF TrueCallback
<1> QED
  BY <1>2, <1>3, <1>4, QuietStep DEF LockCache

LEMMA FillKeeps ==
    ASSUME IInv, NEW t \in Threads, Fill(t)
    PROVE  IInv'
PROOF
<1> DEFINE c == [callback[t] EXCEPT !.next = @ + 1]
           e == NextEntry(t)
<1>1. callback[t] \in Callback /\ TrueCallback(callback[t], faults) /\ GoodCache(cache)
      /\ callback[t].stage = "filling"
  BY CacheIsGood DEF IInv, TypeOK, Fill, At
<1>2. e \in Entry /\ TrueEntry(e, faults)
  <2>1. callback[t].entries \in Seq(Entry) /\ callback[t].next \in Nat \ {0}
        /\ Len(callback[t].entries) \in Nat
    BY <1>1, LenProperties DEF Callback
  <2> QED
    BY <1>1, <2>1 DEF Fill, HasNext, NextEntry, TrueCallback, IsListing
<1>3. GoodCache(cache') /\ FromCacheOr(cache', e)
  BY <1>1, <1>2, Putting DEF Fill, FromCacheOr
<1>4. \A i \in DOMAIN cache' : TrueEntry(cache'[i], faults')
  BY <1>2, <1>3 DEF IInv, FromCacheOr, Fill
<1>5. /\ c \in Callback /\ c.op = callback[t].op /\ c.stage = "filling"
      /\ c.path = callback[t].path /\ c.entries = callback[t].entries
  BY <1>1 DEF Callback
<1>6. callback' = [callback EXCEPT ![t] = c]
  BY DEF Fill
<1> HIDE DEF c, e
<1>7. TrueCallback(c, faults')
  BY <1>1, <1>5 DEF TrueCallback, Fill
<1>8. /\ cacheLock' \in Threads \cup {NoThread} /\ volumeLock' \in Threads \cup {NoThread}
      /\ contexts' \subseteq Entry /\ calls' \in 0 .. MaxCalls
      /\ faults' \in 0 .. MaxFaults /\ faults' = faults
  BY DEF Fill, IInv, TypeOK, locks
<1>9. OpenFilesAreReadable'
  BY DEF Fill, IInv, OpenFilesAreReadable
<1> QED
  BY <1>3, <1>4, <1>5, <1>6, <1>7, <1>8, <1>9, OneStep

LEMMA FilledKeeps ==
    ASSUME IInv, NEW t \in Threads, Filled(t)
    PROVE  IInv'
PROOF
<1>1. callback[t] \in Callback /\ TrueCallback(callback[t], faults)
      /\ callback[t].stage = "filling"
  BY DEF IInv, TypeOK, Filled, At
<1>2. PICK room \in BufferSizes :
          callback' = [callback EXCEPT
              ![t].room = room, ![t].got = Fitting(t, room),
              ![t].stage = IF InBuffer(t) < room THEN "end" ELSE "listed"]
  BY DEF Filled
<1>3. PICK stage \in {"end", "listed"} :
          stage = IF InBuffer(t) < room THEN "end" ELSE "listed"
  OBVIOUS
<1>4. PICK got : got = Fitting(t, room)
  OBVIOUS
<1> DEFINE c == [callback[t] EXCEPT !.room = room, !.got = got, !.stage = stage]
<1>5. got = Given(Len(callback[t].entries) + 2, room)
  BY <1>4 DEF Fitting, InBuffer, Given
<1>6. got \in Nat /\ room \in Nat
  BY <1>1, <1>5, DriverAssumption, LenProperties DEF Given, Callback
<1>7. /\ c \in Callback /\ c.op = callback[t].op /\ c.stage = stage
      /\ c.path = callback[t].path /\ c.entries = callback[t].entries
      /\ c.room = room /\ c.got = got
  BY <1>1, <1>6 DEF Callback
<1>8. callback' = [callback EXCEPT ![t] = c]
  BY <1>2, <1>3, <1>4
<1> HIDE DEF c
<1>9. TrueCallback(c, faults)
  BY <1>1, <1>5, <1>7 DEF TrueCallback
<1> QED
  BY <1>7, <1>8, <1>9, QuietStep DEF Filled

LEMMA BufferFailsKeeps ==
    ASSUME IInv, NEW t \in Threads, BufferFails(t)
    PROVE  IInv'
PROOF
<1>1. faults \in 0 .. MaxFaults
  BY DEF IInv, TypeOK
<1>2. faults' \in 0 .. MaxFaults /\ faults' # 0
  BY <1>1, DriverAssumption DEF BufferFails
<1>3. NoCallback \in Callback /\ TrueCallback(NoCallback, faults')
  BY Nothing
<1>4. /\ UNCHANGED <<cache, contexts>> /\ calls' \in 0 .. MaxCalls
      /\ cacheLock' \in Threads \cup {NoThread} /\ volumeLock' \in Threads \cup {NoThread}
      /\ callback' = [callback EXCEPT ![t] = NoCallback]
  BY DEF BufferFails, Returns, IInv, TypeOK
<1> QED
  BY <1>2, <1>3, <1>4, OnlyCallbackSteps

LEMMA ReadOnKeeps ==
    ASSUME IInv, NEW t \in Threads, ReadOn(t)
    PROVE  IInv'
PROOF
<1> DEFINE c == [callback[t] EXCEPT !.stage = "end"]
<1>1. callback[t] \in Callback /\ TrueCallback(callback[t], faults)
      /\ callback[t].stage = "listed"
  BY DEF IInv, TypeOK, ReadOn, At
<1>2. /\ c \in Callback /\ c.op = callback[t].op /\ c.stage = "end"
      /\ c.path = callback[t].path /\ c.entries = callback[t].entries
      /\ c.room = callback[t].room /\ c.got = callback[t].got
  BY <1>1 DEF Callback
<1>3. callback' = [callback EXCEPT ![t] = c]
  BY DEF ReadOn, Goes
<1> HIDE DEF c
<1>4. TrueCallback(c, faults)
  BY <1>1, <1>2 DEF TrueCallback
<1> QED
  BY <1>2, <1>3, <1>4, QuietStep DEF ReadOn, locks

LEMMA ListEndsKeeps ==
    ASSUME IInv, NEW t \in Threads, ListEnds(t)
    PROVE  IInv'
PROOF
  BY Nothing, QuietStep DEF ListEnds, Returns, locks

LEMMA AnswerKeeps ==
    ASSUME IInv, NEW t \in Threads, Answer(t)
    PROVE  IInv'
PROOF
<1> DEFINE e == callback[t].found
<1>1. callback[t] \in Callback /\ TrueCallback(callback[t], faults) /\ GoodCache(cache)
      /\ callback[t].stage = "answer"
  BY CacheIsGood DEF IInv, TypeOK, Answer, At
<1>2. e \in Entry /\ TrueEntry(e, faults) /\ Serves(callback[t].op, e)
  BY <1>1 DEF Callback, TrueCallback
<1>3. contexts' \subseteq Entry /\ OpenFilesAreReadable'
  <2>1. CASE callback[t].op = "open"
    <3>1. contexts' = contexts \cup {e}
      BY <2>1 DEF Answer
    <3>2. KindOf(e.path) = "file" => e.resolved /\ e.inode
      BY <1>2, <2>1 DEF Serves, TrueEntry, KindOf
    <3> QED
      BY <1>2, <3>1, <3>2 DEF IInv, TypeOK, OpenFilesAreReadable
  <2>2. CASE callback[t].op # "open"
    <3>1. contexts' = contexts
      BY <2>2 DEF Answer
    <3> QED
      BY <3>1 DEF IInv, TypeOK, OpenFilesAreReadable
  <2> QED
    BY <2>1, <2>2
<1>4. NoCallback \in Callback /\ TrueCallback(NoCallback, faults')
  BY Nothing
<1>5. /\ cacheLock' \in Threads \cup {NoThread} /\ volumeLock' \in Threads \cup {NoThread}
      /\ calls' \in 0 .. MaxCalls /\ faults' \in 0 .. MaxFaults /\ faults' = faults
      /\ cache' = cache /\ callback' = [callback EXCEPT ![t] = NoCallback]
  BY DEF Answer, Returns, IInv, TypeOK, locks
<1>6. GoodCache(cache') /\ \A i \in DOMAIN cache' : TrueEntry(cache'[i], faults')
  BY <1>1, <1>5 DEF IInv
<1> QED
  BY <1>3, <1>4, <1>5, <1>6, OneStep

LEMMA InitHolds == Init => IInv
PROOF
<1> SUFFICES ASSUME Init
             PROVE  IInv
  OBVIOUS
<1>1. cache = <<>> /\ cache \in Seq(Entry) /\ Len(cache) = 0 /\ DOMAIN cache = {}
  BY DEF Init
<1>2. \A t \in Threads : callback[t] \in Callback /\ TrueCallback(callback[t], faults)
  BY Nothing DEF Init
<1>3. TypeOK
  BY <1>1, <1>2, Nothing, DriverAssumption DEF Init, TypeOK
<1> QED
  BY <1>1, <1>2, <1>3 DEF Init, IInv, OpenFilesAreReadable

LEMMA NextKeeps == IInv /\ [Next]_vars => IInv'
PROOF
<1> SUFFICES ASSUME IInv, [Next]_vars
             PROVE  IInv'
  OBVIOUS
<1>1. CASE UNCHANGED vars
  BY <1>1 DEF vars, IInv, TypeOK, OpenFilesAreReadable
<1>2. ASSUME NEW c \in contexts, Close(c)
      PROVE  IInv'
  BY <1>2, CloseKeeps
<1>3. ASSUME NEW t \in Threads, ThreadStep(t)
      PROVE  IInv'
  BY <1>3, LookupKeeps, LockVolumeKeeps, StatKeeps, ListKeeps, TellVolumeKeeps,
     VolumeFailsKeeps, PutKeeps, LockCacheKeeps, FillKeeps, FilledKeeps, BufferFailsKeeps,
     ReadOnKeeps, ListEndsKeeps, AnswerKeeps DEF ThreadStep
<1>4. ASSUME NEW t \in Threads, NEW p \in Paths, GetSecurityByName(t, p) \/ Open(t, p)
      PROVE  IInv'
  <2>1. CASE AnswerAtOnce(t)
    BY <2>1, AnswerAtOnceKeeps
  <2>2. CASE ~ AnswerAtOnce(t)
    BY <1>4, <2>2, EnterKeeps DEF GetSecurityByName, Open
  <2> QED
    BY <2>1, <2>2
<1>5. ASSUME NEW t \in Threads, NEW c \in contexts,
             GetFileInfo(t, c) \/ ReadDirectory(t, c)
      PROVE  IInv'
  <2>1. c.path \in Paths
    BY DEF IInv, TypeOK, Entry, Paths
  <2> QED
    BY <1>5, <2>1, EnterKeeps DEF GetFileInfo, ReadDirectory
<1>6. ASSUME NEW t \in Threads, GetVolumeInfo(t)
      PROVE  IInv'
  <2>1. NoEntry.path \in Paths
    BY Nothing DEF Entry, Paths
  <2> QED
    BY <1>6, <2>1, EnterKeeps DEF GetVolumeInfo
<1> QED
  BY <1>1, <1>2, <1>3, <1>4, <1>5, <1>6 DEF Next, NoMoreCalls

LEMMA Invariant == Spec => []IInv
PROOF
  BY InitHolds, NextKeeps, PTL DEF Spec
-----------------------------------------------------------------------------
\* The cache never exceeds its capacity nor has a path twice, whatever the threads do.
THEOREM TypeCorrect == Spec => []TypeOK
PROOF
<1>1. IInv => TypeOK
  BY DEF IInv
<1> QED
  BY <1>1, Invariant, PTL

\* What is open can be read, for any interleaving of callbacks, evictions and errors.
THEOREM OpenIsReadable == Spec => []OpenFilesAreReadable
PROOF
<1>1. IInv => OpenFilesAreReadable
  BY DEF IInv
<1> QED
  BY <1>1, Invariant, PTL

\* The kind and the number in the FileInfo of an entry, with or without its inode.
LEMMA NameIsRight ==
    ASSUME NEW e, e.path \in Existing
    PROVE  IsNamedIn(InfoOf(e), e.path)
PROOF
  BY DEF IsNamedIn, InfoOf, FillFileInfo, Attributes, KindOf

\* The FileInfo of an entry that has its inode.
LEMMA InfoIsRight ==
    ASSUME NEW e, e.path \in Existing, e.inode
    PROVE  IsInfoOf(InfoOf(e), e.path)
PROOF
<1> DEFINE n == Inodes[e.path]
           info == InfoOf(e)
<1>1. n.size \in 0 .. Word - Cluster /\ n.created \in Times /\ n.modified \in Times
  BY DriverAssumption
<1>2. /\ info.size = n.size /\ info.allocation = Allocation(n.size)
      /\ info.created = FileTime(n.created) /\ info.modified = FileTime(n.modified)
  BY DEF InfoOf, StatOf, FillFileInfo
<1>3. IsNamedIn(info, e.path)
  BY NameIsRight
<1> QED
  BY <1>1, <1>2, <1>3, AllocationIsRight, FileTimeIsRight, Zenon DEF IsInfoOf

\* What AnswersAreRight says of the answer of a callback c, and of its listing.
AnswerIsRight(c) ==
    /\ c.found.path = c.path
    /\ IsNamedIn(InfoOf(c.found), c.path)
    /\ faults = 0 \/ (c.op = "open" /\ c.path \in FilePaths)
           => IsInfoOf(InfoOf(c.found), c.path)

ListingIsRight(c) ==
    \A i \in DOMAIN c.entries :
        /\ IsNamedIn(InfoOf(c.entries[i]), Listing[c.path][i])
        /\ faults = 0 => IsInfoOf(InfoOf(c.entries[i]), Listing[c.path][i])

\* What is answered agrees with the volume, and all of it that an error can make wrong
\* is the size and the times of an entry that a listing has put into the cache.
THEOREM AnswersAgree == Spec => []AnswersAreRight
PROOF
<1>1. IInv => AnswersAreRight
  <2> SUFFICES ASSUME IInv, NEW t \in Threads
               PROVE  /\ At(t, "answer") => AnswerIsRight(callback[t])
                      /\ At(t, "end") => ListingIsRight(callback[t])
    BY Zenon DEF AnswersAreRight, AnswerIsRight, ListingIsRight
  <2> DEFINE c == callback[t]
  <2>1. c \in Callback /\ TrueCallback(c, faults)
    BY DEF IInv, TypeOK
  <2>2. ASSUME At(t, "answer")
        PROVE  AnswerIsRight(c)
    <3>1. /\ c.found.path = c.path /\ c.path \in Existing
          /\ c.found.resolved => c.found.inode
          /\ faults = 0 => c.found.inode
          /\ Serves(c.op, c.found)
      BY <2>1, <2>2 DEF At, TrueCallback, TrueEntry
    <3>2. c.op = "open" /\ c.path \in FilePaths => c.found.inode
      BY <3>1, DriverAssumption DEF Serves, KindOf
    <3>3. IsNamedIn(InfoOf(c.found), c.path)
      BY <3>1, NameIsRight
    <3>4. c.found.inode => IsInfoOf(InfoOf(c.found), c.path)
      BY <3>1, InfoIsRight
    <3> QED
      BY <3>1, <3>2, <3>3, <3>4 DEF AnswerIsRight
  <2>3. ASSUME At(t, "end")
        PROVE  ListingIsRight(c)
    <3>1. IsListing(c.entries, c.path, faults)
      BY <2>1, <2>3 DEF At, TrueCallback
    <3>2. /\ DOMAIN c.entries = 1 .. Len(c.entries)
          /\ \A i \in DOMAIN c.entries : c.entries[i] \in Entry
      BY <2>1, LenProperties, ElementOfSeq DEF Callback
    <3>3. \A i \in DOMAIN c.entries :
              /\ c.entries[i].path = Listing[c.path][i]
              /\ faults = 0 => c.entries[i].inode
              /\ c.entries[i].path \in Existing
      BY <3>1, <3>2 DEF IsListing, TrueEntry, Entry
    <3>4. \A i \in DOMAIN c.entries :
              /\ IsNamedIn(InfoOf(c.entries[i]), Listing[c.path][i])
              /\ faults = 0 => IsInfoOf(InfoOf(c.entries[i]), Listing[c.path][i])
      BY <3>3, NameIsRight, InfoIsRight
    <3> QED
      BY <3>4 DEF ListingIsRight
  <2> QED
    BY <2>2, <2>3
<1> QED
  BY <1>1, Invariant, PTL

\* A listing is given as a whole, or as much of it as the buffer holds.
THEOREM ListingsAreWhole == Spec => []ListingIsWhole
PROOF
<1>1. IInv => ListingIsWhole
  <2> SUFFICES ASSUME IInv, NEW t \in Threads, At(t, "end")
               PROVE  LET n == Len(Listing[callback[t].path]) + 2
                      IN  callback[t].got = IF n <= callback[t].room THEN n
                                            ELSE callback[t].room
    BY DEF ListingIsWhole
  <2>1. callback[t] \in Callback /\ TrueCallback(callback[t], faults)
    BY DEF IInv, TypeOK
  <2>2. /\ callback[t].got = Given(Len(callback[t].entries) + 2, callback[t].room)
        /\ Len(callback[t].entries) = Len(Listing[callback[t].path])
    BY <2>1 DEF At, TrueCallback, IsListing
  <2>3. callback[t].room \in Nat /\ Len(callback[t].entries) \in Nat
    BY <2>1, LenProperties DEF Callback
  <2> QED
    BY <2>2, <2>3 DEF Given
<1> QED
  BY <1>1, Invariant, PTL

\* An entry with extents leaves the cache by eviction only.
THEOREM ResolvedStaysUntilEvicted == Spec => ResolvedStays
PROOF
<1> DEFINE A == \A p \in Existing : Cached(p) /\ EntryOf(p).resolved /\ Cached(p)'
                                        => EntryOf(p).resolved'
<1>1. IInv /\ [Next]_vars => [A]_vars
  <2> SUFFICES ASSUME IInv, [Next]_vars, NEW p \in Existing, Cached(p),
                      EntryOf(p).resolved, Cached(p)'
               PROVE  EntryOf(p).resolved'
    OBVIOUS
  <2>1. GoodCache(cache) /\ Cached(p) /\ EntryOf(p) = cache[PlaceOf(p)]
        /\ PlaceOf(p) \in DOMAIN cache /\ EntryOf(p).path = p
    BY CacheIsGood, PlaceIsThere DEF IInv
  <2>2. PICK i \in DOMAIN cache' : cache'[i].path = p /\ EntryOf(p)' = cache'[i]
    BY DEF Cached, EntryOf, PlaceOf
  <2>3. ASSUME \E j \in DOMAIN cache : cache'[i] = cache[j]
        PROVE  EntryOf(p).resolved'
    BY <2>1, <2>2, <2>3 DEF GoodCache, Distinct
  <2>4. ASSUME cache' = cache
        PROVE  EntryOf(p).resolved'
    BY <2>2, <2>3, <2>4
  <2>5. ASSUME NEW t \in Threads, Lookup(t)
        PROVE  EntryOf(p).resolved'
    BY <2>1, <2>3, <2>5, Promoting DEF Lookup
  <2>6. ASSUME NEW t \in Threads, Put(t)
        PROVE  EntryOf(p).resolved'
    <3>1. callback[t] \in Callback /\ TrueCallback(callback[t], faults)
      BY DEF IInv, TypeOK
    <3>2. callback[t].found \in Entry /\ callback[t].found.resolved
      BY <2>6, <3>1 DEF Callback, TrueCallback, Put, At
    <3>3. FromCacheOr(cache', callback[t].found)
      BY <2>1, <2>6, <3>2, Putting DEF Put
    <3> QED
      BY <2>2, <2>3, <3>2, <3>3 DEF FromCacheOr
  <2>7. ASSUME NEW t \in Threads, Fill(t)
        PROVE  EntryOf(p).resolved'
    <3>1. CASE Cached(NextEntry(t).path)
      BY <2>4, <2>7, <3>1 DEF Fill
    <3>2. CASE ~ Cached(NextEntry(t).path)
      <4>1. NextEntry(t) \in Entry
        <5>1. callback[t] \in Callback
          BY DEF IInv, TypeOK
        <5>2. callback[t].entries \in Seq(Entry) /\ callback[t].next \in Nat
          BY <5>1 DEF Callback
        <5>3. callback[t].next \in 1 .. Len(callback[t].entries)
          BY <2>7, <5>1, <5>2, LenProperties DEF Fill, HasNext, Callback
        <5> QED
          BY <5>2, <5>3, ElementOfSeq DEF NextEntry
      <4>2. FromCacheOr(cache', NextEntry(t))
        BY <2>1, <2>7, <3>2, <4>1, Putting DEF Fill
      <4>3. NextEntry(t).path # p
        BY <2>1, <3>2
      <4> QED
        BY <2>2, <2>3, <4>2, <4>3 DEF FromCacheOr
    <3> QED
      BY <3>1, <3>2
  <2>8. cache' = cache \/ \E t \in Threads : Lookup(t) \/ Put(t) \/ Fill(t)
    BY DEF Next, vars, NoMoreCalls, ThreadStep, GetSecurityByName, AnswerAtOnce, Open, GetFileInfo,
       ReadDirectory, GetVolumeInfo, Enter, Close, LockVolume, Stat, List, TellVolume,
       VolumeFails, LockCache, Filled, BufferFails, ReadOn, ListEnds, Answer
  <2> QED
    BY <2>4, <2>5, <2>6, <2>7, <2>8
<1> QED
  BY <1>1, Invariant, PTL DEF Spec, ResolvedStays
=============================================================================
