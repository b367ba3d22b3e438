------------------------ MODULE PreparedCacheProofs ------------------------
(***************************************************************************)
(* Proofs about the prepared-statement cache, for every capacity, set of   *)
(* queries and number of handles.                                          *)
(***************************************************************************)
EXTENDS PreparedCache, FiniteSetTheorems, SequenceTheorems, TLAPS

\* A non-empty set of naturals has a least element.
LEMMA Least ==
  ASSUME NEW T \in SUBSET Nat, T # {}
  PROVE  \E k \in T : \A j \in T : k <= j
<1>1. \E k \in T : \A j \in T : <<j, k>> \notin OpToRel(<, Nat)
  BY NatLessThanWellFounded, WFMin
<1>2. OpToRel(<, Nat) = {p \in Nat \X Nat : p[1] < p[2]}
  BY Zenon DEF OpToRel
<1>3. PICK k \in T : \A j \in T : <<j, k>> \notin OpToRel(<, Nat)
  BY <1>1
<1>4. \A j \in T : ~ (j < k)
  BY <1>2, <1>3
<1>5. \A j \in T : k <= j
  <2> TAKE j \in T
  <2>1. k \in Nat /\ j \in Nat
    BY <1>3
  <2> QED  BY <1>4, <2>1
<1> QED  BY <1>3, <1>5

-----------------------------------------------------------------------------

\* A deque whose markers increase.
Sorted(s) == \A i, j \in DOMAIN s : i < j => s[i] < s[j]

\* The loop of `insert` stops, and stops at the first prefix it may stop at.
LEMMA PoppedIsFirst ==
  ASSUME NEW live, NEW ord \in Seq(Nat)
  PROVE  /\ Popped(live, ord) \in 0..Len(ord)
         /\ LoopEnds(live, ord, Popped(live, ord))
         /\ \A j \in 0..Len(ord) : LoopEnds(live, ord, j) => Popped(live, ord) <= j
<1> DEFINE T == {k \in 0..Len(ord) : LoopEnds(live, ord, k)}
<1>1. Len(ord) \in T
  BY DEF LoopEnds
<1>2. \E k \in T : \A j \in T : k <= j
  <2> HIDE DEF T
  <2>1. T \in SUBSET Nat
    BY DEF T
  <2> QED  BY <1>1, <2>1, Least
<1> QED  BY <1>2 DEF Popped

\* The outcome of the loop: of the entries `live`, `rest` remain after k markers
\* were popped.
Evicted(live, ord, k, rest) ==
  /\ k \in 0..Len(ord)
  /\ Cardinality(rest) \in Nat
  /\ Cardinality(rest) <= MaxPrepared
  /\ \/ Cardinality(live) <= MaxPrepared /\ k = 0 /\ rest = live
     \/ /\ Cardinality(live) = MaxPrepared + 1
        /\ k > 0
        /\ Cardinality(rest) = MaxPrepared
        /\ \E h \in live : (\A g \in live : h <= g) /\ rest = live \ {h}

\* One insert into a cache within its capacity evicts nothing, or pops markers
\* up to and including that of the oldest live entry and evicts that one only.
LEMMA EvictOne ==
  ASSUME NEW live \in SUBSET Nat, IsFiniteSet(live),
         NEW ord \in Seq(Nat), Sorted(ord),
         \A h \in live : \E i \in DOMAIN ord : ord[i] = h,
         Cardinality(live) <= MaxPrepared + 1
  PROVE  Evicted(live, ord, Popped(live, ord), live \ Front(ord, Popped(live, ord)))
<1> DEFINE k == Popped(live, ord)
           rest == live \ Front(ord, k)
<1>1. /\ k \in 0..Len(ord)
      /\ LoopEnds(live, ord, k)
      /\ \A j \in 0..Len(ord) : LoopEnds(live, ord, j) => k <= j
  BY PoppedIsFirst
<1>0. rest = live \ Front(ord, k)
  OBVIOUS
<1> SUFFICES Evicted(live, ord, k, rest)
  OBVIOUS
<1> HIDE DEF k, rest
<1>2. Cardinality(live) \in Nat /\ MaxPrepared \in Nat /\ MaxPrepared > 0
  BY FS_CardinalityType, CapacityAssumption
<1>3. Front(ord, 0) = {}
  BY DEF Front
<1>4. CASE Cardinality(live) <= MaxPrepared
  <2>1. LoopEnds(live, ord, 0)
    BY <1>3, <1>4 DEF LoopEnds
  <2>2. k = 0
    BY <1>1, <2>1
  <2>3. rest = live
    BY <1>0, <1>3, <2>2
  <2>4. Cardinality(rest) = Cardinality(live)
    BY <2>3, Zenon
  <2> QED  BY <1>1, <1>2, <1>4, <2>2, <2>3, <2>4 DEF Evicted
<1>5. CASE Cardinality(live) = MaxPrepared + 1
  <2>1. live # {}
    BY <1>2, <1>5, FS_EmptySet
  <2>2. Len(ord) # 0
    <3>1. PICK h \in live : TRUE
      BY <2>1
    <3>2. PICK i \in DOMAIN ord : ord[i] = h
      BY <3>1
    <3> QED  BY <3>2
  <2>3. ~ LoopEnds(live, ord, 0)
    <3>1. live \ Front(ord, 0) = live
      BY <1>3
    <3>2. Cardinality(live \ Front(ord, 0)) = Cardinality(live)
      BY <3>1, Zenon
    <3>3. ~ (Cardinality(live \ Front(ord, 0)) <= MaxPrepared)
      BY <1>2, <1>5, <3>2
    <3> QED  BY <2>2, <3>3, Zenon DEF LoopEnds
  <2>4. k \in 1..Len(ord)
    BY <1>1, <2>3
  <2>5. ~ LoopEnds(live, ord, k - 1)
    BY <1>1, <2>4
  <2>6. live \ Front(ord, k - 1) = live
    <3>1. live \ Front(ord, k - 1) \in SUBSET live
      OBVIOUS
    <3>2. Cardinality(live \ Front(ord, k - 1)) \in Nat
      BY <3>1, FS_Subset, FS_CardinalityType
    <3>3. Cardinality(live \ Front(ord, k - 1)) <= Cardinality(live)
      BY <3>1, FS_Subset
    <3>4. Cardinality(live \ Front(ord, k - 1)) > MaxPrepared
      BY <1>2, <2>4, <2>5, <3>2 DEF LoopEnds
    <3>5. Cardinality(live) = Cardinality(live \ Front(ord, k - 1))
      BY <1>2, <1>5, <3>2, <3>3, <3>4
    <3> QED  BY <3>1, <3>5, FS_Subset
  <2>7. Front(ord, k) = Front(ord, k - 1) \cup {ord[k]}
    BY <2>4 DEF Front
  <2>8. rest = live \ {ord[k]}
    BY <1>0, <2>6, <2>7
  <2>9. ord[k] \in live
    <3>1. CASE k = Len(ord)
      <4>1. live \subseteq Front(ord, k)
        BY <3>1 DEF Front
      <4> QED  BY <1>0, <2>1, <2>8, <4>1
    <3>2. CASE Cardinality(rest) <= MaxPrepared
      <4>1. Cardinality(rest) # Cardinality(live)
        BY <1>2, <1>5, <3>2
      <4>2. rest # live
        BY <4>1, Zenon
      <4> QED  BY <2>8, <4>2
    <3>3. k = Len(ord) \/ Cardinality(rest) <= MaxPrepared
      BY <1>0, <1>1, Zenon DEF LoopEnds
    <3> QED  BY <3>1, <3>2, <3>3
  <2>10. \A g \in live : ord[k] <= g
    <3> TAKE g \in live
    <3>1. PICK i \in DOMAIN ord : ord[i] = g
      OBVIOUS
    <3>2. i \notin 1..(k - 1)
      BY <2>6, <3>1 DEF Front
    <3>3. i \in 1..Len(ord) /\ (i = k \/ k < i)
      BY <2>4, <3>1, <3>2
    <3> QED  BY <2>4, <3>1, <3>3 DEF Sorted
  <2>11. Cardinality(rest) = MaxPrepared
    <3>1. Cardinality(live \ {ord[k]}) = Cardinality(live) - 1
      BY <2>9, FS_RemoveElement
    <3>2. Cardinality(rest) = Cardinality(live) - 1
      BY <2>8, <3>1, Zenon
    <3> QED  BY <1>2, <1>5, <3>2
  <2> QED  BY <1>1, <1>2, <1>5, <2>4, <2>8, <2>9, <2>10, <2>11 DEF Evicted
<1> QED  BY <1>2, <1>4, <1>5

\* Ranks number the elements of a finite set of naturals 1, 2, ... in order.
LEMMA RankProperties ==
  ASSUME NEW S \in SUBSET Nat, IsFiniteSet(S)
  PROVE  /\ Cardinality(S) \in Nat
         /\ \A i \in S : Rank(S, i) \in 1..Cardinality(S)
         /\ \A i, k \in S : i < k => Rank(S, i) < Rank(S, k)
<1> DEFINE Upto(i) == {k \in S : k <= i}
<1>1. \A i \in S : /\ Upto(i) \in SUBSET S
                   /\ IsFiniteSet(Upto(i))
                   /\ Cardinality(Upto(i)) \in Nat
                   /\ Cardinality(Upto(i)) <= Cardinality(S)
  BY FS_Subset, FS_CardinalityType
<1>2. Cardinality(S) \in Nat
  BY FS_CardinalityType
<1>3. ASSUME NEW i \in S
      PROVE  Cardinality(Upto(i)) \in 1..Cardinality(S)
  <2>1. i \in Upto(i)
    OBVIOUS
  <2>2. Cardinality(Upto(i)) # 0
    BY <1>1, <2>1, FS_EmptySet
  <2> QED  BY <1>1, <1>2, <2>2
<1>4. ASSUME NEW i \in S, NEW k \in S, i < k
      PROVE  Cardinality(Upto(i)) < Cardinality(Upto(k))
  <2>1. Upto(i) \in SUBSET Upto(k)
    <3>1. \A x \in S : x \in Nat /\ i \in Nat /\ k \in Nat
      OBVIOUS
    <3>2. \A x \in S : x <= i => x <= k
      BY <1>4, <3>1
    <3> QED  BY <3>2
  <2>2. Cardinality(Upto(i)) <= Cardinality(Upto(k))
    BY <1>1, <2>1, FS_Subset
  <2>3. k \in Upto(k) /\ k \notin Upto(i)
    BY <1>4
  <2>4. Upto(i) # Upto(k)
    BY <2>3, Zenon
  <2>5. Cardinality(Upto(i)) # Cardinality(Upto(k))
    BY <1>1, <2>1, <2>4, FS_Subset
  <2>6. Cardinality(Upto(i)) \in Nat /\ Cardinality(Upto(k)) \in Nat
    BY <1>1
  <2> QED  BY <2>2, <2>5, <2>6
<1>5. \A i : Rank(S, i) = Cardinality(Upto(i))
  BY DEF Rank
<1> QED  BY <1>2, <1>3, <1>4, <1>5, Zenon

\* Every number up to the cardinality is the rank of one element.
LEMMA NthProperties ==
  ASSUME NEW S \in SUBSET Nat, IsFiniteSet(S)
  PROVE  /\ \A j \in 1..Cardinality(S) : Nth(S, j) \in S /\ Rank(S, Nth(S, j)) = j
         /\ \A i \in S : Nth(S, Rank(S, i)) = i
         /\ \A i, j \in 1..Cardinality(S) : i < j => Nth(S, i) < Nth(S, j)
<1> DEFINE f == [i \in S |-> Rank(S, i)]
<1>1. /\ Cardinality(S) \in Nat
      /\ \A i \in S : Rank(S, i) \in 1..Cardinality(S)
      /\ \A i, k \in S : i < k => Rank(S, i) < Rank(S, k)
  BY RankProperties
<1>2. \A i, k \in S : Rank(S, i) = Rank(S, k) => i = k
  <2> TAKE i, k \in S
  <2>1. i \in Nat /\ k \in Nat /\ Rank(S, i) \in Nat /\ Rank(S, k) \in Nat
    BY <1>1
  <2>2. (i < k => Rank(S, i) < Rank(S, k)) /\ (k < i => Rank(S, k) < Rank(S, i))
    BY <1>1
  <2> QED  BY <2>1, <2>2
<1>3. f \in Injection(S, 1..Cardinality(S))
  BY <1>1, <1>2 DEF Injection, IsInjective
<1>4. IsFiniteSet(1..Cardinality(S)) /\ Cardinality(1..Cardinality(S)) = Cardinality(S)
  BY <1>1, FS_Interval
<1>5. f \in Surjection(S, 1..Cardinality(S))
  BY <1>3, <1>4, FS_Injection
<1>6. \A j \in 1..Cardinality(S) : \E i \in S : Rank(S, i) = j
  BY <1>5 DEF Surjection
<1>7. \A j \in 1..Cardinality(S) : Nth(S, j) \in S /\ Rank(S, Nth(S, j)) = j
  BY <1>6 DEF Nth
<1>8. \A i \in S : Nth(S, Rank(S, i)) = i
  BY <1>1, <1>2, <1>7
<1>9. \A i, j \in 1..Cardinality(S) : i < j => Nth(S, i) < Nth(S, j)
  <2> TAKE i, j \in 1..Cardinality(S)
  <2> DEFINE a == Nth(S, i)
             b == Nth(S, j)
  <2>1. a \in S /\ b \in S /\ Rank(S, a) = i /\ Rank(S, b) = j
    BY <1>7
  <2>2. (b < a => Rank(S, b) < Rank(S, a)) /\ (a = b => Rank(S, a) = Rank(S, b))
    BY <1>1, <2>1, Zenon
  <2> HIDE DEF a, b
  <2>3. a \in Nat /\ b \in Nat /\ i \in Int /\ j \in Int
    BY <2>1
  <2>4. i < j => a < b
    BY <2>1, <2>2, <2>3
  <2> QED  BY <2>4 DEF a, b
<1> QED  BY <1>7, <1>8, <1>9

\* Compaction keeps the order, keeps exactly the markers of live entries, and
\* leaves one marker per live entry when every live entry had one.
Compacted(ord, live, r) ==
  /\ r \in Seq(Nat)
  /\ Sorted(r)
  /\ \A i \in DOMAIN r : \E j \in DOMAIN ord : r[i] = ord[j] /\ r[i] \in live
  /\ \A j \in DOMAIN ord : ord[j] \in live => \E i \in DOMAIN r : r[i] = ord[j]
  /\ (\A h \in live : \E j \in DOMAIN ord : ord[j] = h) => Len(r) = Cardinality(live)

\* What VecDeque::retain leaves of a sorted deque (Retain) is Compacted.
LEMMA RetainProperties ==
  ASSUME NEW ord \in Seq(Nat), Sorted(ord), NEW live \in SUBSET Nat
  PROVE  Compacted(ord, live, Retain(ord, live))
<1> DEFINE K == Kept(ord, live)
           n == Cardinality(K)
           r == Retain(ord, live)
<1>1. K \in SUBSET (1..Len(ord)) /\ K \in SUBSET Nat /\ K \subseteq DOMAIN ord
  BY DEF Kept
<1>2. IsFiniteSet(K)
  BY <1>1, FS_Interval, FS_Subset
<1>3. n \in Nat
  BY <1>2, FS_CardinalityType
<1>4. \A j \in K : j \in DOMAIN ord /\ ord[j] \in live
  BY DEF Kept
<1>5. \A j \in DOMAIN ord : ord[j] \in live => j \in K
  BY DEF Kept
<1>6. r = [j \in 1..n |-> ord[Nth(K, j)]]
  BY DEF Retain
<1> HIDE DEF K, n, r
<1>7. /\ \A j \in 1..n : Nth(K, j) \in K
      /\ \A i \in K : Rank(K, i) \in 1..n /\ Nth(K, Rank(K, i)) = i
      /\ \A i, j \in 1..n : i < j => Nth(K, i) < Nth(K, j)
  BY <1>1, <1>2, NthProperties, RankProperties DEF n
<1>8. r \in Seq(Nat) /\ DOMAIN r = 1..n /\ Len(r) = n
  <2>1. r \in [1..n -> Nat]
    BY <1>4, <1>6, <1>7
  <2> QED  BY <1>3, <2>1, IsASeq, LenProperties, SeqDef
<1>9. Sorted(r)
  <2> SUFFICES ASSUME NEW i \in 1..n, NEW j \in 1..n, i < j
               PROVE  r[i] < r[j]
    BY <1>8 DEF Sorted
  <2>1. Nth(K, i) \in DOMAIN ord /\ Nth(K, j) \in DOMAIN ord /\ Nth(K, i) < Nth(K, j)
    BY <1>4, <1>7
  <2> QED  BY <1>6, <2>1 DEF Sorted
<1>10. \A i \in DOMAIN r : \E j \in DOMAIN ord : r[i] = ord[j] /\ r[i] \in live
  BY <1>4, <1>6, <1>7, <1>8
<1>11. \A j \in DOMAIN ord : ord[j] \in live => \E i \in DOMAIN r : r[i] = ord[j]
  BY <1>5, <1>6, <1>7, <1>8
<1>12. ASSUME \A h \in live : \E j \in DOMAIN ord : ord[j] = h
       PROVE  Len(r) = Cardinality(live)
  <2> DEFINE g == [j \in K |-> ord[j]]
  <2>1. \A i, j \in K : ord[i] = ord[j] => i = j
    <3> TAKE i, j \in K
    <3>1. i \in DOMAIN ord /\ j \in DOMAIN ord /\ i \in Nat /\ j \in Nat
      BY <1>1
    <3>2. ord[i] \in Nat /\ ord[j] \in Nat
      BY <3>1
    <3>3. (i < j => ord[i] < ord[j]) /\ (j < i => ord[j] < ord[i])
      BY <3>1 DEF Sorted
    <3> QED  BY <3>1, <3>2, <3>3
  <2>2. \A h \in live : \E j \in K : g[j] = h
    BY <1>5, <1>12
  <2>3. g \in [K -> live]
    BY <1>4
  <2>4. g \in Bijection(K, live)
    BY <2>1, <2>2, <2>3 DEF Bijection, Injection, IsInjective, Surjection
  <2>5. ExistsBijection(K, live)
    BY <2>4 DEF ExistsBijection
  <2>6. Cardinality(live) = Cardinality(K)
    BY <1>2, <2>5, FS_Bijection
  <2> QED  BY <1>8, <2>6 DEF n
<1>13. Compacted(ord, live, r)
  BY <1>8, <1>9, <1>10, <1>11, <1>12 DEF Compacted
<1> QED  BY <1>13 DEF r

-----------------------------------------------------------------------------

\* The inductive invariant.  The cap follows from EvictOne only when every live
\* entry has a marker and the markers are sorted; the marker bound needs the
\* cap.
CacheIInv ==
  /\ CacheTypeOK
  /\ WithinCapacity
  /\ MarkersSorted
  /\ LiveMarked
  /\ MarkersBounded

\* The facts about the map that the cardinality lemmas ask for.
LEMMA LiveFinite ==
  ASSUME CacheTypeOK
  PROVE  /\ minted \in Nat
         /\ Live \in SUBSET Nat
         /\ IsFiniteSet(Live)
         /\ Cardinality(Live) \in Nat
         /\ minted + 1 \notin Live
         /\ order \in Seq(Nat)
<1>1. minted \in Nat /\ Live \in SUBSET (1..minted) /\ order \in Seq(1..minted)
  BY DEF CacheTypeOK
<1>2. IsFiniteSet(1..minted)
  BY <1>1, FS_Interval
<1>3. IsFiniteSet(Live)
  BY <1>1, <1>2, FS_Subset
<1>4. Cardinality(Live) \in Nat
  BY <1>3, FS_CardinalityType
<1>5. order \in Seq(Nat)
  BY <1>1, SeqMonotonic
<1>6. \A h \in Live : h \in 1..minted
  BY <1>1, Zenon
<1> HIDE DEF Live
<1> QED  BY <1>1, <1>3, <1>4, <1>5, <1>6

\* A new cache (PreparedCache::new) satisfies the invariant.
LEMMA InitEstablishes == CacheInit => CacheIInv
<1> SUFFICES ASSUME CacheInit PROVE CacheIInv
  OBVIOUS
<1> USE DEF CacheInit
<1>1. Live = {}
  BY DEF Live
<1>2. Cardinality(Live) = 0
  BY <1>1, FS_EmptySet
<1>3. CacheTypeOK
  BY <1>1 DEF CacheTypeOK, Live
<1>4. WithinCapacity /\ MarkersBounded
  BY <1>2, CapacityAssumption DEF WithinCapacity, MarkersBounded
<1>5. MarkersSorted /\ LiveMarked
  BY <1>1 DEF MarkersSorted, LiveMarked
<1> QED  BY <1>3, <1>4, <1>5 DEF CacheIInv

\* What an insert does to the map and the markers, with the loop summarised: of
\* the entries `all`, the new one included, nothing is evicted, or the oldest
\* one is (never the one just made).
InsertOutcome(q, all) ==
  /\ minted' = minted + 1 /\ closed' = closed
  /\ IsFiniteSet(all) /\ all \in SUBSET (1..minted')
  /\ Cardinality(all) = Cardinality(Live) + 1
  /\ Live' \in SUBSET all
  /\ minted' \in Live'
  /\ map' = [h \in Live' |-> IF h = minted + 1 THEN q ELSE map[h]]
  /\ Cardinality(Live') \in Nat
  /\ \/ Cardinality(all) <= MaxPrepared /\ Live' = all
     \/ /\ Cardinality(all) = MaxPrepared + 1
        /\ Cardinality(Live') = MaxPrepared
        /\ \E h \in Live : (\A g \in all : h <= g) /\ Live' = all \ {h}
  /\ \E k \in 0..(Len(order) + 1) :
       /\ order' = SubSeq(Append(order, minted'), k + 1, Len(order) + 1)
       /\ Live' = all \ Front(Append(order, minted'), k)
       /\ k = 0 => Live' = all

\* `insert` on a cache that satisfies the invariant has that outcome.
LEMMA InsertEffect ==
  ASSUME CacheIInv, NEW q \in Queries, Insert(q)
  PROVE  InsertOutcome(q, Live \cup {minted + 1})
<1> DEFINE all == Live \cup {minted + 1}
<1> DEFINE ord == Append(order, minted + 1)
           k == Popped(all, ord)
           rest == all \ Front(ord, k)
<1>1. /\ minted \in Nat /\ Live \in SUBSET Nat /\ IsFiniteSet(Live)
      /\ Cardinality(Live) \in Nat /\ minted + 1 \notin Live /\ order \in Seq(Nat)
  BY LiveFinite DEF CacheIInv
<1>2. /\ minted' = minted + 1 /\ closed' = closed
      /\ map' = [h \in rest |-> IF h = minted + 1 THEN q ELSE map[h]]
      /\ order' = SubSeq(ord, k + 1, Len(ord))
  BY Zenon DEF Insert, NewHandle
<1>3. Live' = rest
  BY <1>2 DEF Live
<1>4. /\ IsFiniteSet(all)
      /\ Cardinality(all) = Cardinality(Live) + 1
  BY <1>1, FS_AddElement
<1>5. Live \in SUBSET (1..minted) /\ all \in SUBSET (1..minted') /\ all \in SUBSET Nat
  <2>1. Live \in SUBSET (1..minted)
    BY DEF CacheIInv, CacheTypeOK
  <2> QED  BY <1>1, <1>2, <2>1
<1>6. ord \in Seq(Nat) /\ Len(ord) = Len(order) + 1 /\ ord[Len(ord)] = minted + 1
      /\ \A i \in DOMAIN order : ord[i] = order[i] /\ i \in DOMAIN ord
  BY <1>1, AppendProperties
<1>7. Sorted(ord)
  <2>1. order \in Seq(1..minted)
    BY DEF CacheIInv, CacheTypeOK
  <2>2. \A i \in 1..Len(order) : order[i] \in 1..minted
    BY <2>1, ElementOfSeq
  <2>3. \A i \in DOMAIN ord : i \in DOMAIN order \/ i = Len(ord)
    BY <1>1, <1>6
  <2>4. \A i, j \in DOMAIN order : i < j => order[i] < order[j]
    BY DEF CacheIInv, MarkersSorted
  <2>5. Len(order) \in Nat
    BY <1>1
  <2> QED  BY <1>1, <1>6, <2>2, <2>3, <2>4, <2>5 DEF Sorted
<1>8. \A h \in all : \E i \in DOMAIN ord : ord[i] = h
  <2>1. \A h \in Live : \E i \in DOMAIN order : order[i] = h
    BY DEF CacheIInv, LiveMarked
  <2>2. Len(ord) \in DOMAIN ord
    BY <1>1, <1>6
  <2> QED  BY <1>6, <2>1, <2>2
<1>9. Cardinality(all) <= MaxPrepared + 1
  <2>1. Cardinality(Live) <= MaxPrepared
    BY DEF CacheIInv, WithinCapacity
  <2> QED  BY <1>1, <1>4, <2>1, CapacityAssumption
<1> SUFFICES InsertOutcome(q, all)
  OBVIOUS
<1> HIDE DEF ord, k, rest, all
<1>10. /\ k \in 0..Len(ord)
       /\ Cardinality(rest) \in Nat
       /\ Cardinality(rest) <= MaxPrepared
       /\ \/ Cardinality(all) <= MaxPrepared /\ k = 0 /\ rest = all
          \/ /\ Cardinality(all) = MaxPrepared + 1
             /\ k > 0
             /\ Cardinality(rest) = MaxPrepared
             /\ \E h \in all : (\A g \in all : h <= g) /\ rest = all \ {h}
  <2>1. all \in SUBSET Nat /\ IsFiniteSet(all) /\ ord \in Seq(Nat)
    BY <1>4, <1>5, <1>6, Zenon
  <2>2. Evicted(all, ord, Popped(all, ord), all \ Front(ord, Popped(all, ord)))
    BY <1>7, <1>8, <1>9, <2>1, EvictOne, Zenon
  <2>3. Evicted(all, ord, k, rest)
    BY <2>2, Zenon DEF rest, k
  <2> QED  BY <2>3 DEF Evicted
<1>11. ASSUME NEW h \in all, \A g \in all : h <= g, Cardinality(all) = MaxPrepared + 1
       PROVE  h \in Live
  <2>1. Cardinality(Live) = MaxPrepared
    BY <1>1, <1>4, <1>11, CapacityAssumption
  <2>2. Live # {}
    BY <2>1, CapacityAssumption, FS_EmptySet
  <2>3. PICK g \in Live : g \in 1..minted
    BY <1>5, <2>2
  <2>4. h # minted + 1
    <3>1. h <= g
      BY <1>11, <2>3 DEF all
    <3> QED  BY <1>1, <2>3, <3>1
  <2> QED  BY <2>4 DEF all
<1>12. \/ Cardinality(all) <= MaxPrepared /\ rest = all
       \/ /\ Cardinality(all) = MaxPrepared + 1
          /\ Cardinality(rest) = MaxPrepared
          /\ \E h \in Live : (\A g \in all : h <= g) /\ rest = all \ {h}
  BY <1>10, <1>11
<1>13. minted + 1 \in rest
  <2>1. minted + 1 \in all
    BY DEF all
  <2> QED  BY <1>1, <1>12, <2>1
<1>14. k = 0 => rest = all
  BY <1>10
<1>15. k \in 0..(Len(order) + 1)
  BY <1>6, <1>10
<1>16. /\ order' = SubSeq(Append(order, minted'), k + 1, Len(order) + 1)
       /\ rest = all \ Front(Append(order, minted'), k)
  BY <1>2, <1>6, Zenon DEF ord, rest
<1>17. rest \in SUBSET all
  BY DEF rest
<1> QED  BY <1>2, <1>3, <1>4, <1>5, <1>10, <1>12, <1>13, <1>14, <1>15, <1>16, <1>17, Zenon
         DEF InsertOutcome

\* What SubSeq leaves of a sequence whose first k elements are popped.
LEMMA SuffixProperties ==
  ASSUME NEW S, NEW s \in Seq(S), NEW k \in 0..Len(s)
  PROVE  LET t == SubSeq(s, k + 1, Len(s))
         IN  /\ t \in Seq(S)
             /\ Len(t) = Len(s) - k
             /\ \A i \in 1..Len(t) : t[i] = s[i + k] /\ i + k \in 1..Len(s)
<1>1. k + 1 \in 1..(Len(s) + 1) /\ Len(s) \in Nat /\ k \in Nat
  OBVIOUS
<1>2. /\ SubSeq(s, k + 1, Len(s)) \in Seq(S)
      /\ Len(SubSeq(s, k + 1, Len(s))) = Len(s) - k
      /\ \A i \in 1..(Len(s) - k) : SubSeq(s, k + 1, Len(s))[i] = s[(k + 1) + i - 1]
  BY <1>1, SubSeqProperties
<1>3. \A i \in 1..(Len(s) - k) : (k + 1) + i - 1 = i + k /\ i + k \in 1..Len(s)
  BY <1>1
<1> QED  BY <1>2, <1>3

\* `insert`, its eviction loop included, preserves the invariant.
LEMMA InsertPreserves ==
  ASSUME CacheIInv, NEW q \in Queries, Insert(q)
  PROVE  CacheIInv'
<1> DEFINE all == Live \cup {minted + 1}
           ord == Append(order, minted')
<1>0. InsertOutcome(q, all)
  BY InsertEffect, Zenon
<1> HIDE DEF all
<1>1. /\ minted' = minted + 1 /\ closed' = closed
      /\ IsFiniteSet(all) /\ all \in SUBSET (1..minted')
      /\ Cardinality(all) = Cardinality(Live) + 1
      /\ Live' \in SUBSET all
      /\ minted' \in Live'
      /\ map' = [h \in Live' |-> IF h = minted + 1 THEN q ELSE map[h]]
      /\ Cardinality(Live') \in Nat
  BY <1>0, Zenon DEF InsertOutcome
<1>2. \/ Cardinality(all) <= MaxPrepared /\ Live' = all
      \/ /\ Cardinality(all) = MaxPrepared + 1
         /\ Cardinality(Live') = MaxPrepared
         /\ \E h \in Live : (\A g \in all : h <= g) /\ Live' = all \ {h}
  BY <1>0, Zenon DEF InsertOutcome
<1>3. PICK k \in 0..(Len(order) + 1) :
              /\ order' = SubSeq(ord, k + 1, Len(order) + 1)
              /\ Live' = all \ Front(ord, k)
              /\ k = 0 => Live' = all
  BY <1>0, Zenon DEF InsertOutcome
<1>4. /\ minted \in Nat /\ Live \in SUBSET (1..minted) /\ closed \in SUBSET (1..minted)
      /\ map \in [Live -> Queries] /\ order \in Seq(1..minted)
  BY DEF CacheIInv, CacheTypeOK
<1>5. Cardinality(Live) \in Nat /\ Cardinality(Live) <= MaxPrepared
  BY LiveFinite DEF CacheIInv, WithinCapacity
<1>6. /\ ord \in Seq(1..minted') /\ Len(ord) = Len(order) + 1 /\ Len(order) \in Nat
      /\ ord[Len(order) + 1] = minted'
      /\ \A i \in 1..Len(order) : ord[i] = order[i] /\ order[i] \in 1..minted
  <2>1. order \in Seq(1..minted') /\ minted' \in 1..minted'
    BY <1>1, <1>4, SeqMonotonic
  <2>2. \A i \in 1..Len(order) : order[i] \in 1..minted
    BY <1>4, ElementOfSeq
  <2> QED  BY <2>1, <2>2, AppendProperties
<1> HIDE DEF ord
<1>7. /\ order' \in Seq(1..minted') /\ Len(order') = Len(order) + 1 - k
      /\ \A i \in 1..Len(order') : order'[i] = ord[i + k] /\ i + k \in 1..(Len(order) + 1)
  <2>1. k \in 0..Len(ord) /\ order' = SubSeq(ord, k + 1, Len(ord))
    BY <1>3, <1>6
  <2>2. /\ order' \in Seq(1..minted') /\ Len(order') = Len(ord) - k
        /\ \A i \in 1..Len(order') : order'[i] = ord[i + k] /\ i + k \in 1..Len(ord)
    BY <1>6, <2>1, SuffixProperties, Zenon
  <2> QED  BY <1>6, <2>2
<1>8. CacheTypeOK'
  <2>1. minted' \in Nat /\ Live' \in SUBSET (1..minted') /\ closed' \in SUBSET (1..minted')
    BY <1>1, <1>4
  <2>2. map' \in [Live' -> Queries]
    <3>1. \A h \in Live' : h = minted + 1 \/ h \in Live
      BY <1>1 DEF all
    <3> QED  BY <1>1, <1>4, <3>1
  <2> QED  BY <1>7, <2>1, <2>2 DEF CacheTypeOK
<1>9. WithinCapacity'
  <2>1. CASE Cardinality(all) <= MaxPrepared /\ Live' = all
    BY <2>1, Zenon DEF WithinCapacity
  <2>2. CASE Cardinality(Live') = MaxPrepared
    BY <2>2, CapacityAssumption DEF WithinCapacity
  <2> QED  BY <1>2, <2>1, <2>2
<1>10. MarkersSorted'
  <2> SUFFICES ASSUME NEW i \in 1..Len(order'), NEW j \in 1..Len(order'), i < j
               PROVE  order'[i] < order'[j]
    BY <1>7 DEF MarkersSorted
  <2> DEFINE a == i + k
             b == j + k
  <2>1. order'[i] = ord[a] /\ order'[j] = ord[b]
    BY <1>7
  <2>2. a \in 1..(Len(order) + 1) /\ b \in 1..(Len(order) + 1) /\ a < b
    BY <1>3, <1>7
  <2> HIDE DEF a, b
  <2>3. a \in 1..Len(order)
    BY <1>6, <2>2
  <2>4. CASE b = Len(order) + 1
    <3>1. ord[a] \in 1..minted /\ ord[b] = minted + 1
      BY <1>1, <1>6, <2>3, <2>4
    <3> QED  BY <1>4, <2>1, <3>1
  <2>5. CASE b \in 1..Len(order)
    <3>1. order[a] < order[b]
      BY <1>4, <2>2, <2>3, <2>5 DEF CacheIInv, MarkersSorted
    <3> QED  BY <1>6, <2>1, <2>3, <2>5, <3>1
  <2> QED  BY <1>6, <2>2, <2>4, <2>5
<1>11. LiveMarked'
  <2> SUFFICES ASSUME NEW h \in Live'
               PROVE  \E i \in DOMAIN order' : order'[i] = h
    BY DEF LiveMarked
  <2>1. PICK j \in 1..(Len(order) + 1) : ord[j] = h
    <3>1. CASE h = minted'
      BY <1>6, <3>1
    <3>2. CASE h \in Live
      <4>1. PICK j \in DOMAIN order : order[j] = h
        BY <3>2 DEF CacheIInv, LiveMarked
      <4> QED  BY <1>4, <1>6, <4>1
    <3> QED  BY <1>1, <3>1, <3>2 DEF all
  <2>2. j \notin 1..k
    BY <1>3, <2>1 DEF Front
  <2> DEFINE i == j - k
  <2>3. i \in 1..Len(order') /\ i + k = j
    BY <1>3, <1>6, <1>7, <2>1, <2>2
  <2> HIDE DEF i
  <2>4. order'[i] = h
    BY <1>7, <2>1, <2>3
  <2>5. i \in DOMAIN order'
    BY <1>7, <2>3
  <2> QED  BY <2>4, <2>5
<1>12. MarkersBounded'
  <2>1. Len(order) <= 2 * Cardinality(Live)
    BY DEF CacheIInv, MarkersBounded
  <2>2. k \in Nat
    BY <1>3
  <2>3. CASE Live' = all
    <3>1. Cardinality(Live') = Cardinality(Live) + 1
      BY <1>1, <2>3, Zenon
    <3> QED  BY <1>5, <1>6, <1>7, <2>1, <2>2, <3>1 DEF MarkersBounded
  <2>4. CASE Live' # all
    <3>1. k # 0
      BY <1>3, <2>4
    <3>2. /\ Cardinality(all) = MaxPrepared + 1
          /\ Cardinality(Live') = MaxPrepared
      BY <1>2, <2>4
    <3>3. Cardinality(Live') = Cardinality(Live)
      BY <1>1, <1>5, <3>2, CapacityAssumption
    <3> QED  BY <1>5, <1>6, <1>7, <2>1, <2>2, <3>1, <3>3 DEF MarkersBounded
  <2> QED  BY <2>3, <2>4
<1> QED  BY <1>8, <1>9, <1>10, <1>11, <1>12 DEF CacheIInv

\* `remove`, its compaction included, preserves the invariant.
LEMMA RemovePreserves ==
  ASSUME CacheIInv, NEW h \in 0..minted, Remove(h)
  PROVE  CacheIInv'
<1> DEFINE live == Live \ {h}
<1>1. /\ minted \in Nat /\ Live \in SUBSET (1..minted) /\ closed \in SUBSET (1..minted)
      /\ map \in [Live -> Queries] /\ order \in Seq(1..minted)
  BY DEF CacheIInv, CacheTypeOK
<1>2. /\ minted' = minted
      /\ map' = [g \in live |-> map[g]]
      /\ order' = IF Cardinality(live) * 2 < Len(order) THEN Retain(order, live) ELSE order
      /\ closed' = closed \cup (Live \cap {h})
  BY Zenon DEF Remove, Remaining, Tidied, Crowded
<1>3. Live' = live
  BY <1>2 DEF Live
<1>4. /\ IsFiniteSet(live) /\ Cardinality(live) \in Nat
      /\ Cardinality(live) <= Cardinality(Live) /\ Cardinality(Live) \in Nat
      /\ live \in SUBSET Nat /\ order \in Seq(Nat)
  <2>1. IsFiniteSet(Live) /\ Live \in SUBSET Nat /\ order \in Seq(Nat) /\ Cardinality(Live) \in Nat
    BY LiveFinite DEF CacheIInv
  <2>2. live \in SUBSET Live
    OBVIOUS
  <2> QED  BY <2>1, <2>2, FS_Subset, FS_CardinalityType
<1>5. Cardinality(Live') = Cardinality(live)
  BY <1>3, Zenon
<1>6. Sorted(order) /\ \A g \in live : \E i \in DOMAIN order : order[i] = g
  BY DEF CacheIInv, MarkersSorted, LiveMarked, Sorted
<1> HIDE DEF live
<1>7. /\ order' \in Seq(1..minted)
      /\ Sorted(order')
      /\ \A g \in live : \E i \in DOMAIN order' : order'[i] = g
      /\ Len(order') <= 2 * Cardinality(live)
  <2>1. CASE Cardinality(live) * 2 < Len(order)
    <3> DEFINE r == Retain(order, live)
    <3>1. order' = r
      BY <1>2, <2>1
    <3>2. /\ r \in Seq(Nat)
          /\ Sorted(r)
          /\ \A i \in DOMAIN r : \E j \in DOMAIN order : r[i] = order[j] /\ r[i] \in live
          /\ \A j \in DOMAIN order : order[j] \in live => \E i \in DOMAIN r : r[i] = order[j]
          /\ Len(r) = Cardinality(live)
      <4>1. Compacted(order, live, r)
        BY <1>4, <1>6, RetainProperties, Zenon
      <4> QED  BY <1>6, <4>1, Zenon DEF Compacted
    <3> HIDE DEF r
    <3>3. r \in Seq(1..minted)
      <4>1. \A i \in 1..Len(r) : r[i] \in 1..minted
        <5>1. \A i \in 1..Len(r) : r[i] \in live
          BY <3>2
        <5> QED  BY <1>1, <5>1 DEF live
      <4>2. Len(r) \in Nat /\ r \in [1..Len(r) -> 1..minted]
        BY <3>2, <4>1
      <4> QED  BY <4>2, SeqDef
    <3>4. \A g \in live : \E i \in DOMAIN r : r[i] = g
      BY <1>6, <3>2
    <3>5. Len(r) <= 2 * Cardinality(live)
      BY <1>4, <3>2
    <3> QED  BY <3>1, <3>2, <3>3, <3>4, <3>5
  <2>2. CASE ~ (Cardinality(live) * 2 < Len(order))
    <3>1. order' = order
      BY <1>2, <2>2
    <3>2. Len(order) <= 2 * Cardinality(live)
      BY <1>4, <2>2
    <3> QED  BY <1>1, <1>6, <3>1, <3>2
  <2> QED  BY <2>1, <2>2
<1>8. CacheTypeOK'
  <2>1. live \in SUBSET Live
    BY DEF live
  <2>2. map' \in [live -> Queries]
    BY <1>1, <1>2, <2>1
  <2>3. closed' \in SUBSET (1..minted)
    BY <1>1, <1>2
  <2> QED  BY <1>1, <1>2, <1>3, <1>7, <2>1, <2>2, <2>3 DEF CacheTypeOK
<1>9. WithinCapacity'
  BY <1>4, <1>5, CapacityAssumption DEF CacheIInv, WithinCapacity
<1>10. MarkersSorted' /\ LiveMarked'
  BY <1>3, <1>7 DEF MarkersSorted, LiveMarked, Sorted
<1>11. MarkersBounded'
  BY <1>5, <1>7 DEF MarkersBounded
<1> QED  BY <1>8, <1>9, <1>10, <1>11 DEF CacheIInv

\* The invariant speaks of the cache's own variables only.
LEMMA CacheStutter ==
  ASSUME CacheIInv, UNCHANGED cacheVars
  PROVE  CacheIInv'
BY DEF CacheIInv, CacheTypeOK, WithinCapacity, MarkersSorted, LiveMarked, MarkersBounded,
       Live, cacheVars

\* Named for use by modules that compose the cache: each of its steps, whoever
\* takes it, preserves the invariant.
THEOREM CacheStep == CacheIInv /\ [CacheNext]_cacheVars => CacheIInv'
<1> SUFFICES ASSUME CacheIInv, [CacheNext]_cacheVars
             PROVE  CacheIInv'
  OBVIOUS
<1>1. CASE \E q \in Queries : Insert(q)
  BY <1>1, InsertPreserves
<1>2. CASE \E h \in 0..minted : Remove(h)
  BY <1>2, RemovePreserves
<1>3. CASE UNCHANGED cacheVars
  BY <1>3, CacheStutter
<1> QED  BY <1>1, <1>2, <1>3 DEF CacheNext

\* The cache stays within its capacity and keeps its markers sorted and bounded
\* (the struct PreparedCache under any sequence of insert and remove).
THEOREM CacheInvariant == CacheSpec => []CacheIInv
<1>1. CacheInit => CacheIInv
  BY InitEstablishes
<1>2. CacheIInv /\ [CacheNext]_cacheVars => CacheIInv'
  BY CacheStep
<1> QED  BY <1>1, <1>2, PTL DEF CacheSpec

\* The type invariant.
THEOREM CacheTypeCorrect == CacheSpec => []CacheTypeOK
<1>1. CacheIInv => CacheTypeOK
  BY DEF CacheIInv
<1> QED  BY <1>1, CacheInvariant, PTL

\* `insert` never leaves more than MAX_PREPARED entries behind.
THEOREM CapacityRespected == CacheSpec => []WithinCapacity
<1>1. CacheIInv => WithinCapacity
  BY DEF CacheIInv
<1> QED  BY <1>1, CacheInvariant, PTL

\* The deque holds at most two markers per live entry, however many handles
\* were ever minted and closed.
THEOREM MarkersAreBounded == CacheSpec => []MarkersBounded
<1>1. CacheIInv => MarkersBounded
  BY DEF CacheIInv
<1> QED  BY <1>1, CacheInvariant, PTL

\* Markers are in mint order and no live entry lacks one, whatever `remove` and
\* its compaction did: eviction always finds an entry to drop.
THEOREM MarkersStayUsable == CacheSpec => []MarkersTrackLive
<1>1. CacheIInv => MarkersTrackLive
  BY DEF CacheIInv, MarkersTrackLive
<1> QED  BY <1>1, CacheInvariant, PTL

-----------------------------------------------------------------------------

\* Every handle that was minted is live, closed, displaced by MaxPrepared newer
\* ones, or among those that went some other way.
Survival(gone) ==
  \A h \in 1..minted : h \in Live \cup closed \cup gone \/ h + MaxPrepared <= minted

\* An eviction takes the oldest of MaxPrepared + 1 entries: as many numbers lie
\* between it and the newest handle.
LEMMA InsertSurvival ==
  ASSUME CacheIInv, NEW gone, Survival(gone), NEW q \in Queries, Insert(q)
  PROVE  Survival(gone)'
<1> DEFINE all == Live \cup {minted + 1}
<1>0. InsertOutcome(q, all)
  BY InsertEffect, Zenon
<1> HIDE DEF all
<1>1. /\ minted' = minted + 1 /\ closed' = closed
      /\ IsFiniteSet(all) /\ all \in SUBSET (1..minted')
      /\ minted' \in Live'
      /\ \/ Live' = all
         \/ /\ Cardinality(all) = MaxPrepared + 1
            /\ \E h \in Live : (\A g \in all : h <= g) /\ Live' = all \ {h}
  BY <1>0, Zenon DEF InsertOutcome
<1>2. minted \in Nat
  BY DEF CacheIInv, CacheTypeOK
<1> SUFFICES ASSUME NEW g \in 1..minted', g \notin Live' \cup closed' \cup gone
             PROVE  g + MaxPrepared <= minted'
  BY DEF Survival
<1>3. g \in 1..minted
  BY <1>1, <1>2
<1>4. CASE g \notin Live
  <2>1. g + MaxPrepared <= minted
    BY <1>1, <1>3, <1>4 DEF Survival
  <2> QED  BY <1>1, <1>2, <1>3, <2>1, CapacityAssumption
<1>5. CASE g \in Live
  <2>1. g \in all
    BY <1>5 DEF all
  <2>2. PICK h \in Live : /\ \A x \in all : h <= x
                          /\ Live' = all \ {h}
                          /\ Cardinality(all) = MaxPrepared + 1
    BY <1>1, <2>1
  <2>3. g = h
    BY <2>1, <2>2
  <2>4. all \in SUBSET (g..minted')
    BY <1>1, <2>2, <2>3
  <2>5. /\ IsFiniteSet(g..minted')
        /\ Cardinality(g..minted') = IF g > minted' THEN 0 ELSE minted' - g + 1
    BY <1>1, <1>2, FS_Interval
  <2>6. Cardinality(all) <= Cardinality(g..minted')
    BY <2>4, <2>5, FS_Subset
  <2>7. MaxPrepared + 1 <= minted' - g + 1
    <3>1. ~ (g > minted')
      BY <1>1, <1>2, <1>3
    <3> QED  BY <2>2, <2>5, <2>6, <3>1
  <2> QED  BY <1>1, <1>2, <2>7, CapacityAssumption
<1> QED  BY <1>4, <1>5

\* What a removal takes out of the map is closed.
LEMMA RemoveSurvival ==
  ASSUME NEW gone, Survival(gone), NEW h \in 0..minted, Remove(h)
  PROVE  Survival(gone)'
<1>1. /\ minted' = minted
      /\ map' = [g \in Live \ {h} |-> map[g]]
      /\ closed' = closed \cup (Live \cap {h})
  BY Zenon DEF Remove, Remaining
<1>2. Live' = Live \ {h}
  BY <1>1 DEF Live
<1>3. \A g : g \in Live \cup closed => g \in Live' \cup closed'
  BY <1>1, <1>2
<1> HIDE DEF Live
<1> QED  BY <1>1, <1>3 DEF Survival

LEMMA SurvivalStep ==
  ASSUME CacheIInv, NEW gone, Survival(gone), [CacheNext]_cacheVars
  PROVE  Survival(gone)'
<1>1. CASE \E q \in Queries : Insert(q)
  BY <1>1, InsertSurvival
<1>2. CASE \E h \in 0..minted : Remove(h)
  BY <1>2, RemoveSurvival
<1>3. CASE UNCHANGED cacheVars
  BY <1>3 DEF Survival, Live, cacheVars
<1> QED  BY <1>1, <1>2, <1>3 DEF CacheNext

\* An operation mints at most one handle, and no entry is new but the one minted.
LEMMA LiveIsOldOrNew ==
  ASSUME CacheIInv, [CacheNext]_cacheVars
  PROVE  /\ minted \in Nat /\ minted' \in Nat /\ minted <= minted' /\ closed \subseteq closed'
         /\ \A h \in Live' : h \in Live \/ h > minted
<1>1. minted \in Nat
  BY DEF CacheIInv, CacheTypeOK
<1>2. ASSUME NEW q \in Queries, Insert(q)
      PROVE  minted' = minted + 1 /\ closed' = closed /\ Live' \subseteq Live \cup {minted + 1}
  <2> DEFINE all == Live \cup {minted + 1}
  <2>1. InsertOutcome(q, all)
    BY <1>2, InsertEffect, Zenon
  <2> HIDE DEF all
  <2>2. minted' = minted + 1 /\ closed' = closed /\ Live' \in SUBSET all
    BY <2>1, Zenon DEF InsertOutcome
  <2> QED  BY <2>2 DEF all
<1>3. ASSUME NEW h \in 0..minted, Remove(h)
      PROVE  minted' = minted /\ closed \subseteq closed' /\ Live' \subseteq Live
  <2>1. /\ minted' = minted /\ map' = [g \in Live \ {h} |-> map[g]]
        /\ closed' = closed \cup (Live \cap {h})
    BY <1>3, Zenon DEF Remove, Remaining
  <2> QED  BY <2>1 DEF Live
<1>4. CASE UNCHANGED cacheVars
  BY <1>1, <1>4 DEF cacheVars, Live
<1>5. CASE \E q \in Queries : Insert(q)
  <2> HIDE DEF Live
  <2> QED  BY <1>1, <1>2, <1>5
<1>6. CASE \E h \in 0..minted : Remove(h)
  <2> HIDE DEF Live
  <2> QED  BY <1>1, <1>3, <1>6
<1> QED  BY <1>4, <1>5, <1>6 DEF CacheNext

\* A handle nobody closed is displaced only by MaxPrepared newer ones.
THEOREM HandlesSurvive == CacheSpec => []SurvivesUntilDisplaced
<1>1. CacheInit => Survival({})
  BY DEF CacheInit, Survival
<1>2. CacheIInv /\ Survival({}) /\ [CacheNext]_cacheVars => Survival({})'
  BY SurvivalStep
<1>3. Survival({}) => SurvivesUntilDisplaced
  BY DEF Survival, SurvivesUntilDisplaced
<1> QED  BY <1>1, <1>2, <1>3, CacheInvariant, PTL DEF CacheSpec

-----------------------------------------------------------------------------

\* The action of EvictsOldestFirst.
OldestFirstStep ==
  minted' # minted =>
    /\ minted' \in DOMAIN map'
    /\ \A h \in Live \ DOMAIN map' : \A g \in DOMAIN map' : h < g

\* Eviction is oldest first and never takes the entry just inserted.
THEOREM EvictionIsOldestFirst == CacheSpec => EvictsOldestFirst
<1>1. CacheIInv /\ [CacheNext]_cacheVars => [OldestFirstStep]_cacheVars
  <2> SUFFICES ASSUME CacheIInv, CacheNext
               PROVE  OldestFirstStep
    OBVIOUS
  <2>1. CASE \E h \in 0..minted : Remove(h)
    BY <2>1 DEF Remove, OldestFirstStep
  <2>2. ASSUME NEW q \in Queries, Insert(q)
        PROVE  OldestFirstStep
    <3> DEFINE all == Live \cup {minted + 1}
    <3>1. InsertOutcome(q, all)
      BY <2>2, InsertEffect, Zenon
    <3>2. Live \in SUBSET all
      OBVIOUS
    <3> HIDE DEF all
    <3>3. /\ all \in SUBSET (1..minted') /\ Live' \in SUBSET all /\ minted' \in Live'
          /\ \/ Live' = all
             \/ \E h \in Live : (\A g \in all : h <= g) /\ Live' = all \ {h}
      BY <3>1, Zenon DEF InsertOutcome
    <3>4. ASSUME NEW h \in Live \ Live', NEW g \in Live'
          PROVE  h < g
      <4>1. PICK x \in Live : (\A y \in all : x <= y) /\ Live' = all \ {x}
        BY <3>2, <3>3, <3>4
      <4>2. h = x
        BY <3>2, <4>1
      <4>3. h <= g /\ h # g
        BY <3>2, <4>1, <4>2
      <4>4. h \in Nat /\ g \in Nat
        BY <3>2, <3>3
      <4> QED  BY <4>3, <4>4
    <3>5. DOMAIN map' = Live'
      BY DEF Live
    <3> HIDE DEF Live
    <3> QED  BY <3>3, <3>4, <3>5 DEF OldestFirstStep
  <2> QED  BY <2>1, <2>2 DEF CacheNext
<1> QED  BY <1>1, CacheInvariant, PTL DEF CacheSpec, EvictsOldestFirst, OldestFirstStep

\* `insert`, seen without its deque, is the abstract map's put.
LEMMA InsertIsPut ==
  ASSUME CacheIInv, NEW q \in Queries, Insert(q)
  PROVE  Abstract!AbsPut(q)
<1> DEFINE all == Live \cup {minted + 1}
<1>1. InsertOutcome(q, all)
  BY InsertEffect, Zenon
<1>2. minted < MaxMinted /\ minted' = minted + 1
  BY DEF Insert
<1>3. all = DOMAIN map \cup {minted + 1}
  BY DEF Live
<1> HIDE DEF all
<1>4. /\ Cardinality(all) = Cardinality(Live) + 1
      /\ map' = [h \in Live' |-> IF h = minted + 1 THEN q ELSE map[h]]
      /\ \/ Cardinality(all) <= MaxPrepared /\ Live' = all
         \/ /\ Cardinality(all) = MaxPrepared + 1
            /\ \E h \in all : (\A g \in all : h <= g) /\ Live' = all \ {h}
  <2>1. \A h \in Live : h \in all
    BY <1>3 DEF Live
  <2> QED  BY <1>1, <2>1, Zenon DEF InsertOutcome
<1>5. \E gone \in SUBSET all :
         /\ IF Cardinality(all) <= MaxPrepared
              THEN gone = {}
              ELSE \E h \in all : Abstract!IsOldest(h, all) /\ gone = {h}
         /\ map' = [h \in all \ gone |-> IF h = minted + 1 THEN q ELSE map[h]]
  <2>1. CASE Cardinality(all) <= MaxPrepared /\ Live' = all
    <3>1. all \ {} = Live'
      BY <2>1
    <3>2. map' = [h \in all \ {} |-> IF h = minted + 1 THEN q ELSE map[h]]
      BY <1>4, <3>1, Zenon
    <3> QED  BY <2>1, <3>2
  <2>2. CASE /\ Cardinality(all) = MaxPrepared + 1
             /\ \E h \in all : (\A g \in all : h <= g) /\ Live' = all \ {h}
    <3>1. PICK h \in all : (\A g \in all : h <= g) /\ Live' = all \ {h}
      BY <2>2
    <3>2. Abstract!IsOldest(h, all)
      BY <3>1 DEF Abstract!IsOldest
    <3>3. map' = [g \in all \ {h} |-> IF g = minted + 1 THEN q ELSE map[g]]
      BY <1>4, <3>1, Zenon
    <3>4. ~ (Cardinality(all) <= MaxPrepared)
      BY <2>2, CapacityAssumption
    <3> QED  BY <3>2, <3>3, <3>4
  <2> QED  BY <1>4, <2>1, <2>2
<1>6. Abstract!Cardinality(all) = Cardinality(all)
  BY DEF Abstract!Cardinality, Cardinality
<1> QED  BY <1>2, <1>3, <1>5, <1>6, Zenon DEF Abstract!AbsPut

\* The map with its lazily cleaned marker deque implements the oldest-first map
\* that has no deque: no sequence of inserts and closes can tell them apart.
THEOREM CacheImplementsMap == CacheSpec => ImplementsOldestFirstMap
<1>1. CacheInit => Abstract!AbsInit
  BY DEF CacheInit, Abstract!AbsInit
<1>2. CacheIInv /\ [CacheNext]_cacheVars => [Abstract!AbsNext]_(Abstract!absVars)
  <2> SUFFICES ASSUME CacheIInv, [CacheNext]_cacheVars
               PROVE  [Abstract!AbsNext]_(Abstract!absVars)
    OBVIOUS
  <2>1. ASSUME NEW q \in Queries, Insert(q)
        PROVE  Abstract!AbsNext
    BY <2>1, InsertIsPut DEF Abstract!AbsNext
  <2>2. ASSUME NEW h \in 0..minted, Remove(h)
        PROVE  Abstract!AbsNext
    <3>1. Abstract!AbsDrop(h)
      BY <2>2 DEF Remove, Remaining, Live, Abstract!AbsDrop
    <3> QED  BY <3>1 DEF Abstract!AbsNext
  <2>3. CASE UNCHANGED cacheVars
    BY <2>3 DEF cacheVars, Abstract!absVars
  <2> QED  BY <2>1, <2>2, <2>3 DEF CacheNext
<1> QED  BY <1>1, <1>2, CacheInvariant, PTL
         DEF CacheSpec, ImplementsOldestFirstMap, Abstract!AbsSpec
=============================================================================
