---------------------------- MODULE PreparedCache ----------------------------
(***************************************************************************)
(* The bounded prepared-statement cache of the Flight server (struct       *)
(* PreparedCache in src/server.rs).  It is a HashMap of live entries and a *)
(* VecDeque of insertion markers; removing an entry leaves its marker in   *)
(* the deque until an eviction pops it or a compaction drops it.  Every    *)
(* operation runs under the server's one mutex, so each is one step.       *)
(*                                                                         *)
(* Handles are fresh UUIDs in the code; the nth one minted is the number   *)
(* n here and 0 stands for any byte string that was never minted.          *)
(*                                                                         *)
(* A definition that is easy to get wrong has a variant beside it: the bug *)
(* a change of the code could bring in.  No action uses a variant.         *)
(***************************************************************************)
EXTENDS Integers, FiniteSets, Sequences

CONSTANTS
  MaxPrepared,  \* MAX_PREPARED, 512 in the code
  Queries,      \* query strings
  MaxMinted     \* bound of the model: how many handles are ever minted

ASSUME CapacityAssumption == MaxPrepared \in Nat \ {0}
ASSUME BoundAssumption == MaxMinted \in Nat

VARIABLES
  map,     \* the HashMap: live handle -> query
  order,   \* the VecDeque: markers, oldest insertion first
  minted,  \* number of handles minted so far (the UUID source)
  closed   \* history: handles that `remove` took out of the map

cacheVars == <<map, order, minted, closed>>

Live == DOMAIN map

-----------------------------------------------------------------------------

CacheInit ==
  /\ map = [h \in {} |-> h]
  /\ order = <<>>
  /\ minted = 0
  /\ closed = {}

\* A fresh UUID; the variant mints one that exists.
StaleHandle == minted
NewHandle == minted + 1

\* Markers the eviction loop pops: it stops at the first prefix whose removal
\* brings the map back to its capacity, or when the deque is empty.  The variant
\* pops from the back.
Back(ord, k) == {ord[i] : i \in (Len(ord) - k + 1)..Len(ord)}
Front(ord, k) == {ord[i] : i \in 1..k}

\* Variants: the loop runs one entry too short, or one too far.
EndsLate(live, ord, k) ==
  k = Len(ord) \/ Cardinality(live \ Front(ord, k)) <= MaxPrepared + 1
EndsEarly(live, ord, k) ==
  k = Len(ord) \/ Cardinality(live \ Front(ord, k)) < MaxPrepared
LoopEnds(live, ord, k) ==
  k = Len(ord) \/ Cardinality(live \ Front(ord, k)) <= MaxPrepared

Popped(live, ord) ==
  CHOOSE k \in 0..Len(ord) :
    /\ LoopEnds(live, ord, k)
    /\ \A j \in 0..Len(ord) : LoopEnds(live, ord, j) => k <= j

Insert(q) ==
  /\ minted < MaxMinted
  /\ minted' = minted + 1
  /\ LET live == Live \cup {NewHandle}
         ord  == Append(order, NewHandle)
         k    == Popped(live, ord)
     IN  /\ map' = [h \in live \ Front(ord, k) |->
                      IF h = NewHandle THEN q ELSE map[h]]
         /\ order' = SubSeq(ord, k + 1, Len(ord))
  /\ UNCHANGED closed

\* VecDeque::retain: the markers still in `live`, in their order.  The jth one
\* kept is at the position with j - 1 kept positions below it.
Kept(ord, live) == {i \in DOMAIN ord : ord[i] \in live}

Rank(S, i) == Cardinality({k \in S : k <= i})

Nth(S, j) == CHOOSE i \in S : Rank(S, i) = j

Retain(ord, live) ==
  [j \in 1..Cardinality(Kept(ord, live)) |-> ord[Nth(Kept(ord, live), j)]]

\* Compaction is due; the variant waits twice as long.
CrowdedLate(live, ord) == Cardinality(live) * 4 < Len(ord)
Crowded(live, ord) == Cardinality(live) * 2 < Len(ord)

\* The deque after a removal; the variant cuts it to size instead.
Truncated(ord, live) ==
  IF Crowded(live, ord) THEN SubSeq(ord, 1, Cardinality(live)) ELSE ord
Tidied(ord, live) ==
  IF Crowded(live, ord) THEN Retain(ord, live) ELSE ord

\* The variant forgets to remove the entry.
AllLive(h) == Live
Remaining(h) == Live \ {h}

Remove(h) ==
  LET live == Remaining(h)
  IN  /\ map' = [g \in live |-> map[g]]
      /\ order' = Tidied(order, live)
      /\ closed' = closed \cup (Live \cap {h})
      /\ UNCHANGED minted

CacheNext ==
  \/ \E q \in Queries : Insert(q)
  \/ \E h \in 0..minted : Remove(h)

CacheSpec == CacheInit /\ [][CacheNext]_cacheVars

-----------------------------------------------------------------------------

\* The types of the cache's state; an entry's handle was minted.
CacheTypeOK ==
  /\ minted \in Nat
  /\ Live \in SUBSET (1..minted)
  /\ map \in [Live -> Queries]
  /\ order \in Seq(1..minted)
  /\ closed \in SUBSET (1..minted)

\* The cap holds after every operation: `insert` cleans up after itself.
WithinCapacity == Cardinality(Live) <= MaxPrepared

\* Markers are in mint order: popping the front is popping the oldest.
MarkersSorted == \A i, j \in DOMAIN order : i < j => order[i] < order[j]
\* No live entry lacks a marker: such an entry could never be evicted, and the
\* loop would empty the deque and give up above the cap.
LiveMarked == \A h \in Live : \E i \in DOMAIN order : order[i] = h
\* The deque stays usable for eviction whatever `remove` and its compaction did
\* in between.
MarkersTrackLive == MarkersSorted /\ LiveMarked

\* `remove` calls stale markers "harmless (bounded by insert count)"; the
\* compaction gives far more: never more markers than twice the live entries,
\* however many handles were minted and closed.
MarkersBounded == Len(order) <= 2 * Cardinality(Live)

\* A handle nobody closed disappears only after MaxPrepared newer handles were
\* minted, so its ticket is safe while fewer statements than that start.
SurvivesUntilDisplaced ==
  \A h \in 1..minted : h \in Live \cup closed \/ h + MaxPrepared <= minted

\* An eviction takes the oldest live entries only, never the entry just made.
EvictsOldestFirst ==
  [][minted' # minted =>
       /\ minted' \in DOMAIN map'
       /\ \A h \in Live \ DOMAIN map' : \A g \in DOMAIN map' : h < g]_cacheVars

\* The cache is the oldest-first map: the deque is an implementation detail.
Abstract == INSTANCE OldestFirstMap
ImplementsOldestFirstMap == Abstract!AbsSpec
=============================================================================
