------------------------ MODULE ServerRestartsProofs ------------------------
(***************************************************************************)
(* Proofs about a server that is restarted, for every number of restarts,  *)
(* handlers, requests and cached statements.  The invariant is the one of  *)
(* the server with the handles that are gone (GoneIInv): a restart adds    *)
(* the live handles to them.                                               *)
(***************************************************************************)
EXTENDS ServerRestarts, FlightServerProofs

\* The inductive invariant of the restarted server.
RestartIInv == GoneIInv(lost)

\* A new process satisfies the invariant of the server: its cache is empty, its
\* handlers are idle, and the numbers of the handles go on.
LEMMA RestartKeepsServer ==
  ASSUME ServerIInv, Restart
  PROVE  ServerIInv'
<1>1. /\ map' = [h \in {} |-> h] /\ order' = <<>> /\ minted' = minted
      /\ call' = [c \in Calls |-> Idle] /\ orphans' = [q \in JobTexts |-> 0]
      /\ UNCHANGED <<issued, closed, begun>>
      /\ db' = db \/ \E demo \in BOOLEAN : db' = [exists |-> demo, gen |-> db.gen + 1, rows |-> 0]
  BY DEF Restart, EmptyCache, MintedBefore
<1>2. /\ minted \in Nat /\ closed \in SUBSET (1..minted)
      /\ issued \in Seq(Queries) /\ Len(issued) = minted
      /\ db \in [exists : BOOLEAN, gen : Nat, rows : Nat] /\ begun \in Nat
  BY DEF ServerIInv, Bookkeeping, CacheIInv, CacheTypeOK, Surroundings
<1>3. Live' = {}
  BY <1>1 DEF Live
<1>4. Cardinality(Live') = 0
  BY <1>3, FS_EmptySet
<1>5. CacheIInv'
  <2>1. /\ map' \in [Live' -> Queries] /\ Live' \in SUBSET (1..minted')
        /\ order' \in Seq(1..minted')
    BY <1>1, <1>3
  <2>2. CacheTypeOK'
    BY <1>1, <1>2, <2>1 DEF CacheTypeOK
  <2>3. WithinCapacity' /\ MarkersBounded'
    BY <1>1, <1>4, CapacityAssumption DEF WithinCapacity, MarkersBounded
  <2>4. MarkersSorted' /\ LiveMarked'
    BY <1>1, <1>3 DEF MarkersSorted, LiveMarked
  <2> QED  BY <2>2, <2>3, <2>4 DEF CacheIInv
<1>6. Bookkeeping'
  BY <1>1, <1>2, <1>3, <1>5 DEF Bookkeeping
<1>7. Surroundings'
  <2>1. db.gen + 1 \in Nat
    BY <1>2
  <2>2. \A demo \in BOOLEAN : [exists |-> demo, gen |-> db.gen + 1, rows |-> 0]
                                \in [exists : BOOLEAN, gen : Nat, rows : Nat]
    BY <2>1, Zenon
  <2>3. db' \in [exists : BOOLEAN, gen : Nat, rows : Nat]
    BY <1>1, <1>2, <2>2, Zenon
  <2>4. orphans' \in [JobTexts -> Nat] /\ begun' \in Nat
    BY <1>1, <1>2
  <2> QED  BY <2>3, <2>4 DEF Surroundings
<1>8. Idle \in HandlerIn(minted')
  BY <1>1, <1>2, ArrivalTyped DEF Ops
<1>9. HandlerOK(Idle, issued', minted')
  BY <1>8 DEF Idle, HandlerOK, Course, Results, Effects, Meaning, Fate, Failed, Waiting
<1> HIDE DEF Idle
<1> QED  BY <1>1, <1>6, <1>7, <1>8, <1>9 DEF ServerIInv

LEMMA RestartPreserves ==
  ASSUME RestartIInv, Restart
  PROVE  RestartIInv'
<1>1. ServerIInv /\ ServerIInv'
  BY RestartKeepsServer DEF RestartIInv, GoneIInv
<1>2. /\ map' = [h \in {} |-> h] /\ minted' = minted /\ closed' = closed
      /\ lost' = lost \cup Live /\ call' = [c \in Calls |-> Idle]
  BY DEF Restart, EmptyCache, MintedBefore
<1>3. Live' = {}
  BY <1>2 DEF Live
<1>4. lost \in SUBSET (1..minted) /\ Live \in SUBSET (1..minted) /\ minted \in Nat
  BY <1>1 DEF RestartIInv, GoneIInv, ServerIInv, Bookkeeping, CacheIInv, CacheTypeOK
<1>5. \A h \in 1..minted : h \in Live \cup closed \cup lost \/ h + MaxPrepared <= minted
  BY DEF RestartIInv, GoneIInv, Survival
<1> HIDE DEF Live
<1>6. Survival(lost)'
  BY <1>2, <1>5 DEF Survival
<1>7. lost' \in SUBSET (1..minted') /\ lost' \cap Live' = {} /\ 0 \notin lost'
  BY <1>2, <1>3, <1>4
<1>8. Deserved(Idle, closed' \cup lost', minted') /\ DeadEnd(Idle, lost')
  BY <1>7 DEF Idle, Deserved, DeadEnd
<1> HIDE DEF Idle
<1>9. \A c \in Calls : /\ Deserved(call'[c], closed' \cup lost', minted')
                       /\ DeadEnd(call'[c], lost')
  BY <1>2, <1>8
<1> QED  BY <1>1, <1>6, <1>7, <1>9 DEF RestartIInv, GoneIInv

LEMMA RestartStep == RestartIInv /\ [RestartNext]_restartVars => RestartIInv'
<1> SUFFICES ASSUME RestartIInv, [RestartNext]_restartVars
             PROVE  RestartIInv'
  OBVIOUS
<1>1. CASE Restart
  BY <1>1, RestartPreserves
<1>2. CASE [ServerNext]_serverVars /\ UNCHANGED lost
  <2>1. PICK gone : gone = lost
    OBVIOUS
  <2>2. GoneIInv(gone)
    BY <2>1 DEF RestartIInv, GoneIInv, Survival
  <2>3. GoneIInv(gone)'
    BY <1>2, <2>2, GoneStep
  <2>4. lost' = gone
    BY <1>2, <2>1
  <2> QED  BY <2>3, <2>4 DEF RestartIInv, GoneIInv, Survival
<1> QED  BY <1>1, <1>2 DEF RestartNext, restartVars

\* The invariant holds over any number of server processes.
THEOREM RestartInvariant == RestartSpec => []RestartIInv
<1>1. RestartInit => RestartIInv
  <2> SUFFICES ASSUME RestartInit PROVE RestartIInv
    OBVIOUS
  <2>1. GoneIInv({}) /\ lost = {}
    BY GoneInit DEF RestartInit
  <2> QED  BY <2>1 DEF RestartIInv, GoneIInv, Survival
<1>2. RestartIInv /\ [RestartNext]_restartVars => RestartIInv'
  BY RestartStep
<1> QED  BY <1>1, <1>2, PTL DEF RestartSpec

\* The server's state keeps its types over restarts.
THEOREM RestartTypeCorrect == RestartSpec => []ServerTypeOK
<1>1. RestartIInv => ServerTypeOK
  BY DEF RestartIInv, GoneIInv, ServerIInv, Bookkeeping, CacheIInv, Surroundings, ServerTypeOK,
         HandlerType, HandlerIn
<1> QED  BY <1>1, RestartInvariant, PTL

\* A handle minted by any process never comes to mean a statement of another one.
THEOREM MeaningOutlivesProcesses == RestartSpec => []HandlesKeepMeaning
<1>1. RestartIInv => HandlesKeepMeaning
  BY DEF RestartIInv, GoneIInv, ServerIInv, Bookkeeping, HandlesKeepMeaning, HandlerOK, Meaning
<1> QED  BY <1>1, RestartInvariant, PTL

\* A closed handle stays closed in the processes that follow.
THEOREM ClosedOutlivesProcesses == RestartSpec => []ClosedStaysClosed
<1>1. RestartIInv => ClosedStaysClosed
  BY DEF RestartIInv, GoneIInv, ServerIInv, ClosedStaysClosed, HandlerOK, Fate
<1> QED  BY <1>1, RestartInvariant, PTL

\* A handle that was live when its process ended is dead in all that follow: a
\* request that names it is refused and is given no statement.
THEOREM LostHandlesAreDead == RestartSpec => []LostHandlesStayDead
<1>1. RestartIInv => LostHandlesStayDead
  BY DEF RestartIInv, GoneIInv, DeadEnd, LostHandlesStayDead
<1> QED  BY <1>1, RestartInvariant, PTL

\* "unknown prepared statement handle" is said only of a handle that was never
\* minted, was closed, was lost with its process, or was displaced.
THEOREM NotFoundHasACause == RestartSpec => []NotFoundIsDeservedOrLost
<1>1. RestartIInv => NotFoundIsDeservedOrLost
  BY DEF RestartIInv, GoneIInv, Deserved, NotFoundIsDeservedOrLost
<1> QED  BY <1>1, RestartInvariant, PTL
=============================================================================
