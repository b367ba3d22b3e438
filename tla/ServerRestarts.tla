--------------------------- MODULE ServerRestarts ---------------------------
(***************************************************************************)
(* The server process ends and a new one takes its place.  Everything that *)
(* LadybugFlightServer::new (src/server.rs) makes anew is lost: the cache, *)
(* the handlers, the jobs on the pool.  A database file stays, :memory:    *)
(* does not.  Handles and tickets are bytes that callers keep: they use    *)
(* them with the new process as with the old.                              *)
(*                                                                         *)
(* CountsAnew and KeepsEntries are plausible bugs; no action uses them.    *)
(***************************************************************************)
EXTENDS FlightServer

CONSTANT MaxRestarts  \* bound of the model: restarts

ASSUME RestartAssumption == MaxRestarts \in Nat

VARIABLES
  restarts,  \* how many there were
  lost       \* history: handles that were live when a process ended

restartVars == <<restarts, lost, serverVars>>

-----------------------------------------------------------------------------

\* A handle is a random UUID, so a new process goes on where the old one was; the
\* variant counts its handles from one.
CountsAnew == 0
MintedBefore == minted

\* PreparedCache::new; the variant finds the entries of the old process.
KeepsEntries == map' = map /\ order' = order
EmptyCache == map' = [h \in {} |-> h] /\ order' = <<>>

Restart ==
  /\ restarts < MaxRestarts
  /\ restarts' = restarts + 1
  /\ lost' = lost \cup Live
  /\ EmptyCache
  /\ minted' = MintedBefore
  /\ call' = [c \in Calls |-> Idle]
  /\ orphans' = [q \in JobTexts |-> 0]
  /\ \/ UNCHANGED db
     \/ \E demo \in BOOLEAN : db' = [exists |-> demo, gen |-> db.gen + 1, rows |-> 0]
  /\ UNCHANGED <<issued, closed, begun>>

RestartInit == ServerInit /\ restarts = 0 /\ lost = {}

RestartNext == Restart \/ (ServerNext /\ UNCHANGED <<restarts, lost>>)

RestartSpec == RestartInit /\ [][RestartNext]_restartVars

-----------------------------------------------------------------------------

\* A handle of an earlier process is dead: a request that names it is refused,
\* and is never given a statement of the new process.
LostHandlesStayDead ==
  \A c \in Calls :
    LET k == call[c]
    IN  k.want \in lost /\ k.op # "close" => k.status # "ok" /\ k.text \in {"empty", "garbage"}

\* "unknown prepared statement handle" has one more cause.
NotFoundIsDeservedOrLost ==
  \A c \in Calls :
    call[c].status = "not_found" =>
      LET h == call[c].want
      IN  h = 0 \/ h \in closed \cup lost \/ h + MaxPrepared <= minted
=============================================================================
