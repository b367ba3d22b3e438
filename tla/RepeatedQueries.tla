-------------------------- MODULE RepeatedQueries ---------------------------
(***************************************************************************)
(* Clients that query again and again: LadybugClient over one connection   *)
(* (src/client.rs), and the container's health check, which runs a plain   *)
(* query every 30 seconds for as long as the server lives                  *)
(* (src/bin/healthcheck.rs).  Plain queries store handles and close none,  *)
(* so the cache fills up and statements are displaced.                     *)
(***************************************************************************)
EXTENDS FlightSystem

CONSTANTS
  Probers,     \* the clients that are health checks
  MaxQueries   \* bound of the model: queries that are begun again

ASSUME RepeatedAssumption ==
  /\ Probers \subseteq Calls
  /\ Probers # {} => "constant" \in Queries /\ "plain" \in Kinds
  /\ MaxQueries \in Nat

VARIABLE again  \* how many were

repeatVars == <<again, sysVars>>

-----------------------------------------------------------------------------

\* The probe's query is "RETURN 1 AS ok".
Probe == Fresh("plain", "constant")

Again(c) ==
  /\ Ended(c)
  /\ again < MaxQueries
  /\ again' = again + 1
  /\ \E kind \in Kinds, q \in Queries :
       LET f == Fresh(kind, q)
       IN  (c \in Probers => f = Probe) /\ SetFlow(c, f)
  /\ UNCHANGED <<broken, serverVars>>

RepeatInit ==
  /\ SysInit
  /\ \A c \in Probers : flow[c] = Probe
  /\ again = 0

RepeatNext ==
  \/ \E c \in Calls : Again(c)
  \/ SysNext /\ UNCHANGED again

\* A client need not come back; what it asks it follows up (SysFairness).
RepeatSpec == RepeatInit /\ [][RepeatNext]_repeatVars /\ SysFairness

-----------------------------------------------------------------------------

\* Whatever health checks and other clients store meanwhile, a query fails only
\* with its connection, or because its table does not exist, or because MaxPrepared
\* newer handles were minted after its own, or because it writes and may meet
\* another writer.  The health check reads no table and writes nothing: the server
\* is "unhealthy" only for a broken connection or for handles that pushed its own
\* out.
FailsWhenDisplacedOnly ==
  \A c \in Calls :
    flow[c].at = "failed" =>
      \/ flow[c].cause = "connection" \/ ~ Binds(flow[c].text)
      \/ call[c].want # 0 /\ call[c].want + MaxPrepared <= minted
      \/ Writes(flow[c].text)

\* Every query of every client comes to an end, the next ones too.
QueriesEnd == \A c \in Calls : ~ Ended(c) ~> Ended(c)
=============================================================================
