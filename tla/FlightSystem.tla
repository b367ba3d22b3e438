---------------------------- MODULE FlightSystem ----------------------------
(***************************************************************************)
(* The client's two query flows (src/client.rs) against the server.  Each  *)
(* client runs one flow over one connection, so its slot of the server is  *)
(* its own:                                                                *)
(*   plain:  GetFlightInfo(text) -> DoGet(ticket)                          *)
(*   sql:    CreatePreparedStatement -> GetFlightInfo(handle)              *)
(*             -> DoGet(ticket) -> ClosePreparedStatement                  *)
(* Every step of a flow ends in `?`: the first error ends the flow.  A     *)
(* disconnection reaches the client as an error and the server, if it has  *)
(* the request in hand, as a dropped handler; an answer already given is   *)
(* lost on the way.                                                        *)
(***************************************************************************)
EXTENDS FlightServer

CONSTANTS
  Kinds,        \* flows that clients run: a subset of {"plain", "sql"}
  Disconnects   \* bound of the model: connections that ever break

ASSUME KindsAssumption == Kinds \subseteq {"plain", "sql"}
ASSUME DisconnectsAssumption == Disconnects \in Nat

VARIABLES
  flow,    \* the flow of each client
  broken   \* number of connections that broke

sysVars == <<flow, broken, serverVars>>

(***************************************************************************)
(* `at` is the RPC the flow is about to send or waits for, `sent` which of *)
(* the two.  `info` and `data` are the schemas of the FlightInfo and of    *)
(* the fetched batches.  History: `wrote` and `ran` count the writes and   *)
(* the runs of the flow's answered RPCs, `cause` is what ended it early.   *)
(***************************************************************************)
Fresh(kind, q) ==
  [kind |-> kind, text |-> q, at |-> IF kind = "sql" THEN "create" ELSE "info",
   sent |-> FALSE, handle |-> 0, info |-> NoSchema, data |-> NoSchema,
   wrote |-> 0, ran |-> 0, cause |-> "none"]

Ended(c) == flow[c].at \in {"done", "failed"}

SetFlow(c, new) == flow' = [flow EXCEPT ![c] = new]

Send(c) ==
  /\ ~ Ended(c) /\ ~ flow[c].sent
  /\ LET f == flow[c]
     IN  \/ f.at = "create" /\ Create(c, f.text)
         \/ f.at = "info" /\ f.kind = "plain" /\ DescribeText(c, "info", f.text)
         \/ f.at = "info" /\ f.kind = "sql" /\ DescribeHandle(c, "info", f.handle)
         \/ f.at = "get" /\ GetHandle(c, f.handle)
         \/ f.at = "close" /\ Close(c, f.handle)
  /\ SetFlow(c, [flow[c] EXCEPT !.sent = TRUE])
  /\ UNCHANGED broken

\* The step after a good answer.
Following(f) ==
  CASE f.at = "create" -> "info"
    [] f.at = "info" -> "get"
    [] f.at = "get" -> IF f.kind = "sql" THEN "close" ELSE "done"
    [] f.at = "close" -> "done"

\* What the flow has seen and caused once the answer k is in.
Advanced(f, k) ==
  [f EXCEPT !.sent = FALSE, !.wrote = @ + k.wrote, !.ran = @ + k.ran,
            !.handle = IF f.at \in {"create", "info"} THEN k.handle ELSE @,
            !.info = IF f.at = "info" THEN k.schema ELSE @,
            !.data = IF f.at = "get" THEN k.schema ELSE @]

Deliver(c) ==
  /\ flow[c].sent /\ call[c].pc = "replied"
  /\ LET f == Advanced(flow[c], call[c])
     IN  SetFlow(c, IF call[c].status = "ok"
                      THEN [f EXCEPT !.at = Following(flow[c])]
                      ELSE [f EXCEPT !.at = "failed", !.cause = call[c].status])
  /\ UNCHANGED <<broken, serverVars>>

Disconnect(c) ==
  /\ ~ Ended(c)
  /\ broken < Disconnects
  /\ broken' = broken + 1
  /\ SetFlow(c, [flow[c] EXCEPT !.at = "failed", !.sent = FALSE, !.cause = "connection"])
  /\ IF flow[c].sent /\ call[c].pc \in Waiting
       THEN Cancel(c)
       ELSE UNCHANGED serverVars

Serve ==
  /\ \/ \E c \in Calls : Job(c) \/ Answer(c)
     \/ \E q \in JobTexts : RunOrphan(q)
  /\ UNCHANGED <<flow, broken>>

SysInit ==
  /\ ServerInit
  /\ flow \in [Calls -> {Fresh(kind, q) : kind \in Kinds, q \in Queries}]
  /\ broken = 0

SysNext ==
  \/ \E c \in Calls : Send(c) \/ Deliver(c) \/ Disconnect(c)
  \/ Serve

SysSpec == SysInit /\ [][SysNext]_sysVars

\* A client drives its own flow (the await points of an async fn); the server
\* runs its jobs.  Nothing obliges a connection to break.
SysFairness ==
  /\ \A c \in Calls : WF_sysVars(Send(c)) /\ WF_sysVars(Deliver(c))
  /\ \A c \in Calls : WF_sysVars((Job(c) \/ Answer(c)) /\ UNCHANGED <<flow, broken>>)

-----------------------------------------------------------------------------

FlowType ==
  [kind : Kinds, text : Queries,
   at : {"create", "info", "get", "close", "done", "failed"}, sent : BOOLEAN,
   handle : 0..minted, info : {"none", "status", "native", "utf8"} \X Nat,
   data : {"none", "status", "native", "utf8"} \X Nat, wrote : Nat, ran : Nat,
   cause : {"none", "connection", "invalid", "not_found", "internal"}]

\* The types of the clients' state.
SysTypeOK ==
  /\ ServerTypeOK
  /\ flow \in [Calls -> FlowType]
  /\ broken \in 0..Disconnects

Done(c) == flow[c].at = "done"

\* How often a finished round trip ran its statement, when the tables did not
\* come and go meanwhile: once if it has columns (in DoGet), else once more for
\* every describing RPC, two of them in the sql flow.
RoundTripRuns ==
  \A c \in Calls :
    Done(c) => flow[c].ran = IF HasColumns(flow[c].text) THEN 1
                             ELSE IF flow[c].kind = "plain" THEN 2 ELSE 3

\* Clients do not disturb each other's reads: with room in the cache for every
\* client's handle, and tables that stay, a flow fails only because its own
\* connection broke, its own statement cannot run, or it writes and so does
\* another client.
FailuresHaveCauses ==
  \A c \in Calls :
    flow[c].at = "failed" =>
      \/ flow[c].cause = "connection"
      \/ ~ Binds(flow[c].text)
      \/ Writes(flow[c].text) /\ \E d \in Calls \ {c} : Writes(flow[d].text)

\* The sql flow closes what it opened, and opens one handle only: every live
\* handle belongs to a flow other than a finished sql flow, however the RPCs
\* interleaved and whatever broke.
LiveHandlesHaveOwners ==
  \A h \in Live : \E c \in Calls :
    /\ h \in {flow[c].handle, call[c].handle}
    /\ ~ (flow[c].kind = "sql" /\ Done(c))

\* The schema a flow is given first, from FlightInfo, is the schema of the batches
\* it is given then, unless the statement found nothing to return, or the table was
\* made anew in between: by another client, however the two met.
SchemaDescribesData ==
  \A c \in Calls :
    LET info == flow[c].info
        data == flow[c].data
    IN  Done(c) =>
          \/ data = info
          \/ HasColumns(flow[c].text) /\ "utf8" \in {info[1], data[1]}
          \/ /\ HasColumns(flow[c].text) /\ info[2] < data[2]
             /\ \E d \in Calls \ {c} : flow[d].text = "create_table"

\* The two flows hide their RPCs: to its client a statement with columns is one
\* step, taken when DoGet executes it.  What the statement returned is on its way
\* in the call, then in the flow.
Fetching(c) == flow[c].at = "get" /\ flow[c].sent /\ call[c].pc \in {"executed", "replied"}
Got(c) == IF Fetching(c) THEN call[c].schema ELSE flow[c].data

ServiceStage ==
  [c \in Calls |-> CASE Done(c) -> "answered"
                     [] flow[c].at = "failed" -> "failed"
                     [] ~ Ended(c) -> IF Got(c) = NoSchema THEN "asked" ELSE "applied"]
ServiceAnswer ==
  [c \in Calls |-> IF flow[c].at = "failed" \/ Got(c) = NoSchema THEN "none"
                   ELSE IF Got(c)[1] = "utf8" THEN "empty" ELSE "rows"]

Service ==
  INSTANCE QueryService WITH
    Clients <- Calls,
    writers <- {c \in Calls : Writes(flow[c].text)},
    stage   <- ServiceStage,
    answer  <- ServiceAnswer,
    rows    <- db.rows,
    late    <- orphans["insert_returning"]

\* The server, the cache, the pool and the flows together are the query service,
\* for statements with columns, tables that stay and an engine without faults.
ImplementsQueryService == Service!ServiceSpec

\* So they keep what the service promises.  No statement takes effect twice:
\* preparing is no execution, whether the flow goes on, fails or is cut off, and
\* what a failed query left behind is counted.
AtMostOnce == Service!AtMostOnce

\* Answers respect each other, whichever clients got them: once a row was seen, a
\* statement that runs later sees one too.
NoAnswerGoesBack == Service!NoAnswerGoesBack

\* "both Flight flows execute DDL twice (schema probe + DoGet), so the second run
\* must be a no-op" (tests/gds_page_rank.rs:263-265), or even "a round trip executes
\* the query exactly once, in `DoGet`" (README.md:89-90): a round trip runs its
\* statement no more than twice and has the effect of running it once.
SecondRunIsNoOp ==
  \A c \in Calls : Done(c) => flow[c].ran <= 2 /\ flow[c].wrote <= 1
=============================================================================
