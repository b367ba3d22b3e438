---------------------------- MODULE FlightServer ----------------------------
(***************************************************************************)
(* LadybugFlightServer (src/server.rs): concurrent RPC handlers over one   *)
(* database and one prepared-statement cache.                              *)
(*                                                                         *)
(* A handler is cut where the code awaits.  What it does between two       *)
(* awaits is one step: resolving a descriptor and answering are            *)
(* synchronous, and the cache is only touched there, under its mutex.  The *)
(* two awaited calls, prepare_schema and execute, run on the blocking pool *)
(* and take effect at one instant each.  Dropping a handler (the caller    *)
(* disconnects) does not stop a job the pool was already given.            *)
(*                                                                         *)
(* The handlers that keep no state and call nothing (handshake,            *)
(* poll_flight_info, do_put, do_exchange, list_actions, the list_queries   *)
(* action, unknown actions) are left out.  Variants, here as in            *)
(* PreparedCache, are bugs kept beside the definition they would spoil.    *)
(***************************************************************************)
EXTENDS PreparedCache

CONSTANTS
  Calls,     \* RPC slots: at most this many handlers at a time
  MaxCalls,  \* bound of the model: RPCs that are ever received
  NumDemos,  \* number of demo queries, 6 in the code
  Faults     \* whether the engine may fail a job for no visible reason

(***************************************************************************)
(* The statements tell apart what the server's code tells apart: whether   *)
(* the engine can bind them, whether they have result columns, and what    *)
(* running them twice does.  "constant" stands for a query of no table     *)
(* (RETURN 1 AS ok), "insert" for a write with no primary key to reject    *)
(* its second run (a relationship CREATE), "garbage" for text that does    *)
(* not parse, among it the hex digits of a dead handle.                    *)
(***************************************************************************)
Statements ==
  {"match", "constant", "insert", "insert_returning", "create_table", "drop_table"}
Texts == Queries \cup {"empty", "garbage"}
JobTexts == Texts \cup {"show"}

ASSUME QueriesAssumption == Queries \subseteq Statements
ASSUME CallsAssumption == MaxCalls \in Nat
ASSUME DemoAssumption == NumDemos \in Nat \ {0} /\ "match" \in Queries
ASSUME FaultsAssumption == Faults \in BOOLEAN

VARIABLES
  db,       \* the database: one table, its generation and its rows
  call,     \* the handler in each slot
  orphans,  \* text -> jobs left on the blocking pool by dropped handlers
  issued,   \* history: the statement the nth handle was minted for
  begun     \* number of RPCs received

serverVars == <<db, call, orphans, issued, begun, cacheVars>>

-----------------------------------------------------------------------------
(* The engine, and execute_cypher's shaping of what it returns. *)

HasColumns(q) == q \in {"match", "constant", "insert_returning", "show"}
Writes(q) == q \in {"insert", "insert_returning", "create_table", "drop_table"}

Binds(q) ==
  \/ q \in {"match", "insert", "insert_returning", "drop_table"} /\ db.exists
  \/ q = "create_table" /\ ~ db.exists
  \/ q \in {"constant", "show"}

\* A schema is told by its kind and by the generation of the table it is about.
NoSchema == <<"none", 0>>
StatusSchema == <<"status", 0>>
Native(q) == <<"native", IF q = "constant" THEN 0 ELSE db.gen>>
AllUtf8 == <<"utf8", db.gen>>

\* The schema of an executed statement's batches.  One variant reports a status
\* for every write, one takes a single row for none.
ReturnedFew(q) ==
  CASE ~ HasColumns(q) -> StatusSchema
    [] q = "match" /\ db.rows <= 1 -> AllUtf8
    [] OTHER -> Native(q)
ReturnedStatus(q) ==
  CASE Writes(q) -> StatusSchema
    [] q = "match" /\ db.rows = 0 -> AllUtf8
    [] OTHER -> Native(q)
Returned(q) ==
  CASE ~ HasColumns(q) -> StatusSchema
    [] q = "match" /\ db.rows = 0 -> AllUtf8
    [] OTHER -> Native(q)

Written(q) ==
  CASE q \in {"insert", "insert_returning"} ->
         [db EXCEPT !.rows = @ + 1]
    [] q = "create_table" ->
         [exists |-> TRUE, gen |-> db.gen + 1, rows |-> 0]
    [] q = "drop_table" ->
         [db EXCEPT !.exists = FALSE, !.rows = 0]
    [] OTHER -> db

-----------------------------------------------------------------------------
(* Handlers.  `schema` is what the last job returned.  History: `ran` and     *)
(* `wrote` count the jobs and the writes of the call, `want` is the handle    *)
(* it asked for, which is in `dead` if it had been closed before.              *)

Ops == {"info", "schema", "create", "get", "list", "show", "close"}
Waiting == {"prepare", "prepared", "execute", "executed"}

Idle ==
  [pc |-> "idle", op |-> "close", text |-> "empty", handle |-> 0, left |-> 0,
   schema |-> NoSchema, ran |-> 0, wrote |-> 0, want |-> 0,
   dead |-> {}, status |-> "none"]

Set(c, new) == call' = [call EXCEPT ![c] = new]

Arrival(op, h) ==
  [Idle EXCEPT !.op = op, !.want = h, !.dead = closed \cap {h}]

Received(c) ==
  /\ call[c].pc \in {"idle", "replied"}
  /\ begun < MaxCalls
  /\ begun' = begun + 1

Replied(k, status) == [k EXCEPT !.pc = "replied", !.status = status]

\* FlightInfo and schema requests that carry the query as text.
DescribeText(c, op, q) ==
  /\ op \in {"info", "schema"}
  /\ Received(c)
  /\ Set(c, [Arrival(op, 0) EXCEPT !.pc = "prepare", !.text = q])
  /\ UNCHANGED <<db, orphans, issued, cacheVars>>

\* FlightInfo and schema requests that name a prepared statement.
DescribeHandle(c, op, h) ==
  /\ op \in {"info", "schema"}
  /\ Received(c)
  /\ Set(c, IF h \in Live
              THEN [Arrival(op, h) EXCEPT !.pc = "prepare", !.text = map[h], !.handle = h]
              ELSE Replied(Arrival(op, h), "not_found"))
  /\ UNCHANGED <<db, orphans, issued, cacheVars>>

\* The CreatePreparedStatement action, which rejects an empty query at once.
Create(c, q) ==
  /\ Received(c)
  /\ Set(c, IF q = "empty"
              THEN Replied(Arrival("create", 0), "invalid")
              ELSE [Arrival("create", 0) EXCEPT !.pc = "prepare", !.text = q])
  /\ UNCHANGED <<db, orphans, issued, cacheVars>>

\* do_get with the text itself for a ticket.
GetText(c, q) ==
  /\ Received(c)
  /\ Set(c, IF q = "empty"
              THEN Replied(Arrival("get", 0), "invalid")
              ELSE [Arrival("get", 0) EXCEPT !.pc = "execute", !.text = q])
  /\ UNCHANGED <<db, orphans, issued, cacheVars>>

\* A ticket whose handle is not in the cache is taken for query text, which it
\* is not.  The variant falls back to a cached statement.
AnyText(h) ==
  IF h \in Live THEN map[h]
  ELSE IF Live # {} THEN map[CHOOSE g \in Live : TRUE] ELSE "garbage"
TicketText(h) == IF h \in Live THEN map[h] ELSE "garbage"

GetHandle(c, h) ==
  /\ Received(c)
  /\ Set(c, [Arrival("get", h) EXCEPT !.pc = "execute", !.text = TicketText(h)])
  /\ UNCHANGED <<db, orphans, issued, cacheVars>>

List(c) ==
  /\ Received(c)
  /\ Set(c, [Arrival("list", 0) EXCEPT !.pc = "execute", !.text = "match", !.left = NumDemos])
  /\ UNCHANGED <<db, orphans, issued, cacheVars>>

Show(c) ==
  /\ Received(c)
  /\ Set(c, [Arrival("show", 0) EXCEPT !.pc = "execute", !.text = "show"])
  /\ UNCHANGED <<db, orphans, issued, cacheVars>>

\* The ClosePreparedStatement action, which never fails.
Close(c, h) ==
  /\ Received(c)
  /\ Remove(h)
  /\ Set(c, Replied(Arrival("close", h), "ok"))
  /\ UNCHANGED <<db, orphans, issued>>

\* The statement has a schema to show without running it.  The variant is the
\* server's former design, which ran every statement to describe it.
NeverDescribable(q) == q \notin JobTexts
Describable(q) == HasColumns(q) /\ Binds(q)

\* prepare_schema: a statement with columns that binds gets its schema; any
\* other, or a failure of the job, sends the handler on to execute.
Prepare(c) ==
  /\ call[c].pc = "prepare"
  /\ \/ /\ Describable(call[c].text)
        /\ Set(c, [call[c] EXCEPT !.pc = "prepared", !.schema = Native(call[c].text)])
     \/ /\ Faults \/ ~ Describable(call[c].text)
        /\ Set(c, [call[c] EXCEPT !.pc = "execute"])
  /\ UNCHANGED <<db, orphans, issued, begun, cacheVars>>

\* Every job opens a connection of its own, and the engine promises concurrent
\* readers only: it may refuse a write while a job of `others` or one of `left`
\* is about to write.
Contended(q, others, left) ==
  /\ Writes(q)
  /\ \/ \E d \in others : call[d].pc = "execute" /\ Writes(call[d].text)
     \/ \E p \in JobTexts : left[p] > 0 /\ Writes(p)

\* execute_cypher: the statement takes effect and returns its batches; or it
\* does not bind, is refused, or the job fails, before it has any effect; or it
\* takes effect and the export of its batches fails.
Execute(c) ==
  /\ call[c].pc = "execute"
  /\ LET q == call[c].text
         k == [call[c] EXCEPT !.pc = "executed", !.ran = @ + 1]
         effect == [k EXCEPT !.wrote = @ + (IF Writes(q) THEN 1 ELSE 0)]
     IN  \/ /\ Binds(q)
            /\ db' = Written(q)
            /\ Set(c, [effect EXCEPT !.schema = Returned(q)])
         \/ /\ Faults \/ ~ Binds(q) \/ Contended(q, Calls \ {c}, orphans)
            /\ Set(c, [k EXCEPT !.schema = NoSchema])
            /\ UNCHANGED db
         \/ /\ Faults /\ Binds(q) /\ HasColumns(q)
            /\ db' = Written(q)
            /\ Set(c, [effect EXCEPT !.schema = NoSchema])
  /\ UNCHANGED <<orphans, issued, begun, cacheVars>>

\* The variant fills the map and leaves the eviction out.
StoreUnbounded(q) ==
  /\ minted' = minted + 1
  /\ map' = [h \in Live \cup {NewHandle} |-> IF h = NewHandle THEN q ELSE map[h]]
  /\ order' = Append(order, NewHandle)
  /\ issued' = Append(issued, q)
  /\ UNCHANGED closed
Store(q) == Insert(q) /\ issued' = Append(issued, q)

\* The last job of the handler failed; the variant takes the status table for a
\* failure.
FailedOrStatus(k) == k.schema \in {NoSchema, StatusSchema}
Failed(k) == k.schema = NoSchema

\* The handler resumes after its job; the variant never does when it failed.
ReadyIfGood(c, op) ==
  call[c].pc \in {"prepared", "executed"} /\ call[c].op = op /\ ~ Failed(call[c])
Ready(c, op) == call[c].pc \in {"prepared", "executed"} /\ call[c].op = op

\* bad_query: only the empty query is the caller's fault, unless there was no
\* connection to find that out with.
Fault == IF Faults THEN {"internal"} ELSE {}
ErrorStatus(k) == IF k.text = "empty" THEN {"invalid"} \cup Fault ELSE {"internal"}

\* The status of an answer after its job.  A schema of the engine's may turn out
\* not to be encodable, in schema_ipc, flight_info_for or do_get's encoder.
Outcome(k) ==
  CASE Failed(k) -> ErrorStatus(k)
    [] k.schema[1] = "native" -> {"ok"} \cup Fault
    [] OTHER -> {"ok"}

\* `handle.unwrap_or_else(store)`; the variant stores in any case.
StoresAnyway(k) == k.pc # "idle"
NeedsHandle(k) == k.handle = 0

AnswerInfo(c) ==
  /\ Ready(c, "info")
  /\ \E status \in Outcome(call[c]) :
       \/ /\ Failed(call[c]) \/ ~ NeedsHandle(call[c])
          /\ Set(c, Replied(call[c], status))
          /\ UNCHANGED <<issued, cacheVars>>
       \/ /\ ~ Failed(call[c]) /\ NeedsHandle(call[c])
          /\ Store(call[c].text)
          /\ Set(c, Replied([call[c] EXCEPT !.handle = minted'], status))
  /\ UNCHANGED <<db, orphans, begun>>

\* The schema is encoded before the statement is stored.
AnswerCreate(c) ==
  /\ Ready(c, "create")
  /\ \E status \in Outcome(call[c]) :
       \/ /\ status # "ok"
          /\ Set(c, Replied(call[c], status))
          /\ UNCHANGED <<issued, cacheVars>>
       \/ /\ status = "ok"
          /\ Store(call[c].text)
          /\ Set(c, Replied([call[c] EXCEPT !.handle = minted'], status))
  /\ UNCHANGED <<db, orphans, begun>>

\* get_schema and do_get store nothing; do_action answers "show_tables" even
\* when the engine failed.
AnswerQuery(c) ==
  /\ \E op \in {"schema", "get", "show"} : Ready(c, op)
  /\ \E status \in IF call[c].op = "show" THEN {"ok"} ELSE Outcome(call[c]) :
       Set(c, Replied(call[c], status))
  /\ UNCHANGED <<db, orphans, issued, begun, cacheVars>>

\* The demo queries are through; the variant goes round once more.
OneRoundMore(k) == k.left < 0
LastRound(k) == k.left = 0

\* One round of list_flights: it stops at the first query that fails or whose
\* schema cannot be encoded; the handles of the rounds so far stay in the cache.
AnswerList(c) ==
  /\ Ready(c, "list")
  /\ \/ /\ Failed(call[c])
        /\ Set(c, Replied(call[c], "internal"))
        /\ UNCHANGED <<issued, cacheVars>>
     \/ /\ ~ Failed(call[c])
        /\ Store(call[c].text)
        /\ LET k == [call[c] EXCEPT !.left = @ - 1]
           IN  \E status \in Outcome(k) :
                 Set(c, IF status = "ok" /\ ~ LastRound(k)
                          THEN [k EXCEPT !.pc = "execute"] ELSE Replied(k, status))
  /\ UNCHANGED <<db, orphans, begun>>

\* The caller disconnects and the handler is dropped at its await.
Cancel(c) ==
  /\ call[c].pc \in Waiting
  /\ Set(c, Idle)
  /\ orphans' = IF call[c].pc = "execute"
                  THEN [orphans EXCEPT ![call[c].text] = @ + 1]
                  ELSE orphans
  /\ UNCHANGED <<db, issued, begun, cacheVars>>

\* A job left behind runs like any other, with nobody to tell.
RunOrphan(q) ==
  /\ orphans[q] > 0
  /\ orphans' = [orphans EXCEPT ![q] = @ - 1]
  /\ \/ Binds(q) /\ db' = Written(q)
     \/ (Faults \/ ~ Binds(q) \/ Contended(q, Calls, orphans')) /\ UNCHANGED db
  /\ UNCHANGED <<call, issued, begun, cacheVars>>

-----------------------------------------------------------------------------

ServerInit ==
  /\ CacheInit
  /\ db \in [exists : BOOLEAN, gen : {1}, rows : {0}]
  /\ call = [c \in Calls |-> Idle]
  /\ orphans = [q \in JobTexts |-> 0]
  /\ issued = <<>>
  /\ begun = 0

Receive(c) ==
  \/ \E op \in {"info", "schema"}, q \in Texts : DescribeText(c, op, q)
  \/ \E op \in {"info", "schema"}, h \in 0..minted : DescribeHandle(c, op, h)
  \/ \E q \in Texts : Create(c, q) \/ GetText(c, q)
  \/ \E h \in 0..minted : GetHandle(c, h)
  \/ List(c)
  \/ Show(c)
  \/ \E h \in 0..minted : Close(c, h)

Job(c) == Prepare(c) \/ Execute(c)
Answer(c) == AnswerInfo(c) \/ AnswerCreate(c) \/ AnswerQuery(c) \/ AnswerList(c)

ServerNext ==
  \/ \E c \in Calls : Receive(c) \/ Job(c) \/ Answer(c) \/ Cancel(c)
  \/ \E q \in JobTexts : RunOrphan(q)

ServerSpec == ServerInit /\ [][ServerNext]_serverVars

\* The blocking pool runs what it is given and tokio polls a handler whose job
\* is done; callers owe nothing.
ServerFairness ==
  \A c \in Calls : WF_serverVars(Job(c)) /\ WF_serverVars(Answer(c))

ServerLiveSpec == ServerSpec /\ ServerFairness

-----------------------------------------------------------------------------

HandlerType ==
  [pc : {"idle", "replied"} \cup Waiting, op : Ops, text : JobTexts,
   handle : 0..minted, left : 0..NumDemos,
   schema : {"none", "status", "native", "utf8"} \X Nat,
   ran : Nat, wrote : Nat, want : 0..minted, dead : SUBSET (0..minted),
   status : {"none", "ok", "invalid", "not_found", "internal"}]

\* The types of the server's own state.
ServerTypeOK ==
  /\ CacheTypeOK
  /\ db \in [exists : BOOLEAN, gen : Nat, rows : Nat]
  /\ call \in [Calls -> HandlerType]
  /\ orphans \in [JobTexts -> Nat]
  /\ issued \in Seq(Queries) /\ Len(issued) = minted
  /\ begun \in Nat

\* A handle means the statement it was minted for, for ever: whatever was
\* closed, displaced or cancelled meanwhile, no request that names a handle is
\* ever given another handle's statement.
HandlesKeepMeaning ==
  /\ \A h \in Live : map[h] = issued[h]
  /\ \A c \in Calls :
       LET k == call[c]
       IN  /\ k.want # 0 /\ k.pc # "replied" => k.text \in {issued[k.want], "garbage"}
           /\ k.status = "ok" /\ k.op = "get" /\ k.want # 0 => k.text = issued[k.want]
           /\ k.status = "ok" /\ k.handle # 0 => k.text = issued[k.handle]

\* "unknown prepared statement handle" is said only of a handle that was never
\* minted, that somebody closed, or that MaxPrepared newer ones displaced.
NotFoundIsDeserved ==
  \A c \in Calls :
    call[c].status = "not_found" =>
      LET h == call[c].want
      IN  h = 0 \/ h \in closed \/ h + MaxPrepared <= minted

\* Once a close was answered, no later request gets anything out of the handle,
\* not even when requests for it were in flight during the close.
ClosedStaysClosed ==
  \A c \in Calls : call[c].dead # {} /\ call[c].op # "close" => call[c].status # "ok"

\* What the answer of a call tells about the database.  An error means that the
\* call wrote nothing, so retrying is safe, unless the export of its batches or
\* the encoding of their schema broke; success of a statement without columns means
\* that this very call ran it; no call writes twice.
AnswersTellEffects ==
  \A c \in Calls :
    LET k == call[c]
    IN  /\ k.wrote <= 1
        /\ k.status \in {"invalid", "not_found", "internal"}
             => k.wrote = 0 \/ (Faults /\ HasColumns(k.text))
        /\ k.status = "ok" /\ Writes(k.text) /\ (~ HasColumns(k.text) \/ k.op = "get")
             => k.wrote = 1

\* The server uses the cache only through its operations.
UsesTheCache == CacheSpec

\* Every request is answered unless its caller leaves.
EveryCallIsAnswered ==
  \A c \in Calls : (call[c].pc \in Waiting) ~> (call[c].pc \in {"replied", "idle"})
=============================================================================
