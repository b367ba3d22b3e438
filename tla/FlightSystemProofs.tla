------------------------- MODULE FlightSystemProofs -------------------------
(***************************************************************************)
(* Proofs about the clients' flows, for every number of clients, capacity  *)
(* of the cache and bound: the flows drive the server as its callers may,  *)
(* for statements with columns they implement the query service, and what  *)
(* keeps them apart holds however often the clients query again.           *)
(***************************************************************************)
EXTENDS RepeatedQueries, FlightServerProofs

FlowIn(n) ==
  [kind : Kinds, text : Queries,
   at : {"create", "info", "get", "close", "done", "failed"}, sent : BOOLEAN,
   handle : 0..n, info : {"none", "status", "native", "utf8"} \X Nat,
   data : {"none", "status", "native", "utf8"} \X Nat, wrote : Nat, ran : Nat,
   cause : {"none", "connection", "invalid", "not_found", "internal"}]

\* The slot k of the server works for the flow f, or waits for it.
Served(f, k) ==
  /\ ~ f.sent => k.pc \in {"idle", "replied"}
  /\ f.sent => k.pc # "idle" /\ k.op = f.at /\ f.at \notin {"done", "failed"}
  /\ f.sent /\ f.at \in {"create", "info"} /\ (k.pc # "replied" \/ k.status = "ok")
       => k.text = f.text
  /\ f.sent /\ f.at = "get" => k.want = f.handle
  /\ k.status = "ok" /\ k.op \in {"create", "info"} => k.handle # 0
  /\ k.status = "ok" /\ k.op = "get" => k.schema # NoSchema

\* What a flow holds fits how far it came.
Progress(f, iss) ==
  /\ f.at # "failed" /\ f.handle # 0 => iss[f.handle] = f.text
  /\ f.at \in {"get", "close"} => f.handle # 0
  /\ f.at \in {"create", "close"} => f.kind = "sql"
  /\ f.at \in {"create", "info", "get"} => f.data = NoSchema
  /\ f.at \in {"close", "done"} => f.data # NoSchema

FlowOK(f, k, n, iss) == f \in FlowIn(n) /\ Served(f, k) /\ Progress(f, iss)

\* The inductive invariant of the server with its clients.
SysIInv ==
  /\ ServerIInv
  /\ flow \in [Calls -> FlowIn(minted)]
  /\ broken \in 0..Disconnects
  /\ \A c \in Calls : FlowOK(flow[c], call[c], minted, issued)

-----------------------------------------------------------------------------
(* Steps of the server, as the flows see them. *)

\* Whatever the server does, its handles keep their meaning.
LEMMA ServerGrows ==
  ASSUME ServerIInv, [ServerNext]_serverVars
  PROVE  Grows
<1>1. ASSUME NEW c \in Calls, Answer(c)
      PROVE  Grows
  <2>1. UNCHANGED <<issued, cacheVars>> \/ Stored(c)
    BY <1>1, AnswerStores, Zenon
  <2> QED  BY <2>1, CacheLeftAlone, StoredIsQuery, StoreKeepsBooks DEF Stored
<1>2. ASSUME NEW c \in Calls, NEW h \in 0..minted, Close(c, h)
      PROVE  Grows
  <2>1. Remove(h) /\ UNCHANGED issued
    BY <1>2, ZenonT(60) DEF Close
  <2> QED  BY <2>1, CloseKeepsBooks
<1>3. ASSUME NEW c \in Calls, Receive(c)
      PROVE  Grows
  BY <1>2, <1>3, CacheLeftAlone
     DEF Receive, DescribeText, DescribeHandle, Create, GetText, GetHandle, List, Show
<1>4. ASSUME NEW c \in Calls, Job(c) \/ Cancel(c)
      PROVE  Grows
  <2>1. UNCHANGED <<issued, cacheVars>>
    BY <1>4, Zenon DEF Job, Prepare, Execute, Cancel
  <2> QED  BY <2>1, CacheLeftAlone
<1>5. ASSUME NEW q \in JobTexts, RunOrphan(q)
      PROVE  Grows
  BY <1>5, CacheLeftAlone DEF RunOrphan
<1>6. CASE UNCHANGED serverVars
  BY <1>6, CacheLeftAlone DEF serverVars
<1> QED  BY <1>1, <1>3, <1>4, <1>5, <1>6 DEF ServerNext

\* A flow that is not touched stays in order beside a slot that is not touched.
LEMMA FlowUndisturbed ==
  ASSUME SysIInv, Grows, NEW c \in Calls
  PROVE  FlowOK(flow[c], call[c], minted', issued')
<1> DEFINE f == flow[c]
<1>1. f \in FlowIn(minted) /\ Served(f, call[c]) /\ Progress(f, issued)
  BY DEF SysIInv, FlowOK
<1>2. minted \in Nat
  BY NamedHandles DEF SysIInv
<1> HIDE DEF f
<1>3. f \in FlowIn(minted') /\ f.handle \in 0..minted
  BY <1>1, <1>2 DEF FlowIn, Grows
<1>4. Progress(f, issued')
  BY <1>1, <1>2, <1>3 DEF Progress, Grows
<1> QED  BY <1>1, <1>3, <1>4 DEF FlowOK, f

\* A step of one client and its slot.
LEMMA OneFlowMoves ==
  ASSUME SysIInv, ServerIInv', Grows, NEW c \in Calls, NEW f, flow' = [flow EXCEPT ![c] = f],
         \A d \in Calls \ {c} : call'[d] = call[d],
         FlowOK(f, call'[c], minted', issued'), broken' \in 0..Disconnects
  PROVE  SysIInv'
<1>1. flow \in [Calls -> FlowIn(minted)]
  BY DEF SysIInv
<1>2. ASSUME NEW d \in Calls
      PROVE  FlowOK(flow'[d], call'[d], minted', issued')
  <2>1. CASE d = c
    BY <1>1, <2>1
  <2>2. CASE d # c
    <3>1. flow'[d] = flow[d] /\ call'[d] = call[d]
      BY <1>1, <2>2
    <3> QED  BY <3>1, FlowUndisturbed
  <2> QED  BY <2>1, <2>2
<1>3. \A d \in Calls : flow'[d] \in FlowIn(minted')
  BY <1>2 DEF FlowOK
<1>4. flow' \in [Calls -> FlowIn(minted')]
  BY <1>1, <1>3
<1> QED  BY <1>2, <1>4 DEF SysIInv

\* What Set does to the slots.
LEMMA SetFacts ==
  ASSUME ServerIInv, NEW c \in Calls, NEW k, Set(c, k)
  PROVE  call'[c] = k /\ \A d \in Calls \ {c} : call'[d] = call[d]
<1>1. call \in [Calls -> HandlerIn(minted)]
  BY DEF ServerIInv
<1> QED  BY <1>1 DEF Set

\* Setting a field of a flow to a value of its type makes a flow of a flow.
LEMMA FlowUpdates ==
  ASSUME NEW n \in Nat, NEW f \in FlowIn(n)
  PROVE  /\ \A v \in {"create", "info", "get", "close", "done", "failed"} :
              [f EXCEPT !.at = v] \in FlowIn(n)
         /\ \A v \in BOOLEAN : [f EXCEPT !.sent = v] \in FlowIn(n)
         /\ \A v \in 0..n : [f EXCEPT !.handle = v] \in FlowIn(n)
         /\ \A v \in {"none", "status", "native", "utf8"} \X Nat :
              [f EXCEPT !.info = v] \in FlowIn(n) /\ [f EXCEPT !.data = v] \in FlowIn(n)
         /\ \A v \in Nat :
              [f EXCEPT !.wrote = v] \in FlowIn(n) /\ [f EXCEPT !.ran = v] \in FlowIn(n)
         /\ \A v \in {"none", "connection", "invalid", "not_found", "internal"} :
              [f EXCEPT !.cause = v] \in FlowIn(n)
BY SMTT(30) DEF FlowIn

-----------------------------------------------------------------------------
(* What each step does to the client's flow and its slot. *)

\* What a request finds in its slot.
Requested(f, k) ==
  /\ k.op = f.at /\ k.ran = 0 /\ k.schema = NoSchema
  /\ \/ /\ k.pc = "prepare" /\ f.at \in {"create", "info"} /\ k.text = f.text
        /\ k.status = "none"
        /\ k.handle = IF f.at = "info" /\ f.kind = "sql" THEN f.handle ELSE 0
     \/ /\ k.pc = "replied" /\ f.at = "info" /\ f.kind = "sql" /\ k.status = "not_found"
        /\ k.handle = 0 /\ k.want = f.handle /\ f.handle \notin Live
     \/ /\ k.pc = "execute" /\ f.at = "get" /\ k.want = f.handle /\ k.status = "none"
        /\ k.handle = 0 /\ (f.handle \in Live => k.text = f.text)
     \/ k.pc = "replied" /\ f.at = "close" /\ k.status = "ok" /\ k.handle = 0

LEMMA SendOutcome ==
  ASSUME SysIInv, NEW c \in Calls, Send(c)
  PROVE  /\ ~ flow[c].sent /\ flow[c].at \in {"create", "info", "get", "close"}
         /\ Receive(c)
         /\ flow' = [flow EXCEPT ![c] = [flow[c] EXCEPT !.sent = TRUE]]
         /\ \A d \in Calls \ {c} : call'[d] = call[d]
         /\ UNCHANGED <<db, orphans, broken>>
         /\ IF flow[c].at = "close" THEN Remove(flow[c].handle) ELSE UNCHANGED cacheVars
         /\ Requested(flow[c], call'[c])
<1> DEFINE f == flow[c]
<1>1. ServerIInv /\ f \in FlowIn(minted) /\ Progress(f, issued) /\ minted \in Nat
  BY NamedHandles DEF SysIInv, FlowOK
<1>2. /\ f.text \in Queries /\ f.text \in Texts /\ f.text # "empty"
      /\ f.handle \in 0..minted
  BY <1>1, KnownValues, QueriesAssumption DEF FlowIn, Statements
<1>3. /\ ~ f.sent /\ f.at \in {"create", "info", "get", "close"}
      /\ flow' = [flow EXCEPT ![c] = [f EXCEPT !.sent = TRUE]]
      /\ UNCHANGED broken
      /\ \/ f.at = "create" /\ Create(c, f.text)
         \/ f.at = "info" /\ f.kind = "plain" /\ DescribeText(c, "info", f.text)
         \/ f.at = "info" /\ f.kind = "sql" /\ DescribeHandle(c, "info", f.handle)
         \/ f.at = "get" /\ GetHandle(c, f.handle)
         \/ f.at = "close" /\ Close(c, f.handle)
  <2> HIDE DEF f
  <2>1. ~ Ended(c) /\ ~ f.sent /\ SetFlow(c, [f EXCEPT !.sent = TRUE]) /\ UNCHANGED broken
        /\ \/ f.at = "create" /\ Create(c, f.text)
           \/ f.at = "info" /\ f.kind = "plain" /\ DescribeText(c, "info", f.text)
           \/ f.at = "info" /\ f.kind = "sql" /\ DescribeHandle(c, "info", f.handle)
           \/ f.at = "get" /\ GetHandle(c, f.handle)
           \/ f.at = "close" /\ Close(c, f.handle)
    BY Zenon DEF Send, f
  <2> QED  BY <2>1 DEF SetFlow
<1> HIDE DEF f
<1>4. CASE f.at = "create"
  <2> DEFINE k == [Arrival("create", 0) EXCEPT !.pc = "prepare", !.text = f.text]
  <2>1. Create(c, f.text)
    BY <1>3, <1>4
  <2>2. Set(c, k) /\ UNCHANGED <<db, orphans, cacheVars>>
    BY <1>2, <2>1 DEF Create
  <2>3. k.pc = "prepare" /\ k.op = "create" /\ k.text = f.text /\ k.status = "none"
        /\ k.ran = 0 /\ k.schema = NoSchema /\ k.handle = 0
    BY DEF Arrival, Idle
  <2> HIDE DEF k
  <2>4. Receive(c)
    BY <1>2, <2>1 DEF Receive
  <2> QED  BY <1>1, <1>3, <1>4, <2>2, <2>3, <2>4, SetFacts DEF Requested, f
<1>5. CASE f.at = "info" /\ f.kind = "plain" /\ DescribeText(c, "info", f.text)
  <2> DEFINE k == [Arrival("info", 0) EXCEPT !.pc = "prepare", !.text = f.text]
  <2>2. Set(c, k) /\ UNCHANGED <<db, orphans, cacheVars>>
    BY <1>5 DEF DescribeText
  <2>3. k.pc = "prepare" /\ k.op = "info" /\ k.text = f.text /\ k.status = "none"
        /\ k.ran = 0 /\ k.schema = NoSchema /\ k.handle = 0
    BY DEF Arrival, Idle
  <2> HIDE DEF k
  <2>4. Receive(c)
    BY <1>2, <1>5 DEF Receive
  <2> QED  BY <1>1, <1>3, <1>5, <2>2, <2>3, <2>4, SetFacts DEF Requested, f
<1>6. CASE f.at = "info" /\ f.kind = "sql" /\ DescribeHandle(c, "info", f.handle)
  <2> DEFINE h == f.handle
             a == Arrival("info", h)
             k == [a EXCEPT !.pc = "prepare", !.text = map[h], !.handle = h]
             r == Replied(a, "not_found")
  <2>1. Set(c, IF h \in Live THEN k ELSE r) /\ UNCHANGED <<db, orphans, cacheVars>>
    BY <1>6 DEF DescribeHandle
  <2>2. Receive(c)
    BY <1>2, <1>6 DEF Receive
  <2>3. k.pc = "prepare" /\ k.op = "info" /\ k.text = map[h] /\ k.status = "none"
        /\ k.ran = 0 /\ k.schema = NoSchema /\ k.handle = h
    BY DEF Arrival, Idle
  <2>4. r.pc = "replied" /\ r.op = "info" /\ r.status = "not_found"
        /\ r.ran = 0 /\ r.schema = NoSchema /\ r.handle = 0 /\ r.want = h
    BY DEF Arrival, Idle, Replied
  <2>5. h \in Live => map[h] = f.text
    BY <1>1, <1>6, NamedHandles DEF Progress
  <2> HIDE DEF k, r, a
  <2>6. Requested(f, IF h \in Live THEN k ELSE r)
    BY <1>6, <2>3, <2>4, <2>5 DEF Requested
  <2> QED  BY <1>1, <1>3, <1>6, <2>1, <2>2, <2>6, SetFacts DEF f
<1>7. CASE f.at = "get"
  <2> DEFINE k == [Arrival("get", f.handle) EXCEPT !.pc = "execute", !.text = TicketText(f.handle)]
  <2>1. GetHandle(c, f.handle)
    BY <1>3, <1>7
  <2>2. Set(c, k) /\ UNCHANGED <<db, orphans, cacheVars>>
    BY <2>1 DEF GetHandle
  <2>3. k.pc = "execute" /\ k.op = "get" /\ k.want = f.handle /\ k.status = "none"
        /\ k.ran = 0 /\ k.schema = NoSchema /\ k.handle = 0 /\ k.text = TicketText(f.handle)
    BY DEF Arrival, Idle
  <2>5. f.handle \in Live => TicketText(f.handle) = f.text
    BY <1>1, <1>7, NamedHandles DEF Progress, TicketText
  <2> HIDE DEF k
  <2>4. Receive(c)
    BY <1>2, <2>1 DEF Receive
  <2> QED  BY <1>1, <1>3, <1>7, <2>2, <2>3, <2>4, <2>5, SetFacts DEF Requested, f
<1>8. CASE f.at = "close"
  <2> DEFINE k == Replied(Arrival("close", f.handle), "ok")
  <2>1. Close(c, f.handle)
    BY <1>3, <1>8
  <2>2. Set(c, k) /\ UNCHANGED <<db, orphans>> /\ Remove(f.handle)
    BY <2>1 DEF Close
  <2>3. k.pc = "replied" /\ k.op = "close" /\ k.status = "ok"
        /\ k.ran = 0 /\ k.schema = NoSchema /\ k.handle = 0
    BY DEF Arrival, Idle, Replied
  <2> HIDE DEF k
  <2>4. Receive(c)
    BY <1>2, <2>1 DEF Receive
  <2> QED  BY <1>1, <1>3, <1>8, <2>2, <2>3, <2>4, SetFacts DEF Requested, f
<1> QED  BY <1>3, <1>4, <1>5, <1>6, <1>7, <1>8

\* A job of the server, as the slot and the database see it.
PrepareDone(a, k) ==
  /\ a.pc = "prepare"
  /\ k.op = a.op /\ k.text = a.text /\ k.want = a.want /\ k.handle = a.handle
  /\ k.status = a.status /\ k.ran = a.ran
  /\ \/ k.pc = "prepared" /\ Describable(a.text) /\ k.schema = Native(a.text)
     \/ k.pc = "execute" /\ (Faults \/ ~ Describable(a.text))
  /\ UNCHANGED <<db, orphans, cacheVars>>

ExecuteDone(a, k) ==
  /\ a.pc = "execute" /\ k.pc = "executed"
  /\ k.op = a.op /\ k.text = a.text /\ k.want = a.want /\ k.handle = a.handle
  /\ k.status = a.status /\ k.ran = a.ran + 1
  /\ \/ Binds(a.text) /\ db' = Written(a.text) /\ k.schema = Returned(a.text)
     \/ k.schema = NoSchema /\ UNCHANGED db
     \/ Faults /\ db' = Written(a.text) /\ k.schema = NoSchema
  /\ UNCHANGED <<orphans, cacheVars>>

AnswerDone(a, k) ==
  /\ a.pc \in {"prepared", "executed"}
  /\ k.op = a.op /\ k.text = a.text /\ k.want = a.want /\ k.ran = a.ran /\ k.schema = a.schema
  /\ k.pc = "replied"
  /\ k.status = "ok" => ~ Failed(a) /\ (a.op \in {"create", "info"} => k.handle # 0)
  /\ k.status # "ok" => Failed(a) \/ Faults
  /\ \/ k.handle = a.handle /\ UNCHANGED cacheVars
     \/ /\ a.op = "create" \/ (a.op = "info" /\ a.handle = 0)
        /\ minted' = minted + 1 /\ k.handle = minted' /\ closed' = closed
  /\ UNCHANGED <<db, orphans>>

LEMMA PrepareOutcome ==
  ASSUME ServerIInv, NEW c \in Calls, Prepare(c)
  PROVE  /\ PrepareDone(call[c], call'[c])
         /\ \A d \in Calls \ {c} : call'[d] = call[d]
<1> DEFINE a == call[c]
<1>1. a \in HandlerIn(minted)
  BY TheHandler
<1>2. /\ a.pc = "prepare" /\ UNCHANGED <<db, orphans, cacheVars>>
      /\ \/ Describable(a.text) /\ Set(c, [a EXCEPT !.pc = "prepared", !.schema = Native(a.text)])
         \/ (Faults \/ ~ Describable(a.text)) /\ Set(c, [a EXCEPT !.pc = "execute"])
  BY Zenon DEF Prepare
<1> HIDE DEF a
<1>3. CASE Describable(a.text) /\ Set(c, [a EXCEPT !.pc = "prepared", !.schema = Native(a.text)])
  <2> DEFINE k == [a EXCEPT !.pc = "prepared", !.schema = Native(a.text)]
  <2>1. /\ k.op = a.op /\ k.text = a.text /\ k.want = a.want /\ k.handle = a.handle
        /\ k.status = a.status /\ k.ran = a.ran /\ k.pc = "prepared" /\ k.schema = Native(a.text)
    BY <1>1 DEF HandlerIn
  <2> HIDE DEF k
  <2>2. call'[c] = k /\ \A d \in Calls \ {c} : call'[d] = call[d]
    BY <1>3, SetFacts DEF k
  <2> QED  BY <1>2, <1>3, <2>1, <2>2 DEF PrepareDone, a
<1>4. CASE (Faults \/ ~ Describable(a.text)) /\ Set(c, [a EXCEPT !.pc = "execute"])
  <2> DEFINE k == [a EXCEPT !.pc = "execute"]
  <2>1. /\ k.op = a.op /\ k.text = a.text /\ k.want = a.want /\ k.handle = a.handle
        /\ k.status = a.status /\ k.ran = a.ran /\ k.pc = "execute"
    BY <1>1 DEF HandlerIn
  <2> HIDE DEF k
  <2>2. call'[c] = k /\ \A d \in Calls \ {c} : call'[d] = call[d]
    BY <1>4, SetFacts DEF k
  <2> QED  BY <1>2, <1>4, <2>1, <2>2 DEF PrepareDone, a
<1> QED  BY <1>2, <1>3, <1>4

LEMMA ExecuteOutcome ==
  ASSUME ServerIInv, NEW c \in Calls, Execute(c)
  PROVE  /\ ExecuteDone(call[c], call'[c])
         /\ \A d \in Calls \ {c} : call'[d] = call[d]
<1> DEFINE a == call[c]
           q == a.text
           ran == [a EXCEPT !.pc = "executed", !.ran = @ + 1]
           effect == [ran EXCEPT !.wrote = @ + (IF Writes(q) THEN 1 ELSE 0)]
           good == [effect EXCEPT !.schema = Returned(q)]
           bad == [ran EXCEPT !.schema = NoSchema]
           broke == [effect EXCEPT !.schema = NoSchema]
<1>1. a \in HandlerIn(minted)
  BY TheHandler
<1>2. /\ a.pc = "execute" /\ UNCHANGED <<orphans, cacheVars>>
      /\ \/ Binds(q) /\ db' = Written(q) /\ Set(c, good)
         \/ Set(c, bad) /\ UNCHANGED db
         \/ Faults /\ db' = Written(q) /\ Set(c, broke)
  BY Zenon DEF Execute
<1> HIDE DEF a
<1>3. \A k \in {good, bad, broke} :
        /\ k.op = a.op /\ k.text = a.text /\ k.want = a.want /\ k.handle = a.handle
        /\ k.status = a.status /\ k.ran = a.ran + 1 /\ k.pc = "executed"
  <2>1. /\ good.op = a.op /\ good.text = a.text /\ good.want = a.want
        /\ good.handle = a.handle /\ good.status = a.status /\ good.ran = a.ran + 1
        /\ good.pc = "executed"
    BY <1>1 DEF HandlerIn
  <2>2. /\ bad.op = a.op /\ bad.text = a.text /\ bad.want = a.want
        /\ bad.handle = a.handle /\ bad.status = a.status /\ bad.ran = a.ran + 1
        /\ bad.pc = "executed"
    BY <1>1 DEF HandlerIn
  <2>3. /\ broke.op = a.op /\ broke.text = a.text /\ broke.want = a.want
        /\ broke.handle = a.handle /\ broke.status = a.status /\ broke.ran = a.ran + 1
        /\ broke.pc = "executed"
    BY <1>1 DEF HandlerIn
  <2> HIDE DEF good, bad, broke
  <2> QED  BY <2>1, <2>2, <2>3
<1>4. good.schema = Returned(q) /\ bad.schema = NoSchema /\ broke.schema = NoSchema
  BY <1>1 DEF HandlerIn
<1> HIDE DEF good, bad, broke
<1>5. \A d \in Calls \ {c} : call'[d] = call[d]
  BY <1>2, SetFacts
<1>6. \/ Binds(q) /\ db' = Written(q) /\ call'[c] = good
      \/ call'[c] = bad /\ UNCHANGED db
      \/ Faults /\ db' = Written(q) /\ call'[c] = broke
  BY <1>2, SetFacts
<1> QED  BY <1>2, <1>3, <1>4, <1>5, <1>6 DEF ExecuteDone, a

\* Only a listing goes to work again when it is resumed.
LEMMA AnswerOutcome ==
  ASSUME ServerIInv, NEW c \in Calls, Answer(c), call[c].op \in {"create", "info", "get"}
  PROVE  /\ AnswerDone(call[c], call'[c])
         /\ \A d \in Calls \ {c} : call'[d] = call[d]
<1> DEFINE a == call[c]
<1>1. a \in HandlerIn(minted) /\ minted \in Nat
  BY TheHandler, NamedHandles
<1>2. /\ a.pc \in {"prepared", "executed"} /\ UNCHANGED <<db, orphans>>
      /\ \E s \in Outcome(a) :
           \/ /\ Set(c, Replied(a, s))
              /\ s = "ok" /\ a.op \in {"create", "info"} => a.handle # 0
              /\ UNCHANGED cacheVars
           \/ /\ minted' = minted + 1 /\ closed' = closed
              /\ a.op = "create" \/ (a.op = "info" /\ a.handle = 0)
              /\ Set(c, Replied([a EXCEPT !.handle = minted'], s))
  <2>1. CASE AnswerInfo(c)
    BY <2>1, OutcomeDeserved DEF AnswerInfo, Ready, NeedsHandle, Store, Insert
  <2>2. CASE AnswerCreate(c)
    BY <2>2, Zenon DEF AnswerCreate, Ready, Store, Insert
  <2>3. CASE AnswerQuery(c)
    <3>1. Ready(c, "get") /\ UNCHANGED <<db, orphans, cacheVars>>
      BY <2>3 DEF AnswerQuery, Ready
    <3>2. PICK s \in Outcome(a) : Set(c, Replied(a, s))
      BY <2>3, <3>1 DEF AnswerQuery, Ready
    <3> QED  BY <3>1, <3>2, Zenon DEF Ready
  <2>4. CASE AnswerList(c)
    BY <2>4 DEF AnswerList, Ready
  <2> QED  BY <2>1, <2>2, <2>3, <2>4 DEF Answer
<1>3. PICK s \in Outcome(a) :
        \/ /\ Set(c, Replied(a, s))
           /\ s = "ok" /\ a.op \in {"create", "info"} => a.handle # 0
           /\ UNCHANGED cacheVars
        \/ /\ minted' = minted + 1 /\ closed' = closed
           /\ a.op = "create" \/ (a.op = "info" /\ a.handle = 0)
           /\ Set(c, Replied([a EXCEPT !.handle = minted'], s))
  BY <1>2
<1>4. (s = "ok" => ~ Failed(a)) /\ (s # "ok" => Failed(a) \/ Faults)
  BY OutcomeDeserved DEF Deserves
<1> HIDE DEF a
<1>5. CASE /\ Set(c, Replied(a, s))
           /\ s = "ok" /\ a.op \in {"create", "info"} => a.handle # 0
           /\ UNCHANGED cacheVars
  <2> DEFINE k == Replied(a, s)
  <2>1. /\ k.op = a.op /\ k.text = a.text /\ k.want = a.want /\ k.schema = a.schema
        /\ k.ran = a.ran /\ k.status = s /\ k.pc = "replied" /\ k.handle = a.handle
    BY <1>1 DEF HandlerIn, Replied
  <2> HIDE DEF k
  <2>2. call'[c] = k /\ \A d \in Calls \ {c} : call'[d] = call[d]
    BY <1>5, SetFacts DEF k
  <2> QED  BY <1>2, <1>4, <1>5, <2>1, <2>2 DEF AnswerDone, a
<1>6. CASE /\ minted' = minted + 1 /\ closed' = closed
           /\ a.op = "create" \/ (a.op = "info" /\ a.handle = 0)
           /\ Set(c, Replied([a EXCEPT !.handle = minted'], s))
  <2> DEFINE n == minted'
             k == Replied([a EXCEPT !.handle = n], s)
  <2>1. /\ k.op = a.op /\ k.text = a.text /\ k.want = a.want /\ k.schema = a.schema
        /\ k.ran = a.ran /\ k.handle = n /\ k.pc = "replied" /\ k.status = s
    BY <1>1 DEF HandlerIn, Replied
  <2>2. n # 0
    BY <1>1, <1>6
  <2> HIDE DEF k
  <2>3. call'[c] = k /\ \A d \in Calls \ {c} : call'[d] = call[d]
    BY <1>6, SetFacts DEF k
  <2> QED  BY <1>2, <1>4, <1>6, <2>1, <2>2, <2>3 DEF AnswerDone, a
<1> QED  BY <1>3, <1>5, <1>6

\* What a delivered answer makes of the flow f.
Delivered(f, k, g) ==
  /\ f.sent /\ k.pc = "replied"
  /\ ~ g.sent /\ g.kind = f.kind /\ g.text = f.text /\ g.ran = f.ran + k.ran
  /\ g.handle = IF f.at \in {"create", "info"} THEN k.handle ELSE f.handle
  /\ g.info = IF f.at = "info" THEN k.schema ELSE f.info
  /\ g.data = IF f.at = "get" THEN k.schema ELSE f.data
  /\ g.cause = IF k.status = "ok" THEN f.cause ELSE k.status
  /\ g.at = IF k.status = "ok" THEN Following(f) ELSE "failed"

\* The step after each RPC.
LEMMA FollowingSteps ==
  ASSUME NEW f
  PROVE  /\ f.at = "create" => Following(f) = "info"
         /\ f.at = "info" => Following(f) = "get"
         /\ f.at = "get" => Following(f) = IF f.kind = "sql" THEN "close" ELSE "done"
         /\ f.at = "close" => Following(f) = "done"
BY DEF Following

LEMMA DeliverOutcome ==
  ASSUME SysIInv, NEW c \in Calls, Deliver(c)
  PROVE  \E g \in FlowIn(minted) :
           /\ Delivered(flow[c], call[c], g)
           /\ flow' = [flow EXCEPT ![c] = g]
           /\ UNCHANGED <<broken, serverVars>>
<1> DEFINE f == flow[c]
           k == call[c]
           f1 == [f EXCEPT !.sent = FALSE]
           f2 == [f1 EXCEPT !.wrote = @ + k.wrote]
           f3 == [f2 EXCEPT !.ran = @ + k.ran]
           f4 == [f3 EXCEPT !.handle = IF f.at \in {"create", "info"} THEN k.handle ELSE @]
           f5 == [f4 EXCEPT !.info = IF f.at = "info" THEN k.schema ELSE @]
           f6 == [f5 EXCEPT !.data = IF f.at = "get" THEN k.schema ELSE @]
           next == Following(f)
           good == [f6 EXCEPT !.at = next]
           lost == [f6 EXCEPT !.at = "failed"]
           bad == [lost EXCEPT !.cause = k.status]
<1>1. /\ k \in HandlerIn(minted) /\ f \in FlowIn(minted) /\ Served(f, k) /\ minted \in Nat
  BY TheHandler, NamedHandles DEF SysIInv, FlowOK
<1>2. /\ f.sent /\ k.pc = "replied" /\ UNCHANGED <<broken, serverVars>>
      /\ flow' = [flow EXCEPT ![c] = IF k.status = "ok" THEN good ELSE bad]
  BY DEF Deliver, SetFlow, Advanced
<1> HIDE DEF f, k
<1>3. next \in {"create", "info", "get", "close", "done", "failed"}
  <2>1. f.at \in {"create", "info", "get", "close"}
    BY <1>1, <1>2 DEF FlowIn, Served
  <2>2. (f.kind = "sql" \/ f.kind # "sql")
    OBVIOUS
  <2> QED  BY <2>1, <2>2, FollowingSteps
<1> HIDE DEF next
<1>4. /\ k.wrote \in Nat /\ k.ran \in Nat /\ k.handle \in 0..minted
      /\ k.schema \in {"none", "status", "native", "utf8"} \X Nat
      /\ k.status \in {"none", "ok", "invalid", "not_found", "internal"}
  BY <1>1 DEF HandlerIn
<1>5. /\ f.wrote \in Nat /\ f.ran \in Nat /\ f.handle \in 0..minted
      /\ f.info \in {"none", "status", "native", "utf8"} \X Nat
      /\ f.data \in {"none", "status", "native", "utf8"} \X Nat
  BY <1>1 DEF FlowIn
<1>6. f1 \in FlowIn(minted) /\ f1.wrote = f.wrote /\ f1.ran = f.ran /\ f1.handle = f.handle
      /\ f1.info = f.info /\ f1.data = f.data /\ f1.cause = f.cause
      /\ ~ f1.sent /\ f1.kind = f.kind /\ f1.text = f.text
  <2>1. f1 \in FlowIn(minted)
    BY <1>1, FlowUpdates
  <2> QED  BY <1>1, <2>1 DEF FlowIn
<1> HIDE DEF f1
<1>7. f2 \in FlowIn(minted) /\ f2.ran = f.ran /\ f2.handle = f.handle
      /\ f2.info = f.info /\ f2.data = f.data /\ f2.cause = f.cause
      /\ ~ f2.sent /\ f2.kind = f.kind /\ f2.text = f.text
  <2> DEFINE v == f.wrote + k.wrote
  <2>1. v \in Nat /\ f2 = [f1 EXCEPT !.wrote = v]
    BY <1>4, <1>5, <1>6
  <2> HIDE DEF v
  <2>2. f2 \in FlowIn(minted)
    BY <1>1, <1>6, <2>1, FlowUpdates
  <2> QED  BY <1>6, <2>1, <2>2 DEF FlowIn
<1> HIDE DEF f2
<1>8. f3 \in FlowIn(minted) /\ f3.ran = f.ran + k.ran /\ f3.handle = f.handle
      /\ f3.info = f.info /\ f3.data = f.data /\ f3.cause = f.cause
      /\ ~ f3.sent /\ f3.kind = f.kind /\ f3.text = f.text
  <2> DEFINE v == f.ran + k.ran
  <2>1. v \in Nat /\ f3 = [f2 EXCEPT !.ran = v]
    BY <1>4, <1>5, <1>7
  <2> HIDE DEF v
  <2>2. f3 \in FlowIn(minted)
    BY <1>1, <1>7, <2>1, FlowUpdates
  <2>3. f3.ran = v
    BY <1>7, <2>1 DEF FlowIn
  <2> QED  BY <1>7, <2>1, <2>2, <2>3 DEF FlowIn, v
<1> HIDE DEF f3
<1>9. f4 \in FlowIn(minted) /\ f4.ran = f.ran + k.ran
      /\ f4.handle = (IF f.at \in {"create", "info"} THEN k.handle ELSE f.handle)
      /\ f4.info = f.info /\ f4.data = f.data /\ f4.cause = f.cause
      /\ ~ f4.sent /\ f4.kind = f.kind /\ f4.text = f.text
  <2> DEFINE v == IF f.at \in {"create", "info"} THEN k.handle ELSE f.handle
  <2>1. v \in 0..minted
    BY <1>4, <1>5
  <2>2. f4 = [f3 EXCEPT !.handle = v]
    BY <1>8
  <2> HIDE DEF v
  <2>3. f4 \in FlowIn(minted)
    BY <1>1, <1>8, <2>1, <2>2, FlowUpdates
  <2>4. f4.handle = v
    BY <1>8, <2>2 DEF FlowIn
  <2> QED  BY <1>8, <2>2, <2>3, <2>4 DEF FlowIn, v
<1> HIDE DEF f4
<1>10. f5 \in FlowIn(minted) /\ f5.ran = f.ran + k.ran
       /\ f5.handle = (IF f.at \in {"create", "info"} THEN k.handle ELSE f.handle)
       /\ f5.info = (IF f.at = "info" THEN k.schema ELSE f.info)
       /\ f5.data = f.data /\ f5.cause = f.cause
       /\ ~ f5.sent /\ f5.kind = f.kind /\ f5.text = f.text
  <2> DEFINE v == IF f.at = "info" THEN k.schema ELSE f.info
  <2>1. v \in {"none", "status", "native", "utf8"} \X Nat
    BY <1>4, <1>5
  <2>2. f5 = [f4 EXCEPT !.info = v]
    BY <1>9
  <2> HIDE DEF v
  <2>3. f5 \in FlowIn(minted)
    BY <1>1, <1>9, <2>1, <2>2, FlowUpdates
  <2>4. f5.info = v
    BY <1>9, <2>2 DEF FlowIn
  <2> QED  BY <1>9, <2>2, <2>3, <2>4 DEF FlowIn, v
<1> HIDE DEF f5
<1>11. f6 \in FlowIn(minted) /\ f6.ran = f.ran + k.ran
       /\ f6.handle = (IF f.at \in {"create", "info"} THEN k.handle ELSE f.handle)
       /\ f6.info = (IF f.at = "info" THEN k.schema ELSE f.info)
       /\ f6.data = (IF f.at = "get" THEN k.schema ELSE f.data)
       /\ f6.cause = f.cause /\ ~ f6.sent /\ f6.kind = f.kind /\ f6.text = f.text
  <2> DEFINE v == IF f.at = "get" THEN k.schema ELSE f.data
  <2>1. v \in {"none", "status", "native", "utf8"} \X Nat
    BY <1>4, <1>5
  <2>2. f6 = [f5 EXCEPT !.data = v]
    BY <1>10
  <2> HIDE DEF v
  <2>3. f6 \in FlowIn(minted)
    BY <1>1, <1>10, <2>1, <2>2, FlowUpdates
  <2>4. f6.data = v
    BY <1>10, <2>2 DEF FlowIn
  <2> QED  BY <1>10, <2>2, <2>3, <2>4 DEF FlowIn, v
<1> HIDE DEF f6
<1>12. good \in FlowIn(minted) /\ lost \in FlowIn(minted)
  BY <1>1, <1>3, <1>11, FlowUpdates
<1>13. CASE k.status = "ok"
  <2>1. good.at = next /\ good.ran = f6.ran /\ good.handle = f6.handle /\ good.data = f6.data
        /\ good.sent = f6.sent /\ good.kind = f6.kind /\ good.text = f6.text
        /\ good.info = f6.info /\ good.cause = f6.cause
    BY <1>11 DEF FlowIn
  <2>2. flow' = [flow EXCEPT ![c] = good]
    BY <1>2, <1>13
  <2> HIDE DEF good
  <2>3. Delivered(f, k, good)
    BY <1>2, <1>11, <1>13, <2>1 DEF Delivered, next
  <2> QED  BY <1>2, <1>12, <2>2, <2>3 DEF f, k
<1>14. CASE k.status # "ok"
  <2> HIDE DEF lost
  <2>1. bad \in FlowIn(minted)
    <3>1. k.status \in {"none", "connection", "invalid", "not_found", "internal"}
      BY <1>4, <1>14
    <3> QED  BY <1>1, <1>12, <3>1, FlowUpdates
  <2>2. bad.at = "failed" /\ bad.ran = f6.ran /\ bad.handle = f6.handle /\ bad.data = f6.data
        /\ bad.sent = f6.sent /\ bad.kind = f6.kind /\ bad.text = f6.text
        /\ bad.info = f6.info /\ bad.cause = k.status
    BY <1>11 DEF FlowIn, lost
  <2>3. flow' = [flow EXCEPT ![c] = bad]
    BY <1>2, <1>14
  <2> HIDE DEF bad
  <2>4. Delivered(f, k, bad)
    BY <1>2, <1>11, <1>14, <2>2 DEF Delivered
  <2> QED  BY <1>2, <2>1, <2>3, <2>4 DEF f, k
<1> QED  BY <1>13, <1>14

\* A connection that breaks.
LEMMA DisconnectOutcome ==
  ASSUME SysIInv, NEW c \in Calls, Disconnect(c)
  PROVE  /\ ~ Ended(c) /\ broken < Disconnects /\ broken' = broken + 1
         /\ \E g \in FlowIn(minted) :
              /\ flow' = [flow EXCEPT ![c] = g]
              /\ g.at = "failed" /\ ~ g.sent /\ g.kind = flow[c].kind /\ g.text = flow[c].text
              /\ g.handle = flow[c].handle /\ g.cause = "connection"
         /\ \/ UNCHANGED serverVars /\ ~ (flow[c].sent /\ call[c].pc \in Waiting)
            \/ Cancel(c)
<1> DEFINE f == flow[c]
           f1 == [f EXCEPT !.at = "failed"]
           f2 == [f1 EXCEPT !.sent = FALSE]
           g == [f2 EXCEPT !.cause = "connection"]
<1>1. f \in FlowIn(minted) /\ minted \in Nat
  BY NamedHandles DEF SysIInv, FlowOK
<1>2. /\ ~ Ended(c) /\ broken < Disconnects /\ broken' = broken + 1
      /\ flow' = [flow EXCEPT ![c] = g]
      /\ IF f.sent /\ call[c].pc \in Waiting THEN Cancel(c) ELSE UNCHANGED serverVars
  BY DEF Disconnect, SetFlow
<1> HIDE DEF f
<1>3. f1 \in FlowIn(minted)
  BY <1>1, FlowUpdates
<1>4. f2 \in FlowIn(minted)
  BY <1>1, <1>3, FlowUpdates
<1>5. g \in FlowIn(minted)
  BY <1>1, <1>4, FlowUpdates
<1>6. /\ g.at = "failed" /\ ~ g.sent /\ g.kind = f.kind /\ g.text = f.text
      /\ g.handle = f.handle /\ g.cause = "connection"
  BY <1>1 DEF FlowIn
<1> HIDE DEF g
<1>7. \/ UNCHANGED serverVars /\ ~ (f.sent /\ call[c].pc \in Waiting)
      \/ Cancel(c)
  BY <1>2, Zenon
<1> QED  BY <1>2, <1>5, <1>6, <1>7 DEF f
-----------------------------------------------------------------------------
(* The invariant is preserved. *)

\* A flow that is typed stays so when handles are minted.
LEMMA FlowsStayTyped ==
  ASSUME SysIInv, Grows, NEW f \in FlowIn(minted)
  PROVE  f \in FlowIn(minted')
<1>1. minted \in Nat
  BY NamedHandles DEF SysIInv
<1> QED  BY <1>1 DEF FlowIn, Grows

LEMMA TheFlow ==
  ASSUME SysIInv, NEW c \in Calls
  PROVE  /\ ServerIInv /\ minted \in Nat /\ broken \in 0..Disconnects
         /\ flow[c] \in FlowIn(minted) /\ Served(flow[c], call[c]) /\ Progress(flow[c], issued)
         /\ call[c] \in HandlerIn(minted) /\ HandlerOK(call[c], issued, minted)
         /\ flow = [flow EXCEPT ![c] = flow[c]]
BY NamedHandles, TheHandler DEF SysIInv, FlowOK

LEMMA SendPreserves ==
  ASSUME SysIInv, NEW c \in Calls, Send(c)
  PROVE  SysIInv'
<1> DEFINE f == flow[c]
           g == [f EXCEPT !.sent = TRUE]
           k == call'[c]
<1>1. /\ ~ f.sent /\ f.at \in {"create", "info", "get", "close"} /\ Receive(c)
      /\ flow' = [flow EXCEPT ![c] = g]
      /\ \A d \in Calls \ {c} : call'[d] = call[d]
      /\ UNCHANGED broken /\ Requested(f, k)
  BY SendOutcome
<1>2. ServerIInv' /\ Grows
  BY <1>1, ReceivePreserves, ServerGrows DEF SysIInv, ServerNext
<1>3. f \in FlowIn(minted) /\ Progress(f, issued) /\ minted \in Nat /\ broken \in 0..Disconnects
  BY TheFlow
<1>4. Progress(f, issued')
  BY FlowUndisturbed, <1>2 DEF FlowOK
<1> HIDE DEF f, k
<1>5. g \in FlowIn(minted)
  BY <1>3, FlowUpdates
<1>6. /\ g.sent /\ g.at = f.at /\ g.text = f.text /\ g.handle = f.handle /\ g.kind = f.kind
      /\ g.data = f.data
  BY <1>3 DEF FlowIn
<1> HIDE DEF g
<1>7. Served(g, k) /\ Progress(g, issued')
  BY <1>1, <1>4, <1>6 DEF Served, Progress, Requested
<1>8. FlowOK(g, k, minted', issued')
  BY <1>2, <1>5, <1>7, FlowsStayTyped DEF FlowOK
<1> QED  BY <1>1, <1>2, <1>3, <1>8, OneFlowMoves DEF k

LEMMA DeliverPreserves ==
  ASSUME SysIInv, NEW c \in Calls, Deliver(c)
  PROVE  SysIInv'
<1> DEFINE f == flow[c]
           k == call[c]
<1>1. PICK g \in FlowIn(minted) :
        /\ Delivered(f, k, g)
        /\ flow' = [flow EXCEPT ![c] = g]
        /\ UNCHANGED <<broken, serverVars>>
  BY DeliverOutcome
<1>2. /\ call' = call /\ broken' = broken /\ UNCHANGED serverVars
      /\ issued' = issued /\ minted' = minted
  BY <1>1 DEF serverVars, cacheVars
<1>3. ServerIInv' /\ Grows
  BY <1>2, ServerStep, ServerGrows DEF SysIInv
<1>4. /\ f \in FlowIn(minted) /\ Served(f, k) /\ Progress(f, issued) /\ broken \in 0..Disconnects
      /\ HandlerOK(k, issued, minted)
  BY TheFlow
<1> HIDE DEF f, k
<1>5. Served(g, k)
  BY <1>1, <1>4 DEF Served, Delivered
<1>6. Progress(g, issued)
  <2>1. f.at \in {"create", "info", "get", "close"} /\ f.kind \in {"plain", "sql"}
    BY <1>1, <1>4, KindsAssumption DEF Delivered, Served, FlowIn
  <2>2. CASE k.status # "ok"
    BY <1>1, <2>2 DEF Delivered, Progress
  <2>3. CASE k.status = "ok" /\ f.at \in {"create", "info"}
    <3>1. g.at = IF f.at = "create" THEN "info" ELSE "get"
      BY <1>1, <2>3, FollowingSteps DEF Delivered
    <3>2. k.handle # 0 /\ k.text = f.text /\ issued[k.handle] = k.text
      BY <1>1, <1>4, <2>3 DEF Delivered, Served, HandlerOK, Meaning
    <3> QED  BY <1>1, <1>4, <2>3, <3>1, <3>2 DEF Delivered, Progress
  <2>4. CASE k.status = "ok" /\ f.at = "get"
    <3>1. g.at = IF f.kind = "sql" THEN "close" ELSE "done"
      BY <1>1, <2>4, FollowingSteps DEF Delivered
    <3>2. k.schema # NoSchema
      BY <1>1, <1>4, <2>4 DEF Delivered, Served
    <3> QED  BY <1>1, <1>4, <2>4, <3>1, <3>2 DEF Delivered, Progress
  <2>5. CASE k.status = "ok" /\ f.at = "close"
    <3>1. g.at = "done"
      BY <1>1, <2>5, FollowingSteps DEF Delivered
    <3> QED  BY <1>1, <1>4, <2>5, <3>1 DEF Delivered, Progress
  <2> QED  BY <2>1, <2>2, <2>3, <2>4, <2>5
<1>7. FlowOK(g, call'[c], minted', issued')
  BY <1>1, <1>2, <1>5, <1>6 DEF FlowOK, k
<1> QED  BY <1>1, <1>2, <1>3, <1>4, <1>7, OneFlowMoves

LEMMA DisconnectPreserves ==
  ASSUME SysIInv, NEW c \in Calls, Disconnect(c)
  PROVE  SysIInv'
<1> DEFINE f == flow[c]
           k == call'[c]
<1>1. /\ broken < Disconnects /\ broken' = broken + 1
      /\ \/ UNCHANGED serverVars /\ ~ (f.sent /\ call[c].pc \in Waiting)
         \/ Cancel(c)
  BY DisconnectOutcome
<1>2. PICK g \in FlowIn(minted) :
        flow' = [flow EXCEPT ![c] = g] /\ g.at = "failed" /\ ~ g.sent
  BY DisconnectOutcome
<1>3. /\ ServerIInv /\ Served(f, call[c]) /\ call[c] \in HandlerIn(minted)
      /\ broken \in 0..Disconnects
  BY TheFlow
<1>4. ServerIInv' /\ Grows
  BY <1>1, <1>3, CancelPreserves, ServerStep, ServerGrows DEF ServerNext
<1>5. broken' \in 0..Disconnects
  BY <1>1, <1>3, DisconnectsAssumption
<1>6. \A d \in Calls \ {c} : call'[d] = call[d]
  BY <1>1, <1>3, SetFacts DEF Cancel, serverVars
<1>7. /\ k.pc \in {"idle", "replied"}
      /\ k.status = "ok" /\ k.op \in {"create", "info"} => k.handle # 0
      /\ k.status = "ok" /\ k.op = "get" => k.schema # NoSchema
  <2>1. CASE UNCHANGED serverVars /\ ~ (f.sent /\ call[c].pc \in Waiting)
    <3>1. k = call[c]
      BY <2>1 DEF serverVars
    <3> QED  BY <1>3, <2>1, <3>1 DEF Served, HandlerIn
  <2>2. CASE Cancel(c)
    <3>1. k = Idle
      BY <1>3, <2>2, SetFacts DEF Cancel
    <3>2. Idle.pc = "idle" /\ Idle.status = "none"
      BY DEF Idle
    <3> QED  BY <3>1, <3>2
  <2> QED  BY <1>1, <2>1, <2>2
<1> HIDE DEF k, f
<1>8. Served(g, k) /\ Progress(g, issued')
  BY <1>2, <1>7 DEF Served, Progress
<1>9. FlowOK(g, k, minted', issued')
  BY <1>4, <1>8, FlowsStayTyped DEF FlowOK
<1> QED  BY <1>2, <1>4, <1>5, <1>6, <1>9, OneFlowMoves DEF k

\* The server works only for flows that wait, on what they asked for.
LEMMA WorkIsAsked ==
  ASSUME SysIInv, NEW c \in Calls, call[c].pc \in Waiting
  PROVE  flow[c].sent /\ call[c].op = flow[c].at /\ flow[c].at \in {"create", "info", "get"}
<1>1. /\ Served(flow[c], call[c]) /\ flow[c] \in FlowIn(minted)
      /\ HandlerOK(call[c], issued, minted)
  BY TheFlow
<1>2. call[c].pc \notin {"idle", "replied"}
  BY DEF Waiting
<1>3. call[c].op # "close"
  BY <1>1 DEF HandlerOK, Course
<1> QED  BY <1>1, <1>2, <1>3 DEF Served, FlowIn

\* The handlers' steps that come out of what the client has asked.
LEMMA WorkOutcome ==
  ASSUME SysIInv, NEW c \in Calls, Job(c) \/ Answer(c)
  PROVE  /\ call[c].pc \in Waiting
         /\ \A d \in Calls \ {c} : call'[d] = call[d]
         /\ \/ PrepareDone(call[c], call'[c])
            \/ ExecuteDone(call[c], call'[c])
            \/ AnswerDone(call[c], call'[c])
<1>1. ServerIInv
  BY DEF SysIInv
<1>2. CASE Prepare(c)
  BY <1>1, <1>2, PrepareOutcome DEF PrepareDone, Waiting
<1>3. CASE Execute(c)
  BY <1>1, <1>3, ExecuteOutcome DEF ExecuteDone, Waiting
<1>4. CASE Answer(c)
  <2>1. call[c].pc \in {"prepared", "executed"}
    BY <1>4 DEF Answer, AnswerInfo, AnswerCreate, AnswerQuery, AnswerList, Ready
  <2>2. call[c].pc \in Waiting
    BY <2>1 DEF Waiting
  <2>3. call[c].op \in {"create", "info", "get"}
    BY <2>2, WorkIsAsked
  <2> QED  BY <1>1, <1>4, <2>2, <2>3, AnswerOutcome
<1> QED  BY <1>2, <1>3, <1>4 DEF Job

LEMMA WorkPreserves ==
  ASSUME SysIInv, NEW c \in Calls, Job(c) \/ Answer(c), UNCHANGED <<flow, broken>>
  PROVE  SysIInv'
<1> DEFINE f == flow[c]
           a == call[c]
           k == call'[c]
<1>1. /\ a.pc \in Waiting
      /\ \A d \in Calls \ {c} : call'[d] = call[d]
      /\ PrepareDone(a, k) \/ ExecuteDone(a, k) \/ AnswerDone(a, k)
  BY WorkOutcome
<1>2. f.sent /\ a.op = f.at /\ f.at \in {"create", "info", "get"}
  BY <1>1, WorkIsAsked
<1>3. /\ Served(f, a) /\ broken \in 0..Disconnects /\ HandlerOK(a, issued, minted)
      /\ flow = [flow EXCEPT ![c] = f] /\ ServerIInv
  BY TheFlow
<1>4. [ServerNext]_serverVars
  BY DEF ServerNext
<1>5. ServerIInv' /\ Grows
  BY <1>3, <1>4, ServerStep, ServerGrows
<1>6. FlowOK(f, a, minted', issued')
  BY <1>5, FlowUndisturbed
<1> HIDE DEF f, a, k
<1>7. a.status = "none" /\ a.pc \notin {"idle", "replied"}
  BY <1>1, <1>3 DEF HandlerOK, Course, Waiting
<1>8. Served(f, k)
  <2>1. CASE PrepareDone(a, k)
    BY <1>2, <1>3, <1>7, <2>1 DEF Served, PrepareDone
  <2>2. CASE ExecuteDone(a, k)
    BY <1>2, <1>3, <1>7, <2>2 DEF Served, ExecuteDone
  <2>3. CASE AnswerDone(a, k)
    BY <1>2, <1>3, <1>7, <2>3 DEF Served, AnswerDone, Failed
  <2> QED  BY <1>1, <2>1, <2>2, <2>3
<1>9. FlowOK(f, k, minted', issued')
  BY <1>6, <1>8 DEF FlowOK
<1>10. flow' = [flow EXCEPT ![c] = f] /\ broken' \in 0..Disconnects
  BY <1>3
<1> QED  BY <1>1, <1>5, <1>9, <1>10, OneFlowMoves DEF k

LEMMA ClientsLeftAlone ==
  ASSUME SysIInv, ServerIInv', Grows, UNCHANGED <<flow, broken, call>>
  PROVE  SysIInv'
<1>1. \A c \in Calls : FlowOK(flow'[c], call'[c], minted', issued')
  BY FlowUndisturbed
<1>2. flow' \in [Calls -> FlowIn(minted')]
  BY <1>1 DEF SysIInv, FlowOK
<1> QED  BY <1>1, <1>2 DEF SysIInv

LEMMA SysStep == SysIInv /\ [SysNext]_sysVars => SysIInv'
<1> SUFFICES ASSUME SysIInv, [SysNext]_sysVars
             PROVE  SysIInv'
  OBVIOUS
<1>1. ASSUME NEW q \in JobTexts, RunOrphan(q), UNCHANGED <<flow, broken>>
      PROVE  SysIInv'
  <2>1. ServerNext
    BY <1>1 DEF ServerNext
  <2>2. ServerIInv' /\ Grows
    BY <2>1, ServerStep, ServerGrows DEF SysIInv
  <2> QED  BY <1>1, <2>2, ClientsLeftAlone DEF RunOrphan
<1>2. CASE UNCHANGED sysVars
  <2>1. UNCHANGED serverVars /\ UNCHANGED <<flow, broken, call>>
    BY <1>2 DEF sysVars, serverVars
  <2>2. ServerIInv' /\ Grows
    BY <2>1, ServerStep, ServerGrows DEF SysIInv
  <2> QED  BY <2>1, <2>2, ClientsLeftAlone
<1>3. CASE Serve
  BY <1>1, <1>3, WorkPreserves DEF Serve
<1> QED  BY <1>2, <1>3, SendPreserves, DeliverPreserves, DisconnectPreserves DEF SysNext

LEMMA SysInitEstablishes == SysInit => SysIInv
<1> SUFFICES ASSUME SysInit
             PROVE  SysIInv
  OBVIOUS
<1>1. ServerIInv
  BY ServerInitEstablishes DEF SysInit
<1>2. minted \in Nat
  BY <1>1, NamedHandles
<1>3. ASSUME NEW kind \in Kinds, NEW q \in Queries
      PROVE  /\ Fresh(kind, q) \in FlowIn(minted)
             /\ Fresh(kind, q).handle = 0 /\ ~ Fresh(kind, q).sent
             /\ Fresh(kind, q).data = NoSchema /\ Fresh(kind, q).kind = kind
             /\ Fresh(kind, q).at = IF kind = "sql" THEN "create" ELSE "info"
  BY <1>2, SchemaKinds DEF Fresh, FlowIn
<1>4. ASSUME NEW c \in Calls
      PROVE  FlowOK(flow[c], call[c], minted, issued)
  <2>1. PICK kind \in Kinds, q \in Queries : flow[c] = Fresh(kind, q)
    BY DEF SysInit
  <2>2. call[c].pc = "idle" /\ call[c].status = "none"
    BY DEF SysInit, ServerInit, Idle
  <2>3. Served(flow[c], call[c])
    BY <1>3, <2>1, <2>2 DEF Served
  <2>4. Progress(flow[c], issued)
    BY <1>3, <2>1 DEF Progress
  <2> QED  BY <1>3, <2>1, <2>3, <2>4 DEF FlowOK
<1>5. flow \in [Calls -> FlowIn(minted)]
  BY <1>4 DEF SysInit, FlowOK
<1> QED  BY <1>1, <1>4, <1>5, DisconnectsAssumption DEF SysInit, SysIInv

\* The inductive invariant holds of the server and its clients.
THEOREM SysInvariant == SysSpec => []SysIInv
<1> QED  BY SysInitEstablishes, SysStep, PTL DEF SysSpec

\* The type invariant of the system.
THEOREM SysTypeCorrect == SysSpec => []SysTypeOK
<1>1. SysIInv => SysTypeOK
  <2>1. ServerIInv => ServerTypeOK
    BY DEF ServerIInv, Bookkeeping, CacheIInv, Surroundings, ServerTypeOK, HandlerType, HandlerIn
  <2> QED  BY <2>1 DEF SysIInv, SysTypeOK, FlowType, FlowIn
<1> QED  BY <1>1, SysInvariant, PTL

\* To the server, a step of its clients is a step of its callers.
LEMMA ClientStep ==
  ASSUME SysIInv, [SysNext]_sysVars
  PROVE  [ServerNext]_serverVars
<1>1. ASSUME NEW c \in Calls, Send(c)
      PROVE  ServerNext
  BY <1>1, SendOutcome DEF ServerNext
<1>2. ASSUME NEW c \in Calls, Deliver(c)
      PROVE  UNCHANGED serverVars
  BY <1>2 DEF Deliver
<1>3. ASSUME NEW c \in Calls, Disconnect(c)
      PROVE  [ServerNext]_serverVars
  BY <1>3, DisconnectOutcome DEF ServerNext
<1>4. CASE Serve
  BY <1>4 DEF Serve, ServerNext
<1>5. CASE UNCHANGED sysVars
  BY <1>5 DEF sysVars
<1> QED  BY <1>1, <1>2, <1>3, <1>4, <1>5 DEF SysNext

\* Two flows over a connection each are callers of the server like any other:
\* what is proved of the server under arbitrary callers holds under its clients.
THEOREM ClientsUseTheServer == SysSpec => ServerSpec
<1>1. SysInit => ServerInit
  BY DEF SysInit
<1>2. SysIInv /\ [SysNext]_sysVars => [ServerNext]_serverVars
  BY ClientStep
<1> QED  BY <1>1, <1>2, SysInvariant, PTL DEF SysSpec, ServerSpec
-----------------------------------------------------------------------------
(* How often a round trip runs its statement, on an engine without faults and *)
(* with tables that stay.                                                     *)

Quiet ==
  Faults = FALSE /\ Queries \subseteq {"match", "constant", "insert", "insert_returning"}

\* The runs of a call: describing runs nothing that has columns, unless there is
\* no table, and then the run fails.
Counted(k, exists) ==
  /\ k.pc \in {"prepare", "prepared", "execute"} => k.ran = 0
  /\ k.pc = "executed" => k.ran = 1
  /\ k.op \in {"create", "info"} /\ HasColumns(k.text)
       => (k.pc = "execute" => ~ exists /\ k.text # "constant") /\ (k.pc = "executed" => Failed(k))
  /\ k.status = "ok" /\ k.op \in {"create", "info"} => k.ran = IF HasColumns(k.text) THEN 0 ELSE 1
  /\ k.status = "ok" /\ k.op = "get" => k.ran = 1
  /\ k.status = "ok" /\ k.op = "close" => k.ran = 0

\* The runs of a flow that came so far.
TimesRun(f) ==
  /\ HasColumns(f.text) =>
       /\ f.at \in {"create", "info", "get"} => f.ran = 0
       /\ f.at \in {"close", "done"} => f.ran = 1
  /\ ~ HasColumns(f.text) /\ f.kind = "plain" =>
       /\ f.at = "info" => f.ran = 0
       /\ f.at = "get" => f.ran = 1
       /\ f.at = "done" => f.ran = 2
  /\ ~ HasColumns(f.text) /\ f.kind = "sql" =>
       /\ f.at = "create" => f.ran = 0
       /\ f.at = "info" => f.ran = 1
       /\ f.at = "get" => f.ran = 2
       /\ f.at \in {"close", "done"} => f.ran = 3

CountIInv ==
  /\ SysIInv
  /\ \A c \in Calls : Counted(call[c], db.exists) /\ TimesRun(flow[c])

\* No statement makes or drops the table, and one that has columns binds where
\* the table is.
LEMMA QuietEngine ==
  ASSUME Quiet, ServerIInv, NEW q \in JobTexts
  PROVE  /\ Written(q).exists = db.exists /\ Written(q).gen = db.gen
         /\ q # "show" /\ HasColumns(q) => (Binds(q) <=> db.exists \/ q = "constant")
<1>1. db \in [exists : BOOLEAN, gen : Nat, rows : Nat]
  BY DEF ServerIInv, Surroundings
<1>2. q \in {"match", "constant", "insert", "insert_returning", "empty", "garbage", "show"}
  BY DEF Quiet, JobTexts, Texts
<1>3. Written(q).exists = db.exists /\ Written(q).gen = db.gen
  <2>1. CASE q \in {"insert", "insert_returning"}
    BY <1>1, <2>1 DEF Written
  <2>2. CASE q \notin {"insert", "insert_returning"}
    <3>1. Written(q) = db
      BY <1>2, <2>2 DEF Written
    <3> QED  BY <3>1
  <2> QED  BY <2>1, <2>2
<1>4. q # "show" /\ HasColumns(q) => (Binds(q) <=> db.exists \/ q = "constant")
  BY <1>2 DEF HasColumns, Binds
<1> QED  BY <1>3, <1>4

\* So the table stays through every step.
LEMMA TableStays ==
  ASSUME Quiet, SysIInv, [SysNext]_sysVars
  PROVE  db'.exists = db.exists /\ db'.gen = db.gen
<1>1. ServerIInv
  BY DEF SysIInv
<1>2. ASSUME NEW c \in Calls, Job(c) \/ Answer(c)
      PROVE  db'.exists = db.exists /\ db'.gen = db.gen
  <2>1. call[c].text \in JobTexts
    BY TheFlow DEF HandlerIn
  <2>2. db' = db \/ db' = Written(call[c].text)
    BY <1>2, WorkOutcome DEF PrepareDone, ExecuteDone, AnswerDone, Quiet
  <2> QED  BY <1>1, <2>1, <2>2, QuietEngine
<1>3. ASSUME NEW q \in JobTexts, RunOrphan(q)
      PROVE  db'.exists = db.exists /\ db'.gen = db.gen
  <2>1. db' = db \/ db' = Written(q)
    BY <1>3 DEF RunOrphan
  <2> QED  BY <1>1, <2>1, QuietEngine
<1>4. CASE Serve
  BY <1>2, <1>3, <1>4 DEF Serve
<1>5. ASSUME NEW c \in Calls, Send(c) \/ Deliver(c) \/ Disconnect(c)
      PROVE  db' = db
  BY <1>5, SendOutcome, DisconnectOutcome DEF Deliver, Cancel, serverVars
<1>6. CASE UNCHANGED sysVars
  BY <1>6 DEF sysVars, serverVars
<1> QED  BY <1>4, <1>5, <1>6 DEF SysNext

\* One client and its slot move.
LEMMA OneCountMoves ==
  ASSUME CountIInv, SysIInv', db'.exists = db.exists, NEW c \in Calls,
         NEW g, flow' = [flow EXCEPT ![c] = g],
         \A d \in Calls \ {c} : call'[d] = call[d],
         Counted(call'[c], db.exists), TimesRun(g)
  PROVE  CountIInv'
<1>1. flow \in [Calls -> FlowIn(minted)]
  BY DEF CountIInv, SysIInv
<1>2. ASSUME NEW d \in Calls
      PROVE  Counted(call'[d], db'.exists) /\ TimesRun(flow'[d])
  <2>1. CASE d = c
    BY <1>1, <2>1
  <2>2. CASE d # c
    BY <1>1, <2>2 DEF CountIInv
  <2> QED  BY <2>1, <2>2
<1> QED  BY <1>2 DEF CountIInv

LEMMA SendCounts ==
  ASSUME Quiet, CountIInv, SysIInv', NEW c \in Calls, Send(c), db'.exists = db.exists
  PROVE  CountIInv'
<1> DEFINE f == flow[c]
           g == [f EXCEPT !.sent = TRUE]
<1>1. /\ flow' = [flow EXCEPT ![c] = g]
      /\ \A d \in Calls \ {c} : call'[d] = call[d]
      /\ Requested(f, call'[c])
  BY SendOutcome DEF CountIInv
<1>2. f \in FlowIn(minted) /\ TimesRun(f)
  BY TheFlow DEF CountIInv
<1> HIDE DEF f
<1>3. g.at = f.at /\ g.text = f.text /\ g.kind = f.kind /\ g.ran = f.ran
  BY <1>2 DEF FlowIn
<1> HIDE DEF g
<1>4. TimesRun(g)
  BY <1>2, <1>3 DEF TimesRun
<1>5. Counted(call'[c], db.exists)
  BY <1>1 DEF Requested, Counted
<1> QED  BY <1>1, <1>4, <1>5, OneCountMoves

LEMMA DeliverCounts ==
  ASSUME Quiet, CountIInv, SysIInv', NEW c \in Calls, Deliver(c), db'.exists = db.exists
  PROVE  CountIInv'
<1> DEFINE f == flow[c]
           k == call[c]
<1>1. PICK g \in FlowIn(minted) :
        /\ Delivered(f, k, g)
        /\ flow' = [flow EXCEPT ![c] = g]
        /\ UNCHANGED <<broken, serverVars>>
  BY DeliverOutcome DEF CountIInv
<1>2. call' = call
  BY <1>1 DEF serverVars
<1>3. /\ f \in FlowIn(minted) /\ Served(f, k) /\ Progress(f, issued)
      /\ TimesRun(f) /\ Counted(k, db.exists)
  BY TheFlow DEF CountIInv
<1> HIDE DEF f, k
<1>4. TimesRun(g)
  <2>1. f.at \in {"create", "info", "get", "close"} /\ k.op = f.at /\ f.kind \in {"plain", "sql"}
    BY <1>1, <1>3, KindsAssumption DEF Delivered, Served, FlowIn
  <2>2. CASE k.status # "ok"
    BY <1>1, <2>2 DEF Delivered, TimesRun
  <2>3. CASE k.status = "ok" /\ f.at \in {"create", "info"}
    <3>1. g.at = IF f.at = "create" THEN "info" ELSE "get"
      BY <1>1, <2>3, FollowingSteps DEF Delivered
    <3>2. k.ran = IF HasColumns(f.text) THEN 0 ELSE 1
      BY <1>1, <1>3, <2>1, <2>3 DEF Delivered, Served, Counted
    <3>3. f.at = "create" => f.kind = "sql"
      BY <1>3 DEF Progress
    <3> QED  BY <1>1, <1>3, <2>1, <2>3, <3>1, <3>2, <3>3 DEF Delivered, TimesRun
  <2>4. CASE k.status = "ok" /\ f.at = "get"
    <3>1. g.at = IF f.kind = "sql" THEN "close" ELSE "done"
      BY <1>1, <2>4, FollowingSteps DEF Delivered
    <3>2. k.ran = 1
      BY <1>3, <2>1, <2>4 DEF Counted
    <3> QED  BY <1>1, <1>3, <2>1, <2>4, <3>1, <3>2 DEF Delivered, TimesRun
  <2>5. CASE k.status = "ok" /\ f.at = "close"
    <3>1. g.at = "done"
      BY <1>1, <2>5, FollowingSteps DEF Delivered
    <3>2. k.ran = 0 /\ f.kind = "sql"
      BY <1>3, <2>1, <2>5 DEF Counted, Progress
    <3> QED  BY <1>1, <1>3, <2>1, <2>5, <3>1, <3>2 DEF Delivered, TimesRun
  <2> QED  BY <2>1, <2>2, <2>3, <2>4, <2>5
<1>5. Counted(call'[c], db.exists)
  BY <1>2, <1>3 DEF k
<1> QED  BY <1>1, <1>2, <1>4, <1>5, OneCountMoves

LEMMA DisconnectCounts ==
  ASSUME Quiet, CountIInv, SysIInv', NEW c \in Calls, Disconnect(c), db'.exists = db.exists
  PROVE  CountIInv'
<1>1. PICK g \in FlowIn(minted) : flow' = [flow EXCEPT ![c] = g] /\ g.at = "failed"
  BY DisconnectOutcome DEF CountIInv
<1>2. UNCHANGED serverVars \/ Cancel(c)
  BY DisconnectOutcome DEF CountIInv
<1>3. ServerIInv
  BY DEF CountIInv, SysIInv
<1>4. /\ call'[c] = call[c] \/ call'[c] = Idle
      /\ \A d \in Calls \ {c} : call'[d] = call[d]
  BY <1>2, <1>3, SetFacts DEF Cancel, serverVars
<1>5. Counted(Idle, db.exists)
  BY DEF Idle, Counted
<1>6. Counted(call'[c], db.exists)
  BY <1>4, <1>5 DEF CountIInv
<1>7. TimesRun(g)
  BY <1>1 DEF TimesRun
<1> QED  BY <1>1, <1>4, <1>6, <1>7, OneCountMoves

\* A handler that works for a query of a client works on its statement.
LEMMA AskedStatement ==
  ASSUME SysIInv, NEW c \in Calls, call[c].pc \in Waiting, call[c].op \in {"create", "info"}
  PROVE  call[c].text = flow[c].text /\ call[c].text \in Queries /\ call[c].text \in JobTexts
<1>1. flow[c].sent /\ call[c].op = flow[c].at
  BY WorkIsAsked
<1>2. Served(flow[c], call[c]) /\ flow[c] \in FlowIn(minted)
  BY TheFlow
<1>3. call[c].pc # "replied"
  BY DEF Waiting
<1> QED  BY <1>1, <1>2, <1>3, KnownValues DEF Served, FlowIn

LEMMA WorkCounts ==
  ASSUME Quiet, CountIInv, SysIInv', NEW c \in Calls, Job(c) \/ Answer(c),
         UNCHANGED flow, db'.exists = db.exists
  PROVE  CountIInv'
<1> DEFINE a == call[c]
           k == call'[c]
<1>1. /\ a.pc \in Waiting
      /\ \A d \in Calls \ {c} : call'[d] = call[d]
      /\ PrepareDone(a, k) \/ ExecuteDone(a, k) \/ AnswerDone(a, k)
  BY WorkOutcome DEF CountIInv
<1>2. /\ HandlerOK(a, issued, minted) /\ Counted(a, db.exists)
      /\ flow = [flow EXCEPT ![c] = flow[c]] /\ TimesRun(flow[c]) /\ ServerIInv
  BY TheFlow DEF CountIInv
<1>3. a.op \in {"create", "info"} /\ HasColumns(a.text)
        => a.text \in JobTexts /\ (Binds(a.text) <=> db.exists \/ a.text = "constant")
  <2>1. ASSUME a.op \in {"create", "info"}, HasColumns(a.text)
        PROVE  a.text \in JobTexts /\ (Binds(a.text) <=> db.exists \/ a.text = "constant")
    <3>1. a.text \in Queries /\ a.text \in JobTexts
      BY <1>1, <2>1, AskedStatement DEF CountIInv
    <3>2. a.text # "show"
      BY <3>1 DEF Quiet
    <3> QED  BY <1>2, <2>1, <3>1, <3>2, QuietEngine
  <2> QED  BY <2>1
<1>4. a.op \in {"create", "info", "get"}
  BY <1>1, WorkIsAsked DEF CountIInv
<1> HIDE DEF a, k
<1>5. a.status = "none"
  BY <1>1, <1>2 DEF HandlerOK, Course, Waiting
<1>6. Counted(k, db.exists)
  <2>1. CASE PrepareDone(a, k)
    BY <1>2, <1>3, <1>5, <2>1 DEF PrepareDone, Counted, Describable, Quiet
  <2>2. CASE ExecuteDone(a, k)
    <3>1. k.pc = "executed" /\ k.ran = 1 /\ k.op = a.op /\ k.text = a.text /\ k.status = "none"
      BY <1>2, <1>5, <2>2 DEF ExecuteDone, Counted
    <3>2. k.op \in {"create", "info"} /\ HasColumns(k.text) => ~ Binds(a.text)
      BY <1>2, <1>3, <2>2 DEF ExecuteDone, Counted
    <3>3. k.op \in {"create", "info"} /\ HasColumns(k.text) => k.schema = NoSchema
      BY <2>2, <3>2 DEF ExecuteDone
    <3> QED  BY <3>1, <3>3 DEF Counted, Failed
  <2>3. CASE AnswerDone(a, k)
    <3>1. k.pc = "replied" /\ k.op = a.op /\ k.text = a.text /\ k.ran = a.ran
          /\ k.op # "close"
      BY <1>4, <2>3 DEF AnswerDone
    <3>2. CASE k.status # "ok"
      BY <3>1, <3>2 DEF Counted
    <3>3. CASE k.status = "ok" /\ a.pc = "prepared"
      <4>1. HasColumns(a.text) /\ a.op \in {"create", "info", "schema"} /\ a.ran = 0
        BY <1>2, <3>3 DEF HandlerOK, Results, Course, Counted
      <4> QED  BY <1>4, <3>1, <3>3, <4>1 DEF Counted
    <3>4. CASE k.status = "ok" /\ a.pc = "executed"
      <4>1. ~ Failed(a) /\ a.ran = 1
        BY <1>2, <2>3, <3>4 DEF AnswerDone, Counted
      <4>2. a.op \in {"create", "info"} => ~ HasColumns(a.text)
        BY <1>2, <3>4, <4>1 DEF Counted
      <4> QED  BY <3>1, <3>4, <4>1, <4>2 DEF Counted
    <3> QED  BY <2>3, <3>2, <3>3, <3>4 DEF AnswerDone
  <2> QED  BY <1>1, <2>1, <2>2, <2>3
<1>7. flow' = [flow EXCEPT ![c] = flow[c]]
  BY <1>2
<1> QED  BY <1>1, <1>2, <1>6, <1>7, OneCountMoves DEF k

LEMMA CountStep == Quiet /\ CountIInv /\ [SysNext]_sysVars => CountIInv'
<1> SUFFICES ASSUME Quiet, CountIInv, [SysNext]_sysVars
             PROVE  CountIInv'
  OBVIOUS
<1>1. SysIInv' /\ db'.exists = db.exists
  BY SysStep, TableStays DEF CountIInv
<1>2. CASE UNCHANGED <<flow, call>>
  BY <1>1, <1>2 DEF CountIInv
<1>3. CASE UNCHANGED sysVars
  BY <1>2, <1>3 DEF sysVars, serverVars
<1>4. CASE Serve
  <2>1. ASSUME NEW q \in JobTexts, RunOrphan(q), UNCHANGED flow
        PROVE  CountIInv'
    BY <1>2, <2>1 DEF RunOrphan
  <2> QED  BY <1>1, <1>4, <2>1, WorkCounts DEF Serve
<1> QED  BY <1>1, <1>3, <1>4, SendCounts, DeliverCounts, DisconnectCounts DEF SysNext

LEMMA CountInitEstablishes == SysInit => CountIInv
<1> SUFFICES ASSUME SysInit
             PROVE  CountIInv
  OBVIOUS
<1>1. ASSUME NEW c \in Calls
      PROVE  Counted(call[c], db.exists) /\ TimesRun(flow[c])
  <2>1. Counted(call[c], db.exists)
    BY DEF SysInit, ServerInit, Idle, Counted
  <2>2. PICK kind \in Kinds, q \in Queries : flow[c] = Fresh(kind, q)
    BY DEF SysInit
  <2>3. /\ Fresh(kind, q).ran = 0 /\ Fresh(kind, q).kind = kind
        /\ Fresh(kind, q).at = IF kind = "sql" THEN "create" ELSE "info"
    BY DEF Fresh
  <2> QED  BY <2>1, <2>2, <2>3 DEF TimesRun
<1> QED  BY <1>1, SysInitEstablishes DEF CountIInv

\* Whatever the interleaving, a finished round trip ran a statement with columns
\* once, and any other once per describing RPC more.
THEOREM RunsAreCounted ==
  ASSUME Faults = FALSE, Queries \subseteq {"match", "constant", "insert", "insert_returning"}
  PROVE  SysSpec => []RoundTripRuns
<1>1. Quiet
  BY DEF Quiet
<1>2. SysSpec => []CountIInv
  <2>1. CountIInv /\ [SysNext]_sysVars => CountIInv'
    BY <1>1, CountStep
  <2> QED  BY <2>1, CountInitEstablishes, PTL DEF SysSpec
<1>3. CountIInv => RoundTripRuns
  <2> SUFFICES ASSUME CountIInv, NEW c \in Calls, Done(c)
               PROVE  flow[c].ran = IF HasColumns(flow[c].text) THEN 1
                                    ELSE IF flow[c].kind = "plain" THEN 2 ELSE 3
    BY DEF RoundTripRuns
  <2>1. TimesRun(flow[c]) /\ flow[c] \in FlowIn(minted)
    BY TheFlow DEF CountIInv
  <2>2. flow[c].kind \in {"plain", "sql"} /\ flow[c].at = "done"
    BY <2>1, KindsAssumption DEF FlowIn, Done
  <2>3. CASE HasColumns(flow[c].text)
    BY <2>1, <2>2, <2>3 DEF TimesRun
  <2>4. CASE ~ HasColumns(flow[c].text) /\ flow[c].kind = "plain"
    BY <2>1, <2>2, <2>4 DEF TimesRun
  <2>5. CASE ~ HasColumns(flow[c].text) /\ flow[c].kind = "sql"
    BY <2>1, <2>2, <2>5 DEF TimesRun
  <2> QED  BY <2>2, <2>3, <2>4, <2>5
<1> QED  BY <1>2, <1>3, PTL
-----------------------------------------------------------------------------
(* The flows implement the query service.                                     *)

\* What the refinement makes of one client's flow and slot.
Awaited(f, k) == f.at = "get" /\ f.sent /\ k.pc \in {"executed", "replied"}
GotOf(f, k) == IF Awaited(f, k) THEN k.schema ELSE f.data
StageOf(f, k) ==
  IF f.at = "done" THEN "answered"
  ELSE IF f.at = "failed" THEN "failed"
  ELSE IF GotOf(f, k) = NoSchema THEN "asked" ELSE "applied"
AnswerOf(f, k) ==
  IF f.at = "failed" \/ GotOf(f, k) = NoSchema THEN "none"
  ELSE IF GotOf(f, k)[1] = "utf8" THEN "empty" ELSE "rows"

Writers == {c \in Calls : Writes(flow[c].text)}

LEMMA StageIs ==
  /\ ServiceStage = [c \in Calls |-> StageOf(flow[c], call[c])]
  /\ ServiceAnswer = [c \in Calls |-> AnswerOf(flow[c], call[c])]
<1>1. ASSUME NEW c \in Calls
      PROVE  Got(c) = GotOf(flow[c], call[c])
  BY DEF Got, Fetching, GotOf, Awaited
<1>2. ServiceAnswer = [c \in Calls |-> AnswerOf(flow[c], call[c])]
  BY <1>1 DEF ServiceAnswer, AnswerOf
<1>3. ASSUME NEW c \in Calls
      PROVE  (CASE Done(c) -> "answered"
                [] flow[c].at = "failed" -> "failed"
                [] ~ Ended(c) -> IF Got(c) = NoSchema THEN "asked" ELSE "applied")
             = StageOf(flow[c], call[c])
  <2>1. CASE flow[c].at = "done"
    BY <2>1 DEF Done, Ended, StageOf
  <2>2. CASE flow[c].at = "failed"
    BY <2>2 DEF Done, Ended, StageOf
  <2>3. CASE flow[c].at \notin {"done", "failed"}
    BY <1>1, <2>3 DEF Done, Ended, StageOf
  <2> QED  BY <2>1, <2>2, <2>3
<1>4. ServiceStage = [c \in Calls |-> StageOf(flow[c], call[c])]
  BY <1>3, Zenon DEF ServiceStage
<1> QED  BY <1>2, <1>4

LEMMA StageIsPrimed ==
  /\ ServiceStage' = [c \in Calls |-> StageOf(flow'[c], call'[c])]
  /\ ServiceAnswer' = [c \in Calls |-> AnswerOf(flow'[c], call'[c])]
  /\ Writers' = {c \in Calls : Writes(flow'[c].text)}
<1>1. (/\ ServiceStage = [c \in Calls |-> StageOf(flow[c], call[c])]
       /\ ServiceAnswer = [c \in Calls |-> AnswerOf(flow[c], call[c])])'
  BY StageIs, PTL
<1> QED  BY <1>1 DEF Writers, Writes, StageOf, AnswerOf, GotOf, Awaited
\* A step of one client moves the service's state at that client only.
LEMMA OneClientServed ==
  ASSUME SysIInv, NEW c \in Calls, NEW g, flow' = [flow EXCEPT ![c] = g],
         g.text = flow[c].text, \A d \in Calls \ {c} : call'[d] = call[d]
  PROVE  /\ ServiceStage' = [ServiceStage EXCEPT ![c] = StageOf(g, call'[c])]
         /\ ServiceAnswer' = [ServiceAnswer EXCEPT ![c] = AnswerOf(g, call'[c])]
         /\ Writers' = Writers
<1>1. flow \in [Calls -> FlowIn(minted)]
  BY DEF SysIInv
<1>2. \A d \in Calls : flow'[d] = IF d = c THEN g ELSE flow[d]
  BY <1>1
<1>3. ServiceStage' = [ServiceStage EXCEPT ![c] = StageOf(g, call'[c])]
  <2>1. \A d \in Calls : StageOf(flow'[d], call'[d])
                           = IF d = c THEN StageOf(g, call'[c]) ELSE StageOf(flow[d], call[d])
    BY <1>2
  <2> QED  BY <2>1, StageIs, StageIsPrimed
<1>4. ServiceAnswer' = [ServiceAnswer EXCEPT ![c] = AnswerOf(g, call'[c])]
  <2>1. \A d \in Calls : AnswerOf(flow'[d], call'[d])
                           = IF d = c THEN AnswerOf(g, call'[c]) ELSE AnswerOf(flow[d], call[d])
    BY <1>2
  <2> QED  BY <2>1, StageIs, StageIsPrimed
<1>5. Writers' = Writers
  <2>1. \A d \in Calls : flow'[d].text = flow[d].text
    BY <1>2
  <2> QED  BY <2>1, StageIsPrimed DEF Writers
<1> QED  BY <1>3, <1>4, <1>5

\* Steps that the service does not see.
Unseen == UNCHANGED <<ServiceStage, ServiceAnswer, Writers, db.rows, orphans["insert_returning"]>>

LEMMA NothingServed ==
  ASSUME Unseen
  PROVE  UNCHANGED Service!serviceVars
BY DEF Unseen, Writers, Service!serviceVars

LEMMA OneClientUnserved ==
  ASSUME SysIInv, NEW c \in Calls, NEW g, flow' = [flow EXCEPT ![c] = g],
         g.text = flow[c].text, \A d \in Calls \ {c} : call'[d] = call[d],
         StageOf(g, call'[c]) = StageOf(flow[c], call[c]),
         AnswerOf(g, call'[c]) = AnswerOf(flow[c], call[c]),
         UNCHANGED <<db.rows, orphans["insert_returning"]>>
  PROVE  Unseen
<1> DEFINE t == StageOf(g, call'[c])
           b == AnswerOf(g, call'[c])
<1>1. /\ ServiceStage' = [ServiceStage EXCEPT ![c] = t]
      /\ ServiceAnswer' = [ServiceAnswer EXCEPT ![c] = b]
      /\ Writers' = Writers
  BY OneClientServed
<1>4. t = StageOf(flow[c], call[c]) /\ b = AnswerOf(flow[c], call[c])
  OBVIOUS
<1> HIDE DEF t, b
<1>2. /\ ServiceStage[c] = StageOf(flow[c], call[c])
      /\ ServiceAnswer[c] = AnswerOf(flow[c], call[c])
  BY StageIs
<1>3. ServiceStage = [ServiceStage EXCEPT ![c] = ServiceStage[c]]
      /\ ServiceAnswer = [ServiceAnswer EXCEPT ![c] = ServiceAnswer[c]]
  BY StageIs
<1> QED  BY <1>1, <1>2, <1>3, <1>4 DEF Unseen

\* The service's steps, in the flows' terms.
LEMMA ServiceMoves ==
  ASSUME SysIInv, NEW c \in Calls, NEW g, flow' = [flow EXCEPT ![c] = g],
         g.text = flow[c].text, \A d \in Calls \ {c} : call'[d] = call[d]
  PROVE  LET s == StageOf(flow[c], call[c])
             t == StageOf(g, call'[c])
             a == AnswerOf(flow[c], call[c])
             b == AnswerOf(g, call'[c])
         IN  /\ /\ s = "asked" /\ t = "applied"
                /\ db'.rows = IF c \in Writers THEN db.rows + 1 ELSE db.rows
                /\ b = Service!Returned(db'.rows)
                /\ UNCHANGED orphans["insert_returning"]
                => Service!Apply(c)
             /\ /\ s = "applied" /\ t = "answered" /\ b = a
                /\ UNCHANGED <<db.rows, orphans["insert_returning"]>>
                => Service!Finish(c)
             /\ /\ s \in {"asked", "applied"} /\ t = "failed" /\ b = "none"
                /\ UNCHANGED db.rows
                /\ \/ UNCHANGED orphans["insert_returning"]
                   \/ /\ c \in Writers /\ s = "asked"
                      /\ orphans'["insert_returning"] = orphans["insert_returning"] + 1
                => Service!Fail(c)
<1> DEFINE s == StageOf(flow[c], call[c])
           t == StageOf(g, call'[c])
           a == AnswerOf(flow[c], call[c])
           b == AnswerOf(g, call'[c])
<1>1. /\ ServiceStage' = [ServiceStage EXCEPT ![c] = t]
      /\ ServiceAnswer' = [ServiceAnswer EXCEPT ![c] = b]
      /\ Writers' = Writers
  BY OneClientServed
<1>2. ServiceStage[c] = s /\ ServiceAnswer[c] = a
  BY StageIs
<1>3. ServiceAnswer = [ServiceAnswer EXCEPT ![c] = a]
  BY <1>2, StageIs
<1> HIDE DEF s, t, a, b
<1>4. ASSUME s = "asked", t = "applied",
             db'.rows = IF c \in Writers THEN db.rows + 1 ELSE db.rows,
             b = Service!Returned(db'.rows),
             UNCHANGED orphans["insert_returning"]
      PROVE  Service!Apply(c)
  BY <1>1, <1>2, <1>4 DEF Service!Apply, Writers
<1>5. ASSUME s = "applied", t = "answered", b = a,
             UNCHANGED <<db.rows, orphans["insert_returning"]>>
      PROVE  Service!Finish(c)
  BY <1>1, <1>2, <1>3, <1>5 DEF Service!Finish, Writers
<1>6. ASSUME s \in {"asked", "applied"}, t = "failed", b = "none", UNCHANGED db.rows,
             \/ UNCHANGED orphans["insert_returning"]
             \/ /\ c \in Writers /\ s = "asked"
                /\ orphans'["insert_returning"] = orphans["insert_returning"] + 1
      PROVE  Service!Fail(c)
  BY <1>1, <1>2, <1>6 DEF Service!Fail, Service!MayLeave, Writers
<1> QED  BY <1>4, <1>5, <1>6 DEF s, t, a, b

-----------------------------------------------------------------------------
(* The steps, one by one: statements have columns, and the engine no faults.  *)

Gentle == Faults = FALSE /\ Queries = {"match", "insert_returning"}

LEMMA GentleIsQuiet == Gentle => Quiet
BY DEF Gentle, Quiet

\* A request asked is nothing served yet.
LEMMA SendServed ==
  ASSUME Gentle, CountIInv, NEW c \in Calls, Send(c)
  PROVE  Unseen
<1> DEFINE f == flow[c]
           g == [f EXCEPT !.sent = TRUE]
           k == call'[c]
<1>1. /\ ~ f.sent /\ f.at \in {"create", "info", "get", "close"}
      /\ flow' = [flow EXCEPT ![c] = g]
      /\ \A d \in Calls \ {c} : call'[d] = call[d]
      /\ UNCHANGED <<db, orphans>> /\ Requested(f, k)
  BY SendOutcome DEF CountIInv
<1>2. f \in FlowIn(minted)
  BY TheFlow DEF CountIInv
<1> HIDE DEF f, k
<1>3. g.sent /\ g.at = f.at /\ g.text = f.text /\ g.data = f.data
  BY <1>2 DEF FlowIn
<1> HIDE DEF g
<1>4. GotOf(f, call[c]) = f.data /\ GotOf(g, k) = f.data
  BY <1>1, <1>3 DEF GotOf, Awaited, Requested
<1>5. StageOf(g, k) = StageOf(f, call[c]) /\ AnswerOf(g, k) = AnswerOf(f, call[c])
  BY <1>3, <1>4 DEF StageOf, AnswerOf
<1>6. SysIInv
  BY DEF CountIInv
<1> QED  BY <1>1, <1>3, <1>5, <1>6, OneClientUnserved DEF f, k

\* An answer ends the query, well or badly, or the flow goes on.
LEMMA DeliverServed ==
  ASSUME Gentle, CountIInv, NEW c \in Calls, Deliver(c)
  PROVE  Unseen \/ Service!Finish(c) \/ Service!Fail(c)
<1> DEFINE f == flow[c]
           k == call[c]
<1>1. PICK g \in FlowIn(minted) :
        /\ Delivered(f, k, g)
        /\ flow' = [flow EXCEPT ![c] = g]
        /\ UNCHANGED <<broken, serverVars>>
  BY DeliverOutcome DEF CountIInv
<1>2. UNCHANGED <<call, db, orphans>>
  BY <1>1 DEF serverVars
<1>3. SysIInv /\ f \in FlowIn(minted) /\ Served(f, k) /\ Progress(f, issued)
  BY TheFlow DEF CountIInv
<1> HIDE DEF f, k
<1>4. /\ f.at \in {"create", "info", "get", "close"} /\ k.op = f.at
      /\ g.text = f.text /\ ~ g.sent /\ f.sent /\ k.pc = "replied"
  BY <1>1, <1>3 DEF Delivered, Served, FlowIn
<1>5. GotOf(g, k) = g.data
  BY <1>4 DEF GotOf, Awaited
<1>6. StageOf(f, k) \in {"asked", "applied"}
  BY <1>4 DEF StageOf
<1>7. CASE k.status # "ok"
  <2>1. g.at = "failed"
    BY <1>1, <1>7 DEF Delivered
  <2>2. StageOf(g, k) = "failed" /\ AnswerOf(g, k) = "none"
    BY <2>1 DEF StageOf, AnswerOf
  <2>3. Service!Fail(c)
    BY <1>1, <1>2, <1>3, <1>4, <1>6, <2>2, ServiceMoves DEF f, k
  <2> QED  BY <2>3
<1>8. CASE k.status = "ok" /\ f.at \in {"create", "info"}
  <2>1. g.at \in {"info", "get"} /\ g.data = f.data
    BY <1>1, <1>4, <1>8, FollowingSteps DEF Delivered
  <2>2. GotOf(f, k) = f.data
    BY <1>8 DEF GotOf, Awaited
  <2>3. StageOf(g, k) = StageOf(f, k) /\ AnswerOf(g, k) = AnswerOf(f, k)
    BY <1>5, <1>8, <2>1, <2>2 DEF StageOf, AnswerOf
  <2> QED  BY <1>1, <1>2, <1>3, <1>4, <2>3, OneClientUnserved DEF f, k
<1>9. CASE k.status = "ok" /\ f.at = "get"
  <2>1. g.at \in {"close", "done"} /\ g.data = k.schema
    BY <1>1, <1>9, FollowingSteps DEF Delivered
  <2>2. GotOf(f, k) = k.schema /\ k.schema # NoSchema
    BY <1>3, <1>4, <1>9 DEF GotOf, Awaited, Served
  <2>3. AnswerOf(g, k) = AnswerOf(f, k) /\ StageOf(f, k) = "applied"
    BY <1>5, <1>9, <2>1, <2>2 DEF StageOf, AnswerOf
  <2>4. CASE g.at = "close"
    <3>1. StageOf(g, k) = "applied"
      BY <1>5, <2>1, <2>2, <2>4 DEF StageOf
    <3> QED  BY <1>1, <1>2, <1>3, <1>4, <2>3, <3>1, OneClientUnserved DEF f, k
  <2>5. CASE g.at = "done"
    <3>1. StageOf(g, k) = "answered"
      BY <2>5 DEF StageOf
    <3>2. Service!Finish(c)
      BY <1>1, <1>2, <1>3, <1>4, <2>3, <3>1, ServiceMoves DEF f, k
    <3> QED  BY <3>2
  <2> QED  BY <2>1, <2>4, <2>5
<1>10. CASE k.status = "ok" /\ f.at = "close"
  <2>1. g.at = "done" /\ g.data = f.data /\ f.data # NoSchema
    BY <1>1, <1>3, <1>10, FollowingSteps DEF Delivered, Progress
  <2>2. GotOf(f, k) = f.data
    BY <1>10 DEF GotOf, Awaited
  <2>3. /\ StageOf(f, k) = "applied" /\ StageOf(g, k) = "answered"
        /\ AnswerOf(g, k) = AnswerOf(f, k)
    BY <1>5, <1>10, <2>1, <2>2 DEF StageOf, AnswerOf
  <2>4. Service!Finish(c)
    BY <1>1, <1>2, <1>3, <1>4, <2>3, ServiceMoves DEF f, k
  <2> QED  BY <2>4
<1> QED  BY <1>4, <1>7, <1>8, <1>9, <1>10

\* Whatever a slot works on for a client is the client's statement, or the text
\* that a lost ticket becomes.
LEMMA WorksOnStatement ==
  ASSUME SysIInv, NEW c \in Calls, call[c].pc \in Waiting
  PROVE  /\ call[c].text \in {flow[c].text, "garbage"}
         /\ flow[c].text \in Queries
         /\ flow[c].data = NoSchema
<1>1. /\ Served(flow[c], call[c]) /\ Progress(flow[c], issued) /\ flow[c] \in FlowIn(minted)
      /\ HandlerOK(call[c], issued, minted)
  BY TheFlow
<1>2. flow[c].sent /\ call[c].op = flow[c].at /\ flow[c].at \in {"create", "info", "get"}
  BY WorkIsAsked
<1>3. call[c].pc # "replied"
  BY DEF Waiting
<1>4. CASE flow[c].at \in {"create", "info"}
  BY <1>1, <1>2, <1>3, <1>4 DEF Served, FlowIn, Progress
<1>5. CASE flow[c].at = "get"
  <2>1. call[c].want = flow[c].handle /\ flow[c].handle # 0
        /\ issued[flow[c].handle] = flow[c].text
    BY <1>1, <1>2, <1>5 DEF Served, Progress
  <2>2. call[c].text \in {issued[call[c].want], "garbage"}
    BY <1>1, <1>3, <2>1 DEF HandlerOK, Meaning
  <2> QED  BY <1>1, <1>5, <2>1, <2>2 DEF FlowIn, Progress
<1> QED  BY <1>2, <1>4, <1>5

\* A connection that breaks fails the query; its job may be left to run.
LEMMA DisconnectServed ==
  ASSUME Gentle, CountIInv, NEW c \in Calls, Disconnect(c)
  PROVE  Service!Fail(c)
<1> DEFINE f == flow[c]
           a == call[c]
           s == "insert_returning"
<1>1. PICK g \in FlowIn(minted) :
        flow' = [flow EXCEPT ![c] = g] /\ g.at = "failed" /\ g.text = f.text
  BY DisconnectOutcome DEF CountIInv
<1>2. f.at \notin {"done", "failed"} /\ (UNCHANGED serverVars \/ Cancel(c))
  BY DisconnectOutcome DEF CountIInv, Ended
<1>3. /\ SysIInv /\ ServerIInv /\ orphans \in [JobTexts -> Nat]
      /\ s \in JobTexts /\ a.text \in JobTexts
  BY TheFlow DEF CountIInv, ServerIInv, Surroundings, JobTexts, Texts, Gentle, HandlerIn
<1>4. \A d \in Calls \ {c} : call'[d] = call[d]
  BY <1>2, <1>3, SetFacts DEF Cancel, serverVars
<1>5. StageOf(g, call'[c]) = "failed" /\ AnswerOf(g, call'[c]) = "none"
  BY <1>1 DEF StageOf, AnswerOf
<1>6. StageOf(f, a) \in {"asked", "applied"}
  BY <1>2 DEF StageOf
<1>7. db'.rows = db.rows
  BY <1>2 DEF Cancel, serverVars
<1>8. \/ orphans'[s] = orphans[s]
      \/ c \in Writers /\ StageOf(f, a) = "asked" /\ orphans'[s] = orphans[s] + 1
  <2>1. CASE a.pc = "execute" /\ a.text = s /\ Cancel(c)
    <3>1. f.text = s /\ f.data = NoSchema
      BY <1>3, <2>1, WorksOnStatement DEF Waiting
    <3>2. c \in Writers
      BY <3>1 DEF Writers, Writes
    <3>3. StageOf(f, a) = "asked"
      <4>1. GotOf(f, a) = NoSchema
        BY <2>1, <3>1 DEF GotOf, Awaited
      <4> QED  BY <1>2, <4>1 DEF StageOf
    <3>4. orphans' = [orphans EXCEPT ![s] = @ + 1]
      BY <2>1 DEF Cancel
    <3> QED  BY <1>3, <3>2, <3>3, <3>4
  <2>2. CASE a.pc = "execute" /\ a.text # s /\ Cancel(c)
    <3>1. orphans' = [orphans EXCEPT ![a.text] = @ + 1]
      BY <2>2 DEF Cancel
    <3> QED  BY <1>3, <2>2, <3>1
  <2>3. CASE UNCHANGED serverVars \/ (Cancel(c) /\ a.pc # "execute")
    <3>1. orphans' = orphans
      BY <2>3 DEF Cancel, serverVars
    <3> QED  BY <3>1
  <2> QED  BY <1>2, <2>1, <2>2, <2>3
<1> QED  BY <1>1, <1>3, <1>4, <1>5, <1>6, <1>7, <1>8, ServiceMoves

\* A job done, or an answer given, is nothing served yet, unless the job fetches:
\* there the statement takes effect.
LEMMA WorkServed ==
  ASSUME Gentle, CountIInv, NEW c \in Calls, Job(c) \/ Answer(c), UNCHANGED flow
  PROVE  Unseen \/ Service!Apply(c)
<1> DEFINE f == flow[c]
           a == call[c]
           k == call'[c]
<1>1. /\ a.pc \in Waiting
      /\ \A d \in Calls \ {c} : call'[d] = call[d]
      /\ PrepareDone(a, k) \/ ExecuteDone(a, k) \/ AnswerDone(a, k)
  BY WorkOutcome DEF CountIInv
<1>2. /\ flow' = [flow EXCEPT ![c] = f] /\ SysIInv /\ ServerIInv
      /\ HandlerOK(a, issued, minted) /\ Counted(a, db.exists)
  BY TheFlow DEF CountIInv
<1>3. f.sent /\ a.op = f.at /\ f.at \in {"create", "info", "get"}
  BY <1>1, <1>2, WorkIsAsked
<1>4. a.text \in {f.text, "garbage"} /\ f.text \in Queries /\ f.data = NoSchema
  BY <1>1, <1>2, WorksOnStatement
<1>5. a.op \in {"create", "info"} => a.text = f.text /\ a.text \in JobTexts
  BY <1>1, <1>2, AskedStatement
<1>6. db \in [exists : BOOLEAN, gen : Nat, rows : Nat] /\ UNCHANGED orphans
  BY <1>1, <1>2 DEF ServerIInv, Surroundings, PrepareDone, ExecuteDone, AnswerDone
<1>7. c \in Writers <=> Writes(f.text)
  BY DEF Writers
<1> HIDE DEF f, a, k
<1>8. ASSUME db'.rows = db.rows, GotOf(f, k) = GotOf(f, a)
      PROVE  Unseen
  <2>1. StageOf(f, k) = StageOf(f, a) /\ AnswerOf(f, k) = AnswerOf(f, a)
    BY <1>8 DEF StageOf, AnswerOf
  <2> QED  BY <1>1, <1>2, <1>6, <1>8, <2>1, OneClientUnserved DEF f, a, k
<1>9. CASE PrepareDone(a, k)
  <2>1. db'.rows = db.rows /\ GotOf(f, k) = GotOf(f, a)
    BY <1>9 DEF PrepareDone, GotOf, Awaited
  <2> QED  BY <1>8, <2>1
<1>10. CASE AnswerDone(a, k)
  <2>1. f.at = "get" => a.pc = "executed"
    BY <1>2, <1>3, <1>10 DEF AnswerDone, HandlerOK, Course
  <2>2. db'.rows = db.rows /\ GotOf(f, k) = GotOf(f, a)
    BY <1>10, <2>1 DEF AnswerDone, GotOf, Awaited
  <2> QED  BY <1>8, <2>2
<1>11. CASE ExecuteDone(a, k) /\ a.op \in {"create", "info"}
  <2>1. HasColumns(a.text) /\ a.text # "show" /\ a.text \in JobTexts
    BY <1>4, <1>5, <1>11 DEF Gentle, HasColumns
  <2>2. ~ db.exists /\ a.text # "constant"
    BY <1>2, <1>11, <2>1 DEF ExecuteDone, Counted
  <2>3. ~ Binds(a.text)
    BY <1>2, <2>1, <2>2, GentleIsQuiet, QuietEngine
  <2>4. db'.rows = db.rows /\ GotOf(f, k) = GotOf(f, a)
    BY <1>3, <1>11, <2>3 DEF ExecuteDone, GotOf, Awaited, Gentle
  <2> QED  BY <1>8, <2>4
<1>12. CASE ExecuteDone(a, k) /\ a.op = "get"
  <2>1. /\ GotOf(f, a) = NoSchema /\ GotOf(f, k) = k.schema
        /\ StageOf(f, a) = "asked"
    BY <1>3, <1>4, <1>12 DEF ExecuteDone, GotOf, Awaited, StageOf
  <2>2. CASE k.schema = NoSchema /\ UNCHANGED db
    BY <1>8, <2>1, <2>2
  <2>3. CASE Binds(a.text) /\ db' = Written(a.text) /\ k.schema = Returned(a.text)
    <3>1. a.text = f.text /\ f.text \in {"match", "insert_returning"}
      BY <1>4, <2>3 DEF Gentle, Binds
    <3>2. db'.rows = IF c \in Writers THEN db.rows + 1 ELSE db.rows
      <4>1. CASE f.text = "match"
        BY <1>7, <2>3, <3>1, <4>1 DEF Written, Writes
      <4>2. CASE f.text = "insert_returning"
        BY <1>6, <1>7, <2>3, <3>1, <4>2 DEF Written, Writes
      <4> QED  BY <3>1, <4>1, <4>2
    <3>3. /\ k.schema # NoSchema
          /\ k.schema[1] = IF f.text = "match" /\ db.rows = 0 THEN "utf8" ELSE "native"
      BY <2>3, <3>1 DEF Returned, HasColumns, NoSchema, AllUtf8, Native
    <3>4. StageOf(f, k) = "applied"
      BY <1>3, <2>1, <3>3 DEF StageOf
    <3>5. AnswerOf(f, k) = IF k.schema[1] = "utf8" THEN "empty" ELSE "rows"
      BY <1>3, <2>1, <3>3 DEF AnswerOf
    <3>6. AnswerOf(f, k) = Service!Returned(db'.rows)
      <4>1. db.rows \in Nat
        BY <1>6
      <4>2. CASE f.text = "match"
        BY <1>7, <3>2, <3>3, <3>5, <4>1, <4>2 DEF Service!Returned, Writes
      <4>3. CASE f.text = "insert_returning"
        BY <1>7, <3>2, <3>3, <3>5, <4>1, <4>3 DEF Service!Returned, Writes
      <4> QED  BY <3>1, <4>2, <4>3
    <3>7. Service!Apply(c)
      BY <1>1, <1>2, <1>6, <2>1, <3>2, <3>4, <3>6, ServiceMoves DEF f, a, k
    <3> QED  BY <3>7
  <2> QED  BY <1>12, <2>2, <2>3 DEF ExecuteDone, Gentle
<1> QED  BY <1>1, <1>3, <1>9, <1>10, <1>11, <1>12

\* What a broken connection left on the pool runs late; a read changes nothing.
LEMMA OrphanServed ==
  ASSUME Gentle, CountIInv, NEW q \in JobTexts, RunOrphan(q), UNCHANGED flow
  PROVE  Unseen \/ Service!RunLate
<1> DEFINE s == "insert_returning"
<1>1. /\ orphans[q] > 0 /\ orphans' = [orphans EXCEPT ![q] = @ - 1]
      /\ db' = Written(q) \/ UNCHANGED db
      /\ UNCHANGED call
  BY DEF RunOrphan
<1>2. /\ orphans \in [JobTexts -> Nat] /\ s \in JobTexts
      /\ db \in [exists : BOOLEAN, gen : Nat, rows : Nat]
  BY DEF CountIInv, SysIInv, ServerIInv, Surroundings, Gentle, JobTexts, Texts
<1>3. UNCHANGED <<ServiceStage, ServiceAnswer, Writers>>
  BY <1>1, StageIs, StageIsPrimed DEF Writers
<1>4. CASE q = s
  <2>1. orphans[s] > 0 /\ orphans'[s] = orphans[s] - 1
    BY <1>1, <1>2, <1>4
  <2>2. db'.rows \in {db.rows, db.rows + 1}
    BY <1>1, <1>2, <1>4 DEF Written
  <2> QED  BY <1>3, <2>1, <2>2 DEF Service!RunLate, Writers
<1>5. CASE q # s
  <2>1. orphans'[s] = orphans[s]
    BY <1>1, <1>2, <1>5
  <2>2. Written(q) = db
    BY <1>5 DEF Gentle, JobTexts, Texts, Written
  <2> QED  BY <1>1, <1>3, <2>1, <2>2 DEF Unseen
<1> QED  BY <1>4, <1>5

\* Flows that have asked for nothing are queries that nobody has applied.
LEMMA ServiceStarts == Gentle /\ SysInit => Service!ServiceInit
<1> SUFFICES ASSUME Gentle, SysInit
             PROVE  Service!ServiceInit
  OBVIOUS
<1>1. ASSUME NEW c \in Calls
      PROVE  StageOf(flow[c], call[c]) = "asked" /\ AnswerOf(flow[c], call[c]) = "none"
  <2>1. PICK kind \in Kinds, q \in Queries : flow[c] = Fresh(kind, q)
    BY DEF SysInit
  <2>2. ~ flow[c].sent /\ flow[c].at \in {"create", "info"} /\ flow[c].data = NoSchema
    BY <2>1 DEF Fresh
  <2>3. GotOf(flow[c], call[c]) = NoSchema
    BY <2>2 DEF GotOf, Awaited
  <2> QED  BY <2>2, <2>3 DEF StageOf, AnswerOf
<1>2. /\ ServiceStage = [c \in Calls |-> "asked"]
      /\ ServiceAnswer = [c \in Calls |-> "none"]
  BY <1>1, StageIs
<1>3. db.rows = 0
  BY DEF SysInit, ServerInit
<1>4. orphans["insert_returning"] = 0
  BY DEF SysInit, ServerInit, Gentle, JobTexts, Texts
<1> QED  BY <1>2, <1>3, <1>4 DEF Service!ServiceInit

LEMMA ServiceStep ==
  Gentle /\ CountIInv /\ [SysNext]_sysVars => [Service!ServiceNext]_Service!serviceVars
<1> SUFFICES ASSUME Gentle, CountIInv, [SysNext]_sysVars
             PROVE  Service!ServiceNext \/ UNCHANGED Service!serviceVars
  OBVIOUS
<1>1. ASSUME NEW c \in Calls, Send(c) \/ Deliver(c) \/ Disconnect(c)
      PROVE  Unseen \/ Service!Finish(c) \/ Service!Fail(c)
  BY <1>1, SendServed, DeliverServed, DisconnectServed
<1>2. CASE Serve
  <2>1. ASSUME NEW c \in Calls, Job(c) \/ Answer(c)
        PROVE  Unseen \/ Service!Apply(c)
    BY <1>2, <2>1, WorkServed DEF Serve
  <2>2. ASSUME NEW q \in JobTexts, RunOrphan(q)
        PROVE  Unseen \/ Service!RunLate
    BY <1>2, <2>2, OrphanServed DEF Serve
  <2>3. \/ \E c \in Calls : Job(c) \/ Answer(c)
        \/ \E q \in JobTexts : RunOrphan(q)
    BY <1>2 DEF Serve
  <2> QED  BY <2>1, <2>2, <2>3, NothingServed DEF Service!ServiceNext
<1>3. CASE UNCHANGED sysVars
  <2>1. Unseen
    BY <1>3, StageIs, StageIsPrimed DEF sysVars, serverVars, Unseen, Writers
  <2> QED  BY <2>1, NothingServed
<1> QED  BY <1>1, <1>2, <1>3, NothingServed DEF SysNext, Service!ServiceNext

\* The clients, the server, its cache and its pool together are the query
\* service: to its caller a statement with columns takes effect at one instant,
\* and the answer is what it returned there.
THEOREM FlowsImplementService ==
  ASSUME Faults = FALSE, Queries = {"match", "insert_returning"}
  PROVE  SysSpec => ImplementsQueryService
<1>1. Gentle
  BY DEF Gentle
<1>2. CountIInv /\ [SysNext]_sysVars => CountIInv'
  BY <1>1, CountStep, GentleIsQuiet
<1>3. CountIInv /\ [SysNext]_sysVars => [Service!ServiceNext]_Service!serviceVars
  BY <1>1, ServiceStep
<1>4. SysInit => CountIInv /\ Service!ServiceInit
  BY <1>1, CountInitEstablishes, ServiceStarts
<1> QED  BY <1>2, <1>3, <1>4, PTL DEF SysSpec, ImplementsQueryService, Service!ServiceSpec

-----------------------------------------------------------------------------
(* What is proved of the query service holds of the flows.                    *)

Promised ==
  INSTANCE QueryServiceProofs WITH
    Clients <- Calls,
    writers <- {c \in Calls : Writes(flow[c].text)},
    stage   <- ServiceStage,
    answer  <- ServiceAnswer,
    rows    <- db.rows,
    late    <- orphans["insert_returning"]

LEMMA SameSize == \A S : Promised!Cardinality(S) = Service!Cardinality(S)
BY Zenon DEF Promised!Cardinality, Service!Cardinality

\* The flows behave as the service that the promises are proved of.
LEMMA FlowsKeepPromises ==
  ASSUME Faults = FALSE, Queries = {"match", "insert_returning"}
  PROVE  SysSpec => Promised!ServiceSpec
<1>1. Promised!ServiceInit <=> Service!ServiceInit
  BY DEF Promised!ServiceInit, Service!ServiceInit
<1>2. [Promised!ServiceNext]_Promised!serviceVars <=> [Service!ServiceNext]_Service!serviceVars
  BY Zenon DEF Promised!ServiceNext, Promised!Apply, Promised!Finish, Promised!Fail,
       Promised!RunLate, Promised!Returned, Promised!MayLeave, Promised!serviceVars,
       Service!ServiceNext, Service!Apply, Service!Finish, Service!Fail,
       Service!RunLate, Service!Returned, Service!MayLeave, Service!serviceVars
<1> QED  BY <1>1, <1>2, FlowsImplementService, PTL
            DEF ImplementsQueryService, Promised!ServiceSpec, Service!ServiceSpec

\* However RPCs, broken connections and jobs left behind interleave, no
\* statement of a query takes effect twice.
THEOREM NoStatementRunsTwice ==
  ASSUME IsFiniteSet(Calls), Faults = FALSE, Queries = {"match", "insert_returning"}
  PROVE  SysSpec => []AtMostOnce
<1>1. Promised!ServiceSpec => []Promised!AtMostOnce
  <2>1. Promised!IsFiniteSet(Calls)
    BY Zenon DEF Promised!IsFiniteSet, IsFiniteSet
  <2> QED  BY <2>1, Promised!NoEffectTwice, PTL
<1>2. Promised!AtMostOnce <=> AtMostOnce
  BY SameSize DEF Promised!AtMostOnce, Promised!Spent, AtMostOnce, Service!AtMostOnce,
     Service!Spent
<1> QED  BY <1>1, <1>2, FlowsKeepPromises, PTL

\* Nor does a client see an empty table after any client saw a row.
THEOREM NoClientGoesBack ==
  ASSUME IsFiniteSet(Calls), Faults = FALSE, Queries = {"match", "insert_returning"}
  PROVE  SysSpec => NoAnswerGoesBack
<1>1. Promised!ServiceSpec => Promised!NoAnswerGoesBack
  <2>1. Promised!IsFiniteSet(Calls)
    BY Zenon DEF Promised!IsFiniteSet, IsFiniteSet
  <2> QED  BY <2>1, Promised!AnswersRespectEachOther, PTL
<1> QED  BY <1>1, FlowsKeepPromises, PTL
            DEF NoAnswerGoesBack, Service!NoAnswerGoesBack, Promised!NoAnswerGoesBack,
                Service!serviceVars, Promised!serviceVars

-----------------------------------------------------------------------------
(* Whose handles the clients' handles are. *)

\* The handles a client holds: its flow's, and the one its slot works on.
Mine(f, k) == {f.handle, k.handle}

\* The flow still has to get its batches, or to close its handle.
Open(f) == f.at \in {"create", "info", "get"} \/ (f.at = "close" /\ ~ f.sent)

\* A flow opens one handle only, and nobody closes it under its feet.
Tidy(f, k, shut) ==
  /\ f.handle = 0 \/ k.handle \in {0, f.handle}
  /\ f.at = "create" \/ (f.at = "info" /\ f.kind = "plain")
       => f.handle = 0 /\ (f.sent /\ k.pc # "replied" => k.handle = 0)
  /\ f.at = "info" /\ f.kind = "sql"
       => f.handle # 0 /\ (f.sent /\ k.pc # "replied" => k.handle = f.handle)
  /\ f.at = "done" => f.handle # 0
  /\ k.handle \notin shut
  /\ Open(f) => f.handle \notin shut

\* No close is refused.
Closes(f, k) == f.sent /\ f.at = "close" => k.status = "ok"

\* No two clients hold the same handle.
ApartIInv ==
  /\ SysIInv
  /\ \A c \in Calls : Tidy(flow[c], call[c], closed) /\ Closes(flow[c], call[c])
  /\ \A c \in Calls : \A d \in Calls \ {c} :
       \A h \in Mine(flow[c], call[c]) : h \in Mine(flow[d], call[d]) => h = 0

LEMMA TheHandles ==
  ASSUME ApartIInv, NEW c \in Calls
  PROVE  /\ SysIInv /\ Tidy(flow[c], call[c], closed) /\ Closes(flow[c], call[c])
         /\ minted \in Nat /\ 0 \notin closed /\ 0 \notin Live
         /\ \A h \in Mine(flow[c], call[c]) : h \in 0..minted
<1>1. SysIInv /\ Tidy(flow[c], call[c], closed) /\ Closes(flow[c], call[c])
  BY DEF ApartIInv
<1>2. flow[c] \in FlowIn(minted) /\ call[c] \in HandlerIn(minted) /\ ServerIInv
  BY <1>1, TheFlow
<1>3. flow[c].handle \in 0..minted /\ call[c].handle \in 0..minted
  BY <1>2 DEF FlowIn, HandlerIn
<1> QED  BY <1>1, <1>2, <1>3, NamedHandles DEF Mine

\* One client and its slot move; it lets go of handles, or gets a new one, and
\* closes no handle but its own.
LEMMA OneOwnerMoves ==
  ASSUME ApartIInv, SysIInv', NEW c \in Calls, NEW g, flow' = [flow EXCEPT ![c] = g],
         \A d \in Calls \ {c} : call'[d] = call[d],
         Tidy(g, call'[c], closed'), Closes(g, call'[c]),
         \A h \in Mine(g, call'[c]) : h = 0 \/ h \in Mine(flow[c], call[c]) \/ h > minted,
         \A h \in closed' : h \in closed \/ h = flow[c].handle
  PROVE  ApartIInv'
<1>1. flow \in [Calls -> FlowIn(minted)]
  BY DEF ApartIInv, SysIInv
<1>2. flow'[c] = g /\ \A d \in Calls \ {c} : flow'[d] = flow[d]
  BY <1>1
<1>3. ASSUME NEW d \in Calls \ {c}, NEW h \in Mine(flow'[c], call'[c]), h # 0
      PROVE  h \notin Mine(flow'[d], call'[d])
  <2>1. h \in Mine(flow[c], call[c]) \/ h > minted
    BY <1>2, <1>3
  <2>2. minted \in Nat /\ \A x \in Mine(flow[d], call[d]) : x \in 0..minted
    BY TheHandles
  <2>3. h \notin Mine(flow[d], call[d])
    BY <1>3, <2>1, <2>2 DEF ApartIInv
  <2> QED  BY <1>2, <2>3
<1>4. ASSUME NEW d \in Calls \ {c}
      PROVE  Tidy(flow[d], call[d], closed') /\ Closes(flow[d], call[d])
  <2>1. Tidy(flow[d], call[d], closed) /\ Closes(flow[d], call[d])
    BY TheHandles
  <2>2. 0 \notin closed'
    BY DEF SysIInv, ServerIInv, Bookkeeping, CacheIInv, CacheTypeOK
  <2>3. \A h \in Mine(flow[d], call[d]) : h \in closed' => h \in closed
    BY <2>2 DEF ApartIInv, Mine
  <2> QED  BY <2>1, <2>3 DEF Tidy, Mine
<1>5. ASSUME NEW d \in Calls
      PROVE  Tidy(flow'[d], call'[d], closed') /\ Closes(flow'[d], call'[d])
  <2>1. CASE d = c
    BY <1>2, <2>1
  <2>2. CASE d # c
    BY <1>2, <1>4, <2>2
  <2> QED  BY <2>1, <2>2
<1>6. ASSUME NEW b \in Calls, NEW d \in Calls \ {b}, NEW h \in Mine(flow'[b], call'[b]),
             h \in Mine(flow'[d], call'[d])
      PROVE  h = 0
  <2>1. CASE b = c
    BY <1>3, <1>6, <2>1
  <2>2. CASE d = c
    BY <1>3, <1>6, <2>2
  <2>3. CASE b # c /\ d # c
    BY <1>2, <1>6, <2>3 DEF ApartIInv
  <2> QED  BY <2>1, <2>2, <2>3
<1> QED  BY <1>5, <1>6 DEF ApartIInv

LEMMA SendApart ==
  ASSUME ApartIInv, SysIInv', NEW c \in Calls, Send(c)
  PROVE  ApartIInv'
<1> DEFINE f == flow[c]
           k == call'[c]
           g == [f EXCEPT !.sent = TRUE]
<1>1. /\ ~ f.sent /\ flow' = [flow EXCEPT ![c] = g]
      /\ \A d \in Calls \ {c} : call'[d] = call[d]
      /\ IF f.at = "close" THEN Remove(f.handle) ELSE UNCHANGED cacheVars
      /\ Requested(f, k)
  BY SendOutcome DEF ApartIInv
<1>2. Tidy(f, call[c], closed) /\ Closes(f, call[c]) /\ 0 \notin closed
  BY TheHandles
<1>3. f \in FlowIn(minted)
  BY TheFlow DEF ApartIInv
<1>4. 0 \notin closed'
  BY DEF SysIInv, ServerIInv, Bookkeeping, CacheIInv, CacheTypeOK
<1>5. /\ f.at # "close" => closed' = closed
      /\ \A h \in closed' : h \in closed \/ h = f.handle
  BY <1>1 DEF cacheVars, Remove
<1> HIDE DEF f, k
<1>6. g.sent /\ g.at = f.at /\ g.kind = f.kind /\ g.handle = f.handle /\ g.data = f.data
      /\ g.cause = f.cause
  BY <1>3 DEF FlowIn
<1> HIDE DEF g
<1>7. /\ k.handle \in {0, f.handle} /\ (k.handle # 0 => f.at = "info" /\ f.kind = "sql")
      /\ f.at = "info" /\ f.kind = "sql" /\ k.pc # "replied" => k.handle = f.handle
  BY <1>1 DEF Requested
<1>8. Tidy(g, k, closed')
  BY <1>2, <1>4, <1>5, <1>6, <1>7 DEF Tidy, Open
<1>9. Closes(g, k)
  BY <1>1, <1>2, <1>6 DEF Closes, Requested
<1>10. \A h \in Mine(g, k) : h = 0 \/ h \in Mine(f, call[c])
  BY <1>6, <1>7 DEF Mine
<1> QED  BY <1>1, <1>5, <1>8, <1>9, <1>10, OneOwnerMoves DEF f, k

LEMMA DeliverApart ==
  ASSUME ApartIInv, SysIInv', NEW c \in Calls, Deliver(c)
  PROVE  ApartIInv'
<1> DEFINE f == flow[c]
           k == call[c]
<1>1. PICK g \in FlowIn(minted) :
        /\ Delivered(f, k, g)
        /\ flow' = [flow EXCEPT ![c] = g]
        /\ UNCHANGED <<broken, serverVars>>
  BY DeliverOutcome DEF ApartIInv
<1>2. call' = call /\ closed' = closed
  BY <1>1 DEF serverVars, cacheVars
<1>3. Tidy(f, k, closed) /\ Closes(f, k) /\ 0 \notin closed
  BY TheHandles
<1>4. /\ f \in FlowIn(minted) /\ Served(f, k) /\ Progress(f, issued)
  BY TheFlow DEF ApartIInv
<1> HIDE DEF f, k
<1>5. f.at \in {"create", "info", "get", "close"} /\ k.op = f.at /\ f.kind \in {"plain", "sql"}
  BY <1>1, <1>4, KindsAssumption DEF Delivered, Served, FlowIn
<1>6. CASE k.status # "ok"
  <2>1. g.at = "failed" /\ g.handle \in {k.handle, f.handle}
        /\ (g.handle = f.handle => f.at \notin {"create", "info"} \/ k.handle = f.handle)
    BY <1>1, <1>6 DEF Delivered
  <2>2. Tidy(g, k, closed)
    BY <1>3, <2>1 DEF Tidy, Open
  <2>3. Closes(g, k)
    BY <1>1, <1>3, <1>4, <1>5, <1>6, <2>1 DEF Closes, Delivered, Progress
  <2>4. \A h \in Mine(g, k) : h = 0 \/ h \in Mine(f, k)
    BY <2>1 DEF Mine
  <2> QED  BY <1>1, <1>2, <2>2, <2>3, <2>4, OneOwnerMoves DEF f, k
<1>7. CASE k.status = "ok"
  <2>1. g.at = IF f.at = "create" THEN "info"
               ELSE IF f.at = "info" THEN "get"
               ELSE IF f.at = "get" /\ f.kind = "sql" THEN "close" ELSE "done"
    BY <1>1, <1>5, <1>7, FollowingSteps DEF Delivered
  <2>2. ~ g.sent /\ g.kind = f.kind
        /\ g.handle = IF f.at \in {"create", "info"} THEN k.handle ELSE f.handle
    BY <1>1 DEF Delivered
  <2>3. f.at \in {"create", "info"} => k.handle # 0
    BY <1>4, <1>5, <1>7 DEF Served
  <2>4. (f.at = "create" => f.kind = "sql") /\ (f.at \in {"get", "close"} => f.handle # 0)
    BY <1>4 DEF Progress
  <2>5. Tidy(g, k, closed)
    BY <1>3, <1>5, <2>1, <2>2, <2>3, <2>4 DEF Tidy, Open
  <2>6. Closes(g, k)
    BY <2>1, <2>2 DEF Closes
  <2>7. \A h \in Mine(g, k) : h = 0 \/ h \in Mine(f, k)
    BY <2>2 DEF Mine
  <2> QED  BY <1>1, <1>2, <2>5, <2>6, <2>7, OneOwnerMoves DEF f, k
<1> QED  BY <1>6, <1>7

LEMMA DisconnectApart ==
  ASSUME ApartIInv, SysIInv', NEW c \in Calls, Disconnect(c)
  PROVE  ApartIInv'
<1> DEFINE f == flow[c]
           k == call'[c]
<1>1. PICK g \in FlowIn(minted) :
        /\ flow' = [flow EXCEPT ![c] = g]
        /\ g.at = "failed" /\ ~ g.sent /\ g.handle = f.handle /\ g.cause = "connection"
  BY DisconnectOutcome DEF ApartIInv
<1>2. UNCHANGED serverVars \/ Cancel(c)
  BY DisconnectOutcome DEF ApartIInv
<1>3. ServerIInv
  BY DEF ApartIInv, SysIInv
<1>4. /\ k = call[c] \/ k = Idle
      /\ \A d \in Calls \ {c} : call'[d] = call[d]
      /\ closed' = closed
  BY <1>2, <1>3, SetFacts DEF Cancel, serverVars, cacheVars
<1>5. Tidy(f, call[c], closed) /\ 0 \notin closed
  BY TheHandles
<1>6. k.handle = call[c].handle \/ k.handle = 0
  BY <1>4 DEF Idle
<1> HIDE DEF f, k
<1>7. Tidy(g, k, closed') /\ Closes(g, k)
  BY <1>1, <1>4, <1>5, <1>6 DEF Tidy, Closes, Open
<1>8. \A h \in Mine(g, k) : h = 0 \/ h \in Mine(f, call[c])
  BY <1>1, <1>6 DEF Mine
<1> QED  BY <1>1, <1>4, <1>7, <1>8, OneOwnerMoves DEF f, k

LEMMA WorkApart ==
  ASSUME ApartIInv, SysIInv', NEW c \in Calls, Job(c) \/ Answer(c), UNCHANGED flow
  PROVE  ApartIInv'
<1> DEFINE f == flow[c]
           a == call[c]
           k == call'[c]
<1>1. /\ a.pc \in Waiting
      /\ \A d \in Calls \ {c} : call'[d] = call[d]
      /\ PrepareDone(a, k) \/ ExecuteDone(a, k) \/ AnswerDone(a, k)
  BY WorkOutcome DEF ApartIInv
<1>2. f.sent /\ a.op = f.at /\ f.at \in {"create", "info", "get"}
  BY <1>1, WorkIsAsked DEF ApartIInv
<1>3. /\ f \in FlowIn(minted) /\ flow = [flow EXCEPT ![c] = f] /\ HandlerOK(a, issued, minted)
      /\ Progress(f, issued)
  BY TheFlow DEF ApartIInv
<1>4. Tidy(f, a, closed) /\ Closes(f, a) /\ minted \in Nat
      /\ \A h \in closed : h \in 1..minted
  BY TheHandles, NamedHandles
     DEF ApartIInv, SysIInv, ServerIInv, Bookkeeping, CacheIInv, CacheTypeOK
<1> HIDE DEF f, a, k
<1>5. a.status = "none" /\ a.pc # "replied"
  BY <1>1, <1>3 DEF HandlerOK, Course, Waiting
<1>6. f.kind \in {"plain", "sql"} /\ (f.at = "create" => f.kind = "sql")
  BY <1>3, KindsAssumption DEF FlowIn, Progress
<1>7. closed' = closed
  BY <1>1 DEF PrepareDone, ExecuteDone, AnswerDone, cacheVars
<1>8. CASE k.handle = a.handle
  <2>1. Tidy(f, k, closed')
    BY <1>4, <1>5, <1>7, <1>8 DEF Tidy
  <2>2. Closes(f, k)
    BY <1>1, <1>2, <1>4, <1>5 DEF Closes, PrepareDone, ExecuteDone, AnswerDone, Failed
  <2>3. \A h \in Mine(f, k) : h \in Mine(f, a)
    BY <1>8 DEF Mine
  <2> QED  BY <1>1, <1>3, <1>7, <2>1, <2>2, <2>3, OneOwnerMoves DEF f, a, k
<1>9. CASE k.handle # a.handle
  <2>1. /\ a.op = "create" \/ (a.op = "info" /\ a.handle = 0)
        /\ k.handle = minted + 1 /\ k.pc = "replied"
    BY <1>1, <1>9 DEF PrepareDone, ExecuteDone, AnswerDone
  <2>2. f.handle = 0 /\ (f.at = "create" \/ (f.at = "info" /\ f.kind = "plain"))
    <3>1. CASE f.at = "create"
      BY <1>4, <3>1 DEF Tidy
    <3>2. CASE f.at = "info" /\ f.kind = "plain"
      BY <1>4, <3>2 DEF Tidy
    <3>3. CASE f.at = "info" /\ f.kind = "sql"
      BY <1>2, <1>4, <1>5, <2>1, <3>3 DEF Tidy
    <3> QED  BY <1>2, <1>6, <2>1, <3>1, <3>2, <3>3
  <2>3. Tidy(f, k, closed')
    BY <1>4, <1>7, <2>1, <2>2 DEF Tidy
  <2>4. Closes(f, k)
    BY <1>4, <2>2 DEF Closes
  <2>5. \A h \in Mine(f, k) : h = 0 \/ h > minted
    BY <1>4, <2>1, <2>2 DEF Mine
  <2> QED  BY <1>1, <1>3, <1>7, <2>3, <2>4, <2>5, OneOwnerMoves DEF f, a, k
<1> QED  BY <1>8, <1>9

LEMMA ApartStep ==
  ASSUME ApartIInv, [SysNext]_sysVars
  PROVE  ApartIInv'
<1>1. SysIInv'
  BY SysStep DEF ApartIInv
<1>2. CASE UNCHANGED <<flow, call, closed>>
  BY <1>1, <1>2 DEF ApartIInv
<1>3. CASE UNCHANGED sysVars
  BY <1>2, <1>3 DEF sysVars, serverVars, cacheVars
<1>4. CASE Serve
  <2>1. ASSUME NEW q \in JobTexts, RunOrphan(q), UNCHANGED flow
        PROVE  ApartIInv'
    BY <1>2, <2>1 DEF RunOrphan, cacheVars
  <2> QED  BY <1>1, <1>4, <2>1, WorkApart DEF Serve
<1> QED  BY <1>1, <1>3, <1>4, SendApart, DeliverApart, DisconnectApart DEF SysNext

\* What a client starts from.
LEMMA FreshFlow ==
  ASSUME NEW kind, NEW q
  PROVE  LET f == Fresh(kind, q)
         IN  /\ f.kind = kind /\ f.text = q /\ ~ f.sent /\ f.handle = 0
             /\ f.data = NoSchema /\ f.cause = "none"
             /\ f.at = IF kind = "sql" THEN "create" ELSE "info"
BY DEF Fresh

LEMMA StartsApart == SysInit => ApartIInv
<1> SUFFICES ASSUME SysInit
             PROVE  ApartIInv
  OBVIOUS
<1>1. closed = {} /\ \A c \in Calls : call[c] = Idle
  BY DEF SysInit, ServerInit, CacheInit
<1>2. ASSUME NEW c \in Calls
      PROVE  /\ flow[c].handle = 0 /\ ~ flow[c].sent /\ flow[c].at \in {"create", "info"}
             /\ flow[c].at = "info" => flow[c].kind # "sql"
  <2>1. PICK kind \in Kinds, q \in Queries : flow[c] = Fresh(kind, q)
    BY DEF SysInit
  <2> QED  BY <2>1, FreshFlow
<1>3. Idle.handle = 0
  BY DEF Idle
<1>4. ASSUME NEW c \in Calls
      PROVE  /\ Tidy(flow[c], call[c], closed) /\ Closes(flow[c], call[c])
             /\ \A h \in Mine(flow[c], call[c]) : h = 0
  BY <1>1, <1>2, <1>3 DEF Tidy, Closes, Mine
<1> QED  BY <1>4, SysInitEstablishes DEF ApartIInv

-----------------------------------------------------------------------------
(* Every live handle has an owner. *)

\* What a client let go of is not live.
LetGo(f, k, live) ==
  /\ f.at = "create" \/ (f.at = "info" /\ f.kind = "plain") => f.sent \/ k.handle = 0
  /\ f.kind = "sql" /\ (f.at = "done" \/ (f.at = "close" /\ f.sent)) => f.handle \notin live
  /\ f.sent /\ f.at = "info" /\ f.kind = "sql" /\ k.handle = 0 => f.handle \notin live

OwnIInv ==
  /\ ApartIInv
  /\ \A c \in Calls : LetGo(flow[c], call[c], Live)
  /\ \A h \in Live : \E c \in Calls : h \in Mine(flow[c], call[c])

\* Every handle ever minted still has its owner, and there is room for them all.
RoomIInv ==
  /\ OwnIInv
  /\ Survival({})
  /\ \A h \in 1..minted : \E c \in Calls : h \in Mine(flow[c], call[c])
  /\ minted <= MaxPrepared

\* What happens to the handles that are live, or are not yet.
LEMMA LiveMoves ==
  ASSUME SysIInv, [SysNext]_sysVars
  PROVE  /\ Survival({}) => Survival({})'
         /\ minted \in Nat /\ minted' \in Nat /\ minted <= minted'
         /\ \A h \in Live : h \in 1..minted
         /\ \A h \in Live' : h \in 1..minted' /\ (h \in Live \/ h > minted)
<1>1. ServerIInv /\ [ServerNext]_serverVars
  BY ClientStep DEF SysIInv
<1>2. CacheIInv /\ [CacheNext]_cacheVars
  BY <1>1, ServerCacheStep DEF ServerIInv, Bookkeeping
<1>3. CacheIInv'
  BY <1>2, CacheStep
<1>4. Live \in SUBSET (1..minted) /\ (Live \in SUBSET (1..minted))'
  BY <1>2, <1>3 DEF CacheIInv, CacheTypeOK
<1>5. /\ minted \in Nat /\ minted' \in Nat /\ minted <= minted'
      /\ \A h \in Live' : h \in Live \/ h > minted
  BY <1>2, LiveIsOldOrNew
<1>6. Survival({}) => Survival({})'
  BY <1>2, SurvivalStep
<1> HIDE DEF Live
<1> QED  BY <1>4, <1>5, <1>6

\* One client and its slot move: its handles stay its own until they are gone,
\* and it gets the one that is minted.
HandlesKept(c) ==
  /\ \A d \in Calls \ {c} : flow'[d] = flow[d] /\ call'[d] = call[d]
  /\ LetGo(flow'[c], call'[c], Live')
  /\ \A h \in Mine(flow[c], call[c]) :
       h = 0 \/ h \in Mine(flow'[c], call'[c]) \/ h \notin Live \cup closed
  /\ \A h \in 1..minted' : h > minted => h \in Mine(flow'[c], call'[c])

LEMMA OneHolderMoves ==
  ASSUME OwnIInv, ApartIInv', [SysNext]_sysVars, NEW c \in Calls, HandlesKept(c)
  PROVE  OwnIInv'
<1>1. SysIInv
  BY DEF OwnIInv, ApartIInv, SysIInv
<1>2. \A d \in Calls \ {c} : flow'[d] = flow[d] /\ call'[d] = call[d]
  BY DEF HandlesKept
<1>3. /\ \A h \in Live : h \in 1..minted
      /\ \A h \in Live' : h \in 1..minted' /\ (h \in Live \/ h > minted)
      /\ minted \in Nat
  BY <1>1, LiveMoves
<1>4. ASSUME NEW d \in Calls
      PROVE  LetGo(flow'[d], call'[d], Live')
  <2>1. CASE d = c
    BY <2>1 DEF HandlesKept
  <2>2. CASE d # c
    <3>1. flow[d].handle \in 0..minted /\ LetGo(flow[d], call[d], Live)
      BY TheHandles DEF OwnIInv, Mine
    <3>2. flow[d].handle \notin Live => flow[d].handle \notin Live'
      BY <1>3, <3>1
    <3> QED  BY <1>2, <2>2, <3>1, <3>2 DEF LetGo
  <2> QED  BY <2>1, <2>2
<1>5. ASSUME NEW h \in Live'
      PROVE  \E d \in Calls : h \in Mine(flow'[d], call'[d])
  <2>1. CASE h > minted
    BY <1>3, <2>1 DEF HandlesKept
  <2>2. CASE h \in Live
    <3>1. PICK d \in Calls : h \in Mine(flow[d], call[d])
      BY <2>2 DEF OwnIInv
    <3>2. CASE d = c
      BY <1>3, <2>2, <3>1, <3>2 DEF HandlesKept
    <3>3. CASE d # c
      BY <1>2, <3>1, <3>3
    <3> QED  BY <3>2, <3>3
  <2> QED  BY <1>3, <2>1, <2>2
<1> HIDE DEF Live
<1> QED  BY <1>4, <1>5 DEF OwnIInv

\* With an entry for every client in the cache no handle is ever displaced.
Roomy == IsFiniteSet(Calls) /\ Cardinality(Calls) <= MaxPrepared

\* Clients that hold every handle, one each, are no fewer than the handles.
LEMMA HoldersAreEnough ==
  ASSUME Roomy, NEW n \in Nat, NEW fl, NEW cl,
         \A c \in Calls : fl[c].handle = 0 \/ cl[c].handle \in {0, fl[c].handle},
         \A h \in 1..n : \E c \in Calls : h \in Mine(fl[c], cl[c])
  PROVE  n <= MaxPrepared
<1> DEFINE owner == [h \in 1..n |-> CHOOSE c \in Calls : h \in Mine(fl[c], cl[c])]
<1>1. \A h \in 1..n : owner[h] \in Calls /\ h \in Mine(fl[owner[h]], cl[owner[h]])
  OBVIOUS
<1> HIDE DEF owner
<1>2. ASSUME NEW g \in 1..n, NEW h \in 1..n, owner[g] = owner[h]
      PROVE  g = h
  BY <1>1, <1>2 DEF Mine
<1>3. owner \in [1..n -> Calls]
  BY <1>1 DEF owner
<1>4. owner \in Injection(1..n, Calls)
  BY <1>2, <1>3 DEF Injection, IsInjective
<1>5. IsFiniteSet(1..n) /\ Cardinality(1..n) = IF 1 > n THEN 0 ELSE n - 1 + 1
  BY FS_Interval
<1>6. Cardinality(1..n) <= Cardinality(Calls)
  BY <1>4, FS_Injection DEF Roomy
<1>7. Cardinality(Calls) \in Nat
  BY FS_CardinalityType DEF Roomy
<1> QED  BY <1>5, <1>6, <1>7, CapacityAssumption DEF Roomy

LEMMA RoomIsLeft ==
  ASSUME Roomy, RoomIInv, OwnIInv', [SysNext]_sysVars, NEW c \in Calls, HandlesKept(c)
  PROVE  RoomIInv'
<1>1. /\ Survival({})' /\ minted \in Nat /\ minted' \in Nat /\ minted <= minted'
  BY LiveMoves DEF RoomIInv, OwnIInv, ApartIInv
<1>2. \A h \in 1..minted : h \in Live \cup closed
  BY <1>1, CapacityAssumption DEF RoomIInv, Survival
<1>3. ASSUME NEW h \in 1..minted'
      PROVE  \E d \in Calls : h \in Mine(flow'[d], call'[d])
  <2>1. CASE h > minted
    BY <2>1 DEF HandlesKept
  <2>2. CASE h \in 1..minted
    <3>1. PICK d \in Calls : h \in Mine(flow[d], call[d])
      BY <2>2 DEF RoomIInv
    <3>2. CASE d = c
      BY <1>2, <2>2, <3>1, <3>2 DEF HandlesKept
    <3>3. CASE d # c
      BY <3>1, <3>3 DEF HandlesKept
    <3> QED  BY <3>2, <3>3
  <2> QED  BY <1>1, <2>1, <2>2
<1>4. \A d \in Calls : flow'[d].handle = 0 \/ call'[d].handle \in {0, flow'[d].handle}
  BY DEF OwnIInv, ApartIInv, Tidy
<1>5. minted' <= MaxPrepared
  BY <1>1, <1>3, <1>4, HoldersAreEnough
<1> QED  BY <1>1, <1>3, <1>5 DEF RoomIInv

LEMMA SendKeeps ==
  ASSUME OwnIInv, SysIInv', NEW c \in Calls, Send(c)
  PROVE  HandlesKept(c)
<1> DEFINE f == flow[c]
           k == call'[c]
           g == [f EXCEPT !.sent = TRUE]
<1>1. /\ ~ f.sent /\ flow' = [flow EXCEPT ![c] = g]
      /\ \A d \in Calls \ {c} : call'[d] = call[d]
      /\ IF f.at = "close" THEN Remove(f.handle) ELSE UNCHANGED cacheVars
      /\ Requested(f, k)
  BY SendOutcome DEF OwnIInv, ApartIInv
<1>2. flow'[c] = g /\ \A d \in Calls \ {c} : flow'[d] = flow[d]
  BY <1>1 DEF OwnIInv, ApartIInv, SysIInv
<1>3. Tidy(f, call[c], closed) /\ LetGo(f, call[c], Live) /\ minted \in Nat /\ 0 \notin Live
  BY TheHandles DEF OwnIInv
<1>4. f \in FlowIn(minted) /\ Progress(f, issued)
  BY TheFlow DEF OwnIInv, ApartIInv
<1>5. /\ minted' = minted
      /\ Live' = IF f.at = "close" THEN Live \ {f.handle} ELSE Live
  <2>1. CASE f.at = "close"
    <3>1. minted' = minted /\ map' = [h \in Live \ {f.handle} |-> map[h]]
      BY <1>1, <2>1, Zenon DEF Remove, Remaining
    <3> QED  BY <2>1, <3>1 DEF Live
  <2>2. CASE f.at # "close"
    BY <1>1, <2>2 DEF cacheVars, Live
  <2> QED  BY <2>1, <2>2
<1> HIDE DEF f, k, Live
<1>6. g.sent /\ g.at = f.at /\ g.kind = f.kind /\ g.handle = f.handle
  BY <1>4 DEF FlowIn
<1> HIDE DEF g
<1>7. f.at = "info" /\ f.kind = "sql" /\ k.handle = 0 => f.handle \notin Live
  BY <1>1, <1>3 DEF Requested
<1>8. LetGo(g, k, Live')
  BY <1>3, <1>5, <1>6, <1>7 DEF LetGo
<1>9. \A h \in Mine(f, call[c]) : h = 0 \/ h \in Mine(g, k)
  <2>1. call[c].handle \in {0, f.handle}
    <3>1. f.kind \in {"plain", "sql"}
      BY <1>4, KindsAssumption DEF FlowIn
    <3> QED  BY <1>1, <1>3, <1>4, <3>1 DEF Tidy, LetGo, Requested, Progress
  <2> QED  BY <1>6, <2>1 DEF Mine
<1> QED  BY <1>1, <1>2, <1>3, <1>5, <1>8, <1>9 DEF HandlesKept, f, k

LEMMA DeliverKeeps ==
  ASSUME OwnIInv, SysIInv', NEW c \in Calls, Deliver(c)
  PROVE  HandlesKept(c)
<1> DEFINE f == flow[c]
           k == call[c]
<1>1. PICK g \in FlowIn(minted) :
        /\ Delivered(f, k, g)
        /\ flow' = [flow EXCEPT ![c] = g]
        /\ UNCHANGED <<broken, serverVars>>
  BY DeliverOutcome DEF OwnIInv, ApartIInv
<1>2. /\ call' = call /\ minted' = minted /\ Live' = Live
      /\ flow'[c] = g /\ \A d \in Calls \ {c} : flow'[d] = flow[d]
  BY <1>1 DEF serverVars, cacheVars, Live, OwnIInv, ApartIInv, SysIInv
<1>3. /\ Tidy(f, k, closed) /\ LetGo(f, k, Live) /\ minted \in Nat /\ 0 \notin Live
      /\ Closes(f, k)
  BY TheHandles DEF OwnIInv
<1>4. f \in FlowIn(minted) /\ Served(f, k) /\ Progress(f, issued)
  BY TheFlow DEF OwnIInv, ApartIInv
<1> HIDE DEF f, k, Live
<1>5. f.at \in {"create", "info", "get", "close"} /\ k.op = f.at /\ f.kind \in {"plain", "sql"}
      /\ f.sent
  BY <1>1, <1>4, KindsAssumption DEF Delivered, Served, FlowIn
<1>6. g.kind = f.kind /\ ~ g.sent
      /\ g.handle = IF f.at \in {"create", "info"} THEN k.handle ELSE f.handle
  BY <1>1 DEF Delivered
<1>7. LetGo(g, k, Live)
  <2>1. CASE k.status # "ok"
    <3>1. g.at = "failed"
      BY <1>1, <2>1 DEF Delivered
    <3> QED  BY <3>1, <1>6 DEF LetGo
  <2>2. CASE k.status = "ok"
    <3>1. g.at = IF f.at = "create" THEN "info"
                 ELSE IF f.at = "info" THEN "get"
                 ELSE IF f.at = "get" /\ f.kind = "sql" THEN "close" ELSE "done"
      BY <1>1, <1>5, <2>2, FollowingSteps DEF Delivered
    <3>2. f.at = "create" => f.kind = "sql"
      BY <1>4 DEF Progress
    <3> QED  BY <1>3, <1>5, <1>6, <3>1, <3>2 DEF LetGo
  <2> QED  BY <2>1, <2>2
<1>8. \A h \in Mine(f, k) : h = 0 \/ h \in Mine(g, k) \/ h \notin Live \cup closed
  <2>1. CASE g.handle = f.handle
    BY <2>1 DEF Mine
  <2>2. CASE g.handle # f.handle
    <3>1. f.at \in {"create", "info"} /\ g.handle = k.handle
      BY <1>6, <2>2
    <3>2. f.handle # 0 => f.handle \notin Live \cup closed
      BY <1>3, <1>5, <2>2, <3>1 DEF Tidy, LetGo, Open
    <3> QED  BY <3>1, <3>2 DEF Mine
  <2> QED  BY <2>1, <2>2
<1> QED  BY <1>1, <1>2, <1>3, <1>7, <1>8 DEF HandlesKept, f, k

LEMMA DisconnectKeeps ==
  ASSUME OwnIInv, SysIInv', NEW c \in Calls, Disconnect(c)
  PROVE  HandlesKept(c)
<1> DEFINE f == flow[c]
           a == call[c]
           k == call'[c]
<1>1. PICK g \in FlowIn(minted) :
        /\ flow' = [flow EXCEPT ![c] = g]
        /\ g.at = "failed" /\ ~ g.sent /\ g.handle = f.handle
  BY DisconnectOutcome DEF OwnIInv, ApartIInv
<1>2. UNCHANGED serverVars \/ Cancel(c)
  BY DisconnectOutcome DEF OwnIInv, ApartIInv
<1>3. ServerIInv /\ minted \in Nat
  BY NamedHandles DEF OwnIInv, ApartIInv, SysIInv
<1>4. /\ k = a \/ (k = Idle /\ a.pc \in Waiting)
      /\ \A d \in Calls \ {c} : call'[d] = call[d]
      /\ minted' = minted
  BY <1>2, <1>3, SetFacts DEF Cancel, serverVars, cacheVars
<1>5. flow'[c] = g /\ \A d \in Calls \ {c} : flow'[d] = flow[d]
  BY <1>1 DEF OwnIInv, ApartIInv, SysIInv
<1>6. Tidy(f, a, closed)
  BY TheHandles DEF OwnIInv
<1>7. a.pc \in Waiting => a.pc # "replied" /\ f.sent /\ f.at \in {"create", "info", "get"}
  BY WorkIsAsked DEF OwnIInv, ApartIInv, Waiting
<1>8. f.kind \in {"plain", "sql"} /\ Progress(f, issued)
  BY TheFlow, KindsAssumption DEF OwnIInv, ApartIInv, FlowIn
<1>9. Idle.handle = 0
  BY DEF Idle
<1> HIDE DEF f, a, k
<1>10. a.pc \in Waiting => a.handle \in {0, f.handle}
  BY <1>6, <1>7, <1>8 DEF Tidy, Progress
<1>11. \A h \in Mine(f, a) : h = 0 \/ h \in Mine(g, k)
  BY <1>1, <1>4, <1>9, <1>10 DEF Mine
<1>12. LetGo(g, k, Live')
  BY <1>1 DEF LetGo
<1> QED  BY <1>3, <1>4, <1>5, <1>11, <1>12 DEF HandlesKept, f, a, k

LEMMA WorkKeeps ==
  ASSUME OwnIInv, SysIInv', NEW c \in Calls, Job(c) \/ Answer(c), UNCHANGED <<flow, broken>>
  PROVE  HandlesKept(c)
<1> DEFINE f == flow[c]
           a == call[c]
           k == call'[c]
<1>1. /\ a.pc \in Waiting
      /\ \A d \in Calls \ {c} : call'[d] = call[d]
      /\ PrepareDone(a, k) \/ ExecuteDone(a, k) \/ AnswerDone(a, k)
  BY WorkOutcome DEF OwnIInv, ApartIInv
<1>2. f.sent /\ a.op = f.at /\ f.at \in {"create", "info", "get"}
  BY <1>1, WorkIsAsked DEF OwnIInv, ApartIInv
<1>3. HandlerOK(a, issued, minted) /\ minted \in Nat
  BY TheFlow DEF OwnIInv, ApartIInv
<1>4. Tidy(f, a, closed)
  BY TheHandles DEF OwnIInv
<1> HIDE DEF f, a, k
<1>5. a.pc # "replied"
  BY <1>1 DEF Waiting
<1>6. f.at = "info" /\ f.kind = "sql" => f.handle # 0 /\ a.handle = f.handle
  BY <1>2, <1>4, <1>5 DEF Tidy
<1>7. \/ k.handle = a.handle /\ minted' = minted
      \/ k.handle = minted + 1 /\ minted' = minted + 1 /\ a.handle = 0
  <2>1. CASE UNCHANGED cacheVars /\ k.handle = a.handle
    BY <2>1 DEF cacheVars
  <2>2. CASE /\ a.op = "create" \/ (a.op = "info" /\ a.handle = 0)
             /\ minted' = minted + 1 /\ k.handle = minted'
    <3>1. a.handle = 0
      BY <1>2, <1>4, <1>5, <2>2 DEF Tidy
    <3> QED  BY <2>2, <3>1
  <2> QED  BY <1>1, <2>1, <2>2 DEF PrepareDone, ExecuteDone, AnswerDone
<1>8. LetGo(f, k, Live')
  BY <1>2, <1>3, <1>6, <1>7 DEF LetGo
<1>9. \A h \in Mine(f, a) : h = 0 \/ h \in Mine(f, k)
  BY <1>7 DEF Mine
<1>10. \A h \in 1..minted' : h > minted => h \in Mine(f, k)
  BY <1>3, <1>7 DEF Mine
<1> QED  BY <1>1, <1>8, <1>9, <1>10 DEF HandlesKept, f, a, k

\* A step either leaves the clients' handles alone or moves one client.
LEMMA OwnStep ==
  ASSUME OwnIInv, [SysNext]_sysVars
  PROVE  OwnIInv' /\ (Roomy /\ RoomIInv => RoomIInv')
<1>1. ApartIInv' /\ SysIInv'
  BY ApartStep DEF OwnIInv, ApartIInv
<1>2. ASSUME NEW c \in Calls, HandlesKept(c)
      PROVE  OwnIInv' /\ (Roomy /\ RoomIInv => RoomIInv')
  BY <1>1, <1>2, OneHolderMoves, RoomIsLeft
<1>3. CASE UNCHANGED <<flow, call, cacheVars>>
  BY <1>1, <1>3 DEF OwnIInv, RoomIInv, Survival, Live, cacheVars
<1>4. CASE UNCHANGED sysVars
  BY <1>3, <1>4 DEF sysVars, serverVars
<1>5. CASE Serve
  <2>1. ASSUME NEW q \in JobTexts, RunOrphan(q), UNCHANGED flow
        PROVE  UNCHANGED <<flow, call, cacheVars>>
    BY <2>1 DEF RunOrphan
  <2> QED  BY <1>1, <1>2, <1>3, <1>5, <2>1, WorkKeeps DEF Serve
<1> QED
  BY <1>1, <1>2, <1>4, <1>5, SendKeeps, DeliverKeeps, DisconnectKeeps DEF SysNext

LEMMA StartsOwned == SysInit => RoomIInv
<1> SUFFICES ASSUME SysInit
             PROVE  RoomIInv
  OBVIOUS
<1>1. /\ minted = 0 /\ Live = {} /\ \A c \in Calls : call[c] = Idle
  BY DEF SysInit, ServerInit, CacheInit, Live
<1>2. ASSUME NEW c \in Calls
      PROVE  LetGo(flow[c], call[c], Live)
  <2>1. Idle.handle = 0
    BY DEF Idle
  <2> QED  BY <1>1, <2>1 DEF LetGo
<1> HIDE DEF Live
<1> QED  BY <1>1, <1>2, StartsApart, CapacityAssumption DEF RoomIInv, OwnIInv, Survival

\* Every live handle is held by a client, and by none whose sql flow is finished:
\* that flow has closed the one handle it opened, whatever broke and in whatever
\* order the RPCs came, with an engine that fails or one that does not.
THEOREM NoHandleIsOrphaned == SysSpec => []LiveHandlesHaveOwners
<1>1. OwnIInv /\ [SysNext]_sysVars => OwnIInv'
  BY OwnStep
<1>2. SysInit => OwnIInv
  BY StartsOwned DEF RoomIInv
<1>3. OwnIInv => LiveHandlesHaveOwners
  <2> SUFFICES ASSUME OwnIInv, NEW h \in Live
               PROVE  \E c \in Calls : /\ h \in {flow[c].handle, call[c].handle}
                                       /\ ~ (flow[c].kind = "sql" /\ Done(c))
    BY DEF LiveHandlesHaveOwners
  <2>1. PICK c \in Calls : h \in Mine(flow[c], call[c])
    BY DEF OwnIInv
  <2>2. LetGo(flow[c], call[c], Live) /\ Tidy(flow[c], call[c], closed) /\ 0 \notin Live
        /\ Progress(flow[c], issued)
    BY TheHandles, TheFlow DEF OwnIInv, ApartIInv
  <2> HIDE DEF Live
  <2>3. ASSUME flow[c].kind = "sql", Done(c)
        PROVE  FALSE
    BY <2>1, <2>2, <2>3 DEF LetGo, Tidy, Mine, Done
  <2> QED  BY <2>1, <2>3 DEF Mine
<1> QED  BY <1>1, <1>2, <1>3, PTL DEF SysSpec

-----------------------------------------------------------------------------
(* Why flows fail, on an engine without faults and with tables that stay. *)

Displaced(h, n) == h # 0 /\ h + MaxPrepared <= n

\* The flow has failed, or is about to.
Troubled(f, k) ==
  \/ f.sent /\ k.pc = "executed" /\ Failed(k)
  \/ f.sent /\ k.pc = "replied" /\ k.status # "ok"
  \/ f.at = "failed" /\ f.cause # "connection"

Rival(c) == \E d \in Calls \ {c} : Writes(flow[d].text)

\* The statement cannot run, if tables stay as they are.
NoTable(q) == q # "constant" /\ ~ db.exists

\* The reasons there are for it.  Under `strict` the writer that a write met is
\* one of the other flows; clients that query again may also meet a job of their
\* own, left behind by a query before.
Excused(c, strict) ==
  \/ NoTable(flow[c].text)
  \/ Displaced(call[c].want, minted)
  \/ Writes(flow[c].text) /\ (strict => Rival(c))

CauseIInv(strict) ==
  /\ ApartIInv
  /\ Survival({})
  /\ \A c \in Calls :
       /\ call[c].pc \in Waiting /\ call[c].text = "garbage" => Displaced(call[c].want, minted)
       /\ Troubled(flow[c], call[c]) => Excused(c, strict)
  /\ strict => \A p \in JobTexts : Writes(p) /\ orphans[p] > 0 =>
                 \E d \in Calls : flow[d].text = p /\ flow[d].at = "failed"

LEMMA TheCauses ==
  ASSUME NEW strict, CauseIInv(strict), NEW c \in Calls
  PROVE  /\ ApartIInv /\ SysIInv /\ Survival({})
         /\ call[c].pc \in Waiting /\ call[c].text = "garbage" => Displaced(call[c].want, minted)
         /\ Troubled(flow[c], call[c]) => Excused(c, strict)
BY DEF CauseIInv, ApartIInv

\* The statement a handler works on.
LEMMA StatementOfFlow ==
  ASSUME SysIInv, NEW c \in Calls, call[c].pc \in Waiting
  PROVE  /\ call[c].text \in {flow[c].text, "garbage"} /\ call[c].text \in JobTexts
         /\ flow[c].text \in Queries
         /\ Writes(call[c].text) => call[c].text = flow[c].text
<1>1. flow[c].sent /\ call[c].op = flow[c].at /\ flow[c].at \in {"create", "info", "get"}
  BY WorkIsAsked
<1>2. /\ Served(flow[c], call[c]) /\ Progress(flow[c], issued) /\ flow[c] \in FlowIn(minted)
      /\ call[c] \in HandlerIn(minted) /\ HandlerOK(call[c], issued, minted)
  BY TheFlow
<1>3. call[c].pc # "replied" /\ flow[c].text \in Queries /\ call[c].text \in JobTexts
  BY <1>2 DEF Waiting, FlowIn, HandlerIn
<1>4. CASE flow[c].at \in {"create", "info"}
  BY <1>1, <1>2, <1>3, <1>4 DEF Served, Writes
<1>5. CASE flow[c].at = "get"
  <2>1. call[c].want = flow[c].handle /\ flow[c].handle # 0 /\ issued[flow[c].handle] = flow[c].text
    BY <1>1, <1>2, <1>5 DEF Served, Progress
  <2>2. call[c].text \in {issued[call[c].want], "garbage"}
    BY <1>2, <1>3, <2>1 DEF HandlerOK, Meaning
  <2> QED  BY <1>3, <2>1, <2>2 DEF Writes
<1> QED  BY <1>1, <1>4, <1>5

\* A flow's handle that is not in the cache was displaced.
LEMMA GoneIsDisplaced ==
  ASSUME ApartIInv, Survival({}), NEW c \in Calls, Open(flow[c]), flow[c].handle # 0,
         flow[c].handle \notin Live
  PROVE  Displaced(flow[c].handle, minted)
<1>1. flow[c].handle \in 0..minted /\ flow[c].handle \notin closed /\ minted \in Nat
  BY TheHandles DEF Tidy, Mine
<1>2. flow[c].handle \in 1..minted
  BY <1>1
<1> HIDE DEF Live
<1> QED  BY <1>1, <1>2 DEF Survival, Displaced

\* A job without faults fails because its statement does not bind, or it meets a
\* writer.
LEMMA WhyJobsFail ==
  ASSUME Faults = FALSE, SysIInv, NEW c \in Calls, Job(c) \/ Answer(c),
         ExecuteDone(call[c], call'[c]), Failed(call'[c])
  PROVE  ~ Binds(call[c].text) \/ Contended(call[c].text, Calls \ {c}, orphans)
<1> DEFINE a == call[c]
           q == a.text
           k == [a EXCEPT !.pc = "executed", !.ran = @ + 1]
           effect == [k EXCEPT !.wrote = @ + (IF Writes(q) THEN 1 ELSE 0)]
           good == [effect EXCEPT !.schema = Returned(q)]
<1>1. a.pc = "execute"
  BY DEF ExecuteDone
<1>2. Execute(c)
  BY <1>1 DEF Job, Answer, Prepare, AnswerInfo, AnswerCreate, AnswerQuery, AnswerList, Ready
<1>3. \/ Binds(q) /\ Set(c, good)
      \/ ~ Binds(q) \/ Contended(q, Calls \ {c}, orphans)
  BY <1>2, Zenon DEF Execute
<1>4. ServerIInv /\ a \in HandlerIn(minted)
  BY TheFlow
<1>5. q \in JobTexts
  BY <1>4 DEF HandlerIn
<1>6. good.schema = Returned(q) /\ Returned(q) # NoSchema
  BY <1>4, <1>5, EngineFacts DEF HandlerIn
<1> HIDE DEF good
<1>7. CASE Set(c, good)
  BY <1>4, <1>6, <1>7, SetFacts DEF Failed
<1> QED  BY <1>3, <1>7

\* One client and its slot move, and what is left behind is known.
LEMMA OneCauseMoves ==
  ASSUME Quiet, NEW strict \in BOOLEAN, CauseIInv(strict), ApartIInv', [SysNext]_sysVars,
         NEW c \in Calls, NEW g, flow' = [flow EXCEPT ![c] = g], g.text = flow[c].text,
         \A d \in Calls \ {c} : call'[d] = call[d],
         call'[c].pc \in Waiting /\ call'[c].text = "garbage" => Displaced(call'[c].want, minted),
         Troubled(g, call'[c]) =>
           \/ NoTable(g.text)
           \/ Displaced(call'[c].want, minted)
           \/ Writes(g.text) /\ (strict => Rival(c)),
         flow[c].at = "failed" => g.at = "failed",
         \A p \in JobTexts : Writes(p) /\ orphans'[p] > 0 =>
           orphans[p] > 0 \/ (g.text = p /\ g.at = "failed")
  PROVE  CauseIInv(strict)'
<1>1. flow \in [Calls -> FlowIn(minted)] /\ SysIInv
  BY DEF CauseIInv, ApartIInv, SysIInv
<1>2. flow'[c] = g /\ \A d \in Calls \ {c} : flow'[d] = flow[d]
  BY <1>1
<1>3. /\ Survival({})' /\ minted \in Nat /\ minted' \in Nat /\ minted <= minted'
      /\ db'.exists = db.exists
  BY <1>1, LiveMoves, TableStays DEF CauseIInv
<1>4. \A d \in Calls : Rival(d) => Rival(d)'
  BY <1>2 DEF Rival
<1>5. ASSUME NEW d \in Calls
      PROVE  call[d].want \in Nat /\ call'[d].want \in Nat
  <2>1. call[d] \in HandlerIn(minted)
    BY <1>1, TheFlow
  <2>2. call'[d] \in HandlerIn(minted')
    BY DEF ApartIInv, SysIInv, ServerIInv
  <2> QED  BY <1>3, <2>1, <2>2 DEF HandlerIn
<1>6. \A h \in Nat : Displaced(h, minted) => Displaced(h, minted')
  BY <1>3, CapacityAssumption DEF Displaced
<1>7. ASSUME NEW d \in Calls
      PROVE  /\ call'[d].pc \in Waiting /\ call'[d].text = "garbage"
                  => Displaced(call'[d].want, minted')
             /\ Troubled(flow'[d], call'[d]) => Excused(d, strict)'
  <2>1. CASE d = c
    BY <1>2, <1>3, <1>4, <1>5, <1>6, <2>1 DEF Excused, NoTable
  <2>2. CASE d # c
    <3>1. flow'[d] = flow[d] /\ call'[d] = call[d]
      BY <1>2, <2>2
    <3>2. /\ call[d].pc \in Waiting /\ call[d].text = "garbage" => Displaced(call[d].want, minted)
          /\ Troubled(flow[d], call[d]) => Excused(d, strict)
      BY TheCauses
    <3> QED  BY <1>3, <1>4, <1>5, <1>6, <3>1, <3>2 DEF Excused, NoTable
  <2> QED  BY <2>1, <2>2
<1>8. ASSUME strict, NEW p \in JobTexts, Writes(p), orphans'[p] > 0
      PROVE  \E d \in Calls : flow'[d].text = p /\ flow'[d].at = "failed"
  <2>1. CASE orphans[p] > 0
    <3>1. PICK d \in Calls : flow[d].text = p /\ flow[d].at = "failed"
      BY <1>8, <2>1 DEF CauseIInv
    <3> QED  BY <1>2, <3>1
  <2>2. CASE g.text = p /\ g.at = "failed"
    BY <1>2, <2>2
  <2> QED  BY <1>8, <2>1, <2>2
<1> QED  BY <1>3, <1>7, <1>8 DEF CauseIInv

LEMMA SendExcused ==
  ASSUME Quiet, NEW strict \in BOOLEAN, CauseIInv(strict), ApartIInv', NEW c \in Calls, Send(c)
  PROVE  CauseIInv(strict)'
<1> DEFINE f == flow[c]
           k == call'[c]
           g == [f EXCEPT !.sent = TRUE]
<1>1. /\ ~ f.sent /\ flow' = [flow EXCEPT ![c] = g]
      /\ f.at \in {"create", "info", "get", "close"}
      /\ \A d \in Calls \ {c} : call'[d] = call[d]
      /\ UNCHANGED orphans /\ Requested(f, k)
  BY SendOutcome, TheCauses
<1>2. f \in FlowIn(minted) /\ Progress(f, issued)
  BY TheFlow, TheCauses
<1>3. Tidy(f, call[c], closed)
  BY TheHandles, TheCauses
<1>4. f.text # "garbage"
  BY <1>2, QueriesAssumption DEF FlowIn, Statements
<1>5. Open(f)
  BY <1>1 DEF Open
<1>6. f.handle # 0 /\ f.handle \notin Live => Displaced(f.handle, minted)
  BY <1>5, GoneIsDisplaced, TheCauses
<1> HIDE DEF f, k, Live
<1>7. g.sent /\ g.at = f.at /\ g.text = f.text
  BY <1>2 DEF FlowIn
<1> HIDE DEF g
<1>8. k.pc \in Waiting /\ k.text = "garbage" => Displaced(k.want, minted)
  <2>1. ASSUME k.pc \in Waiting, k.text = "garbage"
        PROVE  Displaced(k.want, minted)
    <3>1. k.pc = "execute" /\ f.at = "get" /\ k.want = f.handle /\ f.handle \notin Live
      BY <1>1, <1>4, <2>1 DEF Requested, Waiting
    <3> QED  BY <1>2, <1>6, <3>1 DEF Progress
  <2> QED  BY <2>1
<1>9. Troubled(g, k) => Displaced(k.want, minted)
  <2>1. ASSUME Troubled(g, k)
        PROVE  Displaced(k.want, minted)
    <3>1. k.pc = "replied" /\ k.status # "ok"
      BY <1>1, <1>7, <2>1 DEF Troubled, Requested
    <3>2. f.at = "info" /\ f.kind = "sql" /\ k.want = f.handle /\ f.handle \notin Live
      BY <1>1, <3>1 DEF Requested
    <3> QED  BY <1>3, <1>6, <3>2 DEF Tidy
  <2> QED  BY <2>1
<1>10. [SysNext]_sysVars
  BY DEF SysNext
<1> QED  BY <1>1, <1>7, <1>8, <1>9, <1>10, OneCauseMoves DEF f, k

LEMMA DeliverExcused ==
  ASSUME Quiet, NEW strict \in BOOLEAN, CauseIInv(strict), ApartIInv', NEW c \in Calls,
         Deliver(c)
  PROVE  CauseIInv(strict)'
<1> DEFINE f == flow[c]
           k == call[c]
<1>1. PICK g \in FlowIn(minted) :
        /\ Delivered(f, k, g)
        /\ flow' = [flow EXCEPT ![c] = g]
        /\ UNCHANGED <<broken, serverVars>>
  BY DeliverOutcome, TheCauses
<1>2. call' = call /\ orphans' = orphans
  BY <1>1 DEF serverVars
<1>3. f \in FlowIn(minted) /\ Served(f, k)
  BY TheFlow, TheCauses
<1>4. /\ k.pc \in Waiting /\ k.text = "garbage" => Displaced(k.want, minted)
      /\ Troubled(f, k) => Excused(c, strict)
  BY TheCauses
<1>5. Excused(c, strict) =>
        NoTable(f.text) \/ Displaced(k.want, minted) \/ (Writes(f.text) /\ (strict => Rival(c)))
  BY DEF Excused
<1> HIDE DEF f, k
<1>6. g.text = f.text /\ ~ g.sent /\ f.sent /\ k.pc = "replied" /\ f.at # "failed"
  BY <1>1, <1>3 DEF Delivered, Served
<1>7. Troubled(g, k) => Troubled(f, k)
  <2>1. CASE k.status = "ok"
    <3>1. g.at # "failed"
      <4>1. f.at \in {"create", "info", "get", "close"} /\ f.kind \in {"plain", "sql"}
        BY <1>3, <1>6, KindsAssumption DEF Served, FlowIn
      <4> QED  BY <1>1, <2>1, <4>1, FollowingSteps DEF Delivered
    <3> QED  BY <1>6, <3>1 DEF Troubled
  <2>2. CASE k.status # "ok"
    BY <1>6, <2>2 DEF Troubled
  <2> QED  BY <2>1, <2>2
<1>8. Troubled(g, k) =>
        NoTable(g.text) \/ Displaced(k.want, minted) \/ (Writes(g.text) /\ (strict => Rival(c)))
  BY <1>4, <1>5, <1>6, <1>7
<1>9. [SysNext]_sysVars
  BY DEF SysNext
<1> QED  BY <1>1, <1>2, <1>4, <1>6, <1>8, <1>9, OneCauseMoves DEF f, k

LEMMA DisconnectExcused ==
  ASSUME Quiet, NEW strict \in BOOLEAN, CauseIInv(strict), ApartIInv', NEW c \in Calls,
         Disconnect(c)
  PROVE  CauseIInv(strict)'
<1> DEFINE f == flow[c]
           a == call[c]
           k == call'[c]
<1>1. PICK g \in FlowIn(minted) :
        /\ flow' = [flow EXCEPT ![c] = g]
        /\ g.at = "failed" /\ ~ g.sent /\ g.text = f.text /\ g.cause = "connection"
  BY DisconnectOutcome, TheCauses
<1>2. UNCHANGED serverVars \/ Cancel(c)
  BY DisconnectOutcome, TheCauses
<1>3. ServerIInv /\ a \in HandlerIn(minted)
  BY TheFlow, TheCauses
<1>4. /\ k = a \/ k = Idle
      /\ \A d \in Calls \ {c} : call'[d] = call[d]
  BY <1>2, <1>3, SetFacts DEF Cancel, serverVars
<1>5. a.pc \in Waiting /\ Writes(a.text) => a.text = f.text
  BY StatementOfFlow, TheCauses
<1>6. ASSUME NEW p \in JobTexts, Writes(p), orphans'[p] > 0
      PROVE  orphans[p] > 0 \/ p = f.text
  <2>1. \/ orphans' = orphans
        \/ a.pc \in Waiting /\ orphans' = [orphans EXCEPT ![a.text] = @ + 1]
    BY <1>2 DEF Cancel, serverVars
  <2>2. orphans \in [JobTexts -> Nat]
    BY <1>3 DEF ServerIInv, Surroundings
  <2> QED  BY <1>5, <1>6, <2>1, <2>2
<1>7. k.pc \in Waiting /\ k.text = "garbage" => Displaced(k.want, minted)
  <2>1. Idle.pc \notin Waiting
    BY DEF Idle, Waiting
  <2> QED  BY <1>4, <2>1, TheCauses
<1> HIDE DEF f, a, k
<1>8. ~ Troubled(g, k)
  BY <1>1 DEF Troubled
<1>9. [SysNext]_sysVars
  BY DEF SysNext
<1> QED  BY <1>1, <1>4, <1>6, <1>7, <1>8, <1>9, OneCauseMoves DEF f, k

LEMMA WorkExcused ==
  ASSUME Quiet, NEW strict \in BOOLEAN, CauseIInv(strict), ApartIInv', NEW c \in Calls,
         Job(c) \/ Answer(c), UNCHANGED <<flow, broken>>
  PROVE  CauseIInv(strict)'
<1> DEFINE f == flow[c]
           a == call[c]
           k == call'[c]
<1>1. /\ a.pc \in Waiting
      /\ \A d \in Calls \ {c} : call'[d] = call[d]
      /\ PrepareDone(a, k) \/ ExecuteDone(a, k) \/ AnswerDone(a, k)
  BY WorkOutcome, TheCauses
<1>2. f.sent /\ f.at \in {"create", "info", "get"}
  BY <1>1, WorkIsAsked, TheCauses
<1>3. ServerIInv /\ HandlerOK(a, issued, minted) /\ flow = [flow EXCEPT ![c] = f]
  BY TheFlow, TheCauses
<1>4. /\ a.text \in {f.text, "garbage"} /\ a.text \in JobTexts /\ f.text \in Queries
      /\ Writes(a.text) => a.text = f.text
  BY <1>1, StatementOfFlow, TheCauses
<1>5. k.want = a.want /\ k.text = a.text /\ orphans' = orphans
  BY <1>1 DEF PrepareDone, ExecuteDone, AnswerDone
<1>6. a.text = "garbage" => Displaced(a.want, minted)
  BY <1>1, TheCauses
<1>7. Troubled(f, a) =>
        NoTable(f.text) \/ Displaced(a.want, minted) \/ (Writes(f.text) /\ (strict => Rival(c)))
  BY TheCauses DEF Excused
<1>8. ASSUME ExecuteDone(a, k), Failed(k)
      PROVE  NoTable(f.text) \/ Displaced(a.want, minted) \/ (Writes(f.text) /\ (strict => Rival(c)))
  <2>1. ~ Binds(a.text) \/ Contended(a.text, Calls \ {c}, orphans)
    BY <1>8, WhyJobsFail, TheCauses DEF Quiet
  <2>2. CASE ~ Binds(a.text)
    <3>1. \/ a.text \in {"match", "constant", "insert", "insert_returning"} /\ a.text = f.text
          \/ a.text = "garbage"
      BY <1>4 DEF Quiet
    <3> QED  BY <1>6, <2>2, <3>1 DEF Binds, NoTable
  <2>3. CASE Contended(a.text, Calls \ {c}, orphans)
    <3>1. Writes(f.text)
      BY <1>4, <2>3 DEF Contended
    <3>2. ASSUME strict
          PROVE  Rival(c)
      <4>1. CASE \E d \in Calls \ {c} : call[d].pc = "execute" /\ Writes(call[d].text)
        <5>1. PICK d \in Calls \ {c} : call[d].pc = "execute" /\ Writes(call[d].text)
          BY <4>1
        <5>2. call[d].pc \in Waiting
          BY <5>1 DEF Waiting
        <5>3. call[d].text = flow[d].text
          BY <5>1, <5>2, StatementOfFlow, TheCauses
        <5> QED  BY <5>1, <5>3 DEF Rival
      <4>2. CASE \E p \in JobTexts : orphans[p] > 0 /\ Writes(p)
        <5>1. PICK d \in Calls : Writes(flow[d].text) /\ flow[d].at = "failed"
          BY <3>2, <4>2 DEF CauseIInv
        <5> QED  BY <1>2, <5>1 DEF Rival
      <4> QED  BY <2>3, <4>1, <4>2 DEF Contended
    <3> QED  BY <3>1, <3>2
  <2> QED  BY <2>1, <2>2, <2>3
<1> HIDE DEF f, a, k
<1>9. k.pc \in Waiting /\ k.text = "garbage" => Displaced(k.want, minted)
  BY <1>5, <1>6
<1>10. ASSUME Troubled(f, k)
       PROVE  NoTable(f.text) \/ Displaced(k.want, minted) \/ (Writes(f.text) /\ (strict => Rival(c)))
  <2>1. CASE PrepareDone(a, k)
    BY <1>2, <1>10, <2>1 DEF Troubled, PrepareDone
  <2>2. CASE ExecuteDone(a, k)
    <3>1. Failed(k)
      BY <1>2, <1>10, <2>2 DEF Troubled, ExecuteDone
    <3> QED  BY <1>5, <1>8, <2>2, <3>1
  <2>3. CASE AnswerDone(a, k)
    <3>1. Failed(a) /\ a.pc \in {"prepared", "executed"}
      BY <1>2, <1>10, <2>3 DEF Troubled, AnswerDone, Quiet
    <3>2. a.pc = "executed"
      BY <1>3, <3>1 DEF HandlerOK, Results
    <3>3. Troubled(f, a)
      BY <1>2, <3>1, <3>2 DEF Troubled
    <3> QED  BY <1>5, <1>7, <3>3
  <2> QED  BY <1>1, <2>1, <2>2, <2>3
<1>11. [SysNext]_sysVars
  BY DEF SysNext, Serve
<1>12. flow' = [flow EXCEPT ![c] = f]
  BY <1>3
<1> QED  BY <1>1, <1>2, <1>5, <1>9, <1>10, <1>11, <1>12, OneCauseMoves DEF f, k

LEMMA CauseStep ==
  ASSUME Quiet, NEW strict \in BOOLEAN, CauseIInv(strict), [SysNext]_sysVars
  PROVE  CauseIInv(strict)'
<1>1. ApartIInv' /\ SysIInv
  BY ApartStep DEF CauseIInv, ApartIInv
<1>2. ASSUME UNCHANGED <<flow, call, cacheVars>>, db'.exists = db.exists,
             \A p \in JobTexts : orphans'[p] > 0 => orphans[p] > 0
      PROVE  CauseIInv(strict)'
  <2>1. minted' = minted /\ Survival({})'
    BY <1>2 DEF cacheVars, Survival, Live, CauseIInv
  <2>2. ASSUME NEW c \in Calls
        PROVE  Excused(c, strict) => Excused(c, strict)'
    BY <1>2, <2>1 DEF Excused, Rival, NoTable
  <2> QED  BY <1>1, <1>2, <2>1, <2>2 DEF CauseIInv
<1>3. CASE UNCHANGED sysVars
  BY <1>2, <1>3 DEF sysVars, serverVars
<1>4. CASE Serve
  <2>1. ASSUME NEW q \in JobTexts, RunOrphan(q), UNCHANGED flow
        PROVE  CauseIInv(strict)'
    <3>1. /\ orphans \in [JobTexts -> Nat]
          /\ orphans' = [orphans EXCEPT ![q] = @ - 1]
          /\ UNCHANGED <<call, cacheVars>>
      BY <1>1, <2>1 DEF RunOrphan, SysIInv, ServerIInv, Surroundings
    <3>2. db'.exists = db.exists
      BY <1>1, TableStays
    <3> QED  BY <1>2, <2>1, <3>1, <3>2
  <2> QED  BY <1>1, <1>4, <2>1, WorkExcused DEF Serve
<1> QED
  BY <1>1, <1>3, <1>4, SendExcused, DeliverExcused, DisconnectExcused DEF SysNext

LEMMA NoTableNoBinding ==
  ASSUME Quiet, SysIInv, NEW c \in Calls, NoTable(flow[c].text)
  PROVE  ~ Binds(flow[c].text)
<1>1. flow[c].text \in Queries
  BY TheFlow DEF FlowIn
<1> QED  BY <1>1 DEF Quiet, NoTable, Binds

LEMMA StartsExcused ==
  ASSUME NEW strict \in BOOLEAN, SysInit
  PROVE  CauseIInv(strict)
<1>1. ASSUME NEW c \in Calls
      PROVE  call[c].pc \notin Waiting /\ ~ Troubled(flow[c], call[c])
  <2>1. PICK kind \in Kinds, q \in Queries : flow[c] = Fresh(kind, q)
    BY DEF SysInit
  <2>2. ~ flow[c].sent /\ flow[c].at # "failed"
    BY <2>1, FreshFlow
  <2>3. call[c].pc = "idle"
    BY DEF SysInit, ServerInit, Idle
  <2> QED  BY <2>2, <2>3 DEF Troubled, Waiting
<1>2. ApartIInv /\ Survival({})
  BY StartsOwned DEF RoomIInv, OwnIInv
<1>3. \A p \in JobTexts : orphans[p] = 0
  BY DEF SysInit, ServerInit
<1> QED  BY <1>1, <1>2, <1>3 DEF CauseIInv

\* Clients do not disturb each other's reads.  With room in the cache for every
\* client's handle, an engine without faults and tables that stay, a flow fails
\* only because its own connection broke, its table does not exist, or it writes and
\* so does another client.
THEOREM FailuresAreCaused ==
  ASSUME Faults = FALSE, Queries \subseteq {"match", "constant", "insert", "insert_returning"},
         IsFiniteSet(Calls), Cardinality(Calls) <= MaxPrepared
  PROVE  SysSpec => []FailuresHaveCauses
<1>1. Quiet /\ Roomy
  BY DEF Quiet, Roomy
<1>2. CauseIInv(TRUE) /\ RoomIInv /\ [SysNext]_sysVars => (CauseIInv(TRUE) /\ RoomIInv)'
  BY <1>1, CauseStep, OwnStep DEF RoomIInv
<1>3. SysInit => CauseIInv(TRUE) /\ RoomIInv
  BY StartsExcused, StartsOwned
<1>4. CauseIInv(TRUE) /\ RoomIInv => FailuresHaveCauses
  <2> SUFFICES ASSUME CauseIInv(TRUE), RoomIInv, NEW c \in Calls, flow[c].at = "failed",
                      flow[c].cause # "connection", Binds(flow[c].text)
               PROVE  Writes(flow[c].text) /\ \E d \in Calls \ {c} : Writes(flow[d].text)
    BY DEF FailuresHaveCauses
  <2>1. Troubled(flow[c], call[c])
    BY DEF Troubled
  <2>2. Excused(c, TRUE) /\ SysIInv
    BY <2>1, TheCauses
  <2>3. ~ Displaced(call[c].want, minted)
    <3>1. call[c].want \in Nat /\ minted \in Nat /\ minted <= MaxPrepared
      BY <2>2, TheFlow DEF RoomIInv, HandlerIn
    <3> QED  BY <3>1, CapacityAssumption DEF Displaced
  <2>4. ~ NoTable(flow[c].text)
    BY <1>1, <2>2, NoTableNoBinding
  <2> QED  BY <2>2, <2>3, <2>4 DEF Excused, Rival
<1> QED  BY <1>2, <1>3, <1>4, PTL DEF SysSpec

-----------------------------------------------------------------------------
(* What a flow is told of its result, and what it gets. *)

\* The schema s may be one of the statement q's, over tables of which the nth is
\* the latest.
Shaped(q, s, n) ==
  \/ ~ HasColumns(q) /\ s = StatusSchema
  \/ HasColumns(q) /\ q = "constant" /\ s = <<"native", 0>>
  \/ HasColumns(q) /\ q # "constant" /\ s[1] \in {"native", "utf8"} /\ s[2] \in 1..n

\* Of two schemas of one statement the first is not from a later table.
InOrder(s, t) == s[1] = "native" /\ t[1] = "native" => s[2] <= t[2]

\* The call k has a schema to tell.
Tells(k) ==
  \/ k.pc = "prepared"
  \/ k.pc = "executed" /\ ~ Failed(k)
  \/ k.status = "ok" /\ k.op \in {"create", "info", "get"}

\* What the flow f was told, and what its call k is about to tell it.
Told(f, k, n) ==
  /\ Tells(k) => Shaped(k.text, k.schema, n)
  /\ f.at \in {"get", "close", "done"} => Shaped(f.text, f.info, n)
  /\ f.at = "get" /\ f.sent /\ Tells(k) /\ k.text = f.text => InOrder(f.info, k.schema)
  /\ f.at \in {"close", "done"} => Shaped(f.text, f.data, n) /\ InOrder(f.info, f.data)

\* Some client makes tables.
Creator == \E c \in Calls : flow[c].text = "create_table"

\* No table but the first is there, or on its way, without one.
AgeIInv ==
  /\ SysIInv
  /\ db.gen >= 1 /\ (db.gen # 1 => Creator)
  /\ \A p \in JobTexts : p = "create_table" /\ orphans[p] > 0 => Creator

ShapeIInv ==
  /\ AgeIInv
  /\ \A c \in Calls : Told(flow[c], call[c], db.gen)

\* What is known of a schema stays true of it.
LEMMA SchemasKeep ==
  ASSUME NEW m \in Nat, NEW n \in Nat, m <= n
  PROVE  /\ \A q, s : Shaped(q, s, m) => Shaped(q, s, n)
         /\ \A f, k : Told(f, k, m) => Told(f, k, n)
<1>1. \A q, s : Shaped(q, s, m) => Shaped(q, s, n)
  BY DEF Shaped
<1> QED  BY <1>1 DEF Told

\* Only create_table makes a table.
LEMMA TablesMade ==
  ASSUME ServerIInv, NEW q
  PROVE  /\ db.gen \in Nat /\ Written(q).gen \in {db.gen, db.gen + 1}
         /\ q # "create_table" => Written(q).gen = db.gen
<1>1. db \in [exists : BOOLEAN, gen : Nat, rows : Nat]
  BY DEF ServerIInv, Surroundings
<1>2. CASE q \in {"insert", "insert_returning"}
  BY <1>1, <1>2 DEF Written
<1>3. CASE q = "create_table"
  BY <1>1, <1>3 DEF Written
<1>4. CASE q = "drop_table"
  BY <1>1, <1>4 DEF Written
<1>5. CASE q \notin {"insert", "insert_returning", "create_table", "drop_table"}
  BY <1>1, <1>5 DEF Written
<1> QED  BY <1>2, <1>3, <1>4, <1>5

\* A step that makes a table only for a client's create_table, and leaves only the
\* jobs of clients behind.
LEMMA OneAgeMoves ==
  ASSUME AgeIInv, SysIInv', \A c \in Calls : flow'[c].text = flow[c].text,
         db'.gen \in {db.gen, db.gen + 1}, db'.gen # db.gen => Creator,
         \A p \in JobTexts : p = "create_table" /\ orphans'[p] > 0 => orphans[p] > 0 \/ Creator
  PROVE  AgeIInv' /\ db.gen \in Nat /\ db'.gen \in Nat /\ db.gen <= db'.gen
<1>1. Creator <=> Creator'
  BY DEF Creator
<1>2. db.gen \in Nat
  BY TablesMade DEF AgeIInv, SysIInv
<1> HIDE DEF Creator
<1>3. db'.gen >= 1 /\ (db'.gen # 1 => Creator)
  BY <1>2 DEF AgeIInv
<1>4. \A p \in JobTexts : p = "create_table" /\ orphans'[p] > 0 => Creator
  BY DEF AgeIInv
<1> QED  BY <1>1, <1>2, <1>3, <1>4 DEF AgeIInv

LEMMA AgeStep ==
  ASSUME AgeIInv, [SysNext]_sysVars
  PROVE  AgeIInv' /\ db.gen \in Nat /\ db'.gen \in Nat /\ db.gen <= db'.gen
<1>1. SysIInv /\ SysIInv' /\ ServerIInv /\ flow \in [Calls -> FlowIn(minted)]
  BY SysStep DEF AgeIInv, SysIInv
<1>2. ASSUME UNCHANGED db, \A c \in Calls : flow'[c].text = flow[c].text,
             \A p \in JobTexts : p = "create_table" /\ orphans'[p] > 0
                                   => orphans[p] > 0 \/ Creator
      PROVE  AgeIInv' /\ db.gen \in Nat /\ db'.gen \in Nat /\ db.gen <= db'.gen
  BY <1>1, <1>2, OneAgeMoves
<1>3. ASSUME NEW c \in Calls, Send(c)
      PROVE  UNCHANGED <<db, orphans>> /\ \A d \in Calls : flow'[d].text = flow[d].text
  <2>1. /\ flow' = [flow EXCEPT ![c] = [flow[c] EXCEPT !.sent = TRUE]]
        /\ UNCHANGED <<db, orphans>>
    BY <1>1, <1>3, SendOutcome
  <2>2. [flow[c] EXCEPT !.sent = TRUE].text = flow[c].text
    BY <1>1 DEF FlowIn
  <2> QED  BY <1>1, <2>1, <2>2
<1>4. ASSUME NEW c \in Calls, Deliver(c)
      PROVE  UNCHANGED <<db, orphans>> /\ \A d \in Calls : flow'[d].text = flow[d].text
  BY <1>1, <1>4, DeliverOutcome DEF Delivered, serverVars
<1>5. ASSUME NEW c \in Calls, Disconnect(c)
      PROVE  /\ UNCHANGED db /\ \A d \in Calls : flow'[d].text = flow[d].text
             /\ \A p \in JobTexts : p = "create_table" /\ orphans'[p] > 0
                                      => orphans[p] > 0 \/ Creator
  <2>1. PICK g \in FlowIn(minted) : flow' = [flow EXCEPT ![c] = g] /\ g.text = flow[c].text
    BY <1>1, <1>5, DisconnectOutcome
  <2>2. \/ UNCHANGED serverVars
        \/ /\ UNCHANGED db /\ call[c].pc \in Waiting
           /\ orphans' \in {orphans, [orphans EXCEPT ![call[c].text] = @ + 1]}
    BY <1>1, <1>5, DisconnectOutcome DEF Cancel
  <2>3. orphans \in [JobTexts -> Nat]
    BY <1>1 DEF ServerIInv, Surroundings
  <2>4. call[c].pc \in Waiting /\ call[c].text = "create_table" => Creator
    BY <1>1, StatementOfFlow DEF Creator
  <2> QED  BY <1>1, <2>1, <2>2, <2>3, <2>4 DEF serverVars
<1>6. ASSUME NEW c \in Calls, Job(c) \/ Answer(c), UNCHANGED flow
      PROVE  AgeIInv' /\ db.gen \in Nat /\ db'.gen \in Nat /\ db.gen <= db'.gen
  <2>1. /\ call[c].pc \in Waiting /\ UNCHANGED orphans
        /\ UNCHANGED db \/ db' = Written(call[c].text)
    BY <1>1, <1>6, WorkOutcome DEF PrepareDone, ExecuteDone, AnswerDone
  <2>2. call[c].text = "create_table" => Creator
    BY <1>1, <2>1, StatementOfFlow DEF Creator
  <2>3. db'.gen \in {db.gen, db.gen + 1} /\ (db'.gen # db.gen => Creator)
    BY <1>1, <2>1, <2>2, TablesMade
  <2> QED  BY <1>1, <1>6, <2>1, <2>3, OneAgeMoves
<1>7. ASSUME NEW q \in JobTexts, RunOrphan(q), UNCHANGED flow
      PROVE  AgeIInv' /\ db.gen \in Nat /\ db'.gen \in Nat /\ db.gen <= db'.gen
  <2>1. /\ orphans[q] > 0 /\ orphans' = [orphans EXCEPT ![q] = @ - 1]
        /\ UNCHANGED db \/ db' = Written(q)
    BY <1>7 DEF RunOrphan
  <2>2. orphans \in [JobTexts -> Nat]
    BY <1>1 DEF ServerIInv, Surroundings
  <2>3. q = "create_table" => Creator
    BY <2>1 DEF AgeIInv
  <2>4. db'.gen \in {db.gen, db.gen + 1} /\ (db'.gen # db.gen => Creator)
    BY <1>1, <2>1, <2>3, TablesMade
  <2>5. \A p \in JobTexts : orphans'[p] > 0 => orphans[p] > 0
    BY <2>1, <2>2
  <2> QED  BY <1>1, <1>7, <2>4, <2>5, OneAgeMoves
<1>8. CASE UNCHANGED sysVars
  BY <1>2, <1>8 DEF sysVars, serverVars
<1> QED  BY <1>2, <1>3, <1>4, <1>5, <1>6, <1>7, <1>8 DEF SysNext, Serve

LEMMA OneShapeMoves ==
  ASSUME ShapeIInv, AgeIInv', db.gen \in Nat, db'.gen \in Nat, db.gen <= db'.gen,
         NEW c \in Calls, NEW g, flow' = [flow EXCEPT ![c] = g],
         \A d \in Calls \ {c} : call'[d] = call[d],
         Told(g, call'[c], db.gen)
  PROVE  ShapeIInv'
<1>1. flow \in [Calls -> FlowIn(minted)]
  BY DEF ShapeIInv, AgeIInv, SysIInv
<1>2. ASSUME NEW d \in Calls
      PROVE  Told(flow'[d], call'[d], db'.gen)
  <2>1. CASE d = c
    BY <1>1, <2>1, SchemasKeep
  <2>2. CASE d # c
    <3>1. flow'[d] = flow[d] /\ call'[d] = call[d] /\ Told(flow[d], call[d], db.gen)
      BY <1>1, <2>2 DEF ShapeIInv
    <3> QED  BY <3>1, SchemasKeep
  <2> QED  BY <2>1, <2>2
<1> QED  BY <1>2 DEF ShapeIInv

LEMMA SendShapes ==
  ASSUME ShapeIInv, AgeIInv', NEW c \in Calls, Send(c), db.gen \in Nat, db'.gen \in Nat,
         db.gen <= db'.gen
  PROVE  ShapeIInv'
<1> DEFINE f == flow[c]
           k == call'[c]
           g == [f EXCEPT !.sent = TRUE]
<1>1. /\ flow' = [flow EXCEPT ![c] = g]
      /\ \A d \in Calls \ {c} : call'[d] = call[d]
      /\ Requested(f, k)
  BY SendOutcome DEF ShapeIInv, AgeIInv
<1>2. f \in FlowIn(minted) /\ Told(f, call[c], db.gen)
  BY TheFlow DEF ShapeIInv, AgeIInv
<1> HIDE DEF f, k
<1>3. g.at = f.at /\ g.text = f.text /\ g.info = f.info /\ g.data = f.data
  BY <1>2 DEF FlowIn
<1> HIDE DEF g
<1>4. ~ Tells(k)
  BY <1>1 DEF Tells, Requested
<1>5. Told(g, k, db.gen)
  BY <1>2, <1>3, <1>4 DEF Told
<1> QED  BY <1>1, <1>5, OneShapeMoves DEF k

LEMMA DeliverShapes ==
  ASSUME ShapeIInv, AgeIInv', NEW c \in Calls, Deliver(c), db.gen \in Nat, db'.gen \in Nat,
         db.gen <= db'.gen
  PROVE  ShapeIInv'
<1> DEFINE f == flow[c]
           k == call[c]
           n == db.gen
<1>1. PICK g \in FlowIn(minted) :
        /\ Delivered(f, k, g)
        /\ flow' = [flow EXCEPT ![c] = g]
        /\ UNCHANGED <<broken, serverVars>>
  BY DeliverOutcome DEF ShapeIInv, AgeIInv
<1>2. call' = call
  BY <1>1 DEF serverVars
<1>3. /\ f \in FlowIn(minted) /\ Served(f, k) /\ Progress(f, issued)
      /\ HandlerOK(k, issued, minted) /\ Told(f, k, n)
  BY TheFlow DEF ShapeIInv, AgeIInv
<1> HIDE DEF f, k, n
<1>4. f.at \in {"create", "info", "get", "close"} /\ k.op = f.at /\ f.kind \in {"plain", "sql"}
      /\ g.text = f.text /\ f.sent /\ ~ g.sent
  BY <1>1, <1>3, KindsAssumption DEF Delivered, Served, FlowIn
<1>5. Told(g, k, n)
  <2>1. CASE k.status # "ok"
    BY <1>1, <1>3, <2>1 DEF Delivered, Told
  <2>2. CASE k.status = "ok" /\ f.at = "create"
    <3>1. g.at = "info"
      BY <1>1, <2>2, FollowingSteps DEF Delivered
    <3> QED  BY <1>3, <3>1 DEF Told
  <2>3. CASE k.status = "ok" /\ f.at = "info"
    <3>1. g.at = "get" /\ g.info = k.schema
      BY <1>1, <2>3, FollowingSteps DEF Delivered
    <3>2. k.text = f.text /\ Tells(k)
      BY <1>1, <1>3, <1>4, <2>3 DEF Served, Delivered, Tells
    <3> QED  BY <1>3, <1>4, <3>1, <3>2 DEF Told
  <2>4. CASE k.status = "ok" /\ f.at = "get"
    <3>1. g.at \in {"close", "done"} /\ g.info = f.info /\ g.data = k.schema
      BY <1>1, <1>4, <2>4, FollowingSteps DEF Delivered
    <3>2. k.want = f.handle /\ f.handle # 0 /\ issued[f.handle] = f.text
      BY <1>1, <1>3, <2>4 DEF Delivered, Served, Progress
    <3>3. k.text = f.text /\ Tells(k)
      BY <1>3, <1>4, <2>4, <3>2 DEF HandlerOK, Meaning, Tells
    <3> QED  BY <1>3, <1>4, <2>4, <3>1, <3>3 DEF Told
  <2>5. CASE k.status = "ok" /\ f.at = "close"
    <3>1. g.at = "done" /\ g.info = f.info /\ g.data = f.data
      BY <1>1, <2>5, FollowingSteps DEF Delivered
    <3> QED  BY <1>3, <1>4, <2>5, <3>1 DEF Told
  <2> QED  BY <1>4, <2>1, <2>2, <2>3, <2>4, <2>5
<1> QED  BY <1>1, <1>2, <1>5, OneShapeMoves DEF k, n

LEMMA DisconnectShapes ==
  ASSUME ShapeIInv, AgeIInv', NEW c \in Calls, Disconnect(c), db.gen \in Nat, db'.gen \in Nat,
         db.gen <= db'.gen
  PROVE  ShapeIInv'
<1>1. PICK g \in FlowIn(minted) : flow' = [flow EXCEPT ![c] = g] /\ g.at = "failed"
  BY DisconnectOutcome DEF ShapeIInv, AgeIInv
<1>2. UNCHANGED serverVars \/ Cancel(c)
  BY DisconnectOutcome DEF ShapeIInv, AgeIInv
<1>3. ServerIInv
  BY DEF ShapeIInv, AgeIInv, SysIInv
<1>4. /\ call'[c] = call[c] \/ call'[c] = Idle
      /\ \A d \in Calls \ {c} : call'[d] = call[d]
  BY <1>2, <1>3, SetFacts DEF Cancel, serverVars
<1>5. ~ Tells(Idle)
  BY DEF Idle, Tells
<1>6. Told(flow[c], call[c], db.gen)
  BY DEF ShapeIInv
<1>7. Told(g, call'[c], db.gen)
  <2>1. Tells(call'[c]) => call'[c] = call[c] /\ Tells(call[c])
    BY <1>4, <1>5
  <2> QED  BY <1>1, <1>6, <2>1 DEF Told
<1> QED  BY <1>1, <1>4, <1>7, OneShapeMoves

\* What the engine says of a statement, fits it and what was said of it before.
LEMMA EngineShapes ==
  ASSUME AgeIInv, NEW q
  PROVE  /\ HasColumns(q) => Shaped(q, Native(q), db.gen)
         /\ Shaped(q, Returned(q), db.gen)
         /\ \A s : Shaped(q, s, db.gen) => InOrder(s, Returned(q))
<1>1. db.gen \in Nat /\ db.gen >= 1
  BY TablesMade DEF AgeIInv, SysIInv
<1>2. ASSUME HasColumns(q)
      PROVE  Shaped(q, Native(q), db.gen) /\ \A s : Shaped(q, s, db.gen) => InOrder(s, Native(q))
  BY <1>1, <1>2 DEF Shaped, Native, InOrder
<1>3. CASE ~ HasColumns(q)
  <2>1. Returned(q) = StatusSchema
    BY <1>3 DEF Returned, HasColumns
  <2>2. Returned(q)[1] # "native"
    BY <2>1 DEF StatusSchema
  <2> QED  BY <1>3, <2>1, <2>2 DEF Shaped, InOrder
<1>4. CASE HasColumns(q) /\ q = "match" /\ db.rows = 0
  <2>1. Returned(q) = AllUtf8
    BY <1>4 DEF Returned
  <2> QED  BY <1>1, <1>2, <1>4, <2>1 DEF Shaped, InOrder, AllUtf8
<1>5. CASE HasColumns(q) /\ ~ (q = "match" /\ db.rows = 0)
  <2>1. Returned(q) = Native(q)
    BY <1>5 DEF Returned
  <2> QED  BY <1>2, <1>5, <2>1
<1> QED  BY <1>3, <1>4, <1>5

LEMMA WorkShapes ==
  ASSUME ShapeIInv, AgeIInv', NEW c \in Calls, Job(c) \/ Answer(c), UNCHANGED flow,
         db.gen \in Nat, db'.gen \in Nat, db.gen <= db'.gen
  PROVE  ShapeIInv'
<1> DEFINE f == flow[c]
           a == call[c]
           k == call'[c]
           n == db.gen
<1>1. /\ a.pc \in Waiting
      /\ \A d \in Calls \ {c} : call'[d] = call[d]
      /\ PrepareDone(a, k) \/ ExecuteDone(a, k) \/ AnswerDone(a, k)
  BY WorkOutcome DEF ShapeIInv, AgeIInv
<1>2. HandlerOK(a, issued, minted) /\ flow = [flow EXCEPT ![c] = f] /\ Told(f, a, n)
  BY TheFlow DEF ShapeIInv, AgeIInv
<1>3. a.op = f.at /\ a.op \in {"create", "info", "get"} /\ a.status = "none"
  BY <1>1, <1>2, WorkIsAsked DEF ShapeIInv, AgeIInv, HandlerOK, Course, Waiting
<1>4. /\ HasColumns(a.text) => Shaped(a.text, Native(a.text), n)
      /\ Shaped(a.text, Returned(a.text), n)
      /\ \A s : Shaped(a.text, s, n) => InOrder(s, Returned(a.text))
  BY EngineShapes DEF ShapeIInv
<1> HIDE DEF f, a, k, n
<1>5. Told(f, k, n)
  <2>1. CASE PrepareDone(a, k)
    <3>1. /\ k.text = a.text /\ k.status # "ok" /\ k.pc # "executed" /\ f.at # "get"
          /\ k.pc = "prepared" => HasColumns(a.text) /\ k.schema = Native(a.text)
      BY <1>2, <1>3, <2>1 DEF PrepareDone, Describable, HandlerOK, Course
    <3> QED  BY <1>2, <1>4, <3>1 DEF Told, Tells
  <2>2. CASE ExecuteDone(a, k)
    <3>1. k.pc = "executed" /\ k.op = a.op /\ k.text = a.text /\ k.status = "none"
      BY <1>3, <2>2 DEF ExecuteDone
    <3>2. Tells(k) => k.schema = Returned(a.text)
      BY <2>2, <3>1 DEF ExecuteDone, Failed, Tells
    <3> QED  BY <1>2, <1>4, <3>1, <3>2 DEF Told
  <2>3. CASE AnswerDone(a, k)
    <3>1. k.pc = "replied" /\ k.op = a.op /\ k.text = a.text /\ k.schema = a.schema
      BY <2>3 DEF AnswerDone
    <3>2. Tells(k) => Tells(a)
      BY <2>3, <3>1 DEF AnswerDone, Tells
    <3> QED  BY <1>2, <3>1, <3>2 DEF Told
  <2> QED  BY <1>1, <2>1, <2>2, <2>3
<1>6. flow' = [flow EXCEPT ![c] = f]
  BY <1>2
<1> QED  BY <1>1, <1>5, <1>6, OneShapeMoves DEF k, n

LEMMA ShapeStep == ShapeIInv /\ [SysNext]_sysVars => ShapeIInv'
<1> SUFFICES ASSUME ShapeIInv, [SysNext]_sysVars
             PROVE  ShapeIInv'
  OBVIOUS
<1>1. AgeIInv' /\ db.gen \in Nat /\ db'.gen \in Nat /\ db.gen <= db'.gen
  BY AgeStep DEF ShapeIInv
<1>2. CASE UNCHANGED <<flow, call>>
  BY <1>1, <1>2, SchemasKeep DEF ShapeIInv
<1>3. CASE UNCHANGED sysVars
  BY <1>2, <1>3 DEF sysVars, serverVars
<1>4. CASE Serve
  <2>1. ASSUME NEW q \in JobTexts, RunOrphan(q), UNCHANGED flow
        PROVE  ShapeIInv'
    BY <1>2, <2>1 DEF RunOrphan
  <2> QED  BY <1>1, <1>4, <2>1, WorkShapes DEF Serve
<1> QED  BY <1>1, <1>3, <1>4, SendShapes, DeliverShapes, DisconnectShapes DEF SysNext

LEMMA ShapesStart == SysInit => ShapeIInv
<1> SUFFICES ASSUME SysInit
             PROVE  ShapeIInv
  OBVIOUS
<1>1. db.gen = 1 /\ \A p \in JobTexts : orphans[p] = 0
  BY DEF SysInit, ServerInit
<1>2. AgeIInv
  BY <1>1, SysInitEstablishes DEF AgeIInv
<1>3. ASSUME NEW c \in Calls
      PROVE  Told(flow[c], call[c], db.gen)
  <2>1. ~ Tells(call[c])
    BY DEF SysInit, ServerInit, Idle, Tells
  <2>2. PICK kind \in Kinds, q \in Queries : flow[c] = Fresh(kind, q)
    BY DEF SysInit
  <2>3. flow[c].at \in {"create", "info"}
    BY <2>2, FreshFlow
  <2> QED  BY <2>1, <2>3 DEF Told
<1> QED  BY <1>2, <1>3 DEF ShapeIInv

\* The schema a finished flow was told, is the schema of the batches it got, unless
\* the result was empty or another client's create_table came in between: on an
\* engine with or without faults, whatever the clients' statements, however their
\* RPCs, broken connections and jobs left behind met.
THEOREM SchemasAgree == SysSpec => []SchemaDescribesData
<1>1. ShapeIInv => SchemaDescribesData
  <2> SUFFICES ASSUME ShapeIInv, NEW c \in Calls, Done(c)
               PROVE  LET f == flow[c]
                      IN  \/ f.data = f.info
                          \/ HasColumns(f.text) /\ "utf8" \in {f.info[1], f.data[1]}
                          \/ /\ HasColumns(f.text) /\ f.info[2] < f.data[2]
                             /\ \E d \in Calls \ {c} : flow[d].text = "create_table"
    BY DEF SchemaDescribesData
  <2> DEFINE f == flow[c]
  <2>1. /\ Shaped(f.text, f.info, db.gen) /\ Shaped(f.text, f.data, db.gen)
        /\ InOrder(f.info, f.data)
    BY DEF ShapeIInv, Told, Done
  <2>2. /\ f.info \in {"none", "status", "native", "utf8"} \X Nat
        /\ f.data \in {"none", "status", "native", "utf8"} \X Nat
        /\ db.gen \in Nat
    BY TheFlow, TablesMade DEF ShapeIInv, AgeIInv, FlowIn
  <2>3. Creator => \A d \in Calls : flow[d].text = "create_table" => ~ HasColumns(flow[d].text)
    BY DEF HasColumns
  <2>4. db.gen # 1 => Creator
    BY DEF ShapeIInv, AgeIInv
  <2>5. CASE ~ HasColumns(f.text)
    BY <2>1, <2>5 DEF Shaped
  <2>6. CASE HasColumns(f.text) /\ f.text = "constant"
    BY <2>1, <2>6 DEF Shaped
  <2>7. CASE HasColumns(f.text) /\ f.text # "constant" /\ "utf8" \in {f.info[1], f.data[1]}
    BY <2>7
  <2>8. CASE HasColumns(f.text) /\ f.text # "constant" /\ "utf8" \notin {f.info[1], f.data[1]}
    <3>1. /\ f.info[1] = "native" /\ f.data[1] = "native"
          /\ f.info[2] \in 1..db.gen /\ f.data[2] \in 1..db.gen /\ f.info[2] <= f.data[2]
      BY <2>1, <2>8 DEF Shaped, InOrder
    <3>2. CASE f.info[2] = f.data[2]
      <4>1. f.info = f.data
        BY <2>2, <3>1, <3>2
      <4> QED  BY <4>1
    <3>3. CASE f.info[2] # f.data[2]
      <4>1. f.info[2] < f.data[2] /\ db.gen # 1
        BY <2>2, <3>1, <3>3
      <4>2. \E d \in Calls \ {c} : flow[d].text = "create_table"
        BY <2>4, <2>8, <4>1 DEF Creator, HasColumns
      <4> QED  BY <2>8, <4>1, <4>2
    <3> QED  BY <3>2, <3>3
  <2> QED  BY <2>5, <2>6, <2>7, <2>8
<1> QED  BY <1>1, ShapeStep, ShapesStart, PTL DEF SysSpec

-----------------------------------------------------------------------------
(* Clients that query again and again.  A client that begins again brings no   *)
(* handle along, so what separates the clients from each other, and what       *)
(* explains a failure, survives it.                                            *)

\* A client that begins again stands where a client begins.
LEMMA AgainOutcome ==
  ASSUME SysIInv, NEW c \in Calls, Again(c)
  PROVE  /\ flow[c].at \in {"done", "failed"} /\ UNCHANGED <<broken, serverVars>>
         /\ \E kind \in Kinds, q \in Queries : flow' = [flow EXCEPT ![c] = Fresh(kind, q)]
BY DEF Again, Ended, SetFlow

\* A step is a step of the system, or a client begins again.
LEMMA RepeatStep ==
  ASSUME [RepeatNext]_repeatVars
  PROVE  [SysNext]_sysVars \/ \E c \in Calls : Again(c)
BY DEF RepeatNext, repeatVars

LEMMA FreshIsOK ==
  ASSUME SysIInv, NEW c \in Calls, flow[c].at \in {"done", "failed"},
         NEW kind \in Kinds, NEW q \in Queries
  PROVE  FlowOK(Fresh(kind, q), call[c], minted, issued)
<1> DEFINE f == Fresh(kind, q)
<1>1. /\ f.kind = kind /\ f.text = q /\ ~ f.sent /\ f.handle = 0 /\ f.data = NoSchema
      /\ f.at = IF kind = "sql" THEN "create" ELSE "info"
  BY FreshFlow
<1>2. Served(flow[c], call[c]) /\ minted \in Nat
  BY TheFlow
<1>3. f \in FlowIn(minted)
  BY <1>2, SchemaKinds DEF Fresh, FlowIn
<1> HIDE DEF f
<1>4. Served(f, call[c])
  BY <1>1, <1>2 DEF Served
<1>5. Progress(f, issued)
  BY <1>1 DEF Progress
<1> QED  BY <1>3, <1>4, <1>5 DEF FlowOK, f

LEMMA AgainPreserves ==
  ASSUME SysIInv, NEW c \in Calls, Again(c)
  PROVE  SysIInv'
<1>1. flow[c].at \in {"done", "failed"} /\ UNCHANGED <<broken, serverVars>>
  BY AgainOutcome
<1>2. PICK kind \in Kinds, q \in Queries : flow' = [flow EXCEPT ![c] = Fresh(kind, q)]
  BY AgainOutcome
<1>3. ServerIInv' /\ Grows
  BY <1>1, ServerStep, ServerGrows DEF SysIInv
<1>4. call' = call /\ minted' = minted /\ issued' = issued /\ broken' \in 0..Disconnects
  BY <1>1 DEF serverVars, cacheVars, SysIInv
<1>5. FlowOK(Fresh(kind, q), call'[c], minted', issued')
  BY <1>1, <1>4, FreshIsOK
<1> QED  BY <1>2, <1>3, <1>4, <1>5, OneFlowMoves

\* The inductive invariant of the system goes on holding.
THEOREM RepeatInvariant == RepeatSpec => []SysIInv
<1>1. RepeatInit => SysIInv
  BY SysInitEstablishes DEF RepeatInit
<1>2. SysIInv /\ [RepeatNext]_repeatVars => SysIInv'
  BY RepeatStep, SysStep, AgainPreserves
<1> QED  BY <1>1, <1>2, PTL DEF RepeatSpec

\* Clients that come back are callers of the server like any other: what is proved
\* of the server under arbitrary callers holds under them.
THEOREM RepeatersUseTheServer == RepeatSpec => ServerSpec
<1>1. RepeatInit => ServerInit
  BY DEF RepeatInit, SysInit
<1>2. SysIInv /\ [RepeatNext]_repeatVars => [ServerNext]_serverVars
  BY RepeatStep, ClientStep, AgainOutcome
<1> QED  BY <1>1, <1>2, RepeatInvariant, PTL DEF RepeatSpec, ServerSpec

-----------------------------------------------------------------------------

LEMMA AgainApart ==
  ASSUME ApartIInv, NEW c \in Calls, Again(c)
  PROVE  ApartIInv'
<1>1. SysIInv' /\ SysIInv
  BY AgainPreserves DEF ApartIInv
<1>2. PICK kind \in Kinds, q \in Queries : flow' = [flow EXCEPT ![c] = Fresh(kind, q)]
  BY <1>1, AgainOutcome
<1>3. call' = call /\ closed' = closed
  BY <1>1, AgainOutcome DEF serverVars, cacheVars
<1>4. Tidy(flow[c], call[c], closed) /\ 0 \notin closed
  BY TheHandles
<1> DEFINE f == Fresh(kind, q)
<1>5. /\ f.kind = kind /\ ~ f.sent /\ f.handle = 0 /\ f.cause = "none"
      /\ f.at = IF kind = "sql" THEN "create" ELSE "info"
  BY FreshFlow
<1> HIDE DEF f
<1>6. Tidy(f, call[c], closed) /\ Closes(f, call[c])
  BY <1>4, <1>5 DEF Tidy, Closes
<1>7. \A h \in Mine(f, call[c]) : h = 0 \/ h \in Mine(flow[c], call[c])
  BY <1>5 DEF Mine
<1> QED  BY <1>1, <1>2, <1>3, <1>6, <1>7, OneOwnerMoves DEF f

-----------------------------------------------------------------------------

LEMMA AgainExcused ==
  ASSUME CauseIInv(FALSE), NEW c \in Calls, Again(c)
  PROVE  CauseIInv(FALSE)'
<1>1. ApartIInv' /\ SysIInv
  BY AgainApart DEF CauseIInv, ApartIInv
<1>2. PICK kind \in Kinds, q \in Queries : flow' = [flow EXCEPT ![c] = Fresh(kind, q)]
  BY <1>1, AgainOutcome
<1>3. /\ UNCHANGED <<db, call, orphans, minted, map, closed>>
      /\ flow \in [Calls -> FlowIn(minted)]
  BY <1>1, AgainOutcome DEF serverVars, cacheVars, SysIInv
<1>4. Survival({})'
  BY <1>3 DEF CauseIInv, Survival, Live
<1>5. ASSUME NEW d \in Calls, Troubled(flow'[d], call'[d])
      PROVE  Excused(d, FALSE)'
  <2>1. CASE d = c
    <3>1. ~ flow'[c].sent /\ flow'[c].at # "failed"
      BY <1>2, <1>3, FreshFlow
    <3> QED  BY <1>5, <2>1, <3>1 DEF Troubled
  <2>2. CASE d # c
    <3>1. flow'[d] = flow[d] /\ call'[d] = call[d]
      BY <1>2, <1>3, <2>2
    <3>2. Excused(d, FALSE)
      BY <1>5, <3>1, TheCauses
    <3> QED  BY <1>3, <3>1, <3>2 DEF Excused, NoTable
  <2> QED  BY <2>1, <2>2
<1> QED  BY <1>1, <1>3, <1>4, <1>5 DEF CauseIInv

\* A query fails only with its connection, or because its table does not exist, or
\* MaxPrepared newer handles were minted after its own, or because it writes and
\* may meet another writer - a job of its own client's last query among them.
THEOREM OnlyTheDisplacedFail ==
  ASSUME Faults = FALSE, Queries \subseteq {"match", "constant", "insert", "insert_returning"}
  PROVE  RepeatSpec => []FailsWhenDisplacedOnly
<1>1. Quiet
  BY DEF Quiet
<1>2. CauseIInv(FALSE) /\ [RepeatNext]_repeatVars => CauseIInv(FALSE)'
  BY <1>1, RepeatStep, CauseStep, AgainExcused
<1>3. RepeatInit => CauseIInv(FALSE)
  BY StartsExcused DEF RepeatInit
<1>4. CauseIInv(FALSE) => FailsWhenDisplacedOnly
  <2> SUFFICES ASSUME CauseIInv(FALSE), NEW c \in Calls, flow[c].at = "failed",
                      flow[c].cause # "connection"
               PROVE  \/ ~ Binds(flow[c].text)
                      \/ call[c].want # 0 /\ call[c].want + MaxPrepared <= minted
                      \/ Writes(flow[c].text)
    BY DEF FailsWhenDisplacedOnly
  <2>1. Troubled(flow[c], call[c])
    BY DEF Troubled
  <2> QED  BY <1>1, <2>1, TheCauses, NoTableNoBinding DEF Excused, Displaced
<1> QED  BY <1>2, <1>3, <1>4, PTL DEF RepeatSpec
=============================================================================
