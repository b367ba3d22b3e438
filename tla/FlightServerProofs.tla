------------------------- MODULE FlightServerProofs -------------------------
(***************************************************************************)
(* Proofs about the Flight server, for every number of handlers, requests, *)
(* demo queries and cached statements, with and without engine faults.     *)
(***************************************************************************)
EXTENDS FlightServer, PreparedCacheProofs

-----------------------------------------------------------------------------
(* What holds of one handler k.  The parts speak of the rest of the server   *)
(* through parameters only: `iss` is what the handles were minted for, n     *)
(* their number.                                                             *)

HandlerIn(n) ==
  [pc : {"idle", "replied"} \cup Waiting, op : Ops, text : JobTexts,
   handle : 0..n, left : 0..NumDemos,
   schema : {"none", "status", "native", "utf8"} \X Nat,
   ran : Nat, wrote : Nat, want : 0..n, dead : SUBSET (0..n),
   status : {"none", "ok", "invalid", "not_found", "internal"}]

\* What the handler is doing fits the request it serves.
Course(k) ==
  /\ k.pc # "replied" => k.status = "none"
  /\ k.pc = "idle" => k.want = 0 /\ k.handle = 0 /\ k.dead = {}
  /\ k.pc \in Waiting => k.op # "close"
  /\ k.pc \in {"prepare", "prepared"} => k.op \in {"info", "schema", "create"}
  /\ k.text = "show" <=> k.op = "show"
  /\ k.op = "list" => k.text = "match"
  /\ k.op = "list" /\ k.pc \in Waiting => k.left > 0
  /\ k.op = "close" => k.text = "empty"

\* A job that returned a schema ran a statement the engine accepts.
Results(k) ==
  /\ k.pc = "prepared" => HasColumns(k.text) /\ ~ Failed(k)
  /\ k.pc \in {"prepared", "executed"} /\ ~ Failed(k) => k.text \notin {"empty", "garbage"}
  /\ k.pc \in {"prepared", "executed"} /\ k.schema[1] = "native" => HasColumns(k.text)

\* Before its last job a call wrote nothing; after it, what the result says.
Effects(k) ==
  /\ k.wrote <= 1
  /\ k.pc \in {"idle", "prepare", "prepared", "execute"} => k.wrote = 0
  /\ k.pc = "executed" /\ Failed(k) => k.wrote = 0 \/ (Faults /\ HasColumns(k.text))
  /\ k.pc = "executed" /\ ~ Failed(k) => k.wrote = IF Writes(k.text) THEN 1 ELSE 0
  /\ k.status \in {"invalid", "not_found", "internal"}
       => k.wrote = 0 \/ (Faults /\ HasColumns(k.text))
  /\ k.status = "ok" /\ Writes(k.text) /\ (~ HasColumns(k.text) \/ k.op = "get")
       => k.wrote = 1

\* The statement of a request that names a handle is the handle's.
Meaning(k, iss) ==
  /\ k.want # 0 /\ k.pc # "replied" => k.text \in {iss[k.want], "garbage"}
  /\ k.status = "ok" /\ k.op = "get" /\ k.want # 0 => k.text = iss[k.want]
  /\ k.handle # 0 /\ (k.pc # "replied" \/ k.status = "ok") => k.text = iss[k.handle]

\* A request that names a handle closed before fails.
Fate(k) ==
  k.dead # {} /\ k.op # "close"
    => k.status # "ok" /\ (k.pc # "replied" => k.op = "get" /\ k.text = "garbage")

HandlerOK(k, iss, n) ==
  /\ k \in HandlerIn(n)
  /\ Course(k)
  /\ Results(k)
  /\ Effects(k)
  /\ Meaning(k, iss)
  /\ Fate(k)

\* The cache and what its handles were minted for.
Bookkeeping ==
  /\ CacheIInv
  /\ issued \in Seq(Queries) /\ Len(issued) = minted
  /\ closed \cap Live = {}
  /\ \A h \in Live : map[h] = issued[h]

Surroundings ==
  /\ db \in [exists : BOOLEAN, gen : Nat, rows : Nat]
  /\ orphans \in [JobTexts -> Nat]
  /\ begun \in Nat

\* The inductive invariant of the server.
ServerIInv ==
  /\ Bookkeeping
  /\ Surroundings
  /\ call \in [Calls -> HandlerIn(minted)]
  /\ \A c \in Calls : HandlerOK(call[c], issued, minted)

\* What may change of the bookkeeping under a handler's feet: handles are
\* minted and closed, and none changes its meaning.
Grows ==
  /\ minted' \in Nat /\ minted <= minted'
  /\ \A h \in 1..minted : issued'[h] = issued[h]
  /\ closed \subseteq closed'

\* Nothing another handler does to the cache disturbs a handler.
LEMMA OthersUndisturbed ==
  ASSUME ServerIInv, Grows, NEW c \in Calls
  PROVE  HandlerOK(call[c], issued', minted')
<1> DEFINE k == call[c]
<1>1. k \in HandlerIn(minted) /\ HandlerOK(k, issued, minted) /\ minted \in Nat
  BY DEF ServerIInv, Bookkeeping, CacheIInv, CacheTypeOK
<1>2. k.want \in 0..minted /\ k.handle \in 0..minted
  BY <1>1 DEF HandlerIn
<1> HIDE DEF k
<1>3. k \in HandlerIn(minted')
  BY <1>1 DEF HandlerIn, Grows
<1>4. Meaning(k, issued')
  BY <1>1, <1>2 DEF HandlerOK, Meaning, Grows
<1> QED  BY <1>1, <1>3, <1>4 DEF HandlerOK, k

\* A step of one handler preserves the invariant when it leaves that handler,
\* the bookkeeping and the surroundings in order.
LEMMA OneHandlerMoves ==
  ASSUME ServerIInv, Grows, Bookkeeping', Surroundings',
         NEW c \in Calls, NEW k, Set(c, k), HandlerOK(k, issued', minted')
  PROVE  ServerIInv'
<1>1. call \in [Calls -> HandlerIn(minted)]
  BY DEF ServerIInv
<1>2. ASSUME NEW d \in Calls
      PROVE  HandlerOK(call'[d], issued', minted')
  <2>1. CASE d = c
    BY <1>1, <2>1 DEF Set
  <2>2. CASE d # c
    <3>1. call'[d] = call[d]
      BY <1>1, <2>2 DEF Set
    <3>2. HandlerOK(call[d], issued', minted')
      BY OthersUndisturbed
    <3> QED  BY <3>1, <3>2
  <2> QED  BY <2>1, <2>2
<1>3. \A d \in Calls : call'[d] \in HandlerIn(minted')
  BY <1>2 DEF HandlerOK
<1>4. call' \in [Calls -> HandlerIn(minted')]
  BY <1>1, <1>3 DEF Set
<1> QED  BY <1>2, <1>4 DEF ServerIInv

\* Steps that leave the cache alone.
LEMMA CacheLeftAlone ==
  ASSUME ServerIInv, UNCHANGED <<issued, cacheVars>>
  PROVE  Bookkeeping' /\ Grows
<1>1. UNCHANGED <<map, order, minted, closed, issued>>
  BY DEF cacheVars
<1>2. CacheIInv'
  BY CacheStutter DEF ServerIInv, Bookkeeping
<1>3. Bookkeeping'
  BY <1>1, <1>2 DEF ServerIInv, Bookkeeping, Live
<1>4. Grows
  BY <1>1 DEF ServerIInv, Bookkeeping, CacheIInv, CacheTypeOK, Grows
<1> QED  BY <1>3, <1>4

\* Storing a statement mints its handle and displaces no meaning.
LEMMA StoreKeepsBooks ==
  ASSUME ServerIInv, NEW q \in Queries, Store(q)
  PROVE  Bookkeeping' /\ Grows /\ minted' = minted + 1 /\ issued'[minted'] = q
<1> DEFINE all == Live \cup {minted + 1}
<1>1. CacheIInv /\ Insert(q) /\ issued' = Append(issued, q)
  BY DEF ServerIInv, Bookkeeping, Store
<1>2. InsertOutcome(q, all)
  BY <1>1, InsertEffect, Zenon
<1>3. CacheIInv'
  BY <1>1, InsertPreserves
<1>4. /\ minted \in Nat /\ issued \in Seq(Queries) /\ Len(issued) = minted
      /\ closed \in SUBSET (1..minted) /\ Live \in SUBSET (1..minted)
      /\ closed \cap Live = {} /\ \A h \in Live : map[h] = issued[h]
  BY DEF ServerIInv, Bookkeeping, CacheIInv, CacheTypeOK
<1>5. \A h \in all : h \in Live \/ h = minted + 1
  OBVIOUS
<1> HIDE DEF all, Live
<1>6. /\ minted' = minted + 1 /\ closed' = closed /\ Live' \in SUBSET all
      /\ map' = [h \in Live' |-> IF h = minted + 1 THEN q ELSE map[h]]
  BY <1>2, Zenon DEF InsertOutcome
<1>7. /\ issued' \in Seq(Queries) /\ Len(issued') = minted'
      /\ \A h \in 1..minted : issued'[h] = issued[h]
      /\ issued'[minted'] = q
  BY <1>1, <1>4, <1>6, SMTT(30)
<1>8. \A h \in Live' : map'[h] = issued'[h]
  BY <1>4, <1>5, <1>6, <1>7
<1>9. closed' \cap Live' = {}
  BY <1>4, <1>5, <1>6
<1> QED  BY <1>3, <1>4, <1>6, <1>7, <1>8, <1>9 DEF Bookkeeping, Grows

\* Closing a handle takes it out of the map and into the closed ones.
LEMMA CloseKeepsBooks ==
  ASSUME ServerIInv, NEW h \in 0..minted, Remove(h), UNCHANGED issued
  PROVE  Bookkeeping' /\ Grows /\ minted' = minted
<1>1. CacheIInv'
  BY RemovePreserves DEF ServerIInv, Bookkeeping
<1>2. /\ map' = [g \in Live \ {h} |-> map[g]]
      /\ closed' = closed \cup (Live \cap {h})
      /\ minted' = minted
  BY Zenon DEF Remove, Remaining
<1>3. Live' = Live \ {h}
  BY <1>2 DEF Live
<1>4. /\ minted \in Nat /\ issued \in Seq(Queries) /\ Len(issued) = minted
      /\ closed \cap Live = {} /\ \A g \in Live : map[g] = issued[g]
  BY DEF ServerIInv, Bookkeeping, CacheIInv, CacheTypeOK
<1> HIDE DEF Live
<1> QED  BY <1>1, <1>2, <1>3, <1>4 DEF Bookkeeping, Grows

-----------------------------------------------------------------------------
(* Receiving a request. *)

\* What the engine and the count of requests see of a step.
LEMMA SurroundingsLeftAlone ==
  ASSUME ServerIInv, UNCHANGED <<db, orphans>>, begun' \in {begun, begun + 1}
  PROVE  Surroundings'
BY DEF ServerIInv, Surroundings

\* A request that touches no cache entry leaves all but its own slot as it was.
LEMMA ReceptionPreserves ==
  ASSUME ServerIInv, NEW c \in Calls, NEW k, Set(c, k), Received(c),
         UNCHANGED <<db, orphans, issued, cacheVars>>,
         HandlerOK(k, issued, minted)
  PROVE  ServerIInv'
<1>1. Bookkeeping' /\ Grows
  BY CacheLeftAlone
<1>2. Surroundings'
  BY SurroundingsLeftAlone DEF Received
<1>3. HandlerOK(k, issued', minted')
  BY DEF cacheVars
<1> QED  BY <1>1, <1>2, <1>3, OneHandlerMoves

\* The numbers a request may name and what the cache knows of them.
LEMMA NamedHandles ==
  ASSUME ServerIInv
  PROVE  /\ minted \in Nat
         /\ 0 \notin closed /\ 0 \notin Live
         /\ \A h \in Live : /\ h \in 1..minted /\ h \notin closed
                            /\ map[h] = issued[h] /\ map[h] \in Queries
<1>1. /\ minted \in Nat /\ closed \in SUBSET (1..minted) /\ Live \in SUBSET (1..minted)
      /\ closed \cap Live = {} /\ \A h \in Live : map[h] = issued[h]
      /\ map \in [Live -> Queries]
  BY DEF ServerIInv, Bookkeeping, CacheIInv, CacheTypeOK
<1> HIDE DEF Live
<1> QED  BY <1>1

\* No schema is told from the ones jobs return.
LEMMA SchemaKinds ==
  /\ NoSchema \in {"none", "status", "native", "utf8"} \X Nat
  /\ \A n \in Nat, s \in {"status", "native", "utf8"} :
       /\ <<s, n>> \in {"none", "status", "native", "utf8"} \X Nat
       /\ <<s, n>> # NoSchema
BY DEF NoSchema

\* Setting a field to a value of its type makes a handler of a handler.
LEMMA FieldUpdates ==
  ASSUME NEW n \in Nat, NEW k \in HandlerIn(n)
  PROVE  /\ \A v \in {"idle", "replied"} \cup Waiting : [k EXCEPT !.pc = v] \in HandlerIn(n)
         /\ \A v \in Ops : [k EXCEPT !.op = v] \in HandlerIn(n)
         /\ \A v \in JobTexts : [k EXCEPT !.text = v] \in HandlerIn(n)
         /\ \A v \in 0..n : [k EXCEPT !.handle = v] \in HandlerIn(n)
         /\ \A v \in 0..NumDemos : [k EXCEPT !.left = v] \in HandlerIn(n)
         /\ \A v \in {"none", "status", "native", "utf8"} \X Nat :
              [k EXCEPT !.schema = v] \in HandlerIn(n)
         /\ \A v \in Nat : [k EXCEPT !.ran = v] \in HandlerIn(n)
         /\ \A v \in Nat : [k EXCEPT !.wrote = v] \in HandlerIn(n)
         /\ \A v \in 0..n : [k EXCEPT !.want = v] \in HandlerIn(n)
         /\ \A v \in SUBSET (0..n) : [k EXCEPT !.dead = v] \in HandlerIn(n)
         /\ \A v \in {"none", "ok", "invalid", "not_found", "internal"} :
              [k EXCEPT !.status = v] \in HandlerIn(n)
BY DEF HandlerIn

\* The values of the sets of the type.
LEMMA KnownValues ==
  /\ {"match", "empty", "garbage", "show"} \subseteq JobTexts
  /\ Texts \subseteq JobTexts /\ Queries \subseteq Texts /\ "show" \notin Texts
  /\ 0 \in 0..NumDemos /\ NumDemos \in 1..NumDemos
BY QueriesAssumption, DemoAssumption DEF Texts, JobTexts, Statements

\* A handler starts out typed.
LEMMA ArrivalTyped ==
  ASSUME NEW n \in Nat, NEW op \in Ops, NEW h \in 0..n
  PROVE  Idle \in HandlerIn(n) /\ Arrival(op, h) \in HandlerIn(n)
<1>1. Idle \in HandlerIn(n)
  BY SchemaKinds, KnownValues DEF Idle, HandlerIn, Ops, Waiting
<1>2. closed \cap {h} \in SUBSET (0..n)
  OBVIOUS
<1>3. [Idle EXCEPT !.op = op] \in HandlerIn(n)
  BY <1>1, FieldUpdates
<1>4. [Idle EXCEPT !.op = op, !.want = h] \in HandlerIn(n)
  BY <1>3, FieldUpdates
<1>5. [Idle EXCEPT !.op = op, !.want = h, !.dead = closed \cap {h}] \in HandlerIn(n)
  BY <1>2, <1>4, FieldUpdates
<1> QED  BY <1>1, <1>5 DEF Arrival

\* A request that goes to work on a text, and a handler that replies.
LEMMA WorkTyped ==
  ASSUME NEW n \in Nat, NEW a \in HandlerIn(n), NEW pc \in Waiting, NEW q \in JobTexts
  PROVE  [a EXCEPT !.pc = pc, !.text = q] \in HandlerIn(n)
<1>1. [a EXCEPT !.pc = pc] \in HandlerIn(n)
  BY FieldUpdates
<1> QED  BY <1>1, FieldUpdates

LEMMA ReplyTyped ==
  ASSUME NEW n \in Nat, NEW a \in HandlerIn(n),
         NEW status \in {"ok", "invalid", "not_found", "internal"}
  PROVE  /\ Replied(a, status) \in HandlerIn(n)
         /\ Replied(a, status).pc = "replied" /\ Replied(a, status).status = status
         /\ Replied(a, status).op = a.op /\ Replied(a, status).text = a.text
         /\ Replied(a, status).handle = a.handle /\ Replied(a, status).left = a.left
         /\ Replied(a, status).schema = a.schema /\ Replied(a, status).wrote = a.wrote
         /\ Replied(a, status).want = a.want /\ Replied(a, status).dead = a.dead
<1>1. [a EXCEPT !.pc = "replied"] \in HandlerIn(n)
  BY FieldUpdates
<1>2. [a EXCEPT !.pc = "replied", !.status = status] \in HandlerIn(n)
  BY <1>1, FieldUpdates
<1> QED  BY <1>2 DEF Replied, HandlerIn

\* A text request on its way to its first job, or refused at once because the
\* text is empty.
LEMMA TextRequestOK ==
  ASSUME ServerIInv, NEW k, k \in HandlerIn(minted),
         k.handle = 0, k.schema = NoSchema, k.wrote = 0, k.want = 0,
         k.dead = closed \cap {0}, k.op \in {"info", "schema", "create", "get", "list", "show"},
         \/ /\ k.pc \in {"prepare", "execute"} /\ k.status = "none"
            /\ k.pc = "prepare" => k.op \in {"info", "schema", "create"}
            /\ k.text = "show" <=> k.op = "show"
            /\ k.op = "list" => k.text = "match" /\ k.left > 0
         \/ /\ k.pc = "replied" /\ k.status = "invalid" /\ k.text = "empty"
            /\ k.op \notin {"list", "show"}
  PROVE  HandlerOK(k, issued, minted)
BY NamedHandles DEF HandlerOK, Course, Results, Effects, Meaning, Fate, Failed, Waiting

LEMMA DescribeTextPreserves ==
  ASSUME ServerIInv, NEW c \in Calls, NEW op \in {"info", "schema"}, NEW q \in Texts,
         DescribeText(c, op, q)
  PROVE  ServerIInv'
<1> DEFINE k == [Arrival(op, 0) EXCEPT !.pc = "prepare", !.text = q]
<1>1. k \in HandlerIn(minted)
  <2>1. Arrival(op, 0) \in HandlerIn(minted)
    BY NamedHandles, ArrivalTyped DEF Ops
  <2> QED  BY <2>1, NamedHandles, KnownValues, WorkTyped DEF Waiting
<1>2. /\ k.pc = "prepare" /\ k.op = op /\ k.text = q /\ k.handle = 0 /\ k.schema = NoSchema
      /\ k.wrote = 0 /\ k.want = 0 /\ k.dead = closed \cap {0} /\ k.status = "none"
  BY DEF Arrival, Idle
<1>3. Set(c, k) /\ Received(c) /\ UNCHANGED <<db, orphans, issued, cacheVars>>
  BY DEF DescribeText
<1> HIDE DEF k
<1>4. HandlerOK(k, issued, minted)
  BY <1>1, <1>2, KnownValues, TextRequestOK
<1> QED  BY <1>3, <1>4, ReceptionPreserves

\* Create and GetText: the empty text is refused, any other goes to work.
LEMMA TextRequestPreserves ==
  ASSUME ServerIInv, NEW c \in Calls, NEW q \in Texts,
         NEW op \in {"create", "get"}, NEW pc \in {"prepare", "execute"},
         pc = "prepare" => op = "create",
         Received(c), UNCHANGED <<db, orphans, issued, cacheVars>>,
         Set(c, IF q = "empty"
                  THEN Replied(Arrival(op, 0), "invalid")
                  ELSE [Arrival(op, 0) EXCEPT !.pc = pc, !.text = q])
  PROVE  ServerIInv'
<1> DEFINE a == Arrival(op, 0)
<1>1. a \in HandlerIn(minted)
  BY NamedHandles, ArrivalTyped DEF Ops
<1>2. /\ a.op = op /\ a.text = "empty" /\ a.handle = 0 /\ a.schema = NoSchema
      /\ a.wrote = 0 /\ a.want = 0 /\ a.dead = closed \cap {0} /\ a.status = "none"
  BY DEF Arrival, Idle
<1> HIDE DEF a
<1>3. CASE q = "empty"
  <2> DEFINE k == Replied(a, "invalid")
  <2>1. HandlerOK(k, issued, minted)
    <3>1. /\ k \in HandlerIn(minted) /\ k.pc = "replied" /\ k.status = "invalid"
          /\ k.op = op /\ k.text = "empty" /\ k.handle = 0 /\ k.schema = NoSchema
          /\ k.wrote = 0 /\ k.want = 0 /\ k.dead = closed \cap {0}
      BY <1>1, <1>2, NamedHandles, ReplyTyped
    <3> HIDE DEF k
    <3> QED  BY <3>1, TextRequestOK
  <2>2. Set(c, k)
    BY <1>3 DEF a
  <2> QED  BY <2>1, <2>2, ReceptionPreserves
<1>4. CASE q # "empty"
  <2> DEFINE k == [a EXCEPT !.pc = pc, !.text = q]
  <2>1. HandlerOK(k, issued, minted)
    <3>1. k \in HandlerIn(minted)
      BY <1>1, NamedHandles, KnownValues, WorkTyped DEF Waiting
    <3>2. /\ k.pc = pc /\ k.status = "none" /\ k.op = op /\ k.text = q /\ k.handle = 0
          /\ k.schema = NoSchema /\ k.wrote = 0 /\ k.want = 0 /\ k.dead = closed \cap {0}
      BY <1>1, <1>2 DEF HandlerIn
    <3> HIDE DEF k
    <3> QED  BY <3>1, <3>2, KnownValues, TextRequestOK
  <2>2. Set(c, k)
    BY <1>4 DEF a
  <2> QED  BY <2>1, <2>2, ReceptionPreserves
<1> QED  BY <1>3, <1>4

\* Listing the demo queries and the tables.
LEMMA ListPreserves ==
  ASSUME ServerIInv, NEW c \in Calls, List(c)
  PROVE  ServerIInv'
<1> DEFINE a == [Arrival("list", 0) EXCEPT !.pc = "execute", !.text = "match"]
           k == [Arrival("list", 0) EXCEPT !.pc = "execute", !.text = "match", !.left = NumDemos]
<1>1. k \in HandlerIn(minted)
  <2>1. Arrival("list", 0) \in HandlerIn(minted)
    BY NamedHandles, ArrivalTyped DEF Ops
  <2>2. a \in HandlerIn(minted)
    BY <2>1, NamedHandles, KnownValues, WorkTyped DEF Waiting
  <2>3. NumDemos \in 0..NumDemos
    BY DemoAssumption
  <2>4. [a EXCEPT !.left = NumDemos] \in HandlerIn(minted)
    <3> HIDE DEF a
    <3> QED  BY <2>2, <2>3, NamedHandles, FieldUpdates
  <2> QED  BY <2>4
<1>2. /\ k.pc = "execute" /\ k.op = "list" /\ k.text = "match" /\ k.handle = 0
      /\ k.schema = NoSchema /\ k.wrote = 0 /\ k.want = 0 /\ k.dead = closed \cap {0}
      /\ k.status = "none" /\ k.left = NumDemos
  BY DEF Arrival, Idle
<1>3. Set(c, k) /\ Received(c) /\ UNCHANGED <<db, orphans, issued, cacheVars>>
  BY DEF List
<1> HIDE DEF k
<1>4. HandlerOK(k, issued, minted)
  BY <1>1, <1>2, DemoAssumption, TextRequestOK
<1> QED  BY <1>3, <1>4, ReceptionPreserves

LEMMA ShowPreserves ==
  ASSUME ServerIInv, NEW c \in Calls, Show(c)
  PROVE  ServerIInv'
<1> DEFINE k == [Arrival("show", 0) EXCEPT !.pc = "execute", !.text = "show"]
<1>1. k \in HandlerIn(minted)
  <2>1. Arrival("show", 0) \in HandlerIn(minted)
    BY NamedHandles, ArrivalTyped DEF Ops
  <2> QED  BY <2>1, NamedHandles, KnownValues, WorkTyped DEF Waiting
<1>2. /\ k.pc = "execute" /\ k.op = "show" /\ k.text = "show" /\ k.handle = 0
      /\ k.schema = NoSchema /\ k.wrote = 0 /\ k.want = 0 /\ k.dead = closed \cap {0}
      /\ k.status = "none"
  BY DEF Arrival, Idle
<1>3. Set(c, k) /\ Received(c) /\ UNCHANGED <<db, orphans, issued, cacheVars>>
  BY DEF Show
<1> HIDE DEF k
<1>4. HandlerOK(k, issued, minted)
  BY <1>1, <1>2, TextRequestOK
<1> QED  BY <1>3, <1>4, ReceptionPreserves

\* A request that names a handle starts with its statement, or with nothing.
LEMMA HandleRequestOK ==
  ASSUME ServerIInv, NEW k, k \in HandlerIn(minted), NEW h \in 0..minted,
         k.schema = NoSchema, k.wrote = 0, k.want = h, k.dead = closed \cap {h},
         \/ /\ h \in Live /\ k.text = map[h] /\ k.status = "none"
            /\ \/ k.pc = "prepare" /\ k.op \in {"info", "schema"} /\ k.handle = h
               \/ k.pc = "execute" /\ k.op = "get" /\ k.handle = 0
         \/ /\ h \notin Live /\ k.text = "garbage" /\ k.status = "none" /\ k.handle = 0
            /\ k.pc = "execute" /\ k.op = "get"
         \/ /\ h \notin Live /\ k.text = "empty" /\ k.status = "not_found" /\ k.handle = 0
            /\ k.pc = "replied" /\ k.op \in {"info", "schema"}
         \/ /\ k.text = "empty" /\ k.status = "ok" /\ k.handle = 0
            /\ k.pc = "replied" /\ k.op = "close"
  PROVE  HandlerOK(k, issued, minted)
<1>1. h \in Live => h # 0 /\ k.dead = {} /\ map[h] = issued[h] /\ map[h] # "show"
  BY NamedHandles, KnownValues
<1>2. Writes("empty") = FALSE
  BY DEF Writes
<1> HIDE DEF Live
<1> QED  BY <1>1, <1>2 DEF HandlerOK, Course, Results, Effects, Meaning, Fate, Failed, Waiting

LEMMA DescribeHandlePreserves ==
  ASSUME ServerIInv, NEW c \in Calls, NEW op \in {"info", "schema"}, NEW h \in 0..minted,
         DescribeHandle(c, op, h)
  PROVE  ServerIInv'
<1> DEFINE a == Arrival(op, h)
<1>1. a \in HandlerIn(minted)
  BY NamedHandles, ArrivalTyped DEF Ops
<1>2. /\ a.op = op /\ a.text = "empty" /\ a.handle = 0 /\ a.schema = NoSchema
      /\ a.wrote = 0 /\ a.want = h /\ a.dead = closed \cap {h} /\ a.status = "none"
  BY DEF Arrival, Idle
<1>3. /\ Received(c) /\ UNCHANGED <<db, orphans, issued, cacheVars>>
      /\ Set(c, IF h \in Live
                  THEN [a EXCEPT !.pc = "prepare", !.text = map[h], !.handle = h]
                  ELSE Replied(a, "not_found"))
  BY DEF DescribeHandle
<1> HIDE DEF a
<1>4. CASE h \in Live
  <2> DEFINE b == [a EXCEPT !.pc = "prepare", !.text = map[h]]
             k == [a EXCEPT !.pc = "prepare", !.text = map[h], !.handle = h]
  <2>1. k \in HandlerIn(minted)
    <3>1. b \in HandlerIn(minted)
      BY <1>1, <1>4, NamedHandles, KnownValues, WorkTyped DEF Waiting
    <3>2. [b EXCEPT !.handle = h] \in HandlerIn(minted)
      <4> HIDE DEF b
      <4> QED  BY <3>1, NamedHandles, FieldUpdates
    <3> QED  BY <3>2
  <2>2. /\ k.pc = "prepare" /\ k.op = op /\ k.text = map[h] /\ k.handle = h
        /\ k.schema = NoSchema /\ k.wrote = 0 /\ k.want = h /\ k.dead = closed \cap {h}
        /\ k.status = "none"
    BY <1>1, <1>2 DEF HandlerIn
  <2>3. Set(c, k)
    BY <1>3, <1>4
  <2> HIDE DEF k
  <2>4. HandlerOK(k, issued, minted)
    BY <1>4, <2>1, <2>2, HandleRequestOK
  <2> QED  BY <1>3, <2>3, <2>4, ReceptionPreserves
<1>5. CASE h \notin Live
  <2> DEFINE k == Replied(a, "not_found")
  <2>1. HandlerOK(k, issued, minted)
    <3>1. /\ k \in HandlerIn(minted) /\ k.pc = "replied" /\ k.status = "not_found"
          /\ k.op = op /\ k.text = "empty" /\ k.handle = 0 /\ k.schema = NoSchema
          /\ k.wrote = 0 /\ k.want = h /\ k.dead = closed \cap {h}
      BY <1>1, <1>2, NamedHandles, ReplyTyped
    <3> HIDE DEF k
    <3> QED  BY <1>5, <3>1, HandleRequestOK
  <2>2. Set(c, k)
    BY <1>3, <1>5
  <2> QED  BY <1>3, <2>1, <2>2, ReceptionPreserves
<1> QED  BY <1>4, <1>5

LEMMA GetHandlePreserves ==
  ASSUME ServerIInv, NEW c \in Calls, NEW h \in 0..minted, GetHandle(c, h)
  PROVE  ServerIInv'
<1> DEFINE q == TicketText(h)
           k == [Arrival("get", h) EXCEPT !.pc = "execute", !.text = q]
<1>1. (h \in Live => q = map[h]) /\ (h \notin Live => q = "garbage")
  BY DEF TicketText
<1>2. Set(c, k) /\ Received(c) /\ UNCHANGED <<db, orphans, issued, cacheVars>>
  BY DEF GetHandle
<1>3. q \in JobTexts
  BY <1>1, NamedHandles, KnownValues
<1> HIDE DEF q
<1>4. k \in HandlerIn(minted)
  <2>1. Arrival("get", h) \in HandlerIn(minted)
    BY NamedHandles, ArrivalTyped DEF Ops
  <2> QED  BY <1>3, <2>1, NamedHandles, WorkTyped DEF Waiting
<1>5. /\ k.pc = "execute" /\ k.op = "get" /\ k.text = q /\ k.handle = 0
      /\ k.schema = NoSchema /\ k.wrote = 0 /\ k.want = h /\ k.dead = closed \cap {h}
      /\ k.status = "none"
  BY DEF Arrival, Idle
<1> HIDE DEF k
<1>6. HandlerOK(k, issued, minted)
  BY <1>1, <1>4, <1>5, HandleRequestOK
<1> QED  BY <1>2, <1>6, ReceptionPreserves

\* A close is answered in the step that removes the entry.
LEMMA ClosePreserves ==
  ASSUME ServerIInv, NEW c \in Calls, NEW h \in 0..minted, Close(c, h)
  PROVE  ServerIInv'
<1> DEFINE a == Arrival("close", h)
           k == Replied(a, "ok")
<1>1. a \in HandlerIn(minted)
  BY NamedHandles, ArrivalTyped DEF Ops
<1>2. /\ a.op = "close" /\ a.text = "empty" /\ a.handle = 0 /\ a.schema = NoSchema
      /\ a.wrote = 0 /\ a.want = h /\ a.dead = closed \cap {h} /\ a.status = "none"
  BY DEF Arrival, Idle
<1>3. Set(c, k) /\ Received(c) /\ Remove(h) /\ UNCHANGED <<db, orphans, issued>>
  BY DEF Close
<1> HIDE DEF a
<1>4. HandlerOK(k, issued, minted)
  <2>1. /\ k \in HandlerIn(minted) /\ k.pc = "replied" /\ k.status = "ok"
        /\ k.op = "close" /\ k.text = "empty" /\ k.handle = 0 /\ k.schema = NoSchema
        /\ k.wrote = 0 /\ k.want = h /\ k.dead = closed \cap {h}
    BY <1>1, <1>2, NamedHandles, ReplyTyped
  <2> HIDE DEF k
  <2> QED  BY <2>1, HandleRequestOK
<1> HIDE DEF k
<1>5. Bookkeeping' /\ Grows /\ minted' = minted
  BY <1>3, CloseKeepsBooks
<1>6. Surroundings'
  BY <1>3, SurroundingsLeftAlone DEF Received
<1>7. HandlerOK(k, issued', minted')
  BY <1>3, <1>4, <1>5 DEF HandlerOK, Fate, Grows
<1> QED  BY <1>3, <1>5, <1>6, <1>7, OneHandlerMoves

LEMMA ReceivePreserves ==
  ASSUME ServerIInv, NEW c \in Calls, Receive(c)
  PROVE  ServerIInv'
<1>1. ASSUME NEW q \in Texts, Create(c, q)
      PROVE  ServerIInv'
  BY <1>1, TextRequestPreserves, ZenonT(60) DEF Create
<1>2. ASSUME NEW q \in Texts, GetText(c, q)
      PROVE  ServerIInv'
  BY <1>2, TextRequestPreserves, ZenonT(60) DEF GetText
<1> QED  BY <1>1, <1>2, DescribeTextPreserves, DescribeHandlePreserves, GetHandlePreserves,
            ListPreserves, ShowPreserves, ClosePreserves, ZenonT(60) DEF Receive

-----------------------------------------------------------------------------
(* Jobs. *)

\* The engine keeps its types, binds no text that is no statement and returns a
\* schema for every statement it runs.
LEMMA EngineFacts ==
  ASSUME ServerIInv, NEW q \in JobTexts
  PROVE  /\ Binds(q) => q \notin {"empty", "garbage"}
         /\ Returned(q) \in {"none", "status", "native", "utf8"} \X Nat
         /\ Returned(q) # NoSchema
         /\ Returned(q)[1] = "native" => HasColumns(q)
         /\ Native(q) \in {"none", "status", "native", "utf8"} \X Nat
         /\ Native(q) # NoSchema
         /\ Written(q) \in [exists : BOOLEAN, gen : Nat, rows : Nat]
<1>1. db \in [exists : BOOLEAN, gen : Nat, rows : Nat]
  BY DEF ServerIInv, Surroundings
<1>2. db.gen \in Nat /\ 0 \in Nat
  BY <1>1
<1>3. Binds(q) => q \notin {"empty", "garbage"}
  BY DEF Binds
<1>4. /\ Native(q) \in {"none", "status", "native", "utf8"} \X Nat /\ Native(q) # NoSchema
      /\ AllUtf8 \in {"none", "status", "native", "utf8"} \X Nat /\ AllUtf8 # NoSchema
      /\ StatusSchema \in {"none", "status", "native", "utf8"} \X Nat /\ StatusSchema # NoSchema
      /\ StatusSchema[1] # "native"
  BY <1>2, SchemaKinds DEF Native, AllUtf8, StatusSchema
<1>5. /\ Returned(q) \in {"none", "status", "native", "utf8"} \X Nat
      /\ Returned(q) # NoSchema
  BY <1>4, Zenon DEF Returned
<1>7. Returned(q)[1] = "native" => HasColumns(q)
  <2>1. ~ HasColumns(q) => Returned(q) = StatusSchema
    BY DEF Returned, HasColumns
  <2> QED  BY <1>4, <2>1
<1>6. Written(q) \in [exists : BOOLEAN, gen : Nat, rows : Nat]
  <2>1. db.rows + 1 \in Nat /\ db.gen + 1 \in Nat
    BY <1>1
  <2>2. [db EXCEPT !.rows = db.rows + 1] \in [exists : BOOLEAN, gen : Nat, rows : Nat]
    BY <1>1, <2>1
  <2>3. [exists |-> TRUE, gen |-> db.gen + 1, rows |-> 0]
          \in [exists : BOOLEAN, gen : Nat, rows : Nat]
    BY <2>1
  <2>4. [db EXCEPT !.exists = FALSE] \in [exists : BOOLEAN, gen : Nat, rows : Nat]
    BY <1>1
  <2>5. [db EXCEPT !.exists = FALSE, !.rows = 0] \in [exists : BOOLEAN, gen : Nat, rows : Nat]
    <3> DEFINE d == [db EXCEPT !.exists = FALSE]
    <3>1. d \in [exists : BOOLEAN, gen : Nat, rows : Nat]
      BY <2>4
    <3> HIDE DEF d
    <3>2. [d EXCEPT !.rows = 0] \in [exists : BOOLEAN, gen : Nat, rows : Nat]
      BY <3>1
    <3> QED  BY <3>2 DEF d
  <2> QED  BY <1>1, <2>2, <2>3, <2>5, Zenon DEF Written
<1> QED  BY <1>3, <1>4, <1>5, <1>6, <1>7

\* What the invariant says of the handler in a slot.
LEMMA TheHandler ==
  ASSUME ServerIInv, NEW c \in Calls
  PROVE  HandlerOK(call[c], issued, minted) /\ call[c] \in HandlerIn(minted)
BY DEF ServerIInv, HandlerOK

\* A step of one handler that leaves the cache alone.
LEMMA LocalStepPreserves ==
  ASSUME ServerIInv, NEW c \in Calls, NEW k, Set(c, k),
         UNCHANGED <<issued, begun, cacheVars>>, Surroundings',
         HandlerOK(k, issued, minted)
  PROVE  ServerIInv'
<1>1. Bookkeeping' /\ Grows
  BY CacheLeftAlone
<1>2. HandlerOK(k, issued', minted')
  BY DEF cacheVars
<1> QED  BY <1>1, <1>2, OneHandlerMoves

LEMMA PreparePreserves ==
  ASSUME ServerIInv, NEW c \in Calls, Prepare(c)
  PROVE  ServerIInv'
<1> DEFINE a == call[c]
<1>1. HandlerOK(a, issued, minted) /\ a \in HandlerIn(minted) /\ minted \in Nat
  BY TheHandler, NamedHandles
<1>2. /\ a.pc = "prepare" /\ UNCHANGED <<db, orphans, issued, begun, cacheVars>>
      /\ \/ Describable(a.text) /\ Set(c, [a EXCEPT !.pc = "prepared", !.schema = Native(a.text)])
         \/ Set(c, [a EXCEPT !.pc = "execute"])
  BY DEF Prepare
<1>3. a.text \in JobTexts
  BY <1>1 DEF HandlerIn
<1> HIDE DEF a
<1>4. Surroundings'
  BY <1>2, SurroundingsLeftAlone
<1>5. CASE Describable(a.text) /\ Set(c, [a EXCEPT !.pc = "prepared", !.schema = Native(a.text)])
  <2> DEFINE k == [a EXCEPT !.pc = "prepared", !.schema = Native(a.text)]
  <2>1. k \in HandlerIn(minted)
    <3>1. [a EXCEPT !.pc = "prepared"] \in HandlerIn(minted)
      BY <1>1, FieldUpdates DEF Waiting
    <3> QED  BY <1>1, <1>3, <3>1, FieldUpdates, EngineFacts
  <2>2. /\ k.pc = "prepared" /\ k.schema = Native(a.text) /\ k.op = a.op /\ k.text = a.text
        /\ k.handle = a.handle /\ k.left = a.left /\ k.wrote = a.wrote /\ k.want = a.want
        /\ k.dead = a.dead /\ k.status = a.status
    BY <1>1 DEF HandlerIn
  <2>3. /\ Native(a.text) # NoSchema /\ HasColumns(a.text) /\ a.text \notin {"empty", "garbage"}
    BY <1>3, <1>5, EngineFacts DEF Describable
  <2>4. Set(c, k)
    BY <1>5
  <2> HIDE DEF k
  <2>5. HandlerOK(k, issued, minted)
    BY <1>1, <1>2, <2>1, <2>2, <2>3
       DEF HandlerOK, Course, Results, Effects, Meaning, Fate, Failed, Waiting
  <2> QED  BY <1>2, <1>4, <2>4, <2>5, LocalStepPreserves
<1>6. CASE Set(c, [a EXCEPT !.pc = "execute"])
  <2> DEFINE k == [a EXCEPT !.pc = "execute"]
  <2>1. k \in HandlerIn(minted)
    BY <1>1, FieldUpdates DEF Waiting
  <2>2. /\ k.pc = "execute" /\ k.schema = a.schema /\ k.op = a.op /\ k.text = a.text
        /\ k.handle = a.handle /\ k.left = a.left /\ k.wrote = a.wrote /\ k.want = a.want
        /\ k.dead = a.dead /\ k.status = a.status
    BY <1>1 DEF HandlerIn
  <2>4. Set(c, k)
    BY <1>6
  <2> HIDE DEF k
  <2>5. HandlerOK(k, issued, minted)
    BY <1>1, <1>2, <2>1, <2>2
       DEF HandlerOK, Course, Results, Effects, Meaning, Fate, Failed, Waiting
  <2> QED  BY <1>2, <1>4, <2>4, <2>5, LocalStepPreserves
<1> QED  BY <1>2, <1>5, <1>6

\* The job of a handler ends: it ran the statement and has a schema, or it did
\* not, or the export broke behind it.
LEMMA ExecutedOK ==
  ASSUME ServerIInv, NEW a, HandlerOK(a, issued, minted), a.pc = "execute",
         NEW schema \in {"none", "status", "native", "utf8"} \X Nat, NEW wrote \in {0, 1},
         schema # NoSchema
           => a.text \notin {"empty", "garbage"} /\ wrote = IF Writes(a.text) THEN 1 ELSE 0,
         schema = NoSchema => wrote = 0 \/ (Faults /\ HasColumns(a.text)),
         schema[1] = "native" => HasColumns(a.text),
         NEW k, k \in HandlerIn(minted),
         k.pc = "executed", k.schema = schema, k.op = a.op, k.text = a.text,
         k.handle = a.handle, k.left = a.left, k.wrote = wrote, k.want = a.want,
         k.dead = a.dead, k.status = a.status
  PROVE  HandlerOK(k, issued, minted)
BY NamedHandles DEF HandlerOK, Course, Results, Effects, Meaning, Fate, Failed, Waiting

LEMMA ExecutePreserves ==
  ASSUME ServerIInv, NEW c \in Calls, Execute(c)
  PROVE  ServerIInv'
<1> DEFINE a == call[c]
           q == a.text
           ran == [a EXCEPT !.pc = "executed", !.ran = @ + 1]
           effect == [ran EXCEPT !.wrote = @ + (IF Writes(q) THEN 1 ELSE 0)]
<1>1. HandlerOK(a, issued, minted) /\ a \in HandlerIn(minted) /\ minted \in Nat
  BY TheHandler, NamedHandles
<1>2. /\ a.pc = "execute" /\ UNCHANGED <<orphans, issued, begun, cacheVars>>
      /\ \/ /\ Binds(q) /\ db' = Written(q) /\ Set(c, [effect EXCEPT !.schema = Returned(q)])
         \/ /\ Set(c, [ran EXCEPT !.schema = NoSchema]) /\ db' = db
         \/ /\ Faults /\ HasColumns(q) /\ db' = Written(q)
            /\ Set(c, [effect EXCEPT !.schema = NoSchema])
  BY Zenon DEF Execute
<1>3. q \in JobTexts /\ a.ran \in Nat /\ a.wrote = 0
  BY <1>1, <1>2 DEF HandlerIn, HandlerOK, Effects
<1> DEFINE w == IF Writes(q) THEN 1 ELSE 0
<1> HIDE DEF a
<1>4. ran \in HandlerIn(minted) /\ ran.wrote = 0
  <2>1. [a EXCEPT !.pc = "executed"] \in HandlerIn(minted)
    BY <1>1, FieldUpdates DEF Waiting
  <2>2. a.ran + 1 \in Nat
    BY <1>3
  <2>3. [a EXCEPT !.pc = "executed", !.ran = a.ran + 1] \in HandlerIn(minted)
    BY <1>1, <2>1, <2>2, FieldUpdates
  <2> QED  BY <1>1, <1>3, <2>3 DEF HandlerIn
<1>5. effect = [ran EXCEPT !.wrote = w]
  <2> HIDE DEF ran
  <2>1. ran.wrote + w = w
    BY <1>4
  <2>2. effect = [ran EXCEPT !.wrote = ran.wrote + w]
    OBVIOUS
  <2> HIDE DEF w, effect
  <2> QED  BY <2>1, <2>2
<1>6. /\ ran.pc = "executed" /\ ran.op = a.op /\ ran.text = q /\ ran.handle = a.handle
      /\ ran.left = a.left /\ ran.want = a.want /\ ran.dead = a.dead /\ ran.status = a.status
  BY <1>1 DEF HandlerIn
<1> HIDE DEF ran, effect, q
<1>7. Surroundings'
  BY <1>2, <1>3, EngineFacts DEF Surroundings, ServerIInv
<1>8. ASSUME NEW schema \in {"none", "status", "native", "utf8"} \X Nat,
             NEW n \in {0, 1},
             schema # NoSchema => q \notin {"empty", "garbage"} /\ n = w,
             schema = NoSchema => n = 0 \/ (Faults /\ HasColumns(q)),
             schema[1] = "native" => HasColumns(q),
             Set(c, [ran EXCEPT !.wrote = n, !.schema = schema])
      PROVE  ServerIInv'
  <2> DEFINE b == [ran EXCEPT !.wrote = n]
             k == [ran EXCEPT !.wrote = n, !.schema = schema]
  <2>1. k \in HandlerIn(minted)
    <3>1. b \in HandlerIn(minted)
      <4>1. n \in Nat
        OBVIOUS
      <4> QED  BY <1>1, <1>4, <4>1, FieldUpdates
    <3>2. [b EXCEPT !.schema = schema] \in HandlerIn(minted)
      <4> HIDE DEF b
      <4> QED  BY <1>1, <3>1, FieldUpdates
    <3> QED  BY <3>2
  <2>2. /\ k.pc = "executed" /\ k.schema = schema /\ k.op = a.op /\ k.text = q
        /\ k.handle = a.handle /\ k.left = a.left /\ k.wrote = n /\ k.want = a.want
        /\ k.dead = a.dead /\ k.status = a.status
    BY <1>4, <1>6 DEF HandlerIn
  <2>3. Set(c, k)
    BY <1>8
  <2> HIDE DEF k
  <2>4. HandlerOK(k, issued, minted)
    BY <1>1, <1>2, <1>8, <2>1, <2>2, ExecutedOK DEF q
  <2> QED  BY <1>2, <1>7, <2>3, <2>4, LocalStepPreserves
<1>9. /\ w \in {0, 1} /\ NoSchema \in {"none", "status", "native", "utf8"} \X Nat
      /\ NoSchema[1] # "native"
  BY SchemaKinds DEF NoSchema
<1>10. CASE Binds(q) /\ Set(c, [effect EXCEPT !.schema = Returned(q)])
  <2>1. Set(c, [ran EXCEPT !.wrote = w, !.schema = Returned(q)])
    BY <1>5, <1>10
  <2> HIDE DEF w
  <2> QED  BY <1>3, <1>8, <1>9, <1>10, <2>1, EngineFacts
<1>11. CASE Set(c, [ran EXCEPT !.schema = NoSchema])
  <2>1. [ran EXCEPT !.wrote = 0] = ran
    BY <1>4 DEF HandlerIn
  <2>2. Set(c, [ran EXCEPT !.wrote = 0, !.schema = NoSchema])
    BY <1>11, <2>1
  <2> QED  BY <1>8, <1>9, <2>2
<1>12. CASE Faults /\ HasColumns(q) /\ Set(c, [effect EXCEPT !.schema = NoSchema])
  <2>1. Set(c, [ran EXCEPT !.wrote = w, !.schema = NoSchema])
    BY <1>5, <1>12
  <2> HIDE DEF w
  <2> QED  BY <1>8, <1>9, <1>12, <2>1
<1> QED  BY <1>2, <1>10, <1>11, <1>12

-----------------------------------------------------------------------------
(* Answers. *)

\* The status an answer may have, given how the last job of the handler ended.
Deserves(a, status) ==
  \/ Failed(a) /\ status \in {"invalid", "internal"}
  \/ Faults /\ a.schema[1] = "native" /\ status = "internal"
  \/ (~ Failed(a) \/ a.op = "show") /\ status = "ok"

LEMMA OutcomeDeserved ==
  ASSUME NEW a, NEW status \in Outcome(a)
  PROVE  /\ Deserves(a, status) /\ status \in {"ok", "invalid", "internal"}
         /\ ~ Failed(a) => status \in {"ok", "internal"}
         /\ status = "ok" => ~ Failed(a)
<1>1. CASE Failed(a)
  <2>1. Outcome(a) = ErrorStatus(a)
    BY <1>1 DEF Outcome, Failed, NoSchema
  <2>2. status \in {"invalid", "internal"}
    BY <2>1 DEF ErrorStatus, Fault
  <2> QED  BY <1>1, <2>2 DEF Deserves
<1>2. CASE ~ Failed(a)
  <2>1. status = "ok" \/ (Faults /\ a.schema[1] = "native" /\ status = "internal")
    BY <1>2 DEF Outcome, Fault
  <2> QED  BY <1>2, <2>1 DEF Deserves
<1> QED  BY <1>1, <1>2

\* A handler that answers as its last job ended, with the handle it was given or
\* the one it just stored its statement under.
LEMMA AnsweredOK ==
  ASSUME NEW iss, NEW n \in Nat, NEW a, HandlerOK(a, iss, n),
         a.pc \in {"prepared", "executed"},
         NEW k, k \in HandlerIn(n), k.pc = "replied", k.op = a.op, k.text = a.text,
         k.wrote = a.wrote, k.want = a.want, k.dead = a.dead,
         k.handle = a.handle \/ iss[k.handle] = a.text,
         Deserves(a, k.status)
  PROVE  HandlerOK(k, iss, n)
<1>1. ~ Writes("show")
  BY DEF Writes
<1> QED  BY <1>1 DEF Deserves, HandlerOK, Course, Results, Effects, Meaning, Fate, Failed, Waiting

\* An answer that leaves the cache alone.
LEMMA PlainAnswerPreserves ==
  ASSUME ServerIInv, NEW c \in Calls, call[c].pc \in {"prepared", "executed"},
         NEW status \in {"ok", "invalid", "internal"},
         Deserves(call[c], status),
         Set(c, Replied(call[c], status)),
         UNCHANGED <<db, orphans, issued, begun, cacheVars>>
  PROVE  ServerIInv'
<1> DEFINE a == call[c]
           k == Replied(a, status)
<1>1. HandlerOK(a, issued, minted) /\ a \in HandlerIn(minted) /\ minted \in Nat
  BY TheHandler, NamedHandles
<1>2. a.pc \in {"prepared", "executed"} /\ Set(c, k) /\ Deserves(a, status)
  OBVIOUS
<1> HIDE DEF a
<1>3. /\ k \in HandlerIn(minted) /\ k.pc = "replied" /\ k.status = status /\ k.op = a.op
      /\ k.text = a.text /\ k.handle = a.handle /\ k.wrote = a.wrote /\ k.want = a.want
      /\ k.dead = a.dead
  BY <1>1, ReplyTyped
<1> HIDE DEF k
<1>4. HandlerOK(k, issued, minted)
  BY <1>1, <1>2, <1>3, AnsweredOK
<1>5. Surroundings'
  BY SurroundingsLeftAlone
<1> QED  BY <1>2, <1>4, <1>5, LocalStepPreserves

\* An answer that stores the statement and returns its new handle, unless the
\* schema cannot be encoded.
LEMMA StoringAnswerPreserves ==
  ASSUME ServerIInv, NEW c \in Calls, call[c].pc \in {"prepared", "executed"},
         call[c].op \in {"info", "create"}, ~ Failed(call[c]),
         NEW status \in {"ok", "internal"}, Deserves(call[c], status),
         Store(call[c].text),
         Set(c, Replied([call[c] EXCEPT !.handle = minted'], status)),
         UNCHANGED <<db, orphans, begun>>
  PROVE  ServerIInv'
<1> DEFINE a == call[c]
           b == [a EXCEPT !.handle = minted']
           k == Replied(b, status)
<1>1. HandlerOK(a, issued, minted) /\ a \in HandlerIn(minted)
  BY TheHandler
<1>2. /\ a.pc \in {"prepared", "executed"} /\ a.op \in {"info", "create"} /\ ~ Failed(a)
      /\ Set(c, k) /\ Store(a.text) /\ Deserves(a, status)
  OBVIOUS
<1> HIDE DEF a
<1>3. a.text \in Queries
  <2>1. a.text \in JobTexts /\ a.text \notin {"show", "empty", "garbage"}
    BY <1>1, <1>2 DEF HandlerIn, HandlerOK, Course, Results
  <2> QED  BY <2>1 DEF JobTexts, Texts
<1>4. Bookkeeping' /\ Grows /\ minted' = minted + 1 /\ issued'[minted'] = a.text
  BY <1>2, <1>3, StoreKeepsBooks
<1>5. HandlerOK(a, issued', minted') /\ a \in HandlerIn(minted')
  <2>1. HandlerOK(call[c], issued', minted')
    BY <1>4, OthersUndisturbed
  <2> QED  BY <2>1 DEF HandlerOK, a
<1>6. minted' \in Nat /\ minted' \in 0..minted'
  BY <1>4, NamedHandles
<1>7. b \in HandlerIn(minted')
  BY <1>5, <1>6, FieldUpdates
<1>8. /\ b.handle = minted' /\ b.op = a.op /\ b.text = a.text /\ b.wrote = a.wrote
      /\ b.want = a.want /\ b.dead = a.dead
  BY <1>1 DEF HandlerIn
<1> HIDE DEF b
<1>9. /\ k \in HandlerIn(minted') /\ k.pc = "replied" /\ k.status = status /\ k.op = a.op
      /\ k.text = a.text /\ k.handle = minted' /\ k.wrote = a.wrote /\ k.want = a.want
      /\ k.dead = a.dead
  BY <1>6, <1>7, <1>8, ReplyTyped
<1> HIDE DEF k
<1>10. HandlerOK(k, issued', minted')
  BY <1>2, <1>4, <1>5, <1>6, <1>9, AnsweredOK
<1>11. Surroundings'
  BY SurroundingsLeftAlone
<1> QED  BY <1>2, <1>4, <1>10, <1>11, OneHandlerMoves

\* One round of list_flights: the statement is stored, and the handler replies
\* or goes on to its next query.
LEMMA RoundPreserves ==
  ASSUME ServerIInv, NEW c \in Calls, call[c].pc \in {"prepared", "executed"},
         call[c].op = "list", ~ Failed(call[c]), Store(call[c].text),
         NEW status \in {"ok", "internal"}, Deserves(call[c], status),
         Set(c, LET k == [call[c] EXCEPT !.left = @ - 1]
                IN  IF status = "ok" /\ ~ LastRound(k)
                      THEN [k EXCEPT !.pc = "execute"] ELSE Replied(k, status)),
         UNCHANGED <<db, orphans, begun>>
  PROVE  ServerIInv'
<1> DEFINE a == call[c]
           b == [a EXCEPT !.left = a.left - 1]
<1>1. HandlerOK(a, issued, minted) /\ a \in HandlerIn(minted)
  BY TheHandler
<1>2. /\ a.pc \in {"prepared", "executed"} /\ a.op = "list" /\ ~ Failed(a) /\ Store(a.text)
      /\ Deserves(a, status)
      /\ Set(c, IF status = "ok" /\ ~ LastRound(b)
                  THEN [b EXCEPT !.pc = "execute"] ELSE Replied(b, status))
  OBVIOUS
<1> HIDE DEF a
<1>3. a.text = "match" /\ a.left \in 1..NumDemos
  BY <1>1, <1>2, DemoAssumption DEF HandlerOK, HandlerIn, Course, Waiting
<1>4. Bookkeeping' /\ Grows /\ minted' = minted + 1
  BY <1>2, <1>3, StoreKeepsBooks, DemoAssumption
<1>5. HandlerOK(a, issued', minted') /\ a \in HandlerIn(minted')
  <2>1. HandlerOK(call[c], issued', minted')
    BY <1>4, OthersUndisturbed
  <2> QED  BY <2>1 DEF HandlerOK, a
<1>6. minted' \in Nat /\ a.left - 1 \in 0..NumDemos
  BY <1>3, <1>4, NamedHandles, DemoAssumption
<1>7. b \in HandlerIn(minted')
  BY <1>5, <1>6, FieldUpdates
<1>8. /\ b.handle = a.handle /\ b.op = a.op /\ b.text = a.text /\ b.wrote = a.wrote
      /\ b.want = a.want /\ b.dead = a.dead /\ b.left = a.left - 1 /\ b.status = a.status
  BY <1>1 DEF HandlerIn
<1>9. Surroundings'
  BY SurroundingsLeftAlone
<1> HIDE DEF b
<1>10. CASE status # "ok" \/ LastRound(b)
  <2> DEFINE k == Replied(b, status)
  <2>1. /\ k \in HandlerIn(minted') /\ k.pc = "replied" /\ k.status = status /\ k.op = a.op
        /\ k.text = a.text /\ k.handle = a.handle /\ k.wrote = a.wrote /\ k.want = a.want
        /\ k.dead = a.dead
    BY <1>6, <1>7, <1>8, ReplyTyped
  <2>2. Set(c, k)
    BY <1>2, <1>10
  <2> HIDE DEF k
  <2>3. HandlerOK(k, issued', minted')
    BY <1>2, <1>5, <1>6, <2>1, AnsweredOK
  <2> QED  BY <1>4, <1>9, <2>2, <2>3, OneHandlerMoves
<1>11. CASE status = "ok" /\ ~ LastRound(b)
  <2> DEFINE k == [b EXCEPT !.pc = "execute"]
  <2>1. k \in HandlerIn(minted')
    BY <1>6, <1>7, FieldUpdates DEF Waiting
  <2>2. /\ k.pc = "execute" /\ k.status = a.status /\ k.op = a.op /\ k.left = a.left - 1
        /\ k.text = a.text /\ k.handle = a.handle /\ k.wrote = a.wrote /\ k.want = a.want
        /\ k.dead = a.dead
    BY <1>7, <1>8 DEF HandlerIn
  <2>3. a.left - 1 > 0
    BY <1>3, <1>8, <1>11, DemoAssumption DEF LastRound
  <2>4. Set(c, k)
    BY <1>2, <1>11
  <2>5. ~ Writes(a.text)
    BY <1>3 DEF Writes
  <2> HIDE DEF k
  <2>6. HandlerOK(k, issued', minted')
    BY <1>2, <1>3, <1>5, <2>1, <2>2, <2>3, <2>5
       DEF HandlerOK, Course, Results, Effects, Meaning, Fate, Failed, Waiting
  <2> QED  BY <1>4, <1>9, <2>4, <2>6, OneHandlerMoves
<1> QED  BY <1>10, <1>11

LEMMA AnswerPreserves ==
  ASSUME ServerIInv, NEW c \in Calls, Answer(c)
  PROVE  ServerIInv'
<1>1. CASE AnswerInfo(c)
  <2>1. PICK status \in Outcome(call[c]) :
          \/ /\ Set(c, Replied(call[c], status))
             /\ UNCHANGED <<issued, cacheVars>>
          \/ /\ ~ Failed(call[c])
             /\ Store(call[c].text)
             /\ Set(c, Replied([call[c] EXCEPT !.handle = minted'], status))
    BY <1>1, Zenon DEF AnswerInfo
  <2>2. call[c].pc \in {"prepared", "executed"} /\ call[c].op = "info"
        /\ UNCHANGED <<db, orphans, begun>>
    BY <1>1 DEF AnswerInfo, Ready
  <2> QED  BY <2>1, <2>2, OutcomeDeserved, PlainAnswerPreserves, StoringAnswerPreserves
<1>2. CASE AnswerCreate(c)
  <2>1. PICK status \in Outcome(call[c]) :
          \/ /\ Set(c, Replied(call[c], status))
             /\ UNCHANGED <<issued, cacheVars>>
          \/ /\ status = "ok"
             /\ Store(call[c].text)
             /\ Set(c, Replied([call[c] EXCEPT !.handle = minted'], status))
    BY <1>2, Zenon DEF AnswerCreate
  <2>2. call[c].pc \in {"prepared", "executed"} /\ call[c].op = "create"
        /\ UNCHANGED <<db, orphans, begun>>
    BY <1>2 DEF AnswerCreate, Ready
  <2> QED  BY <2>1, <2>2, OutcomeDeserved, PlainAnswerPreserves, StoringAnswerPreserves
<1>3. CASE AnswerQuery(c)
  <2>1. PICK status \in IF call[c].op = "show" THEN {"ok"} ELSE Outcome(call[c]) :
          Set(c, Replied(call[c], status))
    BY <1>3 DEF AnswerQuery
  <2>2. call[c].pc \in {"prepared", "executed"}
        /\ UNCHANGED <<db, orphans, issued, begun, cacheVars>>
    BY <1>3 DEF AnswerQuery, Ready
  <2>3. Deserves(call[c], status) /\ status \in {"ok", "invalid", "internal"}
    BY <2>1, OutcomeDeserved DEF Deserves
  <2> QED  BY <2>1, <2>2, <2>3, PlainAnswerPreserves
<1>4. CASE AnswerList(c)
  <2> DEFINE l == [call[c] EXCEPT !.left = @ - 1]
  <2>1. call[c].pc \in {"prepared", "executed"} /\ call[c].op = "list"
        /\ UNCHANGED <<db, orphans, begun>>
    BY <1>4 DEF AnswerList, Ready
  <2>2. CASE /\ Failed(call[c]) /\ Set(c, Replied(call[c], "internal"))
             /\ UNCHANGED <<issued, cacheVars>>
    BY <2>1, <2>2, PlainAnswerPreserves, SMTT(30) DEF Deserves
  <2>3. CASE /\ ~ Failed(call[c]) /\ Store(call[c].text)
             /\ \E status \in Outcome(l) :
                  Set(c, IF status = "ok" /\ ~ LastRound(l)
                           THEN [l EXCEPT !.pc = "execute"] ELSE Replied(l, status))
    <3>1. PICK status \in Outcome(l) :
            Set(c, IF status = "ok" /\ ~ LastRound(l)
                     THEN [l EXCEPT !.pc = "execute"] ELSE Replied(l, status))
      BY <2>3
    <3>2. l.schema = call[c].schema
      BY TheHandler DEF HandlerIn
    <3>3. status \in {"ok", "internal"} /\ Deserves(call[c], status)
      <4> HIDE DEF l
      <4> QED  BY <2>3, <3>1, <3>2, OutcomeDeserved DEF Deserves, Failed
    <3> QED  BY <2>1, <2>3, <3>1, <3>3, RoundPreserves
  <2> QED  BY <1>4, <2>2, <2>3 DEF AnswerList
<1> QED  BY <1>1, <1>2, <1>3, <1>4 DEF Answer

-----------------------------------------------------------------------------
(* Disconnecting callers and the jobs they leave. *)

LEMMA CancelPreserves ==
  ASSUME ServerIInv, NEW c \in Calls, Cancel(c)
  PROVE  ServerIInv'
<1>1. Idle \in HandlerIn(minted)
  BY NamedHandles, ArrivalTyped DEF Ops
<1>2. HandlerOK(Idle, issued, minted)
  BY <1>1 DEF Idle, HandlerOK, Course, Results, Effects, Meaning, Fate, Failed, Waiting
<1>3. call[c].text \in JobTexts
  BY TheHandler DEF HandlerIn
<1>4. Surroundings'
  BY <1>3 DEF Cancel, Surroundings, ServerIInv
<1> QED  BY <1>2, <1>4, LocalStepPreserves DEF Cancel

\* Steps that touch no handler.
LEMMA HandlersLeftAlone ==
  ASSUME ServerIInv, UNCHANGED <<call, issued, cacheVars>>, Surroundings'
  PROVE  ServerIInv'
<1>1. Bookkeeping' /\ Grows
  BY CacheLeftAlone
<1>2. UNCHANGED <<issued, closed, minted>>
  BY DEF cacheVars
<1> QED  BY <1>1, <1>2 DEF ServerIInv

LEMMA RunOrphanPreserves ==
  ASSUME ServerIInv, NEW q \in JobTexts, RunOrphan(q)
  PROVE  ServerIInv'
<1>1. /\ orphans[q] > 0 /\ orphans' = [orphans EXCEPT ![q] = @ - 1]
      /\ db' = Written(q) \/ db' = db
      /\ UNCHANGED <<call, issued, begun, cacheVars>>
  BY DEF RunOrphan
<1>2. Surroundings'
  BY <1>1, EngineFacts DEF Surroundings, ServerIInv
<1> QED  BY <1>1, <1>2, HandlersLeftAlone

-----------------------------------------------------------------------------

\* A server that nobody has called yet.
LEMMA ServerInitEstablishes == ServerInit => ServerIInv
<1> SUFFICES ASSUME ServerInit PROVE ServerIInv
  OBVIOUS
<1>1. CacheIInv /\ minted = 0 /\ closed = {} /\ issued = <<>> /\ Live = {}
  BY InitEstablishes DEF ServerInit, CacheInit, Live
<1>2. Bookkeeping
  BY <1>1 DEF Bookkeeping
<1>3. Surroundings
  BY DEF ServerInit, Surroundings
<1>4. Idle \in HandlerIn(minted)
  BY <1>1, ArrivalTyped DEF Ops
<1>5. HandlerOK(Idle, issued, minted)
  BY <1>4 DEF Idle, HandlerOK, Course, Results, Effects, Meaning, Fate, Failed, Waiting
<1> HIDE DEF Idle
<1> QED  BY <1>2, <1>3, <1>4, <1>5 DEF ServerIInv, ServerInit

\* Each step of the server preserves the invariant.
LEMMA ServerStep == ServerIInv /\ [ServerNext]_serverVars => ServerIInv'
<1> SUFFICES ASSUME ServerIInv, [ServerNext]_serverVars
             PROVE  ServerIInv'
  OBVIOUS
<1>1. ASSUME NEW c \in Calls, Receive(c) \/ Job(c) \/ Answer(c) \/ Cancel(c)
      PROVE  ServerIInv'
  BY <1>1, ReceivePreserves, PreparePreserves, ExecutePreserves, AnswerPreserves,
     CancelPreserves DEF Job
<1>2. ASSUME NEW q \in JobTexts, RunOrphan(q)
      PROVE  ServerIInv'
  BY <1>2, RunOrphanPreserves
<1>3. CASE UNCHANGED serverVars
  <2>1. Surroundings'
    BY <1>3, SurroundingsLeftAlone DEF serverVars
  <2> QED  BY <1>3, <2>1, HandlersLeftAlone DEF serverVars
<1> QED  BY <1>1, <1>2, <1>3 DEF ServerNext

\* The inductive invariant holds of the server whatever requests arrive, in
\* whatever order handlers are polled, cancelled and served by the engine.
THEOREM ServerInvariant == ServerSpec => []ServerIInv
<1>1. ServerInit => ServerIInv
  BY ServerInitEstablishes
<1>2. ServerIInv /\ [ServerNext]_serverVars => ServerIInv'
  BY ServerStep
<1> QED  BY <1>1, <1>2, PTL DEF ServerSpec

\* The type invariant of the server.
THEOREM ServerTypeCorrect == ServerSpec => []ServerTypeOK
<1>1. ServerIInv => ServerTypeOK
  BY DEF ServerIInv, Bookkeeping, CacheIInv, Surroundings, ServerTypeOK, HandlerType, HandlerIn
<1> QED  BY <1>1, ServerInvariant, PTL

\* A handle never comes to mean another statement: whatever is stored, closed,
\* displaced or cancelled meanwhile, a request that names a handle works on the
\* statement the handle was minted for, or on one the engine refuses.
THEOREM HandlesNeverChangeMeaning == ServerSpec => []HandlesKeepMeaning
<1>1. ServerIInv => HandlesKeepMeaning
  BY DEF ServerIInv, Bookkeeping, HandlesKeepMeaning, HandlerOK, Meaning
<1> QED  BY <1>1, ServerInvariant, PTL

\* Nothing is had from a handle after its close was answered.
THEOREM ClosedHandlesStayClosed == ServerSpec => []ClosedStaysClosed
<1>1. ServerIInv => ClosedStaysClosed
  BY DEF ServerIInv, ClosedStaysClosed, HandlerOK, Fate
<1> QED  BY <1>1, ServerInvariant, PTL

\* Answers tell what happened to the database: errors mean that nothing was
\* written (but for a broken export), success that the statement ran, and no
\* call writes twice, in any number of concurrent handlers.
THEOREM AnswersAreHonest == ServerSpec => []AnswersTellEffects
<1>1. ServerIInv => AnswersTellEffects
  BY DEF ServerIInv, AnswersTellEffects, HandlerOK, Effects
<1> QED  BY <1>1, ServerInvariant, PTL

\* An answered statement that goes into the cache is one of the engine's.
LEMMA StoredIsQuery ==
  ASSUME ServerIInv, NEW c \in Calls, call[c].op \in {"info", "create", "list"},
         call[c].pc \in {"prepared", "executed"}, ~ Failed(call[c])
  PROVE  call[c].text \in Queries
<1>1. HandlerOK(call[c], issued, minted) /\ call[c] \in HandlerIn(minted)
  BY TheHandler
<1>2. call[c].text \in JobTexts /\ call[c].text \notin {"show", "empty", "garbage"}
  BY <1>1 DEF HandlerIn, HandlerOK, Course, Results
<1> QED  BY <1>2 DEF JobTexts, Texts

\* What an answer does to the cache.
Stored(c) ==
  /\ call[c].op \in {"info", "create", "list"} /\ Store(call[c].text)
  /\ call[c].pc \in {"prepared", "executed"} /\ ~ Failed(call[c])

LEMMA AnswerStores ==
  ASSUME NEW c \in Calls, Answer(c)
  PROVE  UNCHANGED <<issued, cacheVars>> \/ Stored(c)
<1>1. CASE AnswerInfo(c)
  BY <1>1 DEF AnswerInfo, Ready, Stored
<1>2. CASE AnswerCreate(c)
  BY <1>2, OutcomeDeserved DEF AnswerCreate, Ready, Stored
<1>3. CASE AnswerQuery(c)
  BY <1>3 DEF AnswerQuery
<1>4. CASE AnswerList(c)
  BY <1>4 DEF AnswerList, Ready, Stored
<1> QED  BY <1>1, <1>2, <1>3, <1>4 DEF Answer

\* What the server does to the cache are the cache's own steps.
LEMMA ServerCacheStep == ServerIInv /\ [ServerNext]_serverVars => [CacheNext]_cacheVars
<1> SUFFICES ASSUME ServerIInv, [ServerNext]_serverVars
             PROVE  [CacheNext]_cacheVars
  OBVIOUS
<1>1. ASSUME NEW c \in Calls, Answer(c)
      PROVE  [CacheNext]_cacheVars
  <2>1. UNCHANGED cacheVars \/ Stored(c)
    BY <1>1, AnswerStores, ZenonT(60)
  <2> QED  BY <2>1, StoredIsQuery DEF CacheNext, Store, Stored
<1>2. ASSUME NEW c \in Calls, NEW h \in 0..minted, Close(c, h)
      PROVE  CacheNext
  <2>1. Remove(h)
    BY <1>2, Zenon DEF Close
  <2> QED  BY <2>1 DEF CacheNext
<1>3. ASSUME NEW c \in Calls, Receive(c)
      PROVE  [CacheNext]_cacheVars
  BY <1>2, <1>3 DEF Receive, DescribeText, DescribeHandle, Create, GetText, GetHandle, List, Show
<1>4. ASSUME NEW c \in Calls, Job(c) \/ Cancel(c)
      PROVE  UNCHANGED cacheVars
  BY <1>4, Zenon DEF Job, Prepare, Execute, Cancel
<1>5. ASSUME NEW q \in JobTexts, RunOrphan(q)
      PROVE  UNCHANGED cacheVars
  BY <1>5 DEF RunOrphan
<1>6. CASE UNCHANGED serverVars
  BY <1>6 DEF serverVars
<1> QED  BY <1>1, <1>3, <1>4, <1>5, <1>6 DEF ServerNext

\* The handlers touch the cache through `insert` and `remove` only, with
\* statements the engine accepted: what is proved of the cache alone holds of
\* it inside the server.
THEOREM ServerUsesTheCache == ServerSpec => UsesTheCache
<1>1. ServerInit => CacheInit
  BY DEF ServerInit
<1>2. ServerIInv /\ [ServerNext]_serverVars => [CacheNext]_cacheVars
  BY ServerCacheStep
<1> QED  BY <1>1, <1>2, ServerInvariant, PTL DEF ServerSpec, UsesTheCache, CacheSpec

-----------------------------------------------------------------------------
(* Handles that are gone.  Some handles may have gone another way than by a  *)
(* close: those of a process that ended, in the module that restarts it.     *)

\* How a request arrives, given the cache it is resolved against.
Arrives(k) ==
  /\ k.want \in 0..minted
  /\ k.status = "not_found" => k.want \notin Live
  /\ k.want # 0 /\ k.want \notin Live /\ k.op # "close"
       => k.status # "ok" /\ k.text \in {"empty", "garbage"}

\* How the handler a goes on as k: with the same request, and it succeeds only
\* when its last job did.
GoesOn(a, k) ==
  /\ k.want = a.want /\ k.op = a.op /\ k.text = a.text
  /\ k.status # "not_found"
  /\ k.status = "ok" => a.pc \in {"prepared", "executed"} /\ (~ Failed(a) \/ a.op = "show")

\* A slot's next handler.
Follows(a, k) == k = Idle \/ Arrives(k) \/ GoesOn(a, k)

LEMMA ReceiveFollows ==
  ASSUME ServerIInv, NEW c \in Calls, Receive(c)
  PROVE  \E k : Set(c, k) /\ Arrives(k)
<1>1. minted \in Nat /\ 0 \in 0..minted
  BY NamedHandles
<1>2. ASSUME NEW op \in {"info", "schema"}, NEW q \in Texts, DescribeText(c, op, q)
      PROVE  \E k : Set(c, k) /\ Arrives(k)
  <2> DEFINE k == [Arrival(op, 0) EXCEPT !.pc = "prepare", !.text = q]
  <2>1. Set(c, k) /\ k.want = 0 /\ k.status = "none"
    BY <1>2 DEF DescribeText, Arrival, Idle
  <2> HIDE DEF k
  <2> QED  BY <1>1, <2>1 DEF Arrives
<1>3. ASSUME NEW op \in {"info", "schema"}, NEW h \in 0..minted, DescribeHandle(c, op, h)
      PROVE  \E k : Set(c, k) /\ Arrives(k)
  <2>1. CASE h \in Live
    <3> DEFINE k == [Arrival(op, h) EXCEPT !.pc = "prepare", !.text = map[h], !.handle = h]
    <3>1. Set(c, k) /\ k.want = h /\ k.status = "none"
      BY <1>3, <2>1 DEF DescribeHandle, Arrival, Idle
    <3> HIDE DEF k
    <3> QED  BY <2>1, <3>1 DEF Arrives
  <2>2. CASE h \notin Live
    <3> DEFINE k == Replied(Arrival(op, h), "not_found")
    <3>1. Set(c, k) /\ k.want = h /\ k.status = "not_found" /\ k.text = "empty"
      BY <1>3, <2>2 DEF DescribeHandle, Arrival, Idle, Replied
    <3> HIDE DEF k
    <3> QED  BY <2>2, <3>1 DEF Arrives
  <2> QED  BY <2>1, <2>2
<1>4. ASSUME NEW q \in Texts, Create(c, q) \/ GetText(c, q)
      PROVE  \E k : Set(c, k) /\ Arrives(k)
  <2>1. PICK op \in {"create", "get"}, pc \in {"prepare", "execute"} :
          Set(c, IF q = "empty" THEN Replied(Arrival(op, 0), "invalid")
                 ELSE [Arrival(op, 0) EXCEPT !.pc = pc, !.text = q])
    BY <1>4 DEF Create, GetText
  <2> DEFINE no == Replied(Arrival(op, 0), "invalid")
             go == [Arrival(op, 0) EXCEPT !.pc = pc, !.text = q]
  <2>2. no.want = 0 /\ no.status = "invalid" /\ go.want = 0 /\ go.status = "none"
    BY DEF Replied, Arrival, Idle
  <2>3. Set(c, no) \/ Set(c, go)
    BY <2>1
  <2> HIDE DEF no, go
  <2> QED  BY <1>1, <2>2, <2>3 DEF Arrives
<1>5. ASSUME NEW h \in 0..minted, GetHandle(c, h)
      PROVE  \E k : Set(c, k) /\ Arrives(k)
  <2> DEFINE k == [Arrival("get", h) EXCEPT !.pc = "execute", !.text = TicketText(h)]
  <2>1. Set(c, k) /\ k.want = h /\ k.status = "none" /\ (h \notin Live => k.text = "garbage")
    BY <1>5 DEF GetHandle, Arrival, Idle, TicketText
  <2> HIDE DEF k
  <2> QED  BY <2>1 DEF Arrives
<1>6. ASSUME NEW h \in 0..minted, Close(c, h)
      PROVE  \E k : Set(c, k) /\ Arrives(k)
  <2> DEFINE k == Replied(Arrival("close", h), "ok")
  <2>1. Set(c, k) /\ k.want = h /\ k.status = "ok" /\ k.op = "close"
    BY <1>6 DEF Close, Arrival, Idle, Replied
  <2> HIDE DEF k
  <2> QED  BY <2>1 DEF Arrives
<1>7. ASSUME List(c) \/ Show(c)
      PROVE  \E k : Set(c, k) /\ Arrives(k)
  <2> DEFINE l == [Arrival("list", 0) EXCEPT !.pc = "execute", !.text = "match", !.left = NumDemos]
             s == [Arrival("show", 0) EXCEPT !.pc = "execute", !.text = "show"]
  <2>1. Set(c, l) \/ Set(c, s)
    BY <1>7 DEF List, Show
  <2>2. l.want = 0 /\ l.status = "none" /\ s.want = 0 /\ s.status = "none"
    BY DEF Arrival, Idle
  <2> HIDE DEF l, s
  <2> QED  BY <1>1, <2>1, <2>2 DEF Arrives
<1> QED  BY <1>2, <1>3, <1>4, <1>5, <1>6, <1>7 DEF Receive

LEMMA JobFollows ==
  ASSUME ServerIInv, NEW c \in Calls, Job(c)
  PROVE  \E k : Set(c, k) /\ GoesOn(call[c], k)
<1> DEFINE a == call[c]
<1>1. a \in HandlerIn(minted) /\ HandlerOK(a, issued, minted)
  BY TheHandler
<1>2. \E k : /\ Set(c, k) /\ a.pc # "replied"
             /\ k.want = a.want /\ k.op = a.op /\ k.text = a.text /\ k.status = a.status
  <2>1. CASE Prepare(c)
    <3> DEFINE y == [a EXCEPT !.pc = "prepared", !.schema = Native(a.text)]
               n == [a EXCEPT !.pc = "execute"]
    <3>1. (Set(c, y) \/ Set(c, n)) /\ a.pc # "replied"
      BY <2>1 DEF Prepare
    <3> HIDE DEF a
    <3>2. /\ y.want = a.want /\ y.op = a.op /\ y.text = a.text /\ y.status = a.status
          /\ n.want = a.want /\ n.op = a.op /\ n.text = a.text /\ n.status = a.status
      BY <1>1 DEF HandlerIn
    <3> HIDE DEF y, n
    <3> QED  BY <3>1, <3>2
  <2>2. CASE Execute(c)
    <3> DEFINE ran == [a EXCEPT !.pc = "executed", !.ran = @ + 1]
               effect == [ran EXCEPT !.wrote = @ + (IF Writes(a.text) THEN 1 ELSE 0)]
    <3>1. \/ Set(c, [effect EXCEPT !.schema = Returned(a.text)])
          \/ Set(c, [ran EXCEPT !.schema = NoSchema])
          \/ Set(c, [effect EXCEPT !.schema = NoSchema])
      BY <2>2, Zenon DEF Execute
    <3>2. a.pc # "replied"
      BY <2>2 DEF Execute
    <3> HIDE DEF a
    <3>3. /\ ran.want = a.want /\ ran.op = a.op /\ ran.text = a.text /\ ran.status = a.status
          /\ effect.want = a.want /\ effect.op = a.op /\ effect.text = a.text
          /\ effect.status = a.status
      BY <1>1 DEF HandlerIn
    <3>4. PICK e \in {ran, effect}, s \in {Returned(a.text), NoSchema} :
            Set(c, [e EXCEPT !.schema = s])
      BY <3>1
    <3>5. e.want = a.want /\ e.op = a.op /\ e.text = a.text /\ e.status = a.status
      BY <3>3
    <3> DEFINE k == [e EXCEPT !.schema = s]
    <3>6. k.want = a.want /\ k.op = a.op /\ k.text = a.text /\ k.status = a.status
      BY <3>5
    <3>7. Set(c, k)
      BY <3>4
    <3> HIDE DEF k
    <3> QED  BY <3>2, <3>6, <3>7
  <2> QED  BY <2>1, <2>2 DEF Job
<1>3. a.pc # "replied" => a.status = "none"
  BY <1>1 DEF HandlerOK, Course
<1> HIDE DEF a
<1> QED  BY <1>2, <1>3 DEF GoesOn, a

LEMMA AnswerFollows ==
  ASSUME ServerIInv, NEW c \in Calls, Answer(c)
  PROVE  \E k : Set(c, k) /\ GoesOn(call[c], k)
<1> DEFINE a == call[c]
           b == [a EXCEPT !.handle = minted']
           l == [a EXCEPT !.left = a.left - 1]
<1>1. a \in HandlerIn(minted) /\ HandlerOK(a, issued, minted)
  BY TheHandler
<1>2. a.pc \in {"prepared", "executed"}
  BY DEF Answer, AnswerInfo, AnswerCreate, AnswerQuery, AnswerList, Ready
<1>3. \/ \E e \in {a, b, l}, s \in {"ok", "invalid", "internal"} :
           Set(c, Replied(e, s)) /\ (s = "ok" => ~ Failed(a) \/ a.op = "show")
      \/ Set(c, [l EXCEPT !.pc = "execute"])
  <2>1. CASE AnswerInfo(c)
    <3>1. PICK s \in Outcome(a) : Set(c, Replied(a, s)) \/ Set(c, Replied(b, s))
      BY <2>1, Zenon DEF AnswerInfo
    <3> QED  BY <3>1, OutcomeDeserved
  <2>2. CASE AnswerCreate(c)
    <3>1. PICK s \in Outcome(a) : Set(c, Replied(a, s)) \/ Set(c, Replied(b, s))
      BY <2>2, Zenon DEF AnswerCreate
    <3> QED  BY <3>1, OutcomeDeserved
  <2>3. CASE AnswerQuery(c)
    <3>1. PICK s \in IF a.op = "show" THEN {"ok"} ELSE Outcome(a) : Set(c, Replied(a, s))
      BY <2>3 DEF AnswerQuery
    <3> QED  BY <3>1, OutcomeDeserved
  <2>4. CASE AnswerList(c)
    <3>1. CASE Set(c, Replied(a, "internal"))
      BY <3>1
    <3>2. CASE ~ Failed(a) /\ \E s \in Outcome(l) :
                 Set(c, IF s = "ok" /\ ~ LastRound(l)
                          THEN [l EXCEPT !.pc = "execute"] ELSE Replied(l, s))
      <4>1. PICK s \in Outcome(l) :
              Set(c, IF s = "ok" /\ ~ LastRound(l)
                       THEN [l EXCEPT !.pc = "execute"] ELSE Replied(l, s))
        BY <3>2
      <4>2. s \in {"ok", "invalid", "internal"}
        <5> HIDE DEF l
        <5> QED  BY <4>1, OutcomeDeserved
      <4> QED  BY <3>2, <4>1, <4>2
    <3> QED  BY <2>4, <3>1, <3>2 DEF AnswerList
  <2> QED  BY <2>1, <2>2, <2>3, <2>4 DEF Answer
<1>4. a.status = "none"
  BY <1>1, <1>2 DEF HandlerOK, Course
<1> HIDE DEF a
<1>5. \A e \in {a, b, l} : e.want = a.want /\ e.op = a.op /\ e.text = a.text /\ e.status = "none"
  BY <1>1, <1>4 DEF HandlerIn
<1> HIDE DEF b, l
<1>6. \A e \in {a, b, l}, s \in {"ok", "invalid", "internal"} :
        /\ s = "ok" => ~ Failed(a) \/ a.op = "show"
        /\ Set(c, Replied(e, s))
        => \E k : Set(c, k) /\ GoesOn(a, k)
  <2> SUFFICES ASSUME NEW e \in {a, b, l}, NEW s \in {"ok", "invalid", "internal"},
                      s = "ok" => ~ Failed(a) \/ a.op = "show",
                      Set(c, Replied(e, s))
               PROVE  \E k : Set(c, k) /\ GoesOn(a, k)
    OBVIOUS
  <2> DEFINE k == Replied(e, s)
  <2>1. k.want = e.want /\ k.op = e.op /\ k.text = e.text
    BY DEF Replied
  <2>2. k.status = s
    <3>1. "status" \in DOMAIN e
      BY <1>1 DEF HandlerIn, b, l
    <3> QED  BY <3>1 DEF Replied
  <2>3. Set(c, k)
    OBVIOUS
  <2> HIDE DEF k
  <2> QED  BY <1>2, <1>5, <2>1, <2>2, <2>3 DEF GoesOn
<1>7. CASE Set(c, [l EXCEPT !.pc = "execute"])
  <2> DEFINE k == [l EXCEPT !.pc = "execute"]
  <2>1. k.want = l.want /\ k.op = l.op /\ k.text = l.text /\ k.status = l.status
    OBVIOUS
  <2>2. Set(c, k)
    BY <1>7
  <2> HIDE DEF k
  <2> QED  BY <1>5, <2>1, <2>2 DEF GoesOn, a
<1> QED  BY <1>3, <1>6, <1>7 DEF a

\* Every step of the server leaves the handlers alone or moves one of them.
LEMMA HandlersFollow ==
  ASSUME ServerIInv, [ServerNext]_serverVars
  PROVE  \/ UNCHANGED call
         \/ \E c \in Calls : \E k : Set(c, k) /\ Follows(call[c], k)
<1>1. ASSUME NEW c \in Calls, Cancel(c)
      PROVE  Set(c, Idle)
  BY <1>1 DEF Cancel
<1>2. CASE \E c \in Calls : Receive(c) \/ Job(c) \/ Answer(c) \/ Cancel(c)
  BY <1>1, <1>2, ReceiveFollows, JobFollows, AnswerFollows DEF Follows
<1>3. CASE \E q \in JobTexts : RunOrphan(q)
  BY <1>3 DEF RunOrphan
<1>4. CASE UNCHANGED serverVars
  BY <1>4 DEF serverVars
<1> QED  BY <1>2, <1>3, <1>4 DEF ServerNext

\* A "not found" is said of a handle that was never minted, that is shut, or that
\* MaxPrepared newer ones displaced; nothing is had from a handle that is gone.
Deserved(k, shut, n) ==
  k.status = "not_found" => k.want = 0 \/ k.want \in shut \/ k.want + MaxPrepared <= n
DeadEnd(k, gone) ==
  k.want \in gone /\ k.op # "close" => k.status # "ok" /\ k.text \in {"empty", "garbage"}

\* The invariant of a server some of whose handles are gone.
GoneIInv(gone) ==
  /\ ServerIInv
  /\ Survival(gone)
  /\ gone \in SUBSET (1..minted) /\ gone \cap Live = {}
  /\ \A c \in Calls : /\ Deserved(call[c], closed \cup gone, minted)
                      /\ DeadEnd(call[c], gone)

LEMMA GoneStep ==
  ASSUME NEW gone, GoneIInv(gone), [ServerNext]_serverVars
  PROVE  GoneIInv(gone)'
<1>1. ServerIInv /\ ServerIInv' /\ CacheIInv /\ [CacheNext]_cacheVars
  BY ServerStep, ServerCacheStep DEF GoneIInv, ServerIInv, Bookkeeping
<1>2. Survival(gone)'
  BY <1>1, SurvivalStep DEF GoneIInv
<1>3. /\ minted \in Nat /\ minted' \in Nat /\ minted <= minted' /\ closed \subseteq closed'
      /\ \A h \in Live' : h \in Live \/ h > minted
  BY <1>1, LiveIsOldOrNew
<1>4. /\ gone \in SUBSET (1..minted) /\ gone \cap Live = {}
      /\ \A c \in Calls : /\ Deserved(call[c], closed \cup gone, minted)
                          /\ DeadEnd(call[c], gone)
  BY DEF GoneIInv
<1>5. 0 \notin gone /\ gone \in SUBSET (1..minted') /\ gone \cap Live' = {}
  <2>1. 0 \notin gone /\ gone \in SUBSET (1..minted')
    BY <1>3, <1>4
  <2>2. ASSUME NEW h \in gone, h \in Live'
        PROVE  FALSE
    <3>1. h \in Live \/ h > minted
      BY <1>3, <2>2
    <3>2. h \in 1..minted /\ h \notin Live
      BY <1>4
    <3> QED  BY <1>3, <3>1, <3>2
  <2> QED  BY <2>1, <2>2
<1>6. MaxPrepared \in Nat
  BY CapacityAssumption
<1>7. ASSUME NEW a \in HandlerIn(minted), HandlerOK(a, issued, minted),
             Deserved(a, closed \cup gone, minted), DeadEnd(a, gone)
      PROVE  Deserved(a, closed' \cup gone, minted') /\ DeadEnd(a, gone)
  <2>1. a.want \in 0..minted
    BY DEF HandlerIn
  <2> QED  BY <1>3, <1>6, <1>7, <2>1 DEF Deserved
<1>8. ASSUME NEW a \in HandlerIn(minted), HandlerOK(a, issued, minted),
             DeadEnd(a, gone), NEW k, Follows(a, k)
      PROVE  Deserved(k, closed' \cup gone, minted') /\ DeadEnd(k, gone)
  <2>1. CASE k = Idle
    BY <1>5, <2>1 DEF Idle, Deserved, DeadEnd
  <2>2. CASE Arrives(k)
    <3>1. k.want \in 0..minted /\ DeadEnd(k, gone)
      BY <1>4, <1>5, <2>2 DEF Arrives, DeadEnd
    <3>2. k.status = "not_found" => \/ k.want = 0 \/ k.want \in closed \cup gone
                                    \/ k.want + MaxPrepared <= minted
      <4> HIDE DEF Live
      <4> QED  BY <2>2, <3>1 DEF Arrives, GoneIInv, Survival
    <3> QED  BY <1>3, <1>6, <3>1, <3>2 DEF Deserved
  <2>3. CASE GoesOn(a, k)
    <3>1. a.pc \in {"prepared", "executed"} /\ ~ Failed(a) => a.text \notin {"empty", "garbage"}
      BY <1>8 DEF HandlerOK, Results
    <3>2. a.op = "show" => a.text \notin {"empty", "garbage"}
      BY <1>8 DEF HandlerOK, Course
    <3> QED  BY <1>8, <2>3, <3>1, <3>2 DEF GoesOn, Deserved, DeadEnd
  <2> QED  BY <1>8, <2>1, <2>2, <2>3 DEF Follows
<1>9. ASSUME NEW c \in Calls
      PROVE  Deserved(call'[c], closed' \cup gone, minted') /\ DeadEnd(call'[c], gone)
  <2>1. call[c] \in HandlerIn(minted) /\ HandlerOK(call[c], issued, minted)
    BY <1>1, TheHandler
  <2>2. CASE call'[c] = call[c]
    BY <1>4, <1>7, <2>1, <2>2
  <2>3. CASE call'[c] # call[c]
    <3>1. PICK d \in Calls : \E k : Set(d, k) /\ Follows(call[d], k)
      BY <1>1, <2>3, HandlersFollow
    <3>2. PICK k : Set(d, k) /\ Follows(call[d], k)
      BY <3>1
    <3>3. d = c /\ call'[c] = k
      BY <1>1, <2>3, <3>2 DEF Set, ServerIInv
    <3> QED  BY <1>4, <1>8, <2>1, <3>2, <3>3
  <2> QED  BY <2>2, <2>3
<1> QED  BY <1>1, <1>2, <1>5, <1>9 DEF GoneIInv

\* A server that has just started has lost nothing.
LEMMA GoneInit == ServerInit => GoneIInv({})
<1> SUFFICES ASSUME ServerInit PROVE GoneIInv({})
  OBVIOUS
<1>1. ServerIInv /\ minted = 0 /\ \A c \in Calls : call[c] = Idle
  BY ServerInitEstablishes DEF ServerInit, CacheInit
<1>2. Survival({})
  BY <1>1 DEF Survival
<1>3. Deserved(Idle, closed \cup {}, minted) /\ DeadEnd(Idle, {})
  BY DEF Idle, Deserved, DeadEnd
<1> QED  BY <1>1, <1>2, <1>3 DEF GoneIInv

\* "unknown prepared statement handle" is said only of a handle that was never
\* minted, that somebody closed, or that MaxPrepared newer ones displaced.
THEOREM NotFoundIsAlwaysDeserved == ServerSpec => []NotFoundIsDeserved
<1>1. ServerInit => GoneIInv({})
  BY GoneInit
<1>2. GoneIInv({}) /\ [ServerNext]_serverVars => GoneIInv({})'
  BY GoneStep
<1>3. GoneIInv({}) => NotFoundIsDeserved
  BY DEF GoneIInv, Deserved, NotFoundIsDeserved
<1> QED  BY <1>1, <1>2, <1>3, PTL DEF ServerSpec
=============================================================================
