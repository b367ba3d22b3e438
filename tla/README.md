# Verification of ladybug-adbc

TLA+ specifications of `ladybug-adbc`, an Arrow Flight / Flight SQL server that
executes Cypher on LadybugDB, of its client and of its benchmark. Source
references are relative to the repository's root (`src/server.rs` is the
server's module).

    tlc -workers 2 -config MCPreparedCache.cfg MCPreparedCache      # a run
    tlapm PreparedCacheProofs.tla                                   # the proofs

## The system

| Component | State it keeps | Operations | Talks to |
|---|---|---|---|
| Prepared-statement cache (`PreparedCache`, server.rs) | map handle -> query, deque of insertion markers | `insert` (evicts), `get`, `remove` (compacts) | called by the server under one mutex |
| Flight server (`LadybugFlightServer`, server.rs) | one database, one cache; per RPC a future | `get_flight_info`, `get_schema`, `do_get`, `list_flights`, `do_action` (Create, Close, show_tables) | cache; engine through blocking jobs |
| Execution and schema (lib.rs) | none of its own; the database's | `execute_cypher`, `prepare_arrow_schema` | engine (`lbug`, external) |
| Client flows (client.rs) | one connection, the position in the flow, handle, schema, batches | `query_flight`, `query_flightsql` | server, one RPC at a time |
| Wire codec (lib.rs) | none | protobuf encode and decode, builders, parsers, `extract_query`, `decode_ticket_handle` | server and client |
| Startup, demo graph (lib.rs, server.rs, main.rs) | the database, the algo extension | `new`, `ensure_algo_extension`, `build_demo_graph`, bind the port | engine |
| Benchmark (`bin/bench.rs`) | iterations, tasks, rows of the report | warm up, split, spawn, join, report | client flows |
| Health check (`bin/healthcheck.rs`), command-line client (`bin/client.rs`) | none | run a query, report | client flows |
| Million-row benchmark (`bin/million_rows.rs`) | none | convert and measure | engine |
| Scripts, image, CI | files | download and unpack the native library | network |

What is hard here:

* *The cache's laziness.* `remove` leaves a stale marker in the deque, the
  eviction loop pops stale and live markers alike, and a compaction runs now
  and then. The cap, the eviction order and the memory bound rest on a relation
  between map and deque that no single operation shows.
* *Handlers interleave at their awaits.* The statement behind a handle is looked
  up before a job and used after it; meanwhile the handle may be closed, or
  displaced by other callers.
* *Describing may execute.* `prepare_schema` answering `None` sends the handler
  to `execute`, whether the statement has no columns or failed to prepare.
* *Disconnections.* Dropping a handler does not stop the job it started.
* *Partial failure.* `list_flights` stores handles before it fails; a flow that
  fails after its create leaves its handle behind; an export may fail after the
  write happened; a start drops the errors of its inserts.
* *Restarts.* The cache and the handlers are lost, a database file is not, and
  callers keep the handles of the old process.
* *Guessing readers.* The codec's readers decide by trial what a blob is: an
  `Any`, a bare message, a handle or query text.
* *Machine integers.* The varint loops and the split of the benchmark.

What makes each component correct:

* cache: within its capacity after every operation; evicts its oldest live
  entries only; the marker deque is bounded and complete; no user can tell it
  from an oldest-first map without a deque;
* server: a handle means one statement for ever, across restarts too; "unknown
  handle" is said only for a reason; a closed handle stays closed; the status of
  an answer tells the truth about what was written; every RPC is answered;
* client flows: to its client a statement with columns is one step or a failure;
  a round trip runs its statement a known number of times; clients do not disturb
  each other while the cache has room, and only by displacement when it has not;
  a finished sql flow leaves nothing behind; the schema announced is the schema
  delivered, unless the table was made anew in between or has no rows; every query
  ends;
* codec: decoding never leaves the blob and ends on every input; what was built is
  read as it was meant; a ticket without a handle runs nothing;
* startup: one good start makes up for any bad ones; no start goes on to the
  inserts, or serves, without its tables;
* benchmark, as far as the last task starts within the iterations: the tasks'
  shares add up to them; a row stands for the queries it says; the benchmark ends.

## Modules

| Module | Models |
|---|---|
| `OldestFirstMap` | what the cache promises: a bounded map that makes room by dropping its oldest entry |
| `PreparedCache` | the cache: HashMap, VecDeque of markers, `insert`, `remove`; implements `OldestFirstMap` |
| `FlightServer` | extends `PreparedCache` with the handlers, the engine and the blocking jobs; implements the cache |
| `ServerRestarts` | extends `FlightServer` with processes that end and start anew |
| `QueryService` | what a client may expect of a query: one atomic step, or a failure |
| `FlightSystem` | extends `FlightServer` with clients that drive one flow each, and broken connections; implements `QueryService` |
| `RepeatedQueries` | extends `FlightSystem` with clients that query again and again, health checks among them |
| `WireFields` | the protobuf layer on bytes: varints, fields, slices |
| `FieldDecoder` | extends `WireFields`: the loop of `decode_fields` |
| `WireMessages` | extends `WireFields`: the Flight SQL messages, their builders and readers |
| `Startup` | the starts of the server on one database, statement by statement |
| `Benchmark` | the benchmark client |
| `MC...` | model-checking definitions: symmetry, inputs of the codec, and an `ASSUME` that tests `Retain` |
| `...Proofs` | the theorems about the module of that name; `CodecProofs` about the codec's three, `FlightSystemProofs` about `RepeatedQueries` too |

`FlightServer`, `ServerRestarts`, `FlightSystem` and `RepeatedQueries` are one
stack: each extends the one below and none changes it.

### PreparedCache

`map` is the HashMap, `order` the VecDeque. A handle is a fresh UUID: the nth
one minted is the number n, so "older" is `<`; 0 stands for bytes that were never
a handle. `minted` is the UUID source and `closed` a history variable. `insert`
and `remove` run under the mutex and are one step each, loop and compaction
included. The eviction loop is written as its outcome: `Popped` is the length of
the shortest prefix whose removal satisfies the loop's exit condition
(`map.len() <= MAX_PREPARED`, or an empty deque). `VecDeque::retain` is written
with ranks, without recursion, so that it can be proved about; `MCPreparedCache`
has TLC compare it with `SelectSeq`.

Definitions that are easy to get wrong have a *variant* beside them (`EndsLate`,
`Truncated`, ...): a plausible bug of the code. No action uses one. Put in the
place of the definition it stands beside, each makes a property of the runs
fail; that is how the properties are known to say something about the code
(`PROJECT.json`, "mutants").

### FlightServer

`Calls` are RPC slots, `call[c]` the future of the handler in a slot. Its `pc`
is where it awaits:

    idle -> prepare -> prepared -> replied
                    -> execute  -> executed -> replied     (list: back to execute)

A receiving action (`DescribeText`, `DescribeHandle`, `Create`, `GetText`,
`GetHandle`, `List`, `Show`, `Close`) is the handler up to its first await or its
early return, cache lookups included. `Prepare` and `Execute` are the two
blocking jobs, `Answer...` the code after a job up to the reply or to the next
await. `Prepare` continues straight to `execute` when it yields no schema, as
the handlers do in one poll. `Cancel` drops a handler at its await; a job
already given to the pool moves to `orphans` and still runs (`RunOrphan`). A
dropped `prepare` job is forgotten, since it has no effect.

The engine is external. A statement is one of six classes, told apart by what
the server's code tells apart: `match` (columns, reads the table), `constant`
(columns, reads no table: `RETURN 1`), `insert` (no columns, writes, no key to
reject a second run), `insert_returning` (columns, writes), `create_table`,
`drop_table`. Also `empty` and `garbage`, the text that does not
parse, among it what a ticket yields whose handle is gone. `db` has one table: whether it
exists, its generation (schemas of different generations differ) and its rows.
Every job opens its own connection, and of the engine the server's doc says only
that it "supports concurrent readers": a write may be refused while another job
is about to write (`Contended`). With `Faults` any job may fail for no visible reason, before its effect, or
after it when the export of the batches fails; and a schema of the engine's may
turn out not to be encodable, in `flight_info_for`, `schema_ipc` or the encoder of
`do_get` (`Outcome`). The order of storing and encoding is that of the code:
`get_flight_info` and `list_flights` store first, so that the handle stays behind,
`CreatePreparedStatement` encodes first. `ErrorStatus` is `bad_query`, which goes by
the text of the error: "empty query" is the caller's fault, unless the job's
connection failed before that was found out.

Handlers without state and calls (`handshake`, `poll_flight_info`, `do_put`,
`do_exchange`, `list_actions`, the `list_queries` action, unknown actions) change
nothing and have no action.

History in `call`: `ran` and `wrote` count the jobs and writes of the call,
`want` is the handle asked for, and `dead` holds it if it had been closed when the
call arrived. `issued` is the statement each handle was minted for.

### ServerRestarts

`Restart` throws away what `LadybugFlightServer::new` makes anew: the map, the
deque, the handlers and the jobs on the pool. The database stays (a file) or is
made anew (`:memory:`, with or without the demo graph). Callers keep their
handles: `closed`, `issued` and `minted` go on, since a handle is a random UUID
and a new process mints none that an old one minted. `lost` remembers the handles
that were live when a process ended.

### FlightSystem and QueryService

Each client runs one flow, `plain` (GetFlightInfo, DoGet) or `sql` (Create,
GetFlightInfo, DoGet, Close), on a connection of its own, hence a server slot of
its own. `Send` is one of the server's receiving actions, `Deliver` takes the
answer and moves on or, as every `?` does, ends the flow. `Disconnect` breaks a
connection at any moment. The persistent `LadybugClient` and the free functions
run the same steps.

`QueryService` has none of the RPCs, handles and tickets: a query is *asked*,
*applied* at one instant, where its answer is what the statement returns there,
and *answered*; or it *fails*, and then its statement had its effect once, never,
or will have it `late` because its job was left on the pool. `FlightSystem`
implements it (`Service == INSTANCE QueryService WITH ...`). The mapping applies
a query when its DoGet executes: until then the flow has fetched nothing
(`Got(c)`), whatever it prepared, stored and described. From there on the answer
is in the slot of the server, then in the flow. `late` is the number of writing
jobs in `orphans`. The refinement is about statements with result columns, tables
that stay and an engine without faults. Statements without columns run more than
once (Findings), so no such service describes them; `RoundTripRuns` says how
often. `SchemaDescribesData` is about tables that come and go.

### RepeatedQueries

`Again` starts the next query of a client over its connection, or the next
container probe: the health check is a process that runs `RETURN 1 AS ok` as a plain
query (`Probe`) and exits. It needs no table. Nothing closes the handles of plain queries, so a small cache is soon full and
statements in use are displaced.

### WireFields, FieldDecoder, WireMessages

`WireFields` works on real bytes. Instead of copying a payload it computes the
place where it lies, so that a slice that leaves the blob would be seen. Lengths
and field numbers are u64 and u32 in the code; since of a number only its value
below 16 is ever used, and a length is only compared with a limit and added to an
offset, the model caps field numbers at 16 and lengths at `MaxLength + 1`.
Discarded bits (the tenth byte of a varint, the truncation of a tag to 32 bits)
are those of the code. `FieldDecoder` is the loop of `decode_fields`, a field a
step; `Decode` the same as a function, for the messages. Its blobs are arbitrary
bytes, or `Written`: the fields of `meant` as `encode_ld` writes them, one behind
the other from `at`, or any beginning of that.

`WireMessages` has the builders and the readers on byte sequences, in which words
are shortened: a query keyword is the byte K (77), a type URL the byte `Google`
(116) and a byte for the name, and a character beyond ASCII is a pair of bytes.
What the readers can confuse is kept: a line break is the tag of field 1, a short
text is a length. An exchange builds a message in one step and reads it in the
next. `ExchangesAssumption` says what the programs send: handles are 32 hexadecimal
digits (server.rs:177), queries are UTF-8, schemas any bytes, and a message stays
below the accepted length. A plain query is any UTF-8 text, with or without a
keyword, and so is a descriptor of type Path (`PathBlob`, the parts joined by line
breaks). The text is the whole message then, and the reader tells text and messages
apart by guessing. `UnderstoodAsMeant` says what it gets right (`Plain`): every text
in which nothing parses as a length-delimited field, and every text that has a
keyword and does not contain the name of a message type. Others may be misread
(Findings). Nor is anything said of an empty query inside its `Any`, which
`empty_create` is about.

### Startup

A start opens the database, or fails to (`OpenFails`: a file that is locked or that
a crash left in a state the engine refuses, or no connection), loads the algo
extension or installs and loads it, each of which may fail, runs `build_demo_graph`
statement by statement and binds the port. Every statement commits by itself. A
`Crash` may come between any two; a fault is an error that has nothing to do with
what is stored. `CREATE ... TABLE` decides by the text of its error (`Aborts`):
"already exists" and "duplicate" are passed over, others end the start. Errors of
inserts are dropped: nodes that exist are refused by their primary key,
relationships have no key. One process at a time has the database open.

### Benchmark

Counts are `usize`. `Share` is the split of the iterations, kept modulo `Width`;
a build with overflow checks panics where a release build wraps. The properties
are about command lines whose last task starts within the iterations (`Fits`), and
say of the others what a build with overflow checks does. A release build gives the
last task nearly 2^64 queries then: nothing is claimed of its end.
`BenchAssumption` keeps the command line below the point where `per_task * (t + 1)`
itself overflows, which takes counts that no machine could run. Tasks run from
their spawn, concurrently with the spawning loop and the joins; main joins them
in order, and its end cancels what still runs. A query is one step that may fail
(its RPCs are `FlightSystem`'s).

## Runs

| Run | Instance | Shows |
|---|---|---|
| `cache` | capacity 3, 2 queries, 7 handles | all cache properties; `PreparedCache` implements `OldestFirstMap` |
| `server` | 2 slots, 2 RPCs, capacity 1, all six statements, faults, fairness | types, `AnswersTellEffects`, `NotFoundIsDeserved`; the server implements the cache; every RPC is answered |
| `restarts` | 2 slots, 4 RPCs, capacity 1, 1 restart | handles keep their meaning, closed and lost ones stay dead, across the restart |
| `flows` | 3 clients, capacity 3, 1 broken connection, statements with columns | types, `FailuresHaveCauses`, `LiveHandlesHaveOwners`; the flows implement `QueryService`, and keep what it promises |
| `tables` | 3 clients, capacity 3, reads, writes, `create_table` and `drop_table` | `SchemaDescribesData`, with tables that are dropped and made anew between the RPCs of a flow |
| `repeated` | 2 clients, one a health check, capacity 2, 1 query more, writes without columns, 1 broken connection, fairness | a query fails for displacement, its connection, its table or a write only, `RoundTripRuns`, every query ends |
| `codec` | see below | slices, termination, written messages and their prefixes, every message of the protocol |
| `starts` | 3 starts, 1 fault, any crashes, file and memory | one good start makes the graph whole; memory holds it once; a start that goes on has its tables |
| `bench` | 0..5 iterations over 0..4 tasks, 2 labels, 1 warm-up, failing queries, both builds | when the shares add up, and that rows are honest then and the benchmark ends |
| `ddl_noop`, `empty_create`, `demo_twice` | see Findings | violated |

Bounds. `MaxPrepared` is 512 in the code. Seven handles on a capacity of three
give two full turns of the cache, with stale markers of every position among
the popped ones and several compactions; capacity 1 in the server runs makes
every second store displace a handle in use. `MaxMinted` bounds the UUID source
and `MaxCalls` the RPCs ever received; an RPC mints at most `NumDemos` = 2
handles, and `MaxMinted` is never below twice `MaxCalls` in `server` and
`restarts`, so no store is ever cut short. An sql flow mints one handle, and so
does a plain one, unless its answer is lost. `MaxCalls` is at least four times
the queries in the runs with clients: no flow is ever refused. `NumDemos` is 6 in
the code; 2 is enough for a listing to be interrupted between two stores.

Interleavings of two handlers suffice for the races listed under hazards: each is
between one handler and one other actor. Two RPCs in `server` are enough for what
that run is about, an answer and what happens to it; what takes a history (mint,
close, displace, use) has four RPCs in `restarts`, one before and three after the
restart or the other way round. Both are proved for any number of RPCs, restarts
and slots.
In `flows` three clients are enough for one that writes, one that saw the row
and one that must see it; the third may be the one whose connection broke. In
`tables` they are one that reads, one that drops the table and one that makes it
anew, between the two RPCs of the first. `repeated` needs a cache smaller than the
handles its queries store: two clients with three queries in all on a capacity of
two, so that the first of them can be displaced.

`codec` runs the decoder on every blob of up to three bytes out of ten kinds
(tags of all six wire types, a zero and a short length, a varint byte, the largest
byte), of four bytes out of the five commonest, and on longer ones around the
eight and four bytes of the fixed wire types and the ten of a varint; on messages
of one and two fields with payloads on both sides of a one-byte length, the
longest accepted and a two-byte field number, whole and cut off at the places that
matter. `MaxLength` is 400 instead of 50,000,000: above and below it the
comparisons come out as in the code. Its messages are all kinds with texts of up
to three pieces (keyword, letter, bracket, space, line break, tab, a character
beyond ASCII) and a rest that makes the length one or two bytes, plain texts with and
without a keyword, paths of two parts, handles of 32 hexadecimal digits in two-digit
patterns, and five schemas.

`starts` has the real script, 23 statements; a third start shows what the
second left behind. With one fault a start may still be hit by any number of
crashes. `bench` has every small command line, no iterations, no concurrency and
more tasks than iterations among them; `Width` = 16 wraps as 2^64 does, since
counts stay below 16 (the share that wraps is nearly `Width`, and no property
depends on a task working it off).

Deadlock is not checked where `MaxCalls`, the end of all flows, of the starts, of
the exchange or of the benchmark stops the system by design.

`FailuresHaveCauses` is about clients that have room in the cache and tables that
stay: the run `flows` has `MaxPrepared` equal to the number of clients and no DDL.
`RoundTripRuns` is about tables that stay, whatever room there is.
`NotFoundIsDeserved` and the run `repeated` cover what happens without room.

Fairness. `Job(c)` and `Answer(c)` are weakly fair: tokio's blocking pool runs
what it is given and its scheduler polls a future whose job is done. Of `RunOrphan`
nothing is assumed: no property waits for a job that was left behind. Callers of the
server owe nothing, so no receiving action is fair in `server`. In `repeated` clients are
async functions that go on as soon as they can: `Send` and `Deliver` are fair,
`Again` and `Disconnect` are not. In `codec` the decoder's loop runs on. In
`bench` main and every task are scheduled, and a query ends with an answer or an
error, which is what `repeated` shows of the flows. The server has no timeout of
its own, and an engine call that never returns is outside the assumption.

## Findings

* **A write without result columns takes effect more than once** (`ddl_noop`).
  `get_flight_info`, `get_schema` and `CreatePreparedStatement` execute it to
  describe it, `do_get` executes it again: twice in the plain flow, three times in
  the sql flow. The comment in `tests/gds_page_rank.rs` (263-265) says that "both
  Flight flows execute DDL twice" and that "the second run must be a no-op", which
  holds for `CREATE NODE TABLE` (it fails) but not for the relationship `CREATE`s
  that follow in the same test: those are applied again. README.md (89-90) says
  that "a round trip executes the query exactly once, in `DoGet`". The run refutes
  all three: its round trip runs three times and leaves three rows.
* **An empty prepared statement is not refused** (`empty_create`).
  `parse_create_prepared_statement_request` (lib.rs:494-499) finds no query inside
  the `Any` and reads field 1 of the `Any` itself, the type URL. The server,
  which means to answer "empty query" (server.rs:411-412), runs the URL as
  Cypher. A query of spaces is refused as it should be.
* **A restart on a file doubles the relationships of the demo graph**
  (`demo_twice`), though the doc calls `build_demo_graph` idempotent and says that
  it ignores duplicate inserts (lib.rs:64-65).

Disagreements that a passing property states exactly, and that have no run of
their own:

* Plain text may be misread. The comment in `extract_query` says "prefer it verbatim
  -- parsing raw Cypher as protobuf yields spurious fragments" (lib.rs:411-412), but
  a text with none of the ten keywords as a word (MERGE, DROP, COPY) is parsed all
  the same. If its bytes make a length-delimited field, and cutting that field out
  makes a keyword of a longer word, the fragment is what runs: a line feed, a space
  and 32 bytes that end in RETURN, of a text that goes on with ED (lib.rs:417-440).
  `UnderstoodAsMeant` holds with `Plain`, and not without.
* The benchmark's split wraps or panics when the last task starts beyond the
  iterations (bench.rs:129): 5 iterations over 4 tasks, or the default 200 over
  `--concurrency 32`. A release build then gives the last task nearly 2^64 queries.
  `SharesAddUp` says exactly when.
* Empty results are an empty all-Utf8 table, not the status table that the doc of
  `execute_cypher` promises ("DDL / empty results collapse to a single-row `status`
  table", lib.rs:127-128); `SchemaDescribesData` has the case.
* A failing close fails the query and the batches it has read are thrown away,
  though the comment calls the close best-effort (client.rs:111 and 206, `?` at 118,
  120, 212 and 214). The server answers every close with success, so only a broken
  connection does that.
* Describing can write: a statement with columns whose preparation failed because
  its table was missing is executed by `get_flight_info` or `get_schema` when
  another caller creates the table between the two jobs (server.rs:329-338). The
  refinement of `QueryService` therefore assumes tables that stay.

Met while reading, outside what the runs cover: a raw, unwrapped Create body that
begins with a line break is taken for a protobuf message, since `bare` is tried
before the raw text (lib.rs:496); a `CommandStatementQuery` without its `Any`
keeps its tag and length bytes, because the raw text that contains it looks like
a query and is tried first (lib.rs:413-415); `download-liblbug.sh` takes a
partial library for a whole one, as it looks for the file only (line 57). None of
the repository's own programs sends the first two.

Not findings, though they look like it: the second branch of
`decode_ticket_handle` (lib.rs:453-460) is dead for a ticket in an `Any`, since
field 1 of the `Any` is its type URL; the client never wraps its tickets. Two
servers on one database file are not considered.

## Proofs

All assumptions are the named ones on the constants, except where a theorem says
more. No theorem bounds the number of slots, clients, RPCs, handles, starts or
the length of a blob.

**PreparedCacheProofs**: `CacheTypeOK`, `WithinCapacity`, `MarkersTrackLive`,
`MarkersBounded`, `SurvivesUntilDisplaced`, the action property
`EvictsOldestFirst` and the refinement `ImplementsOldestFirstMap`. No invariant
but the type is inductive alone; `CacheIInv` is their conjunction. The cap and
the survival of unclosed handles need the loop to evict exactly the oldest entry,
which needs the markers sorted and complete; the bound on the markers needs the
cap, since an insert at the cap must pop a marker for the one it pushes. The
steps are

1. `PoppedIsFirst`: the prefix the loop pops exists and is the shortest
   (well-foundedness of `<`, lemma `Least`);
2. `EvictOne`: with sorted, complete markers and one entry too many, the loop
   evicts the least live handle and nothing else;
3. `RankProperties`, `NthProperties`, `RetainProperties`: compaction keeps the
   order and leaves exactly one marker per live entry;
4. `InsertEffect`, then `InsertPreserves`, `RemovePreserves`, `CacheStutter`,
   collected in `CacheStep`;
5. `InsertIsPut`: an insert is a put of the abstract map. The deque is hidden,
   `map` and `minted` map to themselves.

`HandlesSurvive` shows the survival of unclosed handles once for all owners of a
cache: `Survival(gone)` says that every handle minted, neither closed nor `gone`
nor displaced by MaxPrepared newer ones is live, and `SurvivalStep` that every step
keeps it. `gone` is empty for the server, and what earlier processes lost for the
restarts.

**FlightServerProofs**: `ServerTypeOK`, `HandlesKeepMeaning`,
`NotFoundIsDeserved`, `ClosedStaysClosed`, `AnswersTellEffects`, and
`UsesTheCache`, that the server implements the cache; hence every theorem of the
cache is one of the server. `ServerIInv` is `CacheIInv` and, for every handler,
`HandlerOK`: what its `pc` says about its request (`Course`), its last result
(`Results`), what it wrote so far (`Effects`), whose statement it has (`Meaning`)
and what its answer says about its handle (`Fate`). The properties speak of
answers only; the invariant carries them from the lookup through the awaits.
What makes it inductive is that the cache only *grows* under a waiting handler
(`Grows`: handles are minted and closed, none changes its meaning), so that one
handler's step disturbs no other (`OthersUndisturbed`), and that a closed handle
is never live (`Bookkeeping`). `GoneIInv(gone)` adds what becomes of handles that
are `gone`: they are not live, a call that asked for one has no statement
(`DeadEnd`), and every "not found" has its reason (`Deserved`).

**ServerRestartsProofs**: all that the run `restarts` checks, for any number of
restarts. The invariant is `GoneIInv(lost)`. A step of the server keeps it, since
`lost` stays and nothing minted later is in it; `Restart` establishes it anew,
because the cache is empty, every slot is idle, and the handles that were live are
now lost. A process knows nothing of what an earlier one minted, closed or lost;
that a random UUID is never minted twice is the only link, and it is in the model
(`minted` goes on).

**FlightSystemProofs**: the flows drive the server as its callers may
(`ClientsUseTheServer`), so the server's theorems hold under them. `SysIInv` adds
to `ServerIInv`, per client, that its slot works for what the client waits for
(`Served`) and that what the flow holds fits how far it came (`Progress`). On it
stand four results with invariants of their own.

* `RunsAreCounted`: the runs of a call (`Counted`) and of a flow (`TimesRun`), for
  an engine without faults and tables that stay.
* `NoHandleIsOrphaned`, for any engine. `ApartIInv`: no two clients hold the same
  handle, in the flow or in the slot (`Mine`), and no handle that a flow still has
  to use is closed (`Tidy`). `OwnIInv`: every live handle is somebody's, and what a
  client let go of is not live (`LetGo`). One step of a client changes what is its
  own, what is minted is minted for it (`LiveMoves`, `HandlesKept`).
* `FailuresAreCaused`, for an engine without faults, tables that stay and
  `Cardinality(Calls) <= MaxPrepared`. The property says nothing of displacement,
  so displacement must be excluded: `RoomIInv` says that every handle ever minted
  still has its owner, hence their number is at most the number of clients
  (`HoldersAreEnough`, an injection into the clients) and nothing is ever
  displaced. `CauseIInv(TRUE)` follows the trouble back: a call that fails, or
  works on a text that does not parse, has one of the reasons already
  (`Excused`); and a writing job left behind belongs to a flow that failed.
* `SchemasAgree`, for any engine, statements, clients and cache. `ShapeIInv` says of
  every schema that a flow was told, or that its call is about to tell it, that it
  is one of its statement's and of no table but those made so far (`Told`,
  `Shaped`), and that the schema of the batches is of no earlier table than the one
  in the FlightInfo (`InOrder`). `AgeIInv` adds that no table but the first one is
  there unless some flow's statement is `create_table`, the jobs left behind
  included. A flow that reads is no such flow, so if the two schemas differ and
  neither is the all-Utf8 one, another client made the table in between.

`FlowsImplementService` is the refinement, for an engine without faults and
statements with columns. Its steps: what the mapping makes of a flow and its slot
(`StageOf`, `AnswerOf`, lemma `StageIs`); a step of one client moves the
service's state at that client only (`OneClientServed`); then one lemma per kind
of step. A request, a preparation and the answers before the fetch are invisible
(`Unseen`), the job of DoGet is `Apply`, the last answer is `Finish`, an error or
a broken connection is `Fail`, a job left behind is `RunLate`. The hard case is a
describing RPC that executes: `Counted` says that it does so only where there is
no table, so that it has no effect.

The same module has the clients that query again (`RepeatedQueries`). They use the
server as its callers may (`RepeatersUseTheServer`) and keep `SysIInv`: `Again`
starts from a slot that serves nobody. `OnlyTheDisplacedFail` is
`CauseIInv(FALSE)`, for an engine without faults and tables that stay: with queries
that follow each other a write may also meet a job of its own client, left behind
by the query before, and the handles of plain queries pile up, so that displacement
is a reason here.

**QueryServiceProofs** proves `AtMostOnce` and `NoAnswerGoesBack` of the service
(`ServiceIInv`: effects are counted by the queries that are past *asked*; for any
finite set of clients). `NoStatementRunsTwice` and `NoClientGoesBack` carry them
over to the flows along the refinement.

**CodecProofs**: `SlicesInBlob` for every blob. `DecoderIInv` adds to it
that the position is behind every field found; the work is in the bounds of
`VarintEnd`, `Length` and `Slice`. And `WrittenIsRead`, that decoding inverts
encoding, for any number of fields, field numbers of 29 bits, payloads up to
`MaxLength` (below 2^28, 50,000,000 in the code) and any cut:

1. `VarintIs`: the recursive function `Varint` satisfies its equation. It is
   defined on every `0..n` (`UptoThere`), the definitions agree (`UptoAgree`), and
   both by the least counterexample;
2. `GroupsThere`: what it writes of a number below 2^32 is one to five bytes of
   seven bits each, all but the last above 127 (`LastGroup`, `OneMoreGroup`);
3. `VarintRead`, `LengthRead`, `TagRead`: the reader finds the same bytes, hence the
   same number, or reports that they are cut off;
4. `FieldRead`: a field at its place is read, or none is, if its end is missing;
5. `ReaderIInv`: the fields found are the first of those written, and the loop
   stands where the next one lies.

On these stand the messages: `MessagesAreUnderstood` (`UnderstoodAsMeant`) and
`LostTicketsRunNothing` (`LostTicketIsNoQuery`), for every text, path, handle and
schema that `ExchangesAssumption` admits: UTF-8, 32 digits, any bytes, and an
accepted length.

1. `DecodeIs`: the recursive function in `Decode` satisfies its equation, by the
   least number of bytes that are left for a counterexample (`RestThere`); so every
   field of a blob is a `FieldAt` inside it (`DecodedField`);
2. `OneFieldDecoded`, `TwoFieldsDecoded`: what the builders write decodes to its
   fields and nothing else (`IsMessage`), and the getters find them
   (`OneFieldThere`, `TwoFieldsThere`); `AnyThere`: an `Any` is taken apart into
   the name and the value it was made of, and its URL contains that name only;
3. `CreateRead` ... `CloseRead`: the readers of messages, one lemma per kind;
4. `FieldlessRead`, `QueryRead`: plain text and paths may decode to any fields. If none
   of them is delimited there is nothing to mistake it for. If there is a keyword and
   no name of a type in the text, no name is found in a field either
   (`NamesInText`), so neither `Any` branch is taken, and trimming takes no keyword
   away (`TrimIs`, `TrimmedQuery`), so the raw text is recognised first;
5. `HandleIsNoMessage`: the digits of a raw handle are one-byte tags of the fields 6
   to 12, and no reader looks for one of those, so the handle is returned as it is;
6. `LostTicketRead`: the bytes of a ticket are its tag, its length and digits
   (`TicketBytes`), in which there is no keyword, so that every guess of
   `extract_query` fails and what is left is the text as it is.

**StartupProofs**: all four properties of the run `starts`, for every number of
starts and faults. `StartIInv` counts the relationships (`Counts`: at most one per
start, one less while the start has still to create it) and says what an
undisturbed start has done so far (`Undisturbed`), and of any start that the tables
of the statements behind it are there (`TablesSoFar`), which `StartsMakeTheirTables`
stands on; that the relationships come after the nodes they connect is
`ScriptShape` and `KindsAre`.

**BenchmarkProofs**: `SharesAddUp` and `RowsAreHonest`, for every command line whose
counts fit, both builds, and any failing queries. `Position` says where main stands: in
the spawning loop the shares that are left and the queries that ran add up to what
the first `t` tasks were given (`Dealt`), and joined tasks are done (`TasksOK`).

1. `TotalIs`, `TotalUnique`: `Total` is a recursive function; whatever adds up a
   sequence gives its total, so that appending a task (`TotalOfOneMore`) and running
   one of its queries (`TotalOfOneLess`) change the sum as they should;
2. `DivCeil`, `Products`: the shares of all tasks cover the iterations, and no
   product overflows;
3. `OneTaskMore`: what one turn of the loop adds, in a build that wraps: as long as
   the task starts within the iterations, `Dealt` grows by its share; one that
   starts beyond them is given nearly `Width`, and the sum never comes back to the
   iterations;
4. `AtTheJoins`: hence the sum is right where main joins if and only if the last task
   fits (`Fits`); with nothing left to run, the row is honest.

The assumptions on the engine are those of the properties themselves: that there
are no faults and that tables stay (`Queries` without DDL) is what `RoundTripRuns`,
`FailuresHaveCauses`, `FailsWhenDisplacedOnly` and the refinement are about, and the
runs that check them are such instances. `SchemasAgree`, `NoHandleIsOrphaned` and all
that is proved of the server alone assume neither.

Only model-checked: liveness (`EveryCallIsAnswered`, `QueriesEnd`,
`DecodingEnds`, `BenchEnds`), since fairness and ENABLED are out of the prover's
reach. Every other property of a passing run is proved.

## Not modelled

* `bin/million_rows.rs`: a straight line of conversions and measurements; no
  state that a later step depends on, and nothing concurrent.
* Arguments, timing, rates, printing; Arrow conversions; `normalize_uri`; the
  gRPC transport, which keeps no protocol state of the repository's own. The exit
  code of the health check only repeats whether its query succeeded.
* `bin/client.rs` runs the flows one after the other and prints what they return.
* The tests, as code: they are read as statements of intent, and quoted.
* The download scripts, the image and CI: they run before the programs and share
  no state with them. Their hazard is listed and was found by reading.
* A poisoned mutex cannot occur: nothing panics while the cache is locked.

## Plan

What is left: a second look at `NotFoundIsDeserved` under flows. With `Apart` it
should say which client displaced the handle.
