------------------------------ MODULE Startup -------------------------------
(***************************************************************************)
(* Starts of the server on one database: LadybugFlightServer::new and      *)
(* ensure_algo_extension (src/server.rs), build_demo_graph (src/lib.rs)    *)
(* and main (src/main.rs).  The database commits every statement by        *)
(* itself, so a crash leaves what the statements before it did; a file is  *)
(* found again by the next start, :memory: is not.                         *)
(*                                                                         *)
(* A fault is an error of the database that has nothing to do with what is *)
(* stored (a full disk, an exhausted buffer pool).                         *)
(*                                                                         *)
(* RelsFirst, RelsTwice, KeepsMemory and NeverAborts are plausible bugs;   *)
(* no action uses them.                                                    *)
(***************************************************************************)
EXTENDS Integers, Sequences

CONSTANTS
  MaxStarts,  \* bound: starts
  MaxFaults   \* bound: faults

ASSUME BoundsAssumption == MaxStarts \in Nat /\ MaxFaults \in Nat

VARIABLES
  inMemory, \* the database is :memory:
  up,        \* "down", "opened", "building", "built" or "serving"
  next,      \* the statement of Script that build_demo_graph runs next
  tables, nodes,  \* what the database holds
  rels,      \* how often it holds each relationship
  installed, \* the algo extension is on the disk
  loaded,    \* .. and loaded by this server
  faulty,    \* a statement of this start met a fault
  wholeOnce, \* some start built the graph without one
  starts, faults

db == <<tables, nodes, rels>>
startVars == <<inMemory, up, next, db, installed, loaded, faulty, wholeOnce, starts, faults>>

-----------------------------------------------------------------------------
(* The demo graph, one statement after the other: <<"table", name>>,          *)
(* <<"node", table, id>> or <<"rel", node, node>>.                            *)

TableStmts == << <<"table", "User">>, <<"table", "City">>,
                 <<"table", "Follows">>, <<"table", "LivesIn">> >>

User(i) == <<"node", "User", i>>
City(i) == <<"node", "City", i>>
NodeStmts == <<User(1), User(2), User(3), User(4), User(5), City(1), City(2), City(3)>>

Follows(a, b) == <<"rel", User(a), User(b)>>
LivesIn(a, c) == <<"rel", User(a), City(c)>>
RelStmts ==
  <<Follows(1, 2), Follows(1, 3), Follows(2, 4), Follows(3, 5), Follows(4, 1), Follows(5, 2),
    LivesIn(1, 1), LivesIn(2, 2), LivesIn(3, 1), LivesIn(4, 3), LivesIn(5, 2)>>

\* One variant creates relationships before there are nodes, one creates them
\* twice.
RelsFirst == TableStmts \o RelStmts \o NodeStmts
RelsTwice == TableStmts \o NodeStmts \o RelStmts \o RelStmts
Script == TableStmts \o NodeStmts \o RelStmts

Members(stmts) == {stmts[k] : k \in DOMAIN stmts}
NoRels == [r \in Members(RelStmts) |-> 0]

-----------------------------------------------------------------------------

StartInit ==
  /\ inMemory \in BOOLEAN
  /\ up = "down"
  /\ next = 1
  /\ tables = {} /\ nodes = {} /\ rels = NoRels
  /\ installed \in BOOLEAN /\ loaded = FALSE
  /\ faulty = FALSE /\ wholeOnce = FALSE
  /\ starts = 0 /\ faults = 0

\* What Database::in_memory or Database::new gives; the variant finds the old
\* memory again.
KeepsMemory == UNCHANGED <<db, wholeOnce>>
OpenDatabase ==
  IF inMemory
    THEN tables' = {} /\ nodes' = {} /\ rels' = NoRels /\ wholeOnce' = FALSE
    ELSE UNCHANGED <<db, wholeOnce>>

Open ==
  /\ up = "down" /\ starts < MaxStarts
  /\ OpenDatabase
  /\ up' = "opened" /\ next' = 1
  /\ loaded' = FALSE /\ faulty' = FALSE
  /\ starts' = starts + 1
  /\ UNCHANGED <<inMemory, installed, faults>>

\* The database cannot be opened (a file that is locked, or that a crash left in
\* a state it refuses) or gives no connection: the start is over.
OpenFails ==
  /\ up = "down" /\ starts < MaxStarts
  /\ starts' = starts + 1
  /\ UNCHANGED <<inMemory, up, next, db, installed, loaded, faulty, wholeOnce, faults>>

\* LOAD; when it fails INSTALL, which takes the network, and LOAD again; when that
\* fails too the server does without.  Then the demo graph, unless --no-demo.
EnsureAlgoExtension ==
  /\ up = "opened"
  /\ \/ installed /\ loaded' = TRUE /\ UNCHANGED installed
     \/ installed' = TRUE /\ loaded' \in BOOLEAN
     \/ loaded' = FALSE /\ UNCHANGED installed
  /\ up' \in {"building", "built"}
  /\ UNCHANGED <<inMemory, next, db, faulty, wholeOnce, starts, faults>>

\* Whether an error of CREATE TABLE ends the start, by its text; the variant drops
\* it, as the inserts do.
NeverAborts(error) == FALSE
Aborts(error) == error \notin {"already exists", "duplicate"}

Running(kinds) == up = "building" /\ next <= Len(Script) /\ Script[next][1] \in kinds

CreateTable ==
  /\ Running({"table"}) /\ Script[next] \notin tables
  /\ tables' = tables \cup {Script[next]}
  /\ next' = next + 1
  /\ UNCHANGED <<inMemory, up, nodes, rels, installed, loaded, faulty, wholeOnce, starts, faults>>

\* The error is passed over or ends the start.
AfterTableError(error) ==
  IF Aborts(error) THEN up' = "down" /\ UNCHANGED next
                   ELSE next' = next + 1 /\ UNCHANGED up

TableExists ==
  /\ Running({"table"}) /\ Script[next] \in tables
  /\ AfterTableError("already exists")
  /\ UNCHANGED <<inMemory, db, installed, loaded, faulty, wholeOnce, starts, faults>>

TableFault ==
  /\ Running({"table"}) /\ faults < MaxFaults
  /\ AfterTableError("other")
  /\ faulty' = TRUE /\ faults' = faults + 1
  /\ UNCHANGED <<inMemory, db, installed, loaded, wholeOnce, starts>>

\* The primary key refuses a node that exists, and that error is dropped.
InsertNode ==
  /\ Running({"node"})
  /\ nodes' = nodes \cup {Script[next]}
  /\ next' = next + 1
  /\ UNCHANGED <<inMemory, up, tables, rels, installed, loaded, faulty, wholeOnce, starts, faults>>

\* MATCH finds both ends and CREATE adds a relationship, or nothing happens.
InsertRel ==
  /\ Running({"rel"})
  /\ LET r == Script[next]
     IN  rels' = IF {r[2], r[3]} \subseteq nodes THEN [rels EXCEPT ![r] = @ + 1] ELSE rels
  /\ next' = next + 1
  /\ UNCHANGED <<inMemory, up, tables, nodes, installed, loaded, faulty, wholeOnce, starts, faults>>

\* `let _ =`: every error of an insert is dropped.
InsertFault ==
  /\ Running({"node", "rel"}) /\ faults < MaxFaults
  /\ next' = next + 1
  /\ faulty' = TRUE /\ faults' = faults + 1
  /\ UNCHANGED <<inMemory, up, db, installed, loaded, wholeOnce, starts>>

DemoDone ==
  /\ up = "building" /\ next > Len(Script)
  /\ up' = "built"
  /\ wholeOnce' = (wholeOnce \/ ~ faulty)
  /\ UNCHANGED <<inMemory, next, db, installed, loaded, faulty, starts, faults>>

\* main binds its port when the database is ready: it serves, or the port is
\* taken and it ends.
Serve ==
  /\ up = "built"
  /\ up' = "serving"
  /\ UNCHANGED <<inMemory, next, db, installed, loaded, faulty, wholeOnce, starts, faults>>

PortTaken ==
  /\ up = "built"
  /\ up' = "down"
  /\ UNCHANGED <<inMemory, next, db, installed, loaded, faulty, wholeOnce, starts, faults>>

\* The process is killed.
Crash ==
  /\ up # "down"
  /\ up' = "down"
  /\ UNCHANGED <<inMemory, next, db, installed, loaded, faulty, wholeOnce, starts, faults>>

StartNext ==
  \/ Open \/ OpenFails \/ EnsureAlgoExtension
  \/ CreateTable \/ TableExists \/ InsertNode \/ InsertRel \/ DemoDone \/ Serve
  \/ TableFault \/ InsertFault \/ PortTaken \/ Crash

StartSpec == StartInit /\ [][StartNext]_startVars

-----------------------------------------------------------------------------

\* The types of the state; a start creates each relationship at most once, and
\* loads the extension only from the disk.
StartTypeOK ==
  /\ up \in {"down", "opened", "building", "built", "serving"}
  /\ next \in 1..(Len(Script) + 1)
  /\ tables \subseteq Members(TableStmts) /\ nodes \subseteq Members(NodeStmts)
  /\ rels \in [Members(RelStmts) -> 0..MaxStarts]
  /\ {installed, loaded, faulty, wholeOnce} \subseteq BOOLEAN
  /\ loaded => installed
  /\ starts \in 0..MaxStarts /\ faults \in 0..MaxFaults

\* One start that builds the graph undisturbed leaves it without holes, whatever
\* crashed or faulty starts left behind before: tables that exist do not stop it,
\* nodes that exist are kept and the relationships find them.
WholeAfterOneGoodStart ==
  wholeOnce => /\ nodes = Members(NodeStmts)
               /\ \A r \in Members(RelStmts) : rels[r] >= 1

\* In memory the graph that an undisturbed start serves is the demo graph, every
\* relationship of it once.
MemoryServesTheDemo ==
  inMemory /\ up = "serving" /\ wholeOnce => \A r \in Members(RelStmts) : rels[r] = 1

\* The inserts, and a server that has built the demo graph, find every table: the
\* errors passed over on the way are those of tables that earlier starts made
\* before they were killed, and never include one that leaves a table out.
ServesItsTables ==
  up # "down" /\ next > Len(TableStmts) => tables = Members(TableStmts)

\* src/lib.rs:64 "Idempotent-ish: ignores 'already exists' errors, and duplicate
\* inserts": a second start adds nothing.
DemoIsIdempotent == \A r \in Members(RelStmts) : rels[r] <= 1
=============================================================================
