--------------------------- MODULE StartupProofs ----------------------------
(***************************************************************************)
(* Proofs about the starts of the server, for every number of starts and   *)
(* faults: what is in the database after any sequence of good, faulty and  *)
(* crashed starts.                                                         *)
(***************************************************************************)
EXTENDS Startup, TLAPS

-----------------------------------------------------------------------------
(* The script: four tables, then eight nodes, then eleven relationships, each *)
(* of them between two of the nodes and none listed twice.                    *)

LEMMA LengthsAre ==
  /\ Len(TableStmts) = 4 /\ Len(NodeStmts) = 8 /\ Len(RelStmts) = 11
  /\ Len(Script) = 23
BY DEF TableStmts, NodeStmts, RelStmts, Script

LEMMA ScriptShape ==
  /\ \A k \in 1..4 : Script[k] = TableStmts[k]
  /\ \A k \in 5..12 : Script[k] = NodeStmts[k - 4]
  /\ \A k \in 13..23 : Script[k] = RelStmts[k - 12]
BY LengthsAre DEF Script, TableStmts, NodeStmts, RelStmts

LEMMA KindsAre ==
  /\ \A k \in 1..4 : TableStmts[k][1] = "table"
  /\ \A k \in 1..8 : NodeStmts[k][1] = "node"
  /\ \A k \in 1..11 : RelStmts[k][1] = "rel"
  /\ \A k \in 1..11 : RelStmts[k][2] \in Members(NodeStmts) /\ RelStmts[k][3] \in Members(NodeStmts)
<1>1. \A i \in 1..5 : User(i) \in Members(NodeStmts)
  BY DEF Members, NodeStmts
<1>2. \A i \in 1..3 : City(i) \in Members(NodeStmts)
  BY DEF Members, NodeStmts
<1>3. \A k \in 1..11 : RelStmts[k][1] = "rel"
  BY DEF RelStmts, Follows, LivesIn
<1>4. \A k \in 1..11 : /\ RelStmts[k][2] \in Members(NodeStmts)
                       /\ RelStmts[k][3] \in Members(NodeStmts)
  BY <1>1, <1>2 DEF RelStmts, Follows, LivesIn
<1>5. \A k \in 1..4 : TableStmts[k][1] = "table"
  BY DEF TableStmts
<1>6. \A k \in 1..8 : NodeStmts[k][1] = "node"
  BY DEF NodeStmts, User, City
<1> QED  BY <1>3, <1>4, <1>5, <1>6

LEMMA NoneTwice ==
  \A j, k \in 1..11 : RelStmts[j] = RelStmts[k] => j = k
BY DEF RelStmts, Follows, LivesIn, User, City

\* The statement that runs, by its kind.
LEMMA WhatRuns ==
  ASSUME next \in 1..24
  PROVE  /\ Running({"table"}) => /\ next \in 1..4 /\ Script[next] = TableStmts[next]
                                 /\ Script[next] \in Members(TableStmts)
         /\ Running({"node"}) => \E k \in 1..8 : next = 4 + k /\ Script[next] = NodeStmts[k]
         /\ Running({"rel"}) => \E i \in 1..11 : next = 12 + i /\ Script[next] = RelStmts[i]
<1>1. CASE next \in 1..4
  <2>1. Script[next] = TableStmts[next] /\ Script[next][1] = "table"
    BY <1>1, ScriptShape, KindsAre
  <2> QED  BY <1>1, <2>1, LengthsAre DEF Running, Members, TableStmts
<1>2. CASE next \in 5..12
  <2>1. PICK k \in 1..8 : next = 4 + k /\ k = next - 4
    BY <1>2
  <2>2. Script[next] = NodeStmts[k] /\ Script[next][1] = "node"
    BY <1>2, <2>1, ScriptShape, KindsAre
  <2> QED  BY <2>1, <2>2 DEF Running
<1>3. CASE next \in 13..23
  <2>1. PICK i \in 1..11 : next = 12 + i /\ i = next - 12
    BY <1>3
  <2>2. Script[next] = RelStmts[i] /\ Script[next][1] = "rel"
    BY <1>3, <2>1, ScriptShape, KindsAre
  <2> QED  BY <2>1, <2>2 DEF Running
<1>4. CASE next = 24
  BY <1>4, LengthsAre DEF Running
<1> QED  BY <1>1, <1>2, <1>3, <1>4

LEMMA MembersAre ==
  /\ \A k \in 1..8 : NodeStmts[k] \in Members(NodeStmts)
  /\ \A x \in Members(NodeStmts) : \E k \in 1..8 : x = NodeStmts[k]
  /\ \A x \in Members(TableStmts) : \E k \in 1..4 : x = TableStmts[k]
  /\ \A i \in 1..11 : RelStmts[i] \in Members(RelStmts)
  /\ \A r \in Members(RelStmts) : \E i \in 1..11 : r = RelStmts[i]
<1>1. DOMAIN TableStmts = 1..4 /\ DOMAIN NodeStmts = 1..8 /\ DOMAIN RelStmts = 1..11
  BY DEF TableStmts, NodeStmts, RelStmts
<1> QED  BY <1>1 DEF Members

-----------------------------------------------------------------------------
(* The invariant.                                                             *)

\* The relationship is still to be created by this start.
Pending(i) == up = "opened" \/ (up = "building" /\ next <= 12 + i)

\* Each start adds a relationship at most once; memory begins anew with each.
Allowed == IF inMemory /\ starts > 0 THEN 1 ELSE starts
Counts ==
  \A i \in 1..11 : rels[RelStmts[i]] + (IF Pending(i) THEN 1 ELSE 0) <= Allowed

\* What a start without a fault has done so far is there.
Undisturbed ==
  up = "building" /\ ~ faulty =>
    /\ \A k \in 1..8 : 4 + k < next => NodeStmts[k] \in nodes
    /\ \A i \in 1..11 : 12 + i < next => rels[RelStmts[i]] >= 1

\* The tables a start has passed are there, made by it or found.
TablesSoFar == up # "down" => \A k \in 1..4 : k < next => TableStmts[k] \in tables

StartCourse ==
  /\ up = "opened" => next = 1
  /\ up # "down" => starts > 0

Flags == /\ inMemory \in BOOLEAN /\ installed \in BOOLEAN /\ loaded \in BOOLEAN
         /\ faulty \in BOOLEAN /\ wholeOnce \in BOOLEAN
         /\ loaded => installed

StartTypes ==
  /\ up \in {"down", "opened", "building", "built", "serving"}
  /\ next \in 1..24
  /\ tables \subseteq Members(TableStmts) /\ nodes \subseteq Members(NodeStmts)
  /\ rels \in [Members(RelStmts) -> Nat]
  /\ starts \in 0..MaxStarts /\ faults \in 0..MaxFaults

GraphIInv ==
  /\ StartTypes
  /\ Counts
  /\ Undisturbed
  /\ StartCourse
  /\ TablesSoFar
  /\ WholeAfterOneGoodStart

StartIInv == Flags /\ GraphIInv

LEMMA FlagsStay ==
  /\ StartInit => Flags
  /\ Flags /\ [StartNext]_startVars => Flags'
<1>1. StartInit => Flags
  BY DEF StartInit, Flags
<1>2. Flags /\ Open => Flags'
  BY DEF Flags, Open, OpenDatabase, db
<1>3. Flags /\ EnsureAlgoExtension => Flags'
  BY DEF Flags, EnsureAlgoExtension
<1>4. ASSUME OpenFails \/ CreateTable \/ TableExists \/ InsertNode \/ InsertRel \/ Serve
             \/ TableFault \/ InsertFault \/ PortTaken \/ Crash \/ DemoDone
      PROVE  /\ UNCHANGED <<inMemory, installed, loaded>>
             /\ faulty' \in {TRUE, faulty}
             /\ wholeOnce' \in {TRUE, wholeOnce, wholeOnce \/ ~ faulty}
  <2>1. CASE OpenFails \/ CreateTable \/ TableExists \/ InsertNode \/ InsertRel
    BY <2>1, Zenon DEF OpenFails, CreateTable, TableExists, InsertNode, InsertRel
  <2>2. CASE Serve \/ PortTaken \/ Crash \/ DemoDone
    BY <2>2, Zenon DEF Serve, PortTaken, Crash, DemoDone
  <2>3. CASE TableFault \/ InsertFault
    BY <2>3, Zenon DEF TableFault, InsertFault
  <2> QED  BY <1>4, <2>1, <2>2, <2>3, Zenon
<1>5. ASSUME Flags, UNCHANGED <<inMemory, installed, loaded>>, faulty' \in {TRUE, faulty},
             wholeOnce' \in {TRUE, wholeOnce, wholeOnce \/ ~ faulty}
      PROVE  Flags'
  BY <1>5 DEF Flags
<1>7. Flags /\ UNCHANGED startVars => Flags'
  BY DEF Flags, startVars
<1>6. Flags /\ (Open \/ EnsureAlgoExtension \/ UNCHANGED startVars) => Flags'
  BY <1>2, <1>3, <1>7
<1> QED  BY <1>1, <1>4, <1>5, <1>6, Zenon DEF StartNext

LEMMA StartInitIsSound == StartInit => StartIInv
<1> SUFFICES ASSUME StartInit
             PROVE  StartIInv
  OBVIOUS
<1>1. StartTypes
  BY BoundsAssumption DEF StartInit, StartTypes, NoRels
<1>2. Counts
  BY MembersAre DEF StartInit, Counts, Pending, Allowed, NoRels
<1> QED  BY <1>1, <1>2, FlagsStay DEF StartInit, StartIInv, GraphIInv, Undisturbed, StartCourse,
              WholeAfterOneGoodStart, TablesSoFar

LEMMA OpenStep == StartIInv /\ Open => GraphIInv'
<1> SUFFICES ASSUME StartIInv, Open
             PROVE  GraphIInv'
  OBVIOUS
<1>1. StartTypes'
  <2>1. NoRels \in [Members(RelStmts) -> Nat]
    BY DEF NoRels
  <2>2. /\ tables' \in {tables, {}} /\ nodes' \in {nodes, {}} /\ rels' \in {rels, NoRels}
        /\ up' = "opened" /\ next' = 1 /\ starts < MaxStarts /\ starts' = starts + 1
        /\ faults' = faults
    BY DEF Open, OpenDatabase, db
  <2> QED  BY <2>1, <2>2, BoundsAssumption DEF StartIInv, GraphIInv, StartTypes
<1>2. Counts'
  <2>1. CASE inMemory
    <3>1. \A i \in 1..11 : rels'[RelStmts[i]] = 0
      BY <2>1, MembersAre DEF Open, OpenDatabase, NoRels
    <3> QED  BY <2>1, <3>1 DEF StartIInv, GraphIInv, StartTypes, Open, Counts, Pending, Allowed
  <2>2. CASE ~ inMemory
    <3>1. \A i \in 1..11 : rels'[RelStmts[i]] \in Nat /\ rels'[RelStmts[i]] <= starts
      BY <2>2, MembersAre DEF StartIInv, GraphIInv, StartTypes, Open, OpenDatabase, db, Counts,
         Pending, Allowed
    <3> QED  BY <2>2, <3>1 DEF StartIInv, GraphIInv, StartTypes, Open, Counts, Pending, Allowed
  <2> QED  BY <2>1, <2>2
<1>3. Undisturbed' /\ StartCourse' /\ TablesSoFar'
  BY DEF StartIInv, GraphIInv, StartTypes, Open, Undisturbed, StartCourse, TablesSoFar
<1>4. WholeAfterOneGoodStart'
  BY DEF StartIInv, GraphIInv, Open, OpenDatabase, db, WholeAfterOneGoodStart
<1> QED  BY <1>1, <1>2, <1>3, <1>4 DEF StartIInv, GraphIInv

\* Steps that leave the graph alone and have no relationship to create any more
\* than before.
LEMMA GraphStays ==
  ASSUME StartIInv, UNCHANGED <<db, inMemory, starts>>,
         \A i \in 1..11 : Pending(i)' => Pending(i)
  PROVE  Counts'
<1>1. \A i \in 1..11 : rels[RelStmts[i]] \in Nat /\ starts \in Nat
  BY MembersAre DEF StartIInv, GraphIInv, StartTypes
<1> QED  BY <1>1 DEF StartIInv, GraphIInv, Counts, Allowed, db

LEMMA EndsStep ==
  ASSUME StartIInv, TableFault \/ PortTaken \/ Crash
  PROVE  GraphIInv'
<1>1. /\ up' = "down" /\ UNCHANGED <<next, inMemory, tables, nodes, rels, wholeOnce, starts>>
      /\ faults' \in {faults, faults + 1} /\ (faults' = faults \/ faults < MaxFaults)
  BY DEF TableFault, AfterTableError, Aborts, PortTaken, Crash, db
<1>2. StartTypes'
  BY <1>1, BoundsAssumption DEF StartIInv, GraphIInv, StartTypes
<1>3. Counts'
  BY <1>1, GraphStays DEF Pending, db
<1> QED  BY <1>1, <1>2, <1>3 DEF StartIInv, GraphIInv, Undisturbed, StartCourse, TablesSoFar,
              WholeAfterOneGoodStart

\* A start that never gets as far as a connection counts as one.
LEMMA OpenFailsStep == StartIInv /\ OpenFails => GraphIInv'
<1> SUFFICES ASSUME StartIInv, OpenFails
             PROVE  GraphIInv'
  OBVIOUS
<1>1. /\ up = "down" /\ starts \in Nat /\ starts < MaxStarts /\ starts' = starts + 1
      /\ UNCHANGED <<inMemory, up, next, tables, nodes, rels, wholeOnce, faults>>
  BY DEF StartIInv, GraphIInv, StartTypes, OpenFails, db
<1>2. StartTypes'
  BY <1>1, BoundsAssumption DEF StartIInv, GraphIInv, StartTypes
<1>3. Counts'
  <2>1. \A i \in 1..11 : rels[RelStmts[i]] \in Nat /\ ~ Pending(i)'
    BY <1>1, MembersAre DEF StartIInv, GraphIInv, StartTypes, Pending
  <2>2. \A i \in 1..11 : rels[RelStmts[i]] <= Allowed
    BY <1>1, <2>1 DEF StartIInv, GraphIInv, Counts, Pending
  <2>3. Allowed <= Allowed' /\ Allowed \in Nat /\ Allowed' \in Nat
    BY <1>1 DEF Allowed
  <2> QED  BY <1>1, <2>1, <2>2, <2>3 DEF Counts
<1> QED  BY <1>1, <1>2, <1>3 DEF StartIInv, GraphIInv, Undisturbed, StartCourse, TablesSoFar,
              WholeAfterOneGoodStart

LEMMA EnsureStep == StartIInv /\ EnsureAlgoExtension => GraphIInv'
<1> SUFFICES ASSUME StartIInv, EnsureAlgoExtension
             PROVE  GraphIInv'
  OBVIOUS
<1>1. StartTypes'
  BY DEF StartIInv, GraphIInv, StartTypes, EnsureAlgoExtension, db
<1>2. Counts'
  BY GraphStays DEF EnsureAlgoExtension, Pending
<1>3. Undisturbed' /\ StartCourse' /\ TablesSoFar'
  BY DEF StartIInv, GraphIInv, EnsureAlgoExtension, db, Undisturbed, StartCourse, TablesSoFar
<1> QED  BY <1>1, <1>2, <1>3 DEF StartIInv, GraphIInv, EnsureAlgoExtension, db,
              WholeAfterOneGoodStart

\* Whether the table is new or was there, the start goes on and the table is there.
LEMMA TableStep == StartIInv /\ (CreateTable \/ TableExists) => GraphIInv'
<1> SUFFICES ASSUME StartIInv, CreateTable \/ TableExists
             PROVE  GraphIInv'
  OBVIOUS
<1>1. /\ next \in 1..4 /\ Script[next] = TableStmts[next]
      /\ Script[next] \in Members(TableStmts) /\ up = "building"
  BY WhatRuns DEF StartIInv, GraphIInv, StartTypes, CreateTable, TableExists, Running
<1>2. /\ up' = "building" /\ next' = next + 1 /\ tables' = tables \cup {Script[next]}
      /\ UNCHANGED <<inMemory, nodes, rels, faulty, wholeOnce, starts, faults>>
  BY <1>1 DEF CreateTable, TableExists, AfterTableError, Aborts, db
<1>3. StartTypes'
  BY <1>1, <1>2 DEF StartIInv, GraphIInv, StartTypes
<1>4. Counts'
  <2>1. \A i \in 1..11 : rels[RelStmts[i]] \in Nat /\ starts \in Nat /\ Pending(i)
    BY <1>1, MembersAre DEF StartIInv, GraphIInv, StartTypes, Pending
  <2> QED  BY <1>2, <2>1 DEF StartIInv, GraphIInv, Counts, Allowed
<1>5. TablesSoFar'
  <2>1. \A k \in 1..4 : k < next + 1 => k < next \/ k = next
    BY <1>1
  <2> QED  BY <1>1, <1>2, <2>1 DEF StartIInv, GraphIInv, TablesSoFar
<1> QED  BY <1>1, <1>2, <1>3, <1>4, <1>5 DEF StartIInv, GraphIInv, Undisturbed, StartCourse,
              WholeAfterOneGoodStart

LEMMA NodeStep == StartIInv /\ InsertNode => GraphIInv'
<1> SUFFICES ASSUME StartIInv, InsertNode
             PROVE  GraphIInv'
  OBVIOUS
<1>1. PICK k \in 1..8 : next = 4 + k /\ Script[next] = NodeStmts[k]
  BY WhatRuns DEF StartIInv, GraphIInv, StartTypes, InsertNode
<1>2. /\ nodes' = nodes \cup {NodeStmts[k]} /\ NodeStmts[k] \in Members(NodeStmts)
      /\ up = "building" /\ up' = "building" /\ next' = next + 1
      /\ UNCHANGED <<inMemory, tables, rels, installed, loaded, faulty, wholeOnce, starts, faults>>
  BY <1>1, MembersAre DEF InsertNode, Running
<1>3. StartTypes'
  BY <1>1, <1>2 DEF StartIInv, GraphIInv, StartTypes
<1>4. Counts'
  <2>1. \A i \in 1..11 : rels[RelStmts[i]] \in Nat /\ starts \in Nat /\ Pending(i)
    BY <1>1, <1>2, MembersAre DEF StartIInv, GraphIInv, StartTypes, Pending
  <2> QED  BY <1>2, <2>1 DEF StartIInv, GraphIInv, Counts, Allowed
<1>5. Undisturbed'
  <2> SUFFICES ASSUME ~ faulty
               PROVE  /\ \A j \in 1..8 : 4 + j < next' => NodeStmts[j] \in nodes'
                      /\ \A i \in 1..11 : 12 + i < next' => rels[RelStmts[i]] >= 1
    BY <1>2 DEF Undisturbed
  <2>1. \A j \in 1..8 : 4 + j < next => NodeStmts[j] \in nodes
    BY <1>2 DEF StartIInv, GraphIInv, Undisturbed
  <2> QED  BY <1>1, <1>2, <2>1
<1>6. TablesSoFar'
  BY <1>1, <1>2 DEF StartIInv, GraphIInv, TablesSoFar
<1> QED  BY <1>2, <1>3, <1>4, <1>5, <1>6 DEF StartIInv, GraphIInv, StartTypes, StartCourse,
              WholeAfterOneGoodStart

LEMMA RelStep == StartIInv /\ InsertRel => GraphIInv'
<1> SUFFICES ASSUME StartIInv, InsertRel
             PROVE  GraphIInv'
  OBVIOUS
<1>1. PICK i \in 1..11 : next = 12 + i /\ Script[next] = RelStmts[i]
  BY WhatRuns DEF StartIInv, GraphIInv, StartTypes, InsertRel
<1> DEFINE r == RelStmts[i]
<1>2. /\ up = "building" /\ up' = "building" /\ next' = next + 1
      /\ rels' = IF {r[2], r[3]} \subseteq nodes THEN [rels EXCEPT ![r] = @ + 1] ELSE rels
      /\ UNCHANGED <<inMemory, tables, nodes, installed, loaded, faulty, wholeOnce, starts, faults>>
  BY <1>1 DEF InsertRel, Running
<1>3. /\ r \in Members(RelStmts) /\ rels \in [Members(RelStmts) -> Nat] /\ starts \in Nat
      /\ r[2] \in Members(NodeStmts) /\ r[3] \in Members(NodeStmts)
  BY MembersAre, KindsAre DEF StartIInv, GraphIInv, StartTypes
<1>4. \A j \in 1..11 : j # i => RelStmts[j] # r
  BY NoneTwice
<1> HIDE DEF r
<1>5. /\ rels' \in [Members(RelStmts) -> Nat]
      /\ \A x \in Members(RelStmts) : rels'[x] >= rels[x] /\ (x # r => rels'[x] = rels[x])
      /\ rels'[r] <= rels[r] + 1
      /\ {r[2], r[3]} \subseteq nodes => rels'[r] >= 1
  BY <1>2, <1>3
<1>6. StartTypes'
  BY <1>1, <1>2, <1>5 DEF StartIInv, GraphIInv, StartTypes
<1>7. Counts'
  <2> SUFFICES ASSUME NEW j \in 1..11
               PROVE  rels'[RelStmts[j]] + (IF Pending(j)' THEN 1 ELSE 0) <= Allowed
    BY <1>2 DEF Counts, Allowed
  <2>1. rels[RelStmts[j]] + (IF Pending(j) THEN 1 ELSE 0) <= Allowed
    BY DEF StartIInv, GraphIInv, Counts
  <2>2. RelStmts[j] \in Members(RelStmts)
    BY MembersAre
  <2>3. CASE j = i
    <3>1. Pending(j) /\ ~ Pending(j)'
      BY <1>1, <1>2, <2>3 DEF Pending
    <3>2. RelStmts[j] = r
      BY <2>3 DEF r
    <3> QED  BY <1>3, <1>5, <2>1, <3>1, <3>2 DEF Allowed
  <2>4. CASE j # i
    <3>1. rels'[RelStmts[j]] = rels[RelStmts[j]]
      BY <1>4, <1>5, <2>2, <2>4
    <3>2. Pending(j)' <=> Pending(j)
      BY <1>1, <1>2, <2>4 DEF Pending
    <3> QED  BY <2>1, <3>1, <3>2
  <2> QED  BY <2>3, <2>4
<1>8. Undisturbed'
  <2> SUFFICES ASSUME ~ faulty
               PROVE  /\ \A j \in 1..8 : 4 + j < next' => NodeStmts[j] \in nodes
                      /\ \A j \in 1..11 : 12 + j < next' => rels'[RelStmts[j]] >= 1
    BY <1>2 DEF Undisturbed
  <2>1. /\ \A j \in 1..8 : NodeStmts[j] \in nodes
        /\ \A j \in 1..11 : 12 + j < next => rels[RelStmts[j]] >= 1
    BY <1>1, <1>2 DEF StartIInv, GraphIInv, Undisturbed
  <2>2. rels'[r] >= 1
    BY <1>3, <1>5, <2>1, MembersAre
  <2>3. ASSUME NEW j \in 1..11, 12 + j < next'
        PROVE  rels'[RelStmts[j]] >= 1
    <3>1. CASE j = i
      BY <2>2, <3>1 DEF r
    <3>2. CASE j # i
      <4>1. rels[RelStmts[j]] >= 1
        BY <1>1, <1>2, <2>1, <2>3, <3>2
      <4>2. rels'[RelStmts[j]] = rels[RelStmts[j]]
        BY <1>4, <1>5, <3>2, MembersAre
      <4> QED  BY <4>1, <4>2
    <3> QED  BY <3>1, <3>2
  <2> QED  BY <2>1, <2>3
<1>9. WholeAfterOneGoodStart'
  <2> SUFFICES ASSUME wholeOnce
               PROVE  nodes = Members(NodeStmts) /\ \A x \in Members(RelStmts) : rels'[x] >= 1
    BY <1>2 DEF WholeAfterOneGoodStart
  <2>1. nodes = Members(NodeStmts) /\ \A x \in Members(RelStmts) : rels[x] >= 1
    BY DEF StartIInv, GraphIInv, WholeAfterOneGoodStart
  <2> QED  BY <1>3, <1>5, <2>1
<1>10. TablesSoFar'
  BY <1>1, <1>2 DEF StartIInv, GraphIInv, TablesSoFar
<1> QED  BY <1>2, <1>6, <1>7, <1>8, <1>9, <1>10 DEF StartIInv, GraphIInv, StartCourse

LEMMA InsertFaultStep == StartIInv /\ InsertFault => GraphIInv'
<1> SUFFICES ASSUME StartIInv, InsertFault
             PROVE  GraphIInv'
  OBVIOUS
<1>1. up = "building" /\ next <= 23 /\ next > 4
  BY WhatRuns, LengthsAre, KindsAre, ScriptShape DEF InsertFault, Running, StartIInv, GraphIInv,
     StartTypes
<1>2. StartTypes'
  BY <1>1, BoundsAssumption DEF StartIInv, GraphIInv, StartTypes, InsertFault, db
<1>3. Counts'
  <2>1. \A i \in 1..11 : Pending(i)' => Pending(i)
    BY <1>1 DEF StartIInv, GraphIInv, StartTypes, InsertFault, Pending
  <2> QED  BY <2>1, GraphStays DEF InsertFault
<1>4. TablesSoFar'
  BY <1>1 DEF StartIInv, GraphIInv, StartTypes, InsertFault, db, TablesSoFar
<1> QED  BY <1>1, <1>2, <1>3, <1>4 DEF StartIInv, GraphIInv, InsertFault, db, Undisturbed,
              StartCourse, WholeAfterOneGoodStart

LEMMA DoneStep == StartIInv /\ DemoDone => GraphIInv'
<1> SUFFICES ASSUME StartIInv, DemoDone
             PROVE  GraphIInv'
  OBVIOUS
<1>1. next = 24
  BY LengthsAre DEF StartIInv, GraphIInv, StartTypes, DemoDone
<1>2. StartTypes'
  BY DEF StartIInv, GraphIInv, StartTypes, DemoDone, db
<1>3. Counts'
  BY GraphStays DEF DemoDone, Pending
<1>4. WholeAfterOneGoodStart'
  <2>1. CASE wholeOnce
    BY <2>1 DEF StartIInv, GraphIInv, DemoDone, db, WholeAfterOneGoodStart
  <2>2. CASE ~ wholeOnce /\ ~ faulty
    <3>1. /\ \A k \in 1..8 : NodeStmts[k] \in nodes
          /\ \A i \in 1..11 : rels[RelStmts[i]] >= 1
      BY <1>1, <2>2 DEF StartIInv, GraphIInv, Undisturbed, DemoDone
    <3>2. nodes = Members(NodeStmts)
      BY <3>1, MembersAre DEF StartIInv, GraphIInv, StartTypes
    <3>3. \A x \in Members(RelStmts) : rels[x] >= 1
      BY <3>1, MembersAre
    <3> QED  BY <3>2, <3>3 DEF DemoDone, db, WholeAfterOneGoodStart
  <2>3. CASE ~ wholeOnce /\ faulty
    BY <2>3 DEF DemoDone, WholeAfterOneGoodStart
  <2> QED  BY <2>1, <2>2, <2>3
<1>5. TablesSoFar'
  BY DEF StartIInv, GraphIInv, DemoDone, db, TablesSoFar
<1> QED  BY <1>2, <1>3, <1>4, <1>5 DEF StartIInv, GraphIInv, DemoDone, Undisturbed, StartCourse

LEMMA ServeStep == StartIInv /\ Serve => GraphIInv'
<1> SUFFICES ASSUME StartIInv, Serve
             PROVE  GraphIInv'
  OBVIOUS
<1>1. StartTypes'
  BY DEF StartIInv, GraphIInv, StartTypes, Serve, db
<1>2. Counts'
  BY GraphStays DEF Serve, Pending
<1> QED  BY <1>1, <1>2 DEF StartIInv, GraphIInv, Serve, db, Undisturbed, StartCourse,
              TablesSoFar, WholeAfterOneGoodStart

LEMMA StartStep == StartIInv /\ [StartNext]_startVars => StartIInv'
<1>1. StartIInv /\ UNCHANGED startVars => GraphIInv'
  BY DEF StartIInv, GraphIInv, startVars, db, StartTypes, Counts, Pending, Allowed, Undisturbed,
         StartCourse, TablesSoFar, WholeAfterOneGoodStart
<1> QED  BY <1>1, OpenStep, OpenFailsStep, EndsStep, EnsureStep, TableStep, NodeStep, RelStep,
            InsertFaultStep, DoneStep, ServeStep, FlagsStay DEF StartNext, StartIInv

-----------------------------------------------------------------------------

\* The invariant holds through every sequence of starts, faults and crashes.
THEOREM StartInvariant == StartSpec => []StartIInv
BY StartInitIsSound, StartStep, PTL DEF StartSpec

\* The state has its types; a relationship is there at most once per start.
THEOREM StartTypeCorrect == StartSpec => []StartTypeOK
<1>1. StartIInv => StartTypeOK
  <2> SUFFICES ASSUME StartIInv
               PROVE  StartTypeOK
    OBVIOUS
  <2>1. \A x \in Members(RelStmts) : rels[x] \in 0..MaxStarts
    <3> SUFFICES ASSUME NEW i \in 1..11
                 PROVE  rels[RelStmts[i]] \in 0..MaxStarts
      BY MembersAre
    <3>1. rels[RelStmts[i]] \in Nat /\ starts \in 0..MaxStarts
      BY MembersAre DEF StartIInv, GraphIInv, StartTypes
    <3>2. rels[RelStmts[i]] <= starts
      BY <3>1 DEF StartIInv, GraphIInv, Counts, Allowed
    <3> QED  BY <3>1, <3>2, BoundsAssumption
  <2>2. rels \in [Members(RelStmts) -> 0..MaxStarts]
    BY <2>1 DEF StartIInv, GraphIInv, StartTypes
  <2> QED  BY <2>2, LengthsAre DEF StartIInv, GraphIInv, Flags, StartTypes, StartTypeOK
<1> QED  BY <1>1, StartInvariant, PTL

\* A start that ran undisturbed left a graph without holes, whatever the starts
\* before it had left behind.
THEOREM GoodStartsMakeWhole == StartSpec => []WholeAfterOneGoodStart
<1>1. StartIInv => WholeAfterOneGoodStart
  BY DEF StartIInv, GraphIInv
<1> QED  BY <1>1, StartInvariant, PTL

\* In memory an undisturbed start serves exactly the demo graph.
THEOREM MemoryHoldsTheDemo == StartSpec => []MemoryServesTheDemo
<1>1. StartIInv => MemoryServesTheDemo
  <2> SUFFICES ASSUME StartIInv, inMemory, up = "serving", wholeOnce,
                      NEW x \in Members(RelStmts)
               PROVE  rels[x] = 1
    BY DEF MemoryServesTheDemo
  <2>1. PICK i \in 1..11 : x = RelStmts[i]
    BY MembersAre
  <2>2. rels[x] \in Nat /\ rels[x] >= 1 /\ starts > 0
    BY DEF StartIInv, GraphIInv, StartTypes, StartCourse, WholeAfterOneGoodStart
  <2>3. rels[x] <= 1
    BY <2>1, <2>2 DEF StartIInv, GraphIInv, Counts, Allowed, Pending
  <2> QED  BY <2>2, <2>3
<1> QED  BY <1>1, StartInvariant, PTL

\* The inserts and the server find every table, whichever starts made them.
THEOREM StartsMakeTheirTables == StartSpec => []ServesItsTables
<1>1. StartIInv => ServesItsTables
  BY LengthsAre, MembersAre DEF StartIInv, GraphIInv, StartTypes, TablesSoFar, ServesItsTables
<1> QED  BY <1>1, StartInvariant, PTL
=============================================================================
