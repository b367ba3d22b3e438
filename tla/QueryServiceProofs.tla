------------------------- MODULE QueryServiceProofs -------------------------
(***************************************************************************)
(* Proofs about the abstract query service, for every finite set of        *)
(* clients.  The refinement that FlightSystem's runs check carries them    *)
(* over to the clients and the server.                                     *)
(***************************************************************************)
EXTENDS QueryService, FiniteSetTheorems, TLAPS

\* The statements of clients that wrote and were not lost.
Done == {c \in writers : stage[c] \in {"applied", "answered"}}

\* An answer that shows rows is given while there are some, and nothing takes
\* rows away.
RowsAreThere == \A c \in Clients : answer[c] = "rows" => rows > 0

\* The inductive invariant: with the types, each of its parts is inductive.
ServiceIInv ==
  /\ ServiceTypeOK
  /\ AtMostOnce
  /\ AnsweredIsDone
  /\ RowsAreThere

\* The counts of the invariant are numbers.
LEMMA CountsAreNumbers ==
  ASSUME IsFiniteSet(Clients), ServiceTypeOK
  PROVE  /\ IsFiniteSet(Spent) /\ Cardinality(Spent) \in Nat
         /\ IsFiniteSet(Done) /\ Cardinality(Done) \in Nat
<1>1. Spent \in SUBSET Clients /\ Done \in SUBSET Clients
  BY DEF ServiceTypeOK, Spent, Done
<1> QED  BY <1>1, FS_Subset, FS_CardinalityType

\* A service that nobody has used yet satisfies the invariant.
LEMMA InitIsSound ==
  ASSUME IsFiniteSet(Clients), ServiceInit
  PROVE  ServiceIInv
<1>1. ServiceTypeOK /\ RowsAreThere
  BY DEF ServiceInit, ServiceTypeOK, RowsAreThere
<1>2. Spent = {} /\ Done = {}
  BY DEF ServiceInit, Spent, Done
<1>3. AtMostOnce /\ AnsweredIsDone
  <2>1. Cardinality(Spent) = 0 /\ Cardinality(Done) = 0
    BY <1>2, FS_EmptySet
  <2> QED  BY <2>1 DEF AtMostOnce, AnsweredIsDone, ServiceInit, Done
<1> QED  BY <1>1, <1>3 DEF ServiceIInv

\* A statement that takes effect adds its writer to the spent and to the done.
LEMMA ApplyPreserves ==
  ASSUME IsFiniteSet(Clients), ServiceIInv, NEW c \in Clients, Apply(c)
  PROVE  ServiceIInv'
<1> USE DEF ServiceIInv, Apply
<1>1. ServiceTypeOK' /\ RowsAreThere'
  BY DEF ServiceTypeOK, RowsAreThere, Returned
<1>2. /\ IsFiniteSet(Spent) /\ Cardinality(Spent) \in Nat
      /\ IsFiniteSet(Done) /\ Cardinality(Done) \in Nat
  BY CountsAreNumbers
<1>3. CASE c \in writers
  <2>1. c \notin Spent /\ Spent' = Spent \cup {c}
    BY <1>3 DEF Spent, ServiceTypeOK
  <2>2. c \notin Done /\ Done' = Done \cup {c}
    BY <1>3 DEF Done, ServiceTypeOK
  <2>3. Cardinality(Spent \cup {c}) = Cardinality(Spent) + 1
    BY <1>2, <2>1, FS_AddElement
  <2>4. Cardinality(Done \cup {c}) = Cardinality(Done) + 1
    BY <1>2, <2>2, FS_AddElement
  <2>5. Cardinality(Spent') = Cardinality(Spent) + 1
    BY <2>1, <2>3, Zenon
  <2>6. Cardinality(Done') = Cardinality(Done) + 1
    BY <2>2, <2>4, Zenon
  <2>7. rows' = rows + 1 /\ late' = late /\ rows \in Nat /\ late \in Nat
    BY <1>3 DEF ServiceTypeOK
  <2>8. AtMostOnce'
    BY <1>2, <2>5, <2>7 DEF AtMostOnce
  <2>9. AnsweredIsDone'
    BY <1>2, <2>6, <2>7 DEF AnsweredIsDone, Done
  <2> QED  BY <1>1, <2>8, <2>9
<1>4. CASE c \notin writers
  <2>1. Spent' = Spent /\ Done' = Done
    BY <1>4 DEF Spent, Done, ServiceTypeOK
  <2>2. rows' = rows /\ late' = late
    BY <1>4
  <2>3. AtMostOnce' /\ AnsweredIsDone'
    BY <2>1, <2>2 DEF AtMostOnce, AnsweredIsDone, Done
  <2> QED  BY <1>1, <2>3
<1> QED  BY <1>3, <1>4

\* An answer changes no count.
LEMMA FinishPreserves ==
  ASSUME ServiceIInv, NEW c \in Clients, Finish(c)
  PROVE  ServiceIInv'
<1> USE DEF ServiceIInv, Finish
<1>1. ServiceTypeOK' /\ RowsAreThere'
  BY DEF ServiceTypeOK, RowsAreThere
<1>2. Spent' = Spent /\ Done' = Done
  BY DEF Spent, Done, ServiceTypeOK
<1>3. AtMostOnce' /\ AnsweredIsDone'
  BY <1>2 DEF AtMostOnce, AnsweredIsDone, Done
<1> QED  BY <1>1, <1>3

\* A failure that leaves a statement behind spends its client, who had not been
\* spent before.
LEMMA FailPreserves ==
  ASSUME IsFiniteSet(Clients), ServiceIInv, NEW c \in Clients, Fail(c)
  PROVE  ServiceIInv'
<1> USE DEF ServiceIInv, Fail
<1>1. ServiceTypeOK' /\ RowsAreThere'
  BY DEF ServiceTypeOK, RowsAreThere
<1>2. /\ IsFiniteSet(Spent) /\ Cardinality(Spent) \in Nat
      /\ IsFiniteSet(Done) /\ Cardinality(Done) \in Nat
  BY CountsAreNumbers
<1>3. AnsweredIsDone'
  <2>1. Done' \in SUBSET Done
    BY DEF Done, ServiceTypeOK
  <2>2. Cardinality(Done') <= Cardinality(Done) /\ Cardinality(Done') \in Nat
    BY <1>2, <2>1, FS_Subset, FS_CardinalityType
  <2> QED  BY <1>2, <2>2 DEF AnsweredIsDone, Done, ServiceTypeOK
<1>4. CASE c \in writers /\ stage[c] = "asked"
  <2>1. c \notin Spent /\ Spent' = Spent \cup {c}
    BY <1>4 DEF Spent, ServiceTypeOK
  <2>2. Cardinality(Spent \cup {c}) = Cardinality(Spent) + 1
    BY <1>2, <2>1, FS_AddElement
  <2>3. Cardinality(Spent') = Cardinality(Spent) + 1
    BY <2>1, <2>2, Zenon
  <2>4. AtMostOnce'
    BY <1>2, <2>3 DEF AtMostOnce, ServiceTypeOK, MayLeave
  <2> QED  BY <1>1, <1>3, <2>4
<1>5. CASE ~ (c \in writers /\ stage[c] = "asked")
  <2>1. Spent' = Spent
    BY <1>5 DEF Spent, ServiceTypeOK
  <2>2. AtMostOnce'
    BY <1>5, <2>1 DEF AtMostOnce, MayLeave
  <2> QED  BY <1>1, <1>3, <2>2
<1> QED  BY <1>4, <1>5

\* A late statement turns into at most one row.
LEMMA LatePreserves ==
  ASSUME IsFiniteSet(Clients), ServiceIInv, RunLate
  PROVE  ServiceIInv'
<1> USE DEF ServiceIInv, RunLate
<1>1. ServiceTypeOK' /\ RowsAreThere'
  BY DEF ServiceTypeOK, RowsAreThere
<1>2. Cardinality(Spent) \in Nat /\ Cardinality(Done) \in Nat
  BY CountsAreNumbers
<1>3. Spent' = Spent /\ Done' = Done
  BY DEF Spent, Done
<1>4. AtMostOnce' /\ AnsweredIsDone'
  BY <1>2, <1>3 DEF AtMostOnce, AnsweredIsDone, Done, ServiceTypeOK
<1> QED  BY <1>1, <1>4

\* Each step of the service preserves the invariant.
LEMMA ServiceStep ==
  ASSUME IsFiniteSet(Clients), ServiceIInv, [ServiceNext]_serviceVars
  PROVE  ServiceIInv'
<1>1. CASE UNCHANGED serviceVars
  BY <1>1 DEF serviceVars, ServiceIInv, ServiceTypeOK, AtMostOnce, AnsweredIsDone,
              RowsAreThere, Spent
<1>2. ASSUME NEW c \in Clients, Apply(c) \/ Finish(c) \/ Fail(c)
      PROVE  ServiceIInv'
  BY <1>2, ApplyPreserves, FinishPreserves, FailPreserves
<1>3. CASE RunLate
  BY <1>3, LatePreserves
<1> QED  BY <1>1, <1>2, <1>3 DEF ServiceNext

\* The parts of the invariant hold together, whatever the clients do.
THEOREM ServiceInvariant ==
  ASSUME IsFiniteSet(Clients)
  PROVE  ServiceSpec => []ServiceIInv
<1>1. ServiceInit => ServiceIInv
  BY InitIsSound
<1>2. ServiceIInv /\ [ServiceNext]_serviceVars => ServiceIInv'
  BY ServiceStep
<1> QED  BY <1>1, <1>2, PTL DEF ServiceSpec

\* No statement takes effect twice, the late ones counted: a query that failed
\* is worth at most one write, and so is one that was answered.
THEOREM NoEffectTwice ==
  ASSUME IsFiniteSet(Clients)
  PROVE  ServiceSpec => []AtMostOnce
<1>1. ServiceIInv => AtMostOnce
  BY DEF ServiceIInv
<1> QED  BY <1>1, ServiceInvariant, PTL

\* Every statement that was answered is among the rows of the table.
THEOREM AnswersAreBacked ==
  ASSUME IsFiniteSet(Clients)
  PROVE  ServiceSpec => []AnsweredIsDone
<1>1. ServiceIInv => AnsweredIsDone
  BY DEF ServiceIInv
<1> QED  BY <1>1, ServiceInvariant, PTL

\* The action of NoAnswerGoesBack.
KeepsUp ==
  \A c, d \in Clients :
    answer[c] = "rows" /\ stage[d] = "asked" /\ stage'[d] = "applied"
      => answer'[d] = "rows"

\* Once some client was shown rows, no later statement sees an empty table.
THEOREM AnswersRespectEachOther ==
  ASSUME IsFiniteSet(Clients)
  PROVE  ServiceSpec => NoAnswerGoesBack
<1>1. ServiceIInv /\ [ServiceNext]_serviceVars => [KeepsUp]_serviceVars
  <2> SUFFICES ASSUME ServiceIInv, ServiceNext,
                      NEW c \in Clients, NEW d \in Clients,
                      answer[c] = "rows", stage[d] = "asked", stage'[d] = "applied"
               PROVE  answer'[d] = "rows"
    BY DEF KeepsUp
  <2>1. rows > 0 /\ rows \in Nat
    BY DEF ServiceIInv, RowsAreThere, ServiceTypeOK
  <2>2. Apply(d)
    BY DEF ServiceNext, Apply, Finish, Fail, RunLate, ServiceIInv, ServiceTypeOK
  <2> QED  BY <2>1, <2>2 DEF Apply, Returned, ServiceIInv, ServiceTypeOK
<1> QED  BY <1>1, ServiceInvariant, PTL DEF ServiceSpec, NoAnswerGoesBack, KeepsUp
=============================================================================
