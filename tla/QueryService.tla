---------------------------- MODULE QueryService ----------------------------
(***************************************************************************)
(* What a client may expect of query_cypher_flight and                     *)
(* query_cypher_flightsql (src/client.rs) for a statement with result      *)
(* columns, with none of the RPCs, handles and tickets that bring it       *)
(* about: the statement takes effect at one instant, and the answer is     *)
(* what it returned there; or the query fails.  A failed statement had its *)
(* effect once, never, or - its job was on the pool when the connection    *)
(* broke - has it later.                                                   *)
(***************************************************************************)
EXTENDS Integers, FiniteSets

CONSTANT Clients  \* the clients, one query each

VARIABLES
  writers, \* those whose statement adds a row; the others read
  stage,   \* client -> "asked", "applied", "answered" or "failed"
  answer,  \* client -> "none", or what its statement returned: "empty", "rows"
  rows,    \* the rows of the table
  late     \* statements of failed queries that are still to run

serviceVars == <<writers, stage, answer, rows, late>>

-----------------------------------------------------------------------------

ServiceInit ==
  /\ writers \in SUBSET Clients
  /\ stage = [c \in Clients |-> "asked"]
  /\ answer = [c \in Clients |-> "none"]
  /\ rows = 0
  /\ late = 0

\* What a statement returns from a table of n rows, its own among them.
Returned(n) == IF n = 0 THEN "empty" ELSE "rows"

Apply(c) ==
  /\ stage[c] = "asked"
  /\ stage' = [stage EXCEPT ![c] = "applied"]
  /\ rows' = IF c \in writers THEN rows + 1 ELSE rows
  /\ answer' = [answer EXCEPT ![c] = Returned(rows')]
  /\ UNCHANGED <<writers, late>>

Finish(c) ==
  /\ stage[c] = "applied"
  /\ stage' = [stage EXCEPT ![c] = "answered"]
  /\ UNCHANGED <<writers, answer, rows, late>>

\* A failed query may leave its statement behind.
MayLeave(c) == c \in writers /\ stage[c] = "asked"

Fail(c) ==
  /\ stage[c] \in {"asked", "applied"}
  /\ stage' = [stage EXCEPT ![c] = "failed"]
  /\ answer' = [answer EXCEPT ![c] = "none"]
  /\ late' \in IF MayLeave(c) THEN {late, late + 1} ELSE {late}
  /\ UNCHANGED <<writers, rows>>

\* The engine may refuse what was left behind.
RunLate ==
  /\ late > 0
  /\ late' = late - 1
  /\ rows' \in {rows, rows + 1}
  /\ UNCHANGED <<writers, stage, answer>>

ServiceNext ==
  \/ \E c \in Clients : Apply(c) \/ Finish(c) \/ Fail(c)
  \/ RunLate

ServiceSpec == ServiceInit /\ [][ServiceNext]_serviceVars

-----------------------------------------------------------------------------

\* The types of the service's state.
ServiceTypeOK ==
  /\ writers \subseteq Clients
  /\ stage \in [Clients -> {"asked", "applied", "answered", "failed"}]
  /\ answer \in [Clients -> {"none", "empty", "rows"}]
  /\ rows \in Nat /\ late \in Nat

Spent == {c \in writers : stage[c] # "asked"}

\* No statement takes effect twice, late ones counted.
AtMostOnce == rows + late <= Cardinality(Spent)

\* A statement whose answer came did take effect.
AnsweredIsDone ==
  Cardinality({c \in writers : stage[c] \in {"applied", "answered"}}) <= rows

\* Answers respect each other: once a row was answered nothing is empty any more.
NoAnswerGoesBack ==
  [][\A c, d \in Clients :
       answer[c] = "rows" /\ stage[d] = "asked" /\ stage'[d] = "applied"
         => answer'[d] = "rows"]_serviceVars
=============================================================================
