----------------------------- MODULE Benchmark ------------------------------
(***************************************************************************)
(* The benchmark client (src/bin/bench.rs): per query a warm-up on one     *)
(* connection, then the timed iterations split over concurrent tasks, each *)
(* with a connection of its own, then a row of the report.                 *)
(*                                                                         *)
(* Counts are usize: they are kept modulo Width, and a difference below    *)
(* zero wraps, or panics in a build with overflow checks.                  *)
(*                                                                         *)
(* Quotient, FirstOnly and StillWaiting are plausible bugs; no action uses *)
(* them.                                                                   *)
(***************************************************************************)
EXTENDS Integers, Sequences

CONSTANTS
  Cases,           \* <<iterations, concurrency>> pairs of the command line
  Warmups,         \* --warmup
  Labels,          \* how many queries are selected
  Width,           \* 2^64 in the code
  QueriesFail      \* whether a query may fail

\* Iterations and tasks are few enough for per_task * (t + 1) to fit in a usize.
ASSUME BenchAssumption ==
  /\ Width \in Nat /\ Warmups \in Nat
  /\ Cases \subseteq Nat \X Nat
  /\ \A c \in Cases : c[1] + c[2] < Width

VARIABLES
  checked,  \* a debug build, with overflow checks
  iters, concurrency,  \* the command line
  phase,   \* "warmup", "spawn", "join", "failed", "panicked" or "ended"
  warm,    \* warm-up queries still to run, the probe among them
  t,       \* the loop variable of the spawning loop
  tasks,   \* the spawned tasks, [left, state] each
  joined,  \* how many of them are joined
  ran,     \* timed queries that ran for the current label
  rows     \* per row of the report the queries it stands for and those that ran

benchVars == <<checked, iters, concurrency, phase, warm, t, tasks, joined, ran, rows>>

-----------------------------------------------------------------------------
(* The split. *)

\* iterations.div_ceil(concurrency); the variant divides.
Quotient == iters \div concurrency
PerTask == (iters + concurrency - 1) \div concurrency

Lesser(m, n) == IF m <= n THEN m ELSE n
Greater(m, n) == IF m <= n THEN n ELSE m

\* The iterations of task k, before the subtraction wraps.
Difference(k) == Lesser(PerTask * (k + 1), iters) - PerTask * k
Underflows(k) == Difference(k) < 0
Share(k) == Difference(k) % Width

-----------------------------------------------------------------------------

BenchInit ==
  /\ \E c \in Cases : iters = c[1] /\ concurrency = Greater(c[2], 1)
  /\ checked \in BOOLEAN
  /\ phase = "warmup" /\ warm = Warmups + 1
  /\ t = 0 /\ tasks = <<>> /\ joined = 0 /\ ran = 0
  /\ rows = <<>>

\* One query of the warm-up, the probe last; the first error ends main.
WarmUp ==
  /\ phase = "warmup"
  /\ warm' = warm - 1
  /\ phase' \in IF QueriesFail THEN {"failed"} \cup {IF warm = 1 THEN "spawn" ELSE "warmup"}
                ELSE {IF warm = 1 THEN "spawn" ELSE "warmup"}
  /\ UNCHANGED <<checked, iters, concurrency, t, tasks, joined, ran, rows>>

\* One turn of the spawning loop; a task without iterations is not spawned.
Spawn ==
  /\ phase = "spawn" /\ t < concurrency
  /\ IF Underflows(t) /\ checked
       THEN phase' = "panicked" /\ UNCHANGED tasks
       ELSE /\ UNCHANGED phase
            /\ tasks' = IF Share(t) = 0 THEN tasks
                        ELSE Append(tasks, [left |-> Share(t), state |-> "running"])
  /\ t' = t + 1
  /\ UNCHANGED <<checked, iters, concurrency, warm, joined, ran, rows>>

AllSpawned ==
  /\ phase = "spawn" /\ t = concurrency
  /\ phase' = "join"
  /\ UNCHANGED <<checked, iters, concurrency, warm, t, tasks, joined, ran, rows>>

\* A task works from its spawn until main ends; main's end cancels it.
MainRuns == phase \in {"spawn", "join"}

Query(k) ==
  /\ MainRuns /\ tasks[k].state = "running"
  /\ \/ /\ ran' = ran + 1
        /\ tasks' = [tasks EXCEPT ![k].left = @ - 1,
                                  ![k].state = IF tasks[k].left = 1 THEN "ok" ELSE @]
     \/ /\ QueriesFail
        /\ tasks' = [tasks EXCEPT ![k].state = "error"]
        /\ UNCHANGED ran
  /\ UNCHANGED <<checked, iters, concurrency, phase, warm, t, joined, rows>>

\* `t.await??` for the tasks in order; the variant waits for the first only.
FirstOnly == joined >= 1 \/ joined = Len(tasks)
AllJoined == joined = Len(tasks)

\* A task that failed ends main; the variant goes on waiting for its result.
StillWaiting(k) == FALSE
FailedTask(k) == tasks[k].state = "error"

Join ==
  /\ phase = "join" /\ ~ AllJoined
  /\ \/ /\ tasks[joined + 1].state = "ok"
        /\ joined' = joined + 1 /\ UNCHANGED phase
     \/ /\ FailedTask(joined + 1)
        /\ phase' = "failed" /\ UNCHANGED joined
  /\ UNCHANGED <<checked, iters, concurrency, warm, t, tasks, ran, rows>>

\* The row, and the next label.
Row ==
  /\ phase = "join" /\ AllJoined
  /\ rows' = Append(rows, [iters |-> iters, ran |-> ran])
  /\ phase' = IF Len(rows) + 1 = Labels THEN "ended" ELSE "warmup"
  /\ warm' = Warmups + 1
  /\ t' = 0 /\ tasks' = <<>> /\ joined' = 0 /\ ran' = 0
  /\ UNCHANGED <<checked, iters, concurrency>>

BenchNext ==
  \/ WarmUp \/ Spawn \/ AllSpawned \/ Join \/ Row
  \/ \E k \in DOMAIN tasks : Query(k)

\* The numbers a task can have.
TaskNumbers == UNION {1..(c[2] + 1) : c \in Cases}

\* tokio runs main and every task that can go on; a query ends with an answer or
\* an error.
BenchSpec ==
  /\ BenchInit /\ [][BenchNext]_benchVars
  /\ WF_benchVars(WarmUp \/ Spawn \/ AllSpawned \/ Join \/ Row)
  /\ \A k \in TaskNumbers : WF_benchVars(k \in DOMAIN tasks /\ Query(k))

-----------------------------------------------------------------------------

Shares == [k \in DOMAIN tasks |-> tasks[k].left]
Total(s) ==
  LET sum[k \in 0..Len(s)] == IF k = 0 THEN 0 ELSE sum[k - 1] + s[k]
  IN  sum[Len(s)]

\* The last task starts within the iterations.
Fits == PerTask * (concurrency - 1) <= iters

\* The shares that are left and the queries that ran add up to the iterations
\* exactly if the last task starts within them.  If it does not, a release build
\* gives it nearly 2^64 queries.
SharesAddUp == phase = "join" => (Total(Shares) + ran = iters <=> Fits)

\* A row of the report stands for as many timed queries as it says, and none of
\* them failed: no task is still at work when the clock is read.
RowsAreHonest == Fits => \A k \in DOMAIN rows : rows[k].ran = rows[k].iters

\* If the last task starts within the iterations the benchmark ends, with a report
\* or with an error: main waits for no task that is gone, and a failed task fails
\* it.  Otherwise a build with overflow checks panics, unless its warm-up fails; of
\* one without, whose last task has nearly 2^64 queries to run, nothing is said.
BenchEnds ==
  /\ Fits => <>(phase \in {"ended", "failed"})
  /\ ~ Fits /\ checked => <>(phase \in {"panicked", "failed"})
=============================================================================
