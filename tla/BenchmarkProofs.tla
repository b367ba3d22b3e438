-------------------------- MODULE BenchmarkProofs ---------------------------
(***************************************************************************)
(* Proofs about the benchmark, for every command line: when the shares of  *)
(* the tasks add up, and that the rows of the report are honest then.      *)
(***************************************************************************)
EXTENDS Benchmark, SequenceTheorems, NaturalsInduction, WellFoundedInduction, TLAPS

-----------------------------------------------------------------------------
(* Sums.  Total is a recursive function; p is one that adds up s.              *)

AddsUp(p, s) ==
  /\ DOMAIN p = 0..Len(s) /\ p[0] = 0
  /\ \A k \in 1..Len(s) : p[k] = p[k - 1] + s[k]

\* The least number of a set of naturals.
LEMMA LeastOf ==
  ASSUME NEW S \in SUBSET Nat, S # {}
  PROVE  \E k \in S : \A j \in S : k <= j
<1>1. \E k \in S : \A j \in S : <<j, k>> \notin OpToRel(<, Nat)
  BY NatLessThanWellFounded, WFMin
<1>2. OpToRel(<, Nat) = {p \in Nat \X Nat : p[1] < p[2]}
  BY Zenon DEF OpToRel
<1>3. PICK k \in S : \A j \in S : <<j, k>> \notin OpToRel(<, Nat)
  BY <1>1
<1>4. \A j \in S : ~ (j < k)
  BY <1>2, <1>3
<1>5. \A j \in S : k <= j
  <2> TAKE j \in S
  <2>1. k \in Nat /\ j \in Nat
    BY <1>3
  <2> QED  BY <1>4, <2>1
<1> QED  BY <1>3, <1>5

\* The equation of the recursive function in Total.
Sums(f, s, n) == f = [k \in 0..n |-> IF k = 0 THEN 0 ELSE f[k - 1] + s[k]]

LEMMA SumsThere ==
  ASSUME NEW s, NEW n \in Nat
  PROVE  \E f : Sums(f, s, n)
<1> DEFINE T == {k \in Nat : ~ \E f : Sums(f, s, k)}
<1> SUFFICES ASSUME T # {} PROVE FALSE
  OBVIOUS
<1>1. PICK k \in T : \A j \in T : k <= j
  <2>1. T \in SUBSET Nat
    OBVIOUS
  <2> HIDE DEF T
  <2> QED  BY <2>1, LeastOf
<1>2. k \in Nat
  OBVIOUS
<1>3. CASE k = 0
  <2> DEFINE f == [j \in 0..0 |-> 0]
  <2>1. Sums(f, s, 0)
    BY DEF Sums
  <2> QED  BY <1>1, <1>3, <2>1
<1>4. CASE k # 0
  <2>1. k - 1 \in Nat /\ ~ (k <= k - 1)
    BY <1>2, <1>4
  <2>2. PICK f : Sums(f, s, k - 1)
    BY <1>1, <2>1
  <2> DEFINE g == [j \in 0..k |-> IF j = 0 THEN 0 ELSE f[j - 1] + s[j]]
             h == [j \in 0..k |-> IF j = 0 THEN 0 ELSE g[j - 1] + s[j]]
  <2>3. \A j \in 0..(k - 1) : f[j] = IF j = 0 THEN 0 ELSE f[j - 1] + s[j]
    BY <2>2 DEF Sums
  <2>4. ASSUME NEW j \in 0..k
        PROVE  g[j] = h[j]
    <3>1. CASE j = 0
      BY <3>1
    <3>2. CASE j # 0
      <4> DEFINE i == j - 1
      <4>1. i \in 0..(k - 1) /\ i \in 0..k
        BY <1>2, <3>2
      <4> HIDE DEF i
      <4>2. g[i] = f[i]
        BY <2>3, <4>1
      <4>3. g[j] = f[i] + s[j] /\ h[j] = g[i] + s[j]
        BY <3>2 DEF i
      <4> QED  BY <4>2, <4>3
    <3> QED  BY <3>1, <3>2
  <2>5. g = h
    <3>1. g = [j \in 0..k |-> g[j]] /\ h = [j \in 0..k |-> h[j]]
      OBVIOUS
    <3> HIDE DEF g, h
    <3> QED  BY <2>4, <3>1
  <2>6. Sums(g, s, k)
    <3> HIDE DEF g
    <3> QED  BY <2>5 DEF Sums
  <2> QED  BY <1>1, <2>6
<1> QED  BY <1>3, <1>4

LEMMA TotalIs ==
  ASSUME NEW s \in Seq(Int)
  PROVE  \E f : AddsUp(f, s) /\ Total(s) = f[Len(s)]
<1> DEFINE f == CHOOSE g : Sums(g, s, Len(s))
<1>1. Len(s) \in Nat
  OBVIOUS
<1>2. Sums(f, s, Len(s))
  BY <1>1, SumsThere
<1>3. Total(s) = f[Len(s)]
  BY Zenon DEF Total, Sums
<1> HIDE DEF f
<1>4. AddsUp(f, s)
  <2> DEFINE n == Len(s)
  <2>1. f = [k \in 0..n |-> IF k = 0 THEN 0 ELSE f[k - 1] + s[k]]
    BY <1>2 DEF Sums
  <2> HIDE DEF n
  <2>2. n \in Nat
    BY <1>1 DEF n
  <2>3. DOMAIN f = 0..n
    BY <2>1
  <2>4. f[0] = 0
    BY <2>1, <2>2
  <2>5. ASSUME NEW k \in 1..n
        PROVE  f[k] = f[k - 1] + s[k]
    <3>1. k \in 0..n /\ k # 0
      BY <2>2
    <3> QED  BY <2>1, <3>1
  <2> QED  BY <2>3, <2>4, <2>5 DEF AddsUp, n
<1> QED  BY <1>3, <1>4

\* Partial sums are unique, so that whatever adds up a sequence gives its total.
LEMMA TotalUnique ==
  ASSUME NEW s \in Seq(Int), NEW p, AddsUp(p, s)
  PROVE  Total(s) = p[Len(s)]
<1>1. PICK f : AddsUp(f, s) /\ Total(s) = f[Len(s)]
  BY TotalIs
<1> DEFINE T == {k \in 0..Len(s) : f[k] # p[k]}
<1>2. T = {}
  <2> SUFFICES ASSUME T # {} PROVE FALSE
    OBVIOUS
  <2>1. PICK k \in T : \A j \in T : k <= j
    <3>1. T \in SUBSET Nat
      OBVIOUS
    <3> HIDE DEF T
    <3> QED  BY <3>1, LeastOf
  <2>2. k \in 0..Len(s) /\ f[k] # p[k] /\ Len(s) \in Nat
    OBVIOUS
  <2>3. k # 0
    BY <1>1, <2>2 DEF AddsUp
  <2>4. k - 1 \in 0..Len(s) /\ k \in 1..Len(s) /\ ~ (k <= k - 1)
    BY <2>2, <2>3
  <2>5. f[k - 1] = p[k - 1]
    BY <2>1, <2>4
  <2> QED  BY <1>1, <2>2, <2>4, <2>5 DEF AddsUp
<1>3. Len(s) \in 0..Len(s)
  OBVIOUS
<1> QED  BY <1>1, <1>2, <1>3

\* Totals are integers.
LEMMA SumsAreNumbers ==
  ASSUME NEW s \in Seq(Int), NEW p, AddsUp(p, s)
  PROVE  \A k \in 0..Len(s) : p[k] \in Int
<1> DEFINE T == {k \in 0..Len(s) : p[k] \notin Int}
<1> SUFFICES ASSUME T # {} PROVE FALSE
  OBVIOUS
<1>1. PICK k \in T : \A j \in T : k <= j
  <2>1. T \in SUBSET Nat
    OBVIOUS
  <2> HIDE DEF T
  <2> QED  BY <2>1, LeastOf
<1>2. k \in 0..Len(s) /\ p[k] \notin Int /\ Len(s) \in Nat
  OBVIOUS
<1>3. k # 0
  BY <1>2 DEF AddsUp
<1>4. k - 1 \in 0..Len(s) /\ k \in 1..Len(s) /\ ~ (k <= k - 1)
  BY <1>2, <1>3
<1>5. p[k - 1] \in Int /\ s[k] \in Int
  BY <1>1, <1>4
<1> QED  BY <1>2, <1>4, <1>5 DEF AddsUp

LEMMA TotalIsNumber ==
  ASSUME NEW s \in Seq(Int)
  PROVE  Total(s) \in Int
<1>1. Len(s) \in 0..Len(s)
  OBVIOUS
<1> QED  BY <1>1, TotalIs, SumsAreNumbers

LEMMA TotalOfNothing == Total(<<>>) = 0
<1>1. <<>> \in Seq(Int) /\ Len(<<>>) = 0
  OBVIOUS
<1>2. PICK f : AddsUp(f, <<>>) /\ Total(<<>>) = f[Len(<<>>)]
  BY <1>1, TotalIs
<1> QED  BY <1>1, <1>2 DEF AddsUp

LEMMA TotalOfZeros ==
  ASSUME NEW s \in Seq(Int), \A k \in 1..Len(s) : s[k] = 0
  PROVE  Total(s) = 0
<1> DEFINE p == [k \in 0..Len(s) |-> 0]
<1>1. Len(s) \in Nat
  OBVIOUS
<1>2. AddsUp(p, s)
  BY <1>1 DEF AddsUp
<1>3. p[Len(s)] = 0
  BY <1>1
<1> HIDE DEF p
<1> QED  BY <1>2, <1>3, TotalUnique

LEMMA TotalOfOneMore ==
  ASSUME NEW s \in Seq(Int), NEW x \in Int
  PROVE  Total(Append(s, x)) = Total(s) + x
<1> DEFINE r == Append(s, x)
           n == Len(s)
<1>1. PICK f : AddsUp(f, s) /\ Total(s) = f[n]
  BY TotalIs
<1> DEFINE p == [k \in 0..(n + 1) |-> IF k <= n THEN f[k] ELSE f[n] + x]
<1>2. /\ n \in Nat /\ r \in Seq(Int) /\ Len(r) = n + 1
      /\ r[n + 1] = x /\ \A k \in 1..n : r[k] = s[k]
  OBVIOUS
<1> HIDE DEF r, n
<1>3. AddsUp(p, r)
  <2>1. DOMAIN p = 0..Len(r) /\ p[0] = 0
    BY <1>1, <1>2 DEF AddsUp
  <2>2. ASSUME NEW k \in 1..(n + 1)
        PROVE  p[k] = p[k - 1] + r[k]
    <3>1. k - 1 \in 0..n /\ k - 1 <= n /\ p[k - 1] = f[k - 1]
      BY <1>2
    <3>2. CASE k <= n
      <4>1. p[k] = f[k] /\ r[k] = s[k] /\ k \in 1..n
        BY <1>2, <3>2
      <4> QED  BY <1>1, <3>1, <4>1 DEF AddsUp, n
    <3>3. CASE k = n + 1
      <4>1. p[k] = f[n] + x /\ k - 1 = n
        BY <1>2, <3>3
      <4> QED  BY <1>2, <3>1, <3>3, <4>1
    <3> QED  BY <1>2, <3>2, <3>3
  <2> QED  BY <1>2, <2>1, <2>2 DEF AddsUp
<1>4. p[n + 1] = f[n] + x
  BY <1>2
<1> HIDE DEF p
<1>5. Total(r) = p[Len(r)]
  BY <1>2, <1>3, TotalUnique
<1> QED  BY <1>1, <1>2, <1>4, <1>5 DEF r

LEMMA OneLess ==
  ASSUME NEW x \in Int, NEW y \in Int
  PROVE  (x + y) - 1 = x + (y - 1) /\ (x + y) - 1 = (x - 1) + y
OBVIOUS

\* One query less to do for one task.
LEMMA TotalOfOneLess ==
  ASSUME NEW s \in Seq(Int), NEW i \in 1..Len(s), NEW r \in Seq(Int), Len(r) = Len(s),
         r[i] = s[i] - 1, \A k \in 1..Len(s) : k # i => r[k] = s[k]
  PROVE  Total(r) = Total(s) - 1
<1> DEFINE n == Len(s)
<1>1. PICK f : AddsUp(f, s) /\ Total(s) = f[n]
  BY TotalIs
<1> DEFINE p == [k \in 0..n |-> IF k < i THEN f[k] ELSE f[k] - 1]
<1>2. n \in Nat /\ i \in 1..n
  OBVIOUS
<1>3. \A k \in 0..n : f[k] \in Int
  BY <1>1, SumsAreNumbers
<1>4. \A k \in 1..n : s[k] \in Int /\ r[k] \in Int
  OBVIOUS
<1>5. \A k \in 1..n : f[k] = f[k - 1] + s[k]
  BY <1>1 DEF AddsUp
<1>6. f[0] = 0
  BY <1>1 DEF AddsUp
<1> HIDE DEF n
<1>7. AddsUp(p, r)
  <2>1. DOMAIN p = 0..Len(r) /\ p[0] = 0
    BY <1>2, <1>6 DEF n
  <2>2. ASSUME NEW k \in 1..n
        PROVE  p[k] = p[k - 1] + r[k]
    <3>1. /\ k \in 0..n /\ k - 1 \in 0..n /\ f[k] = f[k - 1] + s[k]
          /\ f[k] \in Int /\ f[k - 1] \in Int /\ s[k] \in Int
      BY <1>2, <1>3, <1>4, <1>5
    <3>2. /\ p[k] = IF k < i THEN f[k] ELSE f[k] - 1
          /\ p[k - 1] = IF k - 1 < i THEN f[k - 1] ELSE f[k - 1] - 1
      BY <3>1
    <3>3. r[k] = IF k = i THEN s[k] - 1 ELSE s[k]
      BY DEF n
    <3> HIDE DEF p
    <3>4. k \in Int /\ i \in Int
      BY <1>2
    <3>5. CASE k < i
      <4>1. k - 1 < i /\ k # i
        BY <3>4, <3>5
      <4>2. p[k] = f[k] /\ p[k - 1] = f[k - 1] /\ r[k] = s[k]
        BY <3>2, <3>3, <3>5, <4>1, Zenon
      <4> QED  BY <3>1, <4>2
    <3>6. CASE k = i
      <4>1. k - 1 < i /\ ~ (k < i)
        BY <3>4, <3>6
      <4>2. p[k] = f[k] - 1 /\ p[k - 1] = f[k - 1] /\ r[k] = s[k] - 1
        BY <3>2, <3>3, <3>6, <4>1, Zenon
      <4>3. (f[k - 1] + s[k]) - 1 = f[k - 1] + (s[k] - 1)
        BY <3>1, OneLess
      <4> QED  BY <3>1, <4>2, <4>3, Zenon
    <3>7. CASE k > i
      <4>1. ~ (k - 1 < i) /\ ~ (k < i) /\ k # i
        BY <3>4, <3>7
      <4>2. p[k] = f[k] - 1 /\ p[k - 1] = f[k - 1] - 1 /\ r[k] = s[k]
        BY <3>2, <3>3, <4>1, Zenon
      <4>3. (f[k - 1] + s[k]) - 1 = (f[k - 1] - 1) + s[k]
        BY <3>1, OneLess
      <4> QED  BY <3>1, <4>2, <4>3, Zenon
    <3> QED  BY <3>4, <3>5, <3>6, <3>7
  <2> QED  BY <2>1, <2>2 DEF AddsUp, n
<1>8. p[n] = f[n] - 1
  BY <1>2
<1> HIDE DEF p
<1>9. Total(r) = p[Len(r)]
  BY <1>7, TotalUnique
<1> QED  BY <1>1, <1>8, <1>9 DEF n

-----------------------------------------------------------------------------
(* The split in numbers.                                                       *)

\* div_ceil: the shares of all tasks cover the iterations, and the share before the
\* last one does not go beyond them by a whole task.
LEMMA DivCeil ==
  ASSUME NEW n \in Nat, NEW c \in Nat \ {0}
  PROVE  LET p == (n + c - 1) \div c
         IN  p \in Nat /\ p * c >= n /\ p * c <= n + c - 1
<1>1. n + c - 1 \in Nat
  OBVIOUS
<1> DEFINE m == n + c - 1
           p == m \div c
           r == m % c
<1>2. m = c * p + r /\ r \in 0..(c - 1) /\ p \in Int
  BY SMT, <1>1
<1>3. p \in Nat
  BY SMT, <1>1
<1> HIDE DEF p, r
<1>4. c * p = p * c /\ p * c \in Nat
  BY SMT, <1>3
<1> QED  BY <1>2, <1>3, <1>4 DEF m, p

\* Arithmetic modulo w of a number that is at most one turn off.
LEMMA OneTurn ==
  ASSUME NEW w \in Nat, NEW x \in Int, - w < x, x < w
  PROVE  x % w = IF x < 0 THEN x + w ELSE x
BY SMT

\* What the spawning loop does to the sum: x is where task t starts, d what it is
\* given, and s what the tasks before it were given.
LEMMA OneTaskMore ==
  ASSUME NEW n \in Nat, NEW w \in Nat, NEW per \in Nat, NEW x \in Nat, x + per < w, n < w,
         NEW s \in Int,
         IF x = 0 \/ x - per <= n THEN s = Lesser(x, n) ELSE s > n
  PROVE  LET d == (Lesser(x + per, n) - x) % w
         IN  /\ d \in Nat
             /\ IF x <= n THEN s + d = Lesser(x + per, n) ELSE s + d > n
<1> DEFINE e == Lesser(x + per, n) - x
<1>1. e \in Int /\ - w < e /\ e < w
  BY DEF Lesser
<1>2. e % w = IF e < 0 THEN e + w ELSE e
  <2> HIDE DEF e
  <2> QED  BY <1>1, OneTurn
<1>3. CASE x <= n
  BY <1>1, <1>2, <1>3 DEF Lesser
<1>4. CASE x > n
  BY <1>1, <1>2, <1>4 DEF Lesser
<1> QED  BY <1>3, <1>4

-----------------------------------------------------------------------------
(* The invariant.                                                              *)

Task == [left : Nat, state : {"running", "ok", "error"}]

BenchTypes ==
  /\ iters \in Nat /\ concurrency \in Nat \ {0} /\ iters + concurrency <= Width
  /\ phase \in {"warmup", "spawn", "join", "failed", "panicked", "ended"}
  /\ t \in 0..concurrency /\ tasks \in Seq(Task)
  /\ joined \in 0..Len(tasks) /\ ran \in Nat
  /\ rows \in Seq([iters : Nat, ran : Nat])

\* The tasks that main has joined are done, and a task that is done has nothing left.
TasksOK ==
  /\ \A k \in 1..Len(tasks) : /\ tasks[k].state = "running" => tasks[k].left > 0
                              /\ tasks[k].state = "ok" => tasks[k].left = 0
  /\ \A k \in 1..joined : tasks[k].state = "ok"

\* What the first t tasks were given; the sum is exact until one starts beyond the
\* iterations.
Dealt(s) ==
  IF t = 0 \/ PerTask * (t - 1) <= iters THEN s = Lesser(PerTask * t, iters) ELSE s > iters

Position ==
  /\ phase = "warmup" => t = 0 /\ tasks = <<>> /\ joined = 0 /\ ran = 0
  /\ phase \in {"spawn", "join"} => Dealt(Total(Shares) + ran)
  /\ phase = "join" => t = concurrency

BenchIInv == BenchTypes /\ TasksOK /\ Position /\ RowsAreHonest

\* The products that the split is made of.
LEMMA Products ==
  ASSUME BenchTypes
  PROVE  /\ PerTask \in Nat
         /\ PerTask * concurrency >= iters /\ PerTask * concurrency < Width
         /\ \A k \in 0..concurrency :
              /\ PerTask * k \in Nat /\ PerTask * k <= PerTask * concurrency
              /\ PerTask * (k + 1) = PerTask * k + PerTask
              /\ PerTask * (k - 1) = PerTask * k - PerTask
<1>1. /\ PerTask \in Nat
      /\ PerTask * concurrency >= iters /\ PerTask * concurrency <= iters + concurrency - 1
  BY DivCeil DEF BenchTypes, PerTask
<1>2. iters \in Nat /\ concurrency \in Nat /\ iters + concurrency <= Width /\ Width \in Nat
  BY BenchAssumption DEF BenchTypes
<1> HIDE DEF PerTask
<1> DEFINE p == PerTask
<1>3. ASSUME NEW k \in 0..concurrency
      PROVE  /\ p * k \in Nat /\ p * k <= p * concurrency
             /\ p * (k + 1) = p * k + p /\ p * (k - 1) = p * k - p
  <2>1. p \in Nat /\ k \in Nat /\ concurrency - k \in Nat
    BY <1>1, <1>2
  <2> HIDE DEF p
  <2>2. p * k \in Nat /\ p * (concurrency - k) \in Nat
    BY SMT, <2>1
  <2>3. p * concurrency = p * k + p * (concurrency - k)
    BY SMT, <1>2, <2>1
  <2>4. p * (k + 1) = p * k + p /\ p * (k - 1) = p * k - p
    BY SMT, <2>1
  <2> QED  BY <1>2, <2>2, <2>3, <2>4
<1>4. PerTask * concurrency < Width
  <2>1. PerTask * concurrency \in Int
    BY SMT, <1>1, <1>2
  <2> QED  BY <1>1, <1>2, <2>1
<1> QED  BY <1>1, <1>3, <1>4

LEMMA TaskThere ==
  ASSUME BenchTypes, NEW k \in 1..Len(tasks)
  PROVE  /\ tasks[k] \in Task /\ tasks[k].left \in Nat
         /\ tasks[k].state \in {"running", "ok", "error"}
<1>1. tasks[k] \in Task
  BY ElementOfSeq DEF BenchTypes
<1> QED  BY <1>1 DEF Task

LEMMA SharesThere ==
  ASSUME BenchTypes
  PROVE  /\ Shares \in Seq(Int) /\ Len(Shares) = Len(tasks)
         /\ \A k \in 1..Len(tasks) : Shares[k] = tasks[k].left
<1>1. tasks \in Seq(Task) /\ DOMAIN tasks = 1..Len(tasks) /\ Len(tasks) \in Nat
  BY DEF BenchTypes
<1>2. \A k \in 1..Len(tasks) : tasks[k].left \in Int
  BY TaskThere
<1> QED  BY <1>1, <1>2 DEF Shares

LEMMA BenchStart == BenchInit => BenchIInv
<1> SUFFICES ASSUME BenchInit PROVE BenchIInv
  OBVIOUS
<1>1. PICK c \in Cases : iters = c[1] /\ concurrency = Greater(c[2], 1)
  BY DEF BenchInit
<1>2. c[1] \in Nat /\ c[2] \in Nat /\ c[1] + c[2] < Width /\ Width \in Nat
  BY BenchAssumption
<1>3. iters \in Nat /\ concurrency \in Nat \ {0} /\ iters + concurrency <= Width
  BY <1>1, <1>2 DEF Greater
<1>4. phase = "warmup" /\ t = 0 /\ tasks = <<>> /\ joined = 0 /\ ran = 0 /\ rows = <<>>
  BY DEF BenchInit
<1>5. BenchTypes
  BY <1>3, <1>4 DEF BenchTypes
<1>6. TasksOK /\ Position /\ RowsAreHonest
  BY <1>4 DEF TasksOK, Position, RowsAreHonest
<1> QED  BY <1>5, <1>6 DEF BenchIInv

\* Steps that change neither the command line nor the rows.
LEMMA Unchanged ==
  ASSUME BenchIInv, UNCHANGED <<iters, concurrency, rows>>
  PROVE  RowsAreHonest' /\ PerTask' = PerTask
BY DEF BenchIInv, RowsAreHonest, Fits, PerTask

LEMMA WarmUpPreserves ==
  ASSUME BenchIInv, WarmUp
  PROVE  BenchIInv'
<1>1. /\ UNCHANGED <<checked, iters, concurrency, t, tasks, joined, ran, rows>>
      /\ phase' \in {"failed", "spawn", "warmup"} /\ phase = "warmup"
  BY DEF WarmUp
<1>2. BenchTypes' /\ TasksOK'
  BY <1>1 DEF BenchIInv, BenchTypes, TasksOK
<1>3. t = 0 /\ tasks = <<>> /\ joined = 0 /\ ran = 0
  BY <1>1 DEF BenchIInv, Position
<1>4. Shares = <<>> /\ Total(Shares) + ran = 0
  <2>1. Shares = <<>>
    BY <1>3 DEF Shares
  <2> QED  BY <1>3, <2>1, TotalOfNothing
<1>5. PerTask * 0 = 0 /\ Lesser(0, iters) = 0
  BY Products DEF BenchIInv, BenchTypes, Lesser
<1>6. Dealt(Total(Shares) + ran)
  BY <1>3, <1>4, <1>5 DEF Dealt
<1>7. PerTask' = PerTask /\ Shares' = Shares /\ RowsAreHonest'
  BY <1>1, Unchanged DEF Shares
<1>8. Position'
  BY <1>1, <1>3, <1>6, <1>7 DEF Position, Dealt
<1> QED  BY <1>2, <1>7, <1>8 DEF BenchIInv

\* A turn of the spawning loop that spawns nothing, or one task.
LEMMA SpawnPreserves ==
  ASSUME BenchIInv, Spawn
  PROVE  BenchIInv'
<1> DEFINE d == Share(t)
           x == PerTask * t
<1>1. /\ phase = "spawn" /\ t < concurrency /\ t' = t + 1
      /\ UNCHANGED <<iters, concurrency, joined, ran, rows>>
      /\ \/ phase' = "panicked" /\ tasks' = tasks
         \/ /\ phase' = "spawn"
            /\ tasks' = IF d = 0 THEN tasks
                        ELSE Append(tasks, [left |-> d, state |-> "running"])
  BY DEF Spawn
<1>2. BenchTypes /\ TasksOK /\ Dealt(Total(Shares) + ran)
  BY <1>1 DEF BenchIInv, Position
<1>3. RowsAreHonest' /\ PerTask' = PerTask
  BY <1>1, Unchanged
<1>4. /\ PerTask \in Nat /\ x \in Nat /\ x + PerTask < Width /\ iters \in Nat /\ iters < Width
      /\ PerTask * (t + 1) = x + PerTask /\ PerTask * (t - 1) = x - PerTask
      /\ Width \in Nat /\ t \in Nat /\ t + 1 \in 0..concurrency
  <2>1. t \in 0..concurrency /\ t + 1 \in 0..concurrency /\ concurrency \in Nat
        /\ iters \in Nat /\ iters < Width
    BY <1>1, <1>2, BenchAssumption DEF BenchTypes
  <2>2. PerTask * (t + 1) <= PerTask * concurrency /\ PerTask * (t + 1) \in Nat
        /\ PerTask * concurrency < Width /\ Width \in Nat
    <3>1. PerTask * concurrency \in Nat
      BY <1>2, <2>1, Products
    <3> QED  BY <1>2, <2>1, Products, BenchAssumption
  <2>3. x \in Nat /\ PerTask \in Nat /\ PerTask * (t + 1) = x + PerTask
        /\ PerTask * (t - 1) = x - PerTask
    BY <1>2, <2>1, Products
  <2>4. PerTask * concurrency \in Nat
    BY <1>2, <2>1, Products
  <2> HIDE DEF x
  <2> QED  BY <2>1, <2>2, <2>3, <2>4
<1> DEFINE s == Total(Shares) + ran
<1>5. s \in Int /\ ran \in Nat /\ Total(Shares) \in Int
  BY <1>2, SharesThere, TotalIsNumber DEF BenchTypes
<1>6. t = 0 => x = 0
  BY <1>4
<1>7. x = 0 => Lesser(x, iters) = 0 /\ x - PerTask <= iters
  <2> HIDE DEF x
  <2> QED  BY <1>4 DEF Lesser
<1>8. IF x = 0 \/ x - PerTask <= iters THEN s = Lesser(x, iters) ELSE s > iters
  <2>1. IF t = 0 \/ x - PerTask <= iters THEN s = Lesser(x, iters) ELSE s > iters
    BY <1>2, <1>4 DEF Dealt
  <2> HIDE DEF x, s
  <2> QED  BY <1>6, <1>7, <2>1
<1>9. d = (Lesser(x + PerTask, iters) - x) % Width
  <2> HIDE DEF x
  <2> QED  BY <1>4 DEF Share, Difference, x
<1>10. d \in Nat /\ IF x <= iters THEN s + d = Lesser(x + PerTask, iters) ELSE s + d > iters
  <2> HIDE DEF x, s, d
  <2> QED  BY <1>4, <1>5, <1>8, <1>9, OneTaskMore
<1>11. CASE phase' = "panicked" /\ tasks' = tasks
  BY <1>1, <1>2, <1>3, <1>4, <1>11 DEF BenchIInv, BenchTypes, TasksOK, Position
<1>12. CASE phase' = "spawn" /\ tasks' = IF d = 0 THEN tasks
                        ELSE Append(tasks, [left |-> d, state |-> "running"])
  <2>1. BenchTypes' /\ TasksOK' /\ Total(Shares)' = Total(Shares) + d
    <3>1. CASE d = 0
      <4>1. tasks' = tasks
        BY <1>12, <3>1
      <4>2. Shares' = Shares
        BY <4>1 DEF Shares
      <4>3. Total(Shares)' = Total(Shares) + d
        BY <1>5, <3>1, <4>2
      <4> QED  BY <1>1, <1>2, <1>4, <1>12, <4>1, <4>3 DEF BenchTypes, TasksOK
    <3>2. CASE d # 0
      <4> DEFINE new == [left |-> d, state |-> "running"]
      <4>1. new \in Task /\ new.left = d /\ new.state = "running" /\ d > 0
        BY <1>10, <3>2 DEF Task
      <4> HIDE DEF new
      <4>2. tasks' = Append(tasks, new) /\ tasks \in Seq(Task)
        BY <1>2, <1>12, <3>2 DEF new, BenchTypes
      <4>3. /\ tasks' \in Seq(Task) /\ Len(tasks) \in Nat /\ Len(tasks') = Len(tasks) + 1
            /\ tasks'[Len(tasks) + 1] = new /\ \A k \in 1..Len(tasks) : tasks'[k] = tasks[k]
            /\ DOMAIN tasks' = 1..(Len(tasks) + 1)
        BY <4>1, <4>2
      <4>4. BenchTypes'
        BY <1>1, <1>2, <1>4, <1>12, <4>3 DEF BenchTypes
      <4>5. TasksOK'
        <5>1. joined \in 0..Len(tasks)
          BY <1>2 DEF BenchTypes
        <5>2. ASSUME NEW k \in 1..(Len(tasks) + 1)
              PROVE  k = Len(tasks) + 1 \/ k \in 1..Len(tasks)
          BY <4>3
        <5> QED  BY <1>1, <1>2, <4>1, <4>3, <5>1, <5>2 DEF TasksOK
      <4>6. Shares' = Append(Shares, d)
        <5>1. /\ Shares \in Seq(Int) /\ Len(Shares) = Len(tasks)
              /\ \A k \in 1..Len(tasks) : Shares[k] = tasks[k].left
          BY <1>2, SharesThere
        <5>2. Shares' = [k \in 1..(Len(tasks) + 1) |-> tasks'[k].left]
          BY <4>3 DEF Shares
        <5>3. /\ Append(Shares, d) \in Seq(Int) /\ Len(Append(Shares, d)) = Len(tasks) + 1
              /\ \A k \in 1..(Len(tasks) + 1) :
                   Append(Shares, d)[k] = IF k = Len(tasks) + 1 THEN d ELSE Shares[k]
          <6> HIDE DEF d
          <6> QED  BY <5>1, <1>10
        <5>4. ASSUME NEW k \in 1..(Len(tasks) + 1)
              PROVE  tasks'[k].left = IF k = Len(tasks) + 1 THEN d ELSE Shares[k]
          <6>1. CASE k = Len(tasks) + 1
            BY <4>1, <4>3, <6>1
          <6>2. CASE k # Len(tasks) + 1
            <7>1. k \in 1..Len(tasks)
              BY <4>3, <6>2
            <7> QED  BY <4>3, <5>1, <6>2, <7>1
          <6> QED  BY <6>1, <6>2
        <5>6. Shares' \in Seq(Int) /\ Len(Shares') = Len(tasks) + 1
          <6>1. ASSUME NEW k \in 1..(Len(tasks) + 1)
                PROVE  tasks'[k].left \in Int
            <7> HIDE DEF d
            <7> QED  BY <1>10, <5>1, <5>4, <6>1, ElementOfSeq
          <6> QED  BY <4>3, <5>2, <6>1
        <5>7. \A k \in 1..(Len(tasks) + 1) : Shares'[k] = Append(Shares, d)[k]
          <6> HIDE DEF d
          <6> QED  BY <5>2, <5>3, <5>4
        <5> HIDE DEF d
        <5> QED  BY <5>3, <5>6, <5>7, SeqEqual
      <4>7. Total(Shares)' = Total(Shares) + d
        <5> HIDE DEF d
        <5> QED  BY <1>2, <1>10, <4>6, SharesThere, TotalOfOneMore
      <4> QED  BY <4>4, <4>5, <4>7
    <3> QED  BY <3>1, <3>2
  <2>2. Dealt(Total(Shares) + ran)'
    <3>1. (Total(Shares) + ran)' = s + d
      <4> HIDE DEF d
      <4> QED  BY <1>1, <1>5, <1>10, <2>1
    <3>2. PerTask' * (t' - 1) = x /\ PerTask' * t' = x + PerTask /\ t' # 0
      <4>1. t' - 1 = t /\ t' # 0 /\ t' = t + 1
        BY <1>1, <1>4
      <4> QED  BY <1>3, <1>4, <4>1
    <3> HIDE DEF x, s, d
    <3> QED  BY <1>1, <1>10, <3>1, <3>2 DEF Dealt
  <2> QED  BY <1>1, <1>3, <1>12, <2>1, <2>2 DEF BenchIInv, Position
<1> QED  BY <1>1, <1>11, <1>12

LEMMA AllSpawnedPreserves ==
  ASSUME BenchIInv, AllSpawned
  PROVE  BenchIInv'
<1>1. /\ UNCHANGED <<iters, concurrency, t, tasks, joined, ran, rows>>
      /\ phase' = "join" /\ phase = "spawn" /\ t = concurrency
  BY DEF AllSpawned
<1>2. RowsAreHonest' /\ PerTask' = PerTask /\ Shares' = Shares
  BY <1>1, Unchanged DEF Shares
<1>3. BenchTypes' /\ TasksOK'
  BY <1>1 DEF BenchIInv, BenchTypes, TasksOK
<1>4. Position'
  BY <1>1, <1>2 DEF BenchIInv, Position, Dealt
<1> QED  BY <1>2, <1>3, <1>4 DEF BenchIInv

LEMMA TaskReplaced ==
  ASSUME NEW x \in Task, NEW l, NEW a
  PROVE  [x EXCEPT !.left = l, !.state = a] = [left |-> l, state |-> a]
<1> DEFINE y == [x EXCEPT !.left = l]
<1>1. y = [left |-> l, state |-> x.state]
  BY DEF Task
<1>2. [x EXCEPT !.left = l, !.state = a] = [y EXCEPT !.state = a]
  BY DEF Task
<1> HIDE DEF y
<1>3. y.left = l /\ y = [left |-> y.left, state |-> y.state]
  BY <1>1
<1>4. [y EXCEPT !.state = a] = [left |-> y.left, state |-> a]
  BY <1>3
<1> QED  BY <1>2, <1>3, <1>4

\* A query of task k is done, or fails; what it leaves and what ran add up as before.
LEMMA QueryPreserves ==
  ASSUME BenchIInv, NEW k \in DOMAIN tasks, Query(k)
  PROVE  BenchIInv'
<1>1. /\ UNCHANGED <<iters, concurrency, phase, t, joined, rows>>
      /\ phase \in {"spawn", "join"} /\ tasks[k].state = "running"
      /\ \/ /\ ran' = ran + 1
            /\ tasks' = [tasks EXCEPT ![k].left = @ - 1,
                                      ![k].state = IF tasks[k].left = 1 THEN "ok" ELSE @]
         \/ /\ tasks' = [tasks EXCEPT ![k].state = "error"]
            /\ ran' = ran
  BY DEF Query, MainRuns
<1>2. BenchTypes /\ TasksOK /\ Dealt(Total(Shares) + ran)
  BY <1>1 DEF BenchIInv, Position
<1>3. RowsAreHonest' /\ PerTask' = PerTask
  BY <1>1, Unchanged
<1>4. tasks \in Seq(Task) /\ Len(tasks) \in Nat /\ DOMAIN tasks = 1..Len(tasks)
  BY <1>2 DEF BenchTypes
<1>5. k \in 1..Len(tasks) /\ tasks[k] \in Task /\ tasks[k].left \in Nat /\ tasks[k].left > 0
  BY <1>1, <1>2, <1>4, TaskThere DEF TasksOK
<1> DEFINE n == Len(tasks)
<1>6. PICK new \in Task :
        /\ tasks' = [tasks EXCEPT ![k] = new]
        /\ new.state = "running" => new.left > 0
        /\ new.state = "ok" => new.left = 0
        /\ \/ new.left = tasks[k].left - 1 /\ ran' = ran + 1
           \/ new.left = tasks[k].left /\ ran' = ran
  <2>1. CASE /\ ran' = ran + 1
             /\ tasks' = [tasks EXCEPT ![k].left = @ - 1,
                                       ![k].state = IF tasks[k].left = 1 THEN "ok" ELSE @]
    <3> DEFINE new == [left |-> tasks[k].left - 1,
                       state |-> IF tasks[k].left = 1 THEN "ok" ELSE "running"]
    <3>1. new \in Task
      BY <1>5 DEF Task
    <3>2. tasks' = [tasks EXCEPT ![k] = new]
      <4> DEFINE left == tasks[k].left - 1
                 state == IF tasks[k].left = 1 THEN "ok" ELSE tasks[k].state
      <4>1. tasks' = [tasks EXCEPT ![k] = [tasks[k] EXCEPT !.left = left, !.state = state]]
        BY <1>4, <1>5, <2>1
      <4> HIDE DEF left, state
      <4>2. [tasks[k] EXCEPT !.left = left, !.state = state] = [left |-> left, state |-> state]
        BY <1>5, TaskReplaced
      <4>3. [left |-> left, state |-> state] = new
        BY <1>1 DEF left, state
      <4> HIDE DEF new
      <4> QED  BY <4>1, <4>2, <4>3
    <3>3. /\ new.left = tasks[k].left - 1 /\ new.left \in Nat
          /\ new.state = IF tasks[k].left = 1 THEN "ok" ELSE "running"
          /\ new.state = "running" => new.left > 0
          /\ new.state = "ok" => new.left = 0
      BY <1>5
    <3> HIDE DEF new
    <3> QED  BY <2>1, <3>1, <3>2, <3>3
  <2>2. CASE tasks' = [tasks EXCEPT ![k].state = "error"] /\ ran' = ran
    <3> DEFINE new == [left |-> tasks[k].left, state |-> "error"]
    <3>1. new \in Task
      BY <1>5 DEF Task
    <3>2. [tasks[k] EXCEPT !.state = "error"] = new
      BY <1>5 DEF Task
    <3>3. tasks' = [tasks EXCEPT ![k] = [tasks[k] EXCEPT !.state = "error"]]
      BY <2>2
    <3>4. tasks' = [tasks EXCEPT ![k] = new]
      <4> HIDE DEF new
      <4> QED  BY <3>2, <3>3
    <3>5. new.left = tasks[k].left /\ new.state = "error"
      OBVIOUS
    <3> HIDE DEF new
    <3> QED  BY <2>2, <3>1, <3>4, <3>5
  <2> QED  BY <1>1, <2>1, <2>2
<1>7. /\ tasks' \in Seq(Task) /\ Len(tasks') = n /\ DOMAIN tasks' = 1..n
      /\ tasks'[k] = new /\ \A j \in 1..n : j # k => tasks'[j] = tasks[j]
  <2> DEFINE ts == [tasks EXCEPT ![k] = new]
  <2>1. /\ ts \in Seq(Task) /\ Len(ts) = n
        /\ \A j \in 1..n : ts[j] = IF j = k THEN new ELSE tasks[j]
    BY <1>4, <1>5, ExceptSeq
  <2>2. tasks' = ts
    BY <1>6
  <2> HIDE DEF ts
  <2>3. DOMAIN ts = 1..n
    BY <2>1, LenProperties
  <2>4. ts[k] = new /\ \A j \in 1..n : j # k => ts[j] = tasks[j]
    BY <1>5, <2>1, Zenon
  <2> QED  BY <2>1, <2>2, <2>3, <2>4, Zenon
<1>8. new.left \in Nat /\ ran' \in Nat
  <2>1. new.left \in Nat
    BY <1>5 DEF Task
  <2>2. ran \in Nat
    BY <1>2 DEF BenchTypes
  <2> QED  BY <1>6, <2>1, <2>2
<1>9. BenchTypes'
  BY <1>1, <1>2, <1>7, <1>8 DEF BenchTypes
<1>10. TasksOK'
  <2>1. joined \in 0..n /\ \A j \in 1..joined : j \in 1..n /\ j # k
    BY <1>1, <1>2, <1>4 DEF BenchTypes, TasksOK
  <2> QED  BY <1>1, <1>2, <1>6, <1>7, <2>1 DEF TasksOK
<1>11. Total(Shares)' + ran' = Total(Shares) + ran
  <2>1. /\ Shares \in Seq(Int) /\ Len(Shares) = n
        /\ \A j \in 1..n : Shares[j] = tasks[j].left
    BY <1>2, SharesThere
  <2>2. /\ Shares' \in Seq(Int) /\ Len(Shares') = n
        /\ \A j \in 1..n : Shares'[j] = tasks'[j].left
    <3>1. \A j \in 1..n : tasks'[j].left \in Int
      <4> TAKE j \in 1..n
      <4>1. CASE j = k
        BY <1>7, <1>8, <4>1
      <4>2. CASE j # k
        BY <1>2, <1>7, <4>2, TaskThere
      <4> QED  BY <4>1, <4>2
    <3> QED  BY <1>4, <1>7, <3>1 DEF Shares
  <2>3. Total(Shares) \in Int /\ ran \in Nat
    BY <1>2, <2>1, TotalIsNumber DEF BenchTypes
  <2>4. CASE new.left = tasks[k].left - 1 /\ ran' = ran + 1
    <3>1. Shares'[k] = Shares[k] - 1 /\ \A j \in 1..n : j # k => Shares'[j] = Shares[j]
      BY <1>5, <1>7, <2>1, <2>2, <2>4
    <3>2. Total(Shares') = Total(Shares) - 1
      BY <1>5, <2>1, <2>2, <3>1, TotalOfOneLess
    <3> QED  BY <2>3, <2>4, <3>2
  <2>5. CASE new.left = tasks[k].left /\ ran' = ran
    <3>1. \A j \in 1..n : Shares'[j] = Shares[j]
      BY <1>5, <1>7, <2>1, <2>2, <2>5
    <3>2. Shares' = Shares
      BY <2>1, <2>2, <3>1, SeqEqual
    <3> QED  BY <2>5, <3>2
  <2> QED  BY <1>6, <2>4, <2>5
<1>12. Position'
  BY <1>1, <1>2, <1>3, <1>11 DEF BenchIInv, Position, Dealt
<1> QED  BY <1>3, <1>9, <1>10, <1>12 DEF BenchIInv

LEMMA JoinPreserves ==
  ASSUME BenchIInv, Join
  PROVE  BenchIInv'
<1>1. /\ UNCHANGED <<iters, concurrency, t, tasks, ran, rows>>
      /\ phase = "join" /\ joined # Len(tasks)
      /\ \/ tasks[joined + 1].state = "ok" /\ joined' = joined + 1 /\ phase' = phase
         \/ phase' = "failed" /\ joined' = joined
  BY DEF Join, AllJoined
<1>2. BenchTypes /\ TasksOK /\ Position
  BY DEF BenchIInv
<1>3. RowsAreHonest' /\ PerTask' = PerTask /\ Shares' = Shares
  BY <1>1, Unchanged DEF Shares
<1>4. Len(tasks) \in Nat /\ joined \in 0..Len(tasks) /\ joined' \in 0..Len(tasks)
      /\ \A k \in 1..joined' : k \in 1..joined \/ k = joined + 1
  BY <1>1, <1>2 DEF BenchTypes
<1>5. BenchTypes'
  BY <1>1, <1>2, <1>4 DEF BenchTypes
<1>6. TasksOK'
  BY <1>1, <1>2, <1>4 DEF TasksOK
<1>7. Position'
  BY <1>1, <1>2, <1>3 DEF Position, Dealt
<1> QED  BY <1>3, <1>5, <1>6, <1>7 DEF BenchIInv

\* Where all tasks are spawned, the sum tells whether the last one fits.
LEMMA AtTheJoins ==
  ASSUME BenchIInv, phase = "join"
  PROVE  Total(Shares) + ran = iters <=> Fits
<1>1. /\ BenchTypes /\ Dealt(Total(Shares) + ran) /\ t = concurrency
      /\ iters \in Nat /\ concurrency \in Nat \ {0}
  BY DEF BenchIInv, Position, BenchTypes
<1>2. concurrency \in 0..concurrency /\ PerTask * concurrency >= iters
      /\ PerTask * concurrency \in Nat
  BY <1>1, Products
<1>3. Total(Shares) \in Int /\ ran \in Nat
  BY <1>1, SharesThere, TotalIsNumber DEF BenchTypes
<1>4. Lesser(PerTask * concurrency, iters) = iters
  <2> DEFINE x == PerTask * concurrency
  <2> HIDE DEF x
  <2> QED  BY <1>1, <1>2 DEF Lesser, x
<1>5. IF Fits THEN Total(Shares) + ran = iters ELSE Total(Shares) + ran > iters
  BY <1>1, <1>4 DEF Dealt, Fits
<1> QED  BY <1>1, <1>3, <1>5

\* When main has joined every task nothing is left to run.
LEMMA RowPreserves ==
  ASSUME BenchIInv, Row
  PROVE  BenchIInv'
<1> DEFINE row == [iters |-> iters, ran |-> ran]
<1>1. /\ UNCHANGED <<iters, concurrency>> /\ phase = "join" /\ joined = Len(tasks)
      /\ rows' = Append(rows, row) /\ phase' \in {"ended", "warmup"}
      /\ t' = 0 /\ tasks' = <<>> /\ joined' = 0 /\ ran' = 0
  BY DEF Row, AllJoined
<1>2. BenchTypes /\ TasksOK /\ RowsAreHonest
  BY DEF BenchIInv
<1>3. row \in [iters : Nat, ran : Nat] /\ rows \in Seq([iters : Nat, ran : Nat])
  BY <1>2 DEF BenchTypes
<1>4. Fits => ran = iters
  <2>1. \A k \in 1..Len(tasks) : tasks[k].left = 0
    BY <1>1, <1>2 DEF TasksOK
  <2>2. Total(Shares) = 0
    BY <1>2, <2>1, SharesThere, TotalOfZeros
  <2>3. Fits => Total(Shares) + ran = iters
    BY <1>1, AtTheJoins
  <2> QED  BY <1>2, <2>2, <2>3 DEF BenchTypes
<1>5. Fits' = Fits
  BY <1>1 DEF Fits, PerTask
<1> HIDE DEF row
<1>6. /\ rows' \in Seq([iters : Nat, ran : Nat]) /\ Len(rows) \in Nat
      /\ DOMAIN rows' = 1..(Len(rows) + 1) /\ DOMAIN rows = 1..Len(rows)
      /\ rows'[Len(rows) + 1] = row
      /\ \A k \in 1..Len(rows) : rows'[k] = rows[k]
  BY <1>1, <1>3
<1>7. RowsAreHonest'
  <2> SUFFICES ASSUME Fits, NEW k \in 1..(Len(rows) + 1)
               PROVE  rows'[k].ran = rows'[k].iters
    BY <1>5, <1>6 DEF RowsAreHonest
  <2>1. CASE k = Len(rows) + 1
    BY <1>4, <1>6, <2>1 DEF row
  <2>2. CASE k # Len(rows) + 1
    <3>1. k \in 1..Len(rows)
      BY <1>6, <2>2
    <3> QED  BY <1>2, <1>6, <3>1 DEF RowsAreHonest
  <2> QED  BY <2>1, <2>2
<1>8. BenchTypes'
  BY <1>1, <1>2, <1>6 DEF BenchTypes
<1>9. TasksOK' /\ Position'
  BY <1>1 DEF TasksOK, Position
<1> QED  BY <1>7, <1>8, <1>9 DEF BenchIInv

LEMMA BenchStep ==
  ASSUME BenchIInv, [BenchNext]_benchVars
  PROVE  BenchIInv'
<1>1. CASE UNCHANGED benchVars
  BY <1>1 DEF benchVars, BenchIInv, BenchTypes, TasksOK, Position, RowsAreHonest, Dealt,
              Shares, PerTask, Fits
<1> QED  BY <1>1, WarmUpPreserves, SpawnPreserves, AllSpawnedPreserves, QueryPreserves,
            JoinPreserves, RowPreserves DEF BenchNext

\* The state of the benchmark is what its loops mean it to be: what the spawned tasks
\* have left and what ran are what the loop has dealt, and joined tasks are done.
THEOREM BenchInvariant == BenchSpec => []BenchIInv
<1>1. BenchInit => BenchIInv
  BY BenchStart
<1>2. BenchIInv /\ [BenchNext]_benchVars => BenchIInv'
  BY BenchStep
<1> QED  BY <1>1, <1>2, PTL DEF BenchSpec

\* Once all tasks are spawned their shares add up to the iterations of the command
\* line, whatever ran or failed meanwhile, if and only if the last task starts within
\* them (bench.rs:124-129).
THEOREM SplitIsExact == BenchSpec => []SharesAddUp
<1>1. BenchIInv => SharesAddUp
  BY AtTheJoins DEF SharesAddUp
<1> QED  BY <1>1, BenchInvariant, PTL

\* Every row of the report stands for as many timed queries as it says, if the last
\* task fits: the clock is not read while a task works.
THEOREM ReportIsHonest == BenchSpec => []RowsAreHonest
<1>1. BenchIInv => RowsAreHonest
  BY DEF BenchIInv
<1> QED  BY <1>1, BenchInvariant, PTL
=============================================================================
