---------------------------- MODULE CodecProofs -----------------------------
(***************************************************************************)
(* Proofs about the codec.  For every blob of bytes, whatever made it, the *)
(* indices of decode_fields stay inside the blob; what encode_ld wrote is  *)
(* read as it was written; and every message of the protocol is understood *)
(* as it was meant, whatever text, handle or schema it carries.            *)
(***************************************************************************)
EXTENDS FieldDecoder, WireMessages, SequenceTheorems, FiniteSetTheorems,
        NaturalsInduction, WellFoundedInduction, TLAPS

\* A non-empty set of naturals has a least element, the one that Least names.
LEMMA LeastOf ==
  ASSUME NEW S \in SUBSET Nat, S # {}
  PROVE  \E k \in S : \A j \in S : k <= j
<1>1. \E k \in S : \A j \in S : <<j, k>> \notin OpToRel(<, Nat)
  BY NatLessThanWellFounded, WFMin
<1>2. OpToRel(<, Nat) = {p \in Nat \X Nat : p[1] < p[2]}
  BY Zenon DEF OpToRel
<1>3. PICK k \in S : \A j \in S : <<j, k>> \notin OpToRel(<, Nat)
  BY <1>1
<1>4. \A j \in S : ~ (j < k)
  BY <1>2, <1>3
<1>5. \A j \in S : k <= j
  <2> TAKE j \in S
  <2>1. k \in Nat /\ j \in Nat
    BY <1>3
  <2> QED  BY <1>4, <2>1
<1> QED  BY <1>3, <1>5

LEMMA LeastIsThere ==
  ASSUME NEW S \in SUBSET Nat, S # {}
  PROVE  Least(S) \in S /\ \A j \in S : Least(S) <= j
BY LeastOf DEF Least

\* A varint ends inside the blob, or is reported as missing.
LEMMA VarintEndInBlob ==
  ASSUME NEW b \in Seq(0..255), NEW i \in Nat \ {0}
  PROVE  VarintEnd(b, i) = 0 \/ VarintEnd(b, i) \in i..Len(b)
<1> DEFINE ends == {j \in i..Lesser(i + 9, Len(b)) : b[j] < 128}
<1>1. Len(b) \in Nat /\ Lesser(i + 9, Len(b)) \in Nat /\ Lesser(i + 9, Len(b)) <= Len(b)
  BY DEF Lesser
<1>2. ends \in SUBSET (i..Len(b)) /\ ends \in SUBSET Nat
  BY <1>1
<1>3. VarintEnd(b, i) = IF ends = {} THEN 0 ELSE Least(ends)
  BY DEF VarintEnd
<1> HIDE DEF ends
<1>4. CASE ends = {}
  BY <1>3, <1>4
<1>5. CASE ends # {}
  <2>1. Least(ends) \in ends
    BY <1>2, <1>5, LeastIsThere
  <2> QED  BY <1>2, <1>3, <1>5, <2>1
<1> QED  BY <1>4, <1>5

\* The bits of a byte that a varint keeps are numbers.
LEMMA ByteParts ==
  \A x \in 0..255 : x % 2 \in Nat /\ x % 128 \in Nat
<1> TAKE x \in 0..255
<1>1. x \in Int
  OBVIOUS
<1>2. x % 2 \in 0..1 /\ x % 128 \in 0..127
  BY SMT, <1>1
<1> QED  BY <1>2

\* A length is a number, however many bits its varint has.
LEMMA LengthIsNumber ==
  ASSUME NEW b \in Seq(0..255), NEW s \in 1..Len(b), NEW e \in s..Len(b)
  PROVE  Length(b, s, e) \in Nat
<1>1. Len(b) \in Nat /\ s \in Nat /\ e \in Nat /\ 1 <= s /\ e <= Len(b)
  OBVIOUS
<1>2. ASSUME NEW k \in Nat, s <= k
      PROVE  Group(b, s, e, k) \in Nat
  <2>1. CASE k > e
    BY <2>1 DEF Group
  <2>2. CASE k <= e
    <3>1. k \in 1..Len(b)
      BY <1>1, <1>2, <2>2
    <3>2. b[k] \in 0..255
      BY <3>1, ElementOfSeq
    <3>3. b[k] % 2 \in Nat /\ b[k] % 128 \in Nat
      BY Zenon, <3>2, ByteParts
    <3>4. ~ (k > e)
      BY <1>1, <2>2
    <3> QED  BY <3>3, <3>4 DEF Group
  <2> QED  BY <1>1, <1>2, <2>1, <2>2
<1> DEFINE a0 == Group(b, s, e, s)
           a1 == Group(b, s, e, s + 1)
           a2 == Group(b, s, e, s + 2)
           a3 == Group(b, s, e, s + 3)
<1>3. a0 \in Nat /\ a1 \in Nat /\ a2 \in Nat /\ a3 \in Nat
  BY <1>1, <1>2
<1>4. Length(b, s, e) \in {MaxLength + 1, a0 + 128 * a1 + 16384 * a2 + 2097152 * a3}
  BY SMT DEF Length
<1> HIDE DEF a0, a1, a2, a3
<1>5. MaxLength + 1 \in Nat
  BY MaxLengthAssumption
<1>6. a0 + 128 * a1 + 16384 * a2 + 2097152 * a3 \in Nat
  BY SMT, <1>3
<1> QED  BY SMT, <1>4, <1>5, <1>6

\* A field that starts behind position i and lies inside the blob.
Inside(b, i, f) ==
  /\ f.from \in Nat /\ f.to \in Nat
  /\ i < f.from /\ f.from <= f.to + 1 /\ f.to <= Len(b)

\* Cutting a payload of n bytes out of the blob yields a field inside it, or none.
LEMMA SliceInBlob ==
  ASSUME NEW b \in Seq(0..255), NEW i \in Nat, NEW s \in Nat, i < s, NEW n \in Nat,
         NEW no, NEW kind
  PROVE  Slice(b, no, kind, s, n) = NoField \/ Inside(b, i, Slice(b, no, kind, s, n))
<1>1. Len(b) \in Nat
  OBVIOUS
<1> QED  BY <1>1 DEF Slice, Inside

\* Whatever byte the loop is at, it finds no field or one inside the blob.
LEMMA FieldAtInBlob ==
  ASSUME NEW b \in Seq(0..255), NEW i \in 1..Len(b)
  PROVE  FieldAt(b, i) = NoField \/ Inside(b, i, FieldAt(b, i))
<1> DEFINE t == VarintEnd(b, i)
           no == FieldNo(b, i, t)
           kind == b[i] % 8
           s == t + 1
<1>1. Len(b) \in Nat /\ (t = 0 \/ t \in i..Len(b))
  BY VarintEndInBlob
<1>2. FieldAt(b, i) = IF t = 0 THEN NoField ELSE FieldOf(b, no, kind, s)
  BY DEF FieldAt, Tagged
<1> HIDE DEF t, no, kind
<1> SUFFICES ASSUME t # 0
             PROVE  FieldOf(b, no, kind, s) = NoField \/ Inside(b, i, FieldOf(b, no, kind, s))
  BY <1>2
<1>3. s \in Nat \ {0} /\ i < s /\ s <= Len(b) + 1
  BY <1>1
<1>4. Delimited(b, no, s, VarintEnd(b, s)) = NoField
      \/ Inside(b, i, Delimited(b, no, s, VarintEnd(b, s)))
  <2> DEFINE e == VarintEnd(b, s)
  <2>1. e = 0 \/ e \in s..Len(b)
    BY <1>3, VarintEndInBlob
  <2> HIDE DEF e, s
  <2>2. CASE e = 0
    BY <2>2 DEF Delimited, e
  <2>3. CASE e \in s..Len(b)
    <3>1. Length(b, s, e) \in Nat
      BY <1>1, <1>3, <2>3, LengthIsNumber
    <3>2. e + 1 \in Nat /\ i < e + 1
      BY <1>1, <1>3, <2>3
    <3>3. Slice(b, no, 2, e + 1, Length(b, s, e)) = NoField
          \/ Inside(b, i, Slice(b, no, 2, e + 1, Length(b, s, e)))
      BY <3>1, <3>2, SliceInBlob
    <3> QED  BY <3>3, Zenon DEF Delimited, e
  <2> QED  BY <2>1, <2>2, <2>3
<1>5. Inside(b, i, Number(b, no, s))
  <2> DEFINE stop == {j \in s..Len(b) : b[j] < 128}
  <2>1. stop \in SUBSET (s..Len(b)) /\ stop \in SUBSET Nat
    BY <1>3
  <2>2. stop = {} \/ Least(stop) \in s..Len(b)
    <3> HIDE DEF stop
    <3> QED  BY <2>1, LeastIsThere
  <2>3. Number(b, no, s)
          = [no |-> no, wire |-> 0, from |-> s, to |-> IF stop = {} THEN Len(b) ELSE Least(stop)]
    BY DEF Number
  <2> HIDE DEF stop, s
  <2> QED  BY <1>1, <1>3, <2>2, <2>3 DEF Inside
<1>6. /\ Slice(b, no, 1, s, 8) = NoField \/ Inside(b, i, Slice(b, no, 1, s, 8))
      /\ Slice(b, no, 5, s, 4) = NoField \/ Inside(b, i, Slice(b, no, 5, s, 4))
  BY <1>3, SliceInBlob
<1> HIDE DEF s
<1>7. FieldOf(b, no, kind, s)
        \in {Delimited(b, no, s, VarintEnd(b, s)), Number(b, no, s), Slice(b, no, 1, s, 8),
             Slice(b, no, 5, s, 4), NoField}
  BY SMT DEF FieldOf
<1> QED  BY <1>4, <1>5, <1>6, <1>7

\* The inductive invariant: what SlicesInBlob says of the fields, and that the
\* loop stands behind the last of them and at most one behind the blob.
DecoderIInv ==
  /\ input \in Inputs /\ input.blob \in Seq(0..255)
  /\ pos \in 1..(Len(input.blob) + 1)
  /\ \E S : fields \in Seq(S)
  /\ SlicesInBlob
  /\ \A k \in DOMAIN fields : fields[k].from \in Nat /\ fields[k].to \in Nat /\ fields[k].to < pos

\* One round of the loop.
LEMMA TakeFieldPreserves ==
  ASSUME DecoderIInv, TakeField
  PROVE  DecoderIInv'
<1> DEFINE b == input.blob
           f == FieldAt(b, pos)
<1>1. /\ b \in Seq(0..255) /\ pos \in 1..Len(b) /\ f # NoField
      /\ fields' = Append(fields, f) /\ pos' = f.to + 1 /\ input' = input
  BY DEF DecoderIInv, TakeField, Behind
<1>2. Inside(b, pos, f)
  BY <1>1, FieldAtInBlob
<1>3. PICK S : fields \in Seq(S)
  BY DEF DecoderIInv
<1> DEFINE T == S \cup {f}
<1>4. fields \in Seq(T) /\ f \in T
  BY <1>3, SeqMonotonic
<1> HIDE DEF f, T
<1>5. /\ fields' \in Seq(T) /\ Len(fields) \in Nat /\ Len(fields') = Len(fields) + 1
      /\ DOMAIN fields = 1..Len(fields) /\ DOMAIN fields' = 1..(Len(fields) + 1)
      /\ \A k \in 1..Len(fields) : fields'[k] = fields[k]
      /\ fields'[Len(fields) + 1] = f
  BY <1>1, <1>4
<1>6. \A k \in DOMAIN fields : /\ 1 <= fields[k].from /\ fields[k].from <= fields[k].to + 1
                               /\ fields[k].to <= Len(b)
                               /\ fields[k].from \in Nat /\ fields[k].to \in Nat
                               /\ fields[k].to < pos
  BY DEF DecoderIInv, SlicesInBlob
<1>7. \A k \in 2..Len(fields) : fields[k - 1].to < fields[k].from
  BY DEF DecoderIInv, SlicesInBlob
<1>8. Len(b) \in Nat /\ pos' \in 1..(Len(b) + 1) /\ pos < pos'
  BY <1>1, <1>2 DEF Inside
<1>9. \A k \in DOMAIN fields' :
        /\ 1 <= fields'[k].from /\ fields'[k].from <= fields'[k].to + 1
        /\ fields'[k].to <= Len(b)
        /\ fields'[k].from \in Nat /\ fields'[k].to \in Nat /\ fields'[k].to < pos'
  <2> TAKE k \in DOMAIN fields'
  <2>1. CASE k \in 1..Len(fields)
    BY <1>1, <1>5, <1>6, <1>8, <2>1
  <2>2. CASE k = Len(fields) + 1
    BY <1>1, <1>2, <1>5, <2>2 DEF Inside
  <2> QED  BY <1>5, <2>1, <2>2
<1>10. \A k \in 2..Len(fields') : fields'[k - 1].to < fields'[k].from
  <2> TAKE k \in 2..Len(fields')
  <2>1. CASE k \in 2..Len(fields)
    BY <1>5, <1>7, <2>1
  <2>2. CASE k = Len(fields) + 1
    <3>1. k - 1 \in 1..Len(fields) /\ fields'[k] = f /\ fields'[k - 1] = fields[k - 1]
      BY <1>5, <2>2
    <3>2. fields[k - 1].to < pos /\ fields[k - 1].to \in Nat
      BY <1>5, <1>6, <3>1
    <3> QED  BY <1>1, <1>2, <3>1, <3>2 DEF Inside
  <2> QED  BY <1>5, <2>1, <2>2
<1> QED  BY <1>1, <1>5, <1>8, <1>9, <1>10 DEF DecoderIInv, SlicesInBlob

LEMMA DecoderStep ==
  ASSUME DecoderIInv, [FieldsNext]_fieldVars
  PROVE  DecoderIInv'
<1>1. CASE Stop
  BY <1>1 DEF Stop, DecoderIInv, SlicesInBlob
<1>2. CASE UNCHANGED fieldVars
  BY <1>2 DEF fieldVars, DecoderIInv, SlicesInBlob
<1> QED  BY <1>1, <1>2, TakeFieldPreserves DEF FieldsNext

\* Whatever blob the decoder is given, every payload it cuts out lies inside the
\* blob and behind the one before: no slice of decode_fields can panic.
THEOREM SlicesStayInBlob == FieldsSpec => []SlicesInBlob
<1>1. FieldsInit => DecoderIInv
  BY InputsAssumption DEF FieldsInit, DecoderIInv, SlicesInBlob
<1>2. DecoderIInv /\ [FieldsNext]_fieldVars => DecoderIInv'
  BY DecoderStep
<1>3. DecoderIInv => SlicesInBlob
  BY DEF DecoderIInv
<1> QED  BY <1>1, <1>2, <1>3, PTL DEF FieldsSpec

-----------------------------------------------------------------------------
(* The function Varint exists: it is defined on 0..n for every n, and the      *)
(* definitions agree.                                                          *)

VarintStep(g, v) == IF v < 128 THEN <<v>> ELSE <<(v % 128) + 128>> \o g[v \div 128]
Upto(g, n) == g = [v \in 0..n |-> VarintStep(g, v)]

LEMMA Shifted ==
  ASSUME NEW v \in Nat, v >= 128
  PROVE  v \div 128 \in 0..(v - 1)
BY SMT

LEMMA UptoAgree ==
  ASSUME NEW n \in Nat, NEW m \in Nat, n <= m, NEW g, NEW h, Upto(g, n), Upto(h, m)
  PROVE  \A v \in 0..n : g[v] = h[v]
<1> DEFINE T == {v \in 0..n : g[v] # h[v]}
<1> SUFFICES ASSUME T # {} PROVE FALSE
  OBVIOUS
<1>1. T \in SUBSET Nat
  OBVIOUS
<1>2. PICK v \in T : \A u \in T : v <= u
  <2> HIDE DEF T
  <2> QED  BY <1>1, LeastOf
<1>3. v \in 0..n /\ v \in 0..m /\ v \in Nat /\ g[v] # h[v]
  BY <1>2
<1>4. g[v] = VarintStep(g, v) /\ h[v] = VarintStep(h, v)
  BY <1>3 DEF Upto
<1>5. CASE v < 128
  BY <1>3, <1>4, <1>5 DEF VarintStep
<1>6. CASE v >= 128
  <2>1. v \div 128 \in 0..(v - 1)
    BY <1>3, <1>6, Shifted
  <2> DEFINE u == v \div 128
  <2>2. u \in 0..n /\ u < v
    BY <1>3, <2>1
  <2>3. g[u] = h[u]
    BY <1>2, <1>3, <2>2
  <2> QED  BY <1>3, <1>4, <2>3 DEF VarintStep
<1> QED  BY <1>3, <1>5, <1>6

LEMMA UptoThere ==
  ASSUME NEW n \in Nat
  PROVE  \E g : Upto(g, n)
<1> DEFINE T == {k \in Nat : ~ \E g : Upto(g, k)}
<1> SUFFICES ASSUME T # {} PROVE FALSE
  OBVIOUS
<1>1. PICK k \in T : \A u \in T : k <= u
  <2>1. T \in SUBSET Nat
    OBVIOUS
  <2> HIDE DEF T
  <2> QED  BY <2>1, LeastOf
<1>2. k \in Nat
  OBVIOUS
<1>3. CASE k = 0
  <2> DEFINE g == [v \in 0..0 |-> <<v>>]
  <2>1. \A v \in 0..0 : v < 128
    OBVIOUS
  <2>2. Upto(g, 0)
    BY <2>1, Zenon DEF Upto, VarintStep
  <2> QED  BY <1>1, <1>3, <2>2
<1>4. CASE k # 0
  <2>1. k - 1 \in Nat /\ ~ (k <= k - 1)
    BY <1>2, <1>4
  <2>2. PICK g : Upto(g, k - 1)
    BY <1>1, <2>1
  <2> DEFINE h == [v \in 0..k |-> VarintStep(g, v)]
  <2>3. ASSUME NEW v \in 0..k
        PROVE  h[v] = VarintStep(h, v)
    <3>1. h[v] = VarintStep(g, v) /\ v \in Nat
      BY <2>3
    <3>2. CASE v < 128
      BY <3>1, <3>2 DEF VarintStep
    <3>3. CASE v >= 128
      <4> DEFINE u == v \div 128
      <4>1. u \in 0..(v - 1)
        BY <3>1, <3>3, Shifted
      <4>2. u \in 0..(k - 1) /\ u \in 0..k
        BY <1>2, <2>3, <4>1
      <4>3. g[u] = VarintStep(g, u) /\ h[u] = VarintStep(g, u)
        <5> HIDE DEF u
        <5> QED  BY <2>2, <4>2 DEF Upto
      <4> QED  BY <3>1, <4>3 DEF VarintStep
    <3> QED  BY <3>1, <3>2, <3>3
  <2>4. Upto(h, k)
    <3> DEFINE f == [v \in 0..k |-> VarintStep(h, v)]
    <3>1. h = f
      <4> HIDE DEF h
      <4>1. \A v \in 0..k : h[v] = f[v]
        BY <2>3
      <4>2. h = [v \in 0..k |-> h[v]]
        BY DEF h
      <4> QED  BY <4>1, <4>2
    <3> QED  BY <3>1 DEF Upto
  <2> QED  BY <1>1, <2>4
<1> QED  BY <1>3, <1>4

\* The value of Varint is what its definition says.
LEMMA VarintIs ==
  ASSUME NEW v \in Nat
  PROVE  Varint[v] = VarintStep(Varint, v)
<1> DEFINE F(n) == CHOOSE g : Upto(g, n)
           G == [n \in Nat |-> F(n)[n]]
<1>1. \A n \in Nat : Upto(F(n), n)
  BY UptoThere
<1>2. ASSUME NEW n \in Nat
      PROVE  G[n] = VarintStep(G, n)
  <2> HIDE DEF F
  <2>1. G[n] = F(n)[n] /\ F(n)[n] = VarintStep(F(n), n)
    <3>1. n \in 0..n
      OBVIOUS
    <3> QED  BY <1>1, <3>1 DEF Upto
  <2>2. CASE n < 128
    BY <2>1, <2>2 DEF VarintStep
  <2>3. CASE n >= 128
    <3> DEFINE u == n \div 128
    <3>1. u \in 0..(n - 1)
      BY <2>3, Shifted
    <3> HIDE DEF u
    <3>2. u \in Nat /\ u <= n /\ u \in 0..u
      BY <3>1
    <3>3. Upto(F(u), u) /\ Upto(F(n), n)
      BY <1>1, <3>2
    <3>4. F(u)[u] = F(n)[u]
      BY <3>2, <3>3, UptoAgree
    <3>5. G[u] = F(n)[u]
      BY <3>2, <3>4
    <3> QED  BY <2>1, <3>5 DEF VarintStep, u
  <2> QED  BY <2>2, <2>3
<1>3. G = [n \in Nat |-> VarintStep(G, n)]
  <2> HIDE DEF F
  <2> DEFINE H == [n \in Nat |-> VarintStep(G, n)]
  <2>1. G = [n \in Nat |-> G[n]]
    OBVIOUS
  <2> HIDE DEF G
  <2> QED  BY <1>2, <2>1
<1> HIDE DEF G
<1>4. Varint = [n \in Nat |-> VarintStep(Varint, n)]
  BY <1>3, ZenonT(60) DEF Varint, VarintStep
<1> QED  BY <1>4

-----------------------------------------------------------------------------
(* What encode_varint writes: n bytes with seven bits of v each.               *)

Sum(a) == a[0] + 128 * (a[1] + 128 * (a[2] + 128 * (a[3] + 128 * a[4])))

Groups(v, n, a) ==
  /\ a \in [0..4 -> 0..127] /\ v = Sum(a)
  /\ \A k \in n..4 : a[k] = 0
  /\ Len(Varint[v]) = n /\ Varint[v] \in Seq(0..255)
  /\ \A k \in 1..n : Varint[v][k] = IF k < n THEN a[k - 1] + 128 ELSE a[k - 1]

LEMMA LastGroup ==
  ASSUME NEW v \in 0..127
  PROVE  \E a : Groups(v, 1, a)
<1> DEFINE a == [k \in 0..4 |-> IF k = 0 THEN v ELSE 0]
<1>1. Varint[v] = <<v>>
  <2>1. v \in Nat /\ v < 128
    OBVIOUS
  <2> QED  BY <2>1, VarintIs DEF VarintStep
<1>2. a[0] = v /\ a[1] = 0 /\ a[2] = 0 /\ a[3] = 0 /\ a[4] = 0 /\ a \in [0..4 -> 0..127]
  OBVIOUS
<1>3. \A k \in 1..4 : a[k] = 0
  OBVIOUS
<1> HIDE DEF a
<1>4. v = Sum(a)
  BY SMT, <1>2 DEF Sum
<1>5. /\ Len(Varint[v]) = 1 /\ Varint[v] \in Seq(0..255)
      /\ \A k \in 1..1 : Varint[v][k] = IF k < 1 THEN a[k - 1] + 128 ELSE a[k - 1]
  BY <1>1, <1>2
<1> QED  BY <1>2, <1>3, <1>4, <1>5, Zenon DEF Groups

LEMMA OneMoreGroup ==
  ASSUME NEW v \in Nat, v >= 128, NEW n \in 1..4, NEW a, Groups(v \div 128, n, a)
  PROVE  \E c : Groups(v, n + 1, c)
<1> DEFINE w == v \div 128
           x == v % 128
           c == [k \in 0..4 |-> IF k = 0 THEN x ELSE a[k - 1]]
<1>1. w \in Nat /\ x \in 0..127 /\ v = x + 128 * w
  BY SMT
<1>2. Varint[v] = <<x + 128>> \o Varint[w]
  <2>1. Varint[v] = VarintStep(Varint, v)
    BY VarintIs
  <2>2. ~ (v < 128)
    OBVIOUS
  <2> QED  BY <2>1, <2>2, Zenon DEF VarintStep
<1>3. /\ a \in [0..4 -> 0..127] /\ w = Sum(a) /\ \A k \in n..4 : a[k] = 0
      /\ Len(Varint[w]) = n /\ Varint[w] \in Seq(0..255)
      /\ \A k \in 1..n : Varint[w][k] = IF k < n THEN a[k - 1] + 128 ELSE a[k - 1]
  BY Zenon DEF Groups
<1> HIDE DEF w, x
<1>4. c \in [0..4 -> 0..127]
  BY <1>1, <1>3
<1>5. c[0] = x /\ c[1] = a[0] /\ c[2] = a[1] /\ c[3] = a[2] /\ c[4] = a[3]
  OBVIOUS
<1>6. \A k \in (n + 1)..4 : c[k] = 0
  BY <1>3
<1>7. \A k \in 1..n : c[k] = a[k - 1]
  OBVIOUS
<1>8. a[4] = 0
  BY <1>3
<1> HIDE DEF c
<1>9. v = Sum(c)
  <2>1. a[0] \in Int /\ a[1] \in Int /\ a[2] \in Int /\ a[3] \in Int
    <3>1. a \in [0..4 -> 0..127]
      BY <1>3
    <3>2. a[0] \in 0..127 /\ a[1] \in 0..127 /\ a[2] \in 0..127 /\ a[3] \in 0..127
      BY <3>1
    <3> QED  BY <3>2
  <2>2. w = a[0] + 128 * (a[1] + 128 * (a[2] + 128 * (a[3] + 128 * a[4])))
    <3>1. w = Sum(a)
      BY <1>3
    <3> QED  BY <3>1, Zenon DEF Sum
  <2>3. x \in Int /\ w \in Int
    BY <1>1
  <2>4. v = c[0] + 128 * (c[1] + 128 * (c[2] + 128 * (c[3] + 128 * c[4])))
    BY SMT, <1>1, <1>5, <1>8, <2>1, <2>2, <2>3
  <2> QED  BY <2>4, Zenon DEF Sum
<1>10. /\ Len(Varint[v]) = n + 1 /\ Varint[v] \in Seq(0..255)
       /\ Varint[v][1] = x + 128 /\ \A k \in 2..(n + 1) : Varint[v][k] = Varint[w][k - 1]
  <2> DEFINE s == Varint[w]
  <2>1. s \in Seq(0..255) /\ Len(s) = n /\ x + 128 \in 0..255 /\ n \in Nat
    BY <1>1, <1>3
  <2> HIDE DEF s
  <2>2. <<x + 128>> \in Seq(0..255) /\ Len(<<x + 128>>) = 1
    BY <2>1
  <2>3. <<x + 128>> \o s \in Seq(0..255) /\ Len(<<x + 128>> \o s) = n + 1
    BY <2>1, <2>2
  <2>4. (<<x + 128>> \o s)[1] = x + 128
    BY <2>1, <2>2
  <2>5. \A k \in 2..(n + 1) : (<<x + 128>> \o s)[k] = s[k - 1]
    BY <2>1, <2>2
  <2> QED  BY <1>2, <2>3, <2>4, <2>5 DEF s
<1>11. \A k \in 1..(n + 1) : Varint[v][k] = IF k < n + 1 THEN c[k - 1] + 128 ELSE c[k - 1]
  <2> TAKE k \in 1..(n + 1)
  <2>1. CASE k = 1
    BY <1>5, <1>10, <2>1
  <2>2. CASE k # 1
    <3>1. k - 1 \in 1..n /\ k \in 2..(n + 1)
      BY <2>2
    <3>2. (k - 1) - 1 = k - 2
      BY <3>1
    <3>3. Varint[w][k - 1] = IF k - 1 < n THEN a[k - 2] + 128 ELSE a[k - 2]
      BY <1>3, <3>1, <3>2
    <3>4. Varint[v][k] = Varint[w][k - 1] /\ c[k - 1] = a[k - 2]
      BY <1>7, <1>10, <3>1, <3>2
    <3>5. k < n + 1 <=> k - 1 < n
      BY <3>1
    <3> QED  BY <3>3, <3>4, <3>5
  <2> QED  BY <2>1, <2>2
<1> QED  BY <1>4, <1>6, <1>9, <1>10, <1>11, ZenonT(60) DEF Groups

\* Tags and lengths have five bytes at most.
LEMMA GroupsThere ==
  ASSUME NEW v \in Nat, v < 8 * TwoTo29
  PROVE  \E n \in 1..5 : \E a : Groups(v, n, a)
<1> DEFINE Has(u, m) == \E n \in 1..m : \E a : Groups(u, n, a)
<1>1. ASSUME NEW u \in 0..127
      PROVE  Has(u, 1)
  BY LastGroup
<1>2. ASSUME NEW u \in Nat, NEW m \in 1..4, u >= 128, Has(u \div 128, m)
      PROVE  Has(u, m + 1)
  <2>1. PICK n \in 1..m : \E a : Groups(u \div 128, n, a)
    BY <1>2
  <2>2. n \in 1..4 /\ n + 1 \in 1..(m + 1)
    OBVIOUS
  <2> QED  BY <1>2, <2>1, <2>2, OneMoreGroup
<1>3. ASSUME NEW u \in Nat, NEW m \in 1..4, Has(u, m)
      PROVE  Has(u, m + 1)
  <2>1. \A n \in 1..m : n \in 1..(m + 1)
    OBVIOUS
  <2> QED  BY <1>3, <2>1
<1> HIDE DEF Has
<1>4. \A u \in Nat : u < 128 => Has(u, 1)
  BY <1>1
<1>5. \A u \in Nat : u < 16384 => Has(u, 2)
  <2> SUFFICES ASSUME NEW u \in Nat, u < 16384 PROVE Has(u, 1 + 1)
    OBVIOUS
  <2>1. u \div 128 \in Nat /\ u \div 128 < 128
    BY SMT
  <2> QED  BY <1>2, <1>3, <1>4, <2>1
<1>6. \A u \in Nat : u < 2097152 => Has(u, 3)
  <2> SUFFICES ASSUME NEW u \in Nat, u < 2097152 PROVE Has(u, 2 + 1)
    OBVIOUS
  <2>1. u \div 128 \in Nat /\ u \div 128 < 16384
    BY SMT
  <2> QED  BY <1>2, <1>3, <1>5, <2>1
<1>7. \A u \in Nat : u < 268435456 => Has(u, 4)
  <2> SUFFICES ASSUME NEW u \in Nat, u < 268435456 PROVE Has(u, 3 + 1)
    BY SMT
  <2>1. u \div 128 \in Nat /\ u \div 128 < 2097152
    BY SMT
  <2> QED  BY SMT, <1>2, <1>3, <1>6, <2>1
<1>8. Has(v, 5)
  <2>1. v \div 128 \in Nat /\ v \div 128 < 268435456
    BY SMT DEF TwoTo29
  <2> QED  BY SMT, <1>2, <1>3, <1>7, <2>1
<1> QED  BY <1>8 DEF Has

-----------------------------------------------------------------------------
(* What decode_fields reads of it.                                             *)

LEMMA Powers == TwoTo28 \in Nat /\ TwoTo29 \in Nat
BY SMT DEF TwoTo28, TwoTo29

LEMMA SevenBits ==
  \A x \in 0..127 : /\ x \in Nat /\ x \in Int /\ 0 <= x /\ x < 128 /\ ~ (x + 128 < 128)
                    /\ x % 128 = x /\ (x + 128) % 128 = x
<1> TAKE x \in 0..127
<1>1. x \in Int /\ x \in Nat /\ 0 <= x /\ x < 128
  OBVIOUS
<1>2. x % 128 = x
  BY SMT, <1>1
<1>3. (x + 128) % 128 = x
  BY SMT, <1>1
<1> QED  BY <1>1, <1>2, <1>3

\* The tag of a field number is seven bits x and the rest r: three of the bits are
\* the wire type.
TagIs(no, x, r) == no * 8 + 2 = x + 128 * r

LEMMA TagBits ==
  \A no \in Nat, r \in Nat, x \in 0..127 :
    TagIs(no, x, r) => x % 8 = 2 /\ (x + 128) % 8 = 2
<1> SUFFICES ASSUME NEW no \in Nat, NEW r \in Nat, NEW x \in 0..127, no * 8 + 2 = x + 128 * r
             PROVE  x % 8 = 2 /\ (x + 128) % 8 = 2
  BY DEF TagIs
<1>1. x \in Int /\ 0 <= x /\ x < 128
  OBVIOUS
<1>2. x % 8 = 2
  BY SMT, <1>1
<1>3. (x + 128) % 8 = 2
  BY SMT, <1>1
<1> QED  BY <1>2, <1>3

LEMMA HighBits ==
  ASSUME NEW a \in Nat, NEW b \in Nat, NEW c \in Nat, NEW d \in Nat
  PROVE  LET r == a + 128 * (b + 128 * (c + 128 * d))
         IN  r \in Nat /\ (r = 0 <=> a = 0 /\ b = 0 /\ c = 0 /\ d = 0)
BY SMT

\* A varint of n bytes with the groups a, as it is read at i.
IsRead(b, i, n, a) ==
  /\ VarintEnd(b, i) = i + n - 1
  /\ \A k \in 0..4 : Group(b, i, i + n - 1, i + k) = a[k]
  /\ b[i] \in {a[0], a[0] + 128}

\* The reader finds the end of a varint, if the blob holds it, and its groups.
LEMMA VarintRead ==
  ASSUME NEW b \in Seq(0..255), NEW i \in 1..(Len(b) + 1),
         NEW v \in Nat, NEW n \in 1..5, NEW a, Groups(v, n, a), LiesAt(b, i, Varint[v])
  PROVE  /\ i + n - 1 > Len(b) => VarintEnd(b, i) = 0
         /\ i + n - 1 <= Len(b) => IsRead(b, i, n, a)
<1> DEFINE s == Varint[v]
           e == i + n - 1
           ends == {j \in i..Lesser(i + 9, Len(b)) : b[j] < 128}
<1>1. /\ a \in [0..4 -> 0..127] /\ \A k \in n..4 : a[k] = 0
      /\ Len(s) = n /\ s \in Seq(0..255)
      /\ \A k \in 1..n : s[k] = IF k < n THEN a[k - 1] + 128 ELSE a[k - 1]
  BY Zenon DEF Groups
<1>2. DOMAIN s = 1..n /\ DOMAIN b = 1..Len(b) /\ Len(b) \in Nat /\ i \in Nat /\ n \in Nat
  BY <1>1
<1>3. ASSUME NEW k \in 0..(n - 1), i + k <= Len(b)
      PROVE  b[i + k] = IF k < n - 1 THEN a[k] + 128 ELSE a[k]
  <2>1. k + 1 \in 1..n /\ i + (k + 1) - 1 = i + k /\ i + k \in 1..Len(b) /\ (k + 1) - 1 = k
    BY <1>2, <1>3
  <2>2. b[i + k] = s[k + 1]
    BY <1>2, <2>1 DEF LiesAt
  <2>3. k + 1 < n <=> k < n - 1
    BY <1>2
  <2> QED  BY <1>1, <2>1, <2>2, <2>3
<1>4. \A k \in 0..4 : a[k] \in 0..127
  BY <1>1
<1>5. VarintEnd(b, i) = IF ends = {} THEN 0 ELSE Least(ends)
  BY DEF VarintEnd
<1>6. \A j \in ends : j \in i..Len(b) /\ j <= i + 9 /\ b[j] < 128
  BY <1>2 DEF Lesser
<1>7. \A j \in i..Len(b) : j <= i + 9 /\ b[j] < 128 => j \in ends
  BY <1>2 DEF Lesser
<1> HIDE DEF s, ends
<1>8. \A j \in ends : e <= j
  <2> SUFFICES ASSUME NEW j \in ends, j < e PROVE FALSE
    BY <1>2, <1>6
  <2>1. j \in i..Len(b) /\ b[j] < 128
    BY <1>6
  <2> DEFINE k == j - i
  <2>2. k \in 0..(n - 1) /\ k < n - 1 /\ i + k = j /\ k \in 0..4
    BY <1>2, <2>1
  <2> HIDE DEF k
  <2>3. i + k <= Len(b)
    BY <1>2, <2>1, <2>2
  <2>4. b[i + k] = a[k] + 128
    BY <1>3, <2>2, <2>3
  <2>5. ~ (a[k] + 128 < 128)
    BY <1>4, <2>2, SevenBits, Zenon
  <2> QED  BY <2>1, <2>2, <2>4, <2>5
<1>9. ASSUME e > Len(b)
      PROVE  VarintEnd(b, i) = 0
  <2>1. ends = {}
    BY <1>2, <1>6, <1>8, <1>9
  <2> QED  BY <1>5, <2>1
<1>10. ASSUME e <= Len(b)
       PROVE  IsRead(b, i, n, a)
  <2>1. e \in ends
    <3>1. n - 1 \in 0..(n - 1) /\ i + (n - 1) = e /\ e \in i..Len(b) /\ e <= i + 9 /\ n - 1 \in 0..4
      BY <1>2, <1>10
    <3>2. b[i + (n - 1)] = a[n - 1]
      <4>1. ~ (n - 1 < n - 1) /\ i + (n - 1) <= Len(b)
        BY <1>2, <1>10
      <4> QED  BY <1>3, <3>1, <4>1
    <3>3. a[n - 1] \in 0..127
      BY <1>4, <3>1
    <3>4. b[e] < 128
      <4>1. a[n - 1] < 128
        BY <3>3, SevenBits, Zenon
      <4> QED  BY <3>1, <3>2, <4>1
    <3> HIDE DEF e
    <3> QED  BY <1>7, <3>1, <3>4
  <2>2. VarintEnd(b, i) = e
    <3>1. ends \in SUBSET Nat
      BY <1>2, <1>6
    <3>2. Least(ends) \in ends /\ Least(ends) <= e /\ e <= Least(ends)
      BY <1>8, <2>1, <3>1, LeastIsThere
    <3>3. Least(ends) \in Nat /\ e \in Nat
      BY <2>1, <3>1, <3>2
    <3> HIDE DEF e
    <3>4. Least(ends) = e
      BY <3>2, <3>3
    <3> QED  BY <1>5, <2>1, <3>4
  <2>3. b[i] \in {a[0], a[0] + 128}
    <3>1. 0 \in 0..(n - 1) /\ i + 0 = i /\ i <= Len(b)
      BY <1>2, <1>10
    <3> QED  BY <1>3, <3>1
  <2>4. ASSUME NEW k \in 0..4
        PROVE  Group(b, i, e, i + k) = a[k]
    <3>1. CASE k < n
      <4>1. ~ (i + k > e) /\ i + k # i + 9 /\ k \in 0..(n - 1) /\ i + k <= Len(b)
        BY <1>2, <1>10, <3>1
      <4>2. Group(b, i, e, i + k) = b[i + k] % 128
        BY <4>1 DEF Group
      <4>3. b[i + k] \in {a[k], a[k] + 128} /\ a[k] \in 0..127
        BY <1>3, <1>4, <4>1
      <4>4. a[k] % 128 = a[k] /\ (a[k] + 128) % 128 = a[k]
        BY <4>3, SevenBits, Zenon
      <4> QED  BY <4>2, <4>3, <4>4
    <3>2. CASE k >= n
      <4>1. i + k > e /\ k \in n..4
        BY <1>2, <3>2
      <4> QED  BY <1>1, <4>1 DEF Group
    <3> QED  BY <1>2, <3>1, <3>2
  <2> QED  BY <2>2, <2>3, <2>4 DEF IsRead
<1> QED  BY <1>9, <1>10

\* A length that encode_ld wrote is read as it was.
LEMMA LengthRead ==
  ASSUME NEW b \in Seq(0..255), NEW s \in Nat, NEW v \in Nat, v < TwoTo28,
         NEW n \in 1..5, NEW a, Groups(v, n, a), IsRead(b, s, n, a)
  PROVE  Length(b, s, s + n - 1) = v
<1> DEFINE e == s + n - 1
<1>1. a \in [0..4 -> 0..127] /\ v = Sum(a) /\ \A k \in 0..4 : Group(b, s, e, s + k) = a[k]
  BY DEF Groups, IsRead
<1>2. /\ a[0] \in 0..127 /\ a[1] \in 0..127 /\ a[2] \in 0..127 /\ a[3] \in 0..127
      /\ a[4] \in 0..127
  BY <1>1
<1>3. v = a[0] + 128 * (a[1] + 128 * (a[2] + 128 * (a[3] + 128 * a[4])))
  BY <1>1, ZenonT(60) DEF Sum
<1>4. a[4] = 0 /\ v = a[0] + 128 * a[1] + 16384 * a[2] + 2097152 * a[3]
  <2>1. a[0] \in Nat /\ a[1] \in Nat /\ a[2] \in Nat /\ a[3] \in Nat /\ a[4] \in Nat
    BY <1>2, SevenBits, ZenonT(60)
  <2> DEFINE p == a[0]   q == a[1]   x == a[2]   y == a[3]   z == a[4]
  <2>2. p + 128 * (q + 128 * (x + 128 * (y + 128 * z))) < TwoTo28
    BY <1>3
  <2>3. p \in Nat /\ q \in Nat /\ x \in Nat /\ y \in Nat /\ z \in Nat
    BY <2>1
  <2> HIDE DEF p, q, x, y, z
  <2>4. z = 0
    BY SMT, <2>2, <2>3 DEF TwoTo28
  <2>5. p + 128 * (q + 128 * (x + 128 * (y + 128 * z)))
          = p + 128 * q + 16384 * x + 2097152 * y
    BY SMT, <2>3, <2>4
  <2> QED  BY SMT, <1>3, <2>4, <2>5 DEF p, q, x, y, z
<1>5. ASSUME NEW k \in (s + 4)..e
      PROVE  Group(b, s, e, k) = 0
  <2>1. k = s + 4 /\ 4 \in 0..4
    OBVIOUS
  <2> QED  BY <1>1, <1>4, <2>1
<1>6. /\ Group(b, s, e, s) = a[0] /\ Group(b, s, e, s + 1) = a[1]
      /\ Group(b, s, e, s + 2) = a[2] /\ Group(b, s, e, s + 3) = a[3]
  <2>1. s + 0 = s /\ 0 \in 0..4 /\ 1 \in 0..4 /\ 2 \in 0..4 /\ 3 \in 0..4
    OBVIOUS
  <2> QED  BY <1>1, <2>1
<1> HIDE DEF e
<1>7. Length(b, s, e) = Group(b, s, e, s) + 128 * Group(b, s, e, s + 1)
           + 16384 * Group(b, s, e, s + 2) + 2097152 * Group(b, s, e, s + 3)
  BY SMT, <1>5 DEF Length
<1>8. Length(b, s, e) = v
  BY SMT, <1>2, <1>4, <1>6, <1>7
<1> QED  BY <1>8 DEF e

\* So are the wire type of a tag and, below 16, its field number.
LEMMA TagRead ==
  ASSUME NEW b \in Seq(0..255), NEW i \in 1..Len(b), NEW no \in Nat,
         NEW n \in 1..5, NEW a, Groups(no * 8 + 2, n, a), IsRead(b, i, n, a)
  PROVE  FieldNo(b, i, i + n - 1) = Lesser(no, 16) /\ b[i] % 8 = 2
<1> DEFINE e == i + n - 1
           r == a[1] + 128 * (a[2] + 128 * (a[3] + 128 * a[4]))
<1>1. /\ a \in [0..4 -> 0..127] /\ no * 8 + 2 = Sum(a) /\ b[i] \in {a[0], a[0] + 128}
      /\ \A k \in 0..4 : Group(b, i, e, i + k) = a[k]
  BY DEF Groups, IsRead
<1>2. /\ a[0] \in 0..127 /\ a[1] \in 0..127 /\ a[2] \in 0..127 /\ a[3] \in 0..127
      /\ a[4] \in 0..127
  BY <1>1
<1>3. no * 8 + 2 = a[0] + 128 * r
  BY <1>1, ZenonT(60) DEF Sum
<1>4. r \in Nat /\ (r = 0 <=> a[1] = 0 /\ a[2] = 0 /\ a[3] = 0 /\ a[4] = 0)
  <2>1. a[1] \in Nat /\ a[2] \in Nat /\ a[3] \in Nat /\ a[4] \in Nat
    BY <1>2, SevenBits, Zenon
  <2> DEFINE p == a[1]   q == a[2]   x == a[3]   y == a[4]
  <2>2. p \in Nat /\ q \in Nat /\ x \in Nat /\ y \in Nat
    BY <2>1
  <2> HIDE DEF p, q, x, y
  <2>3. LET h == p + 128 * (q + 128 * (x + 128 * y))
        IN  h \in Nat /\ (h = 0 <=> p = 0 /\ q = 0 /\ x = 0 /\ y = 0)
    BY <2>2, HighBits
  <2> QED  BY <2>3, Zenon DEF p, q, x, y
<1> HIDE DEF r
<1>5. a[0] % 128 = a[0] /\ (a[0] + 128) % 128 = a[0]
  BY <1>2, SevenBits, Zenon
<1>6. a[0] % 8 = 2 /\ (a[0] + 128) % 8 = 2
  <2>1. TagIs(no, a[0], r)
    BY <1>3, Zenon DEF TagIs
  <2>2. a[0] \in 0..127 /\ r \in Nat
    BY <1>2, <1>4, Zenon
  <2> QED  BY <2>1, <2>2, TagBits, ZenonT(60)
<1>7. (r = 0 => no = a[0] \div 8 /\ no < 16) /\ (r # 0 => no >= 16)
  <2> DEFINE x == a[0]
  <2>1. x \in Int /\ 0 <= x /\ x < 128
    BY <1>2, SevenBits, Zenon
  <2>2. no * 8 + 2 = x + 128 * r /\ r \in Int /\ 0 <= r /\ no \in Int
    BY <1>3, <1>4
  <2> HIDE DEF x
  <2>3. r = 0 => no = x \div 8 /\ no < 16
    BY SMT, <2>1, <2>2
  <2>4. r # 0 => no >= 16
    BY SMT, <2>1, <2>2
  <2> QED  BY <2>3, <2>4 DEF x
<1>8. (\E k \in (i + 1)..(i + 4) : Group(b, i, e, k) # 0) <=> r # 0
  <2>1. \A k \in (i + 1)..(i + 4) : k \in {i + 1, i + 2, i + 3, i + 4}
    OBVIOUS
  <2>2. /\ Group(b, i, e, i + 1) = a[1] /\ Group(b, i, e, i + 2) = a[2]
        /\ Group(b, i, e, i + 3) = a[3] /\ Group(b, i, e, i + 4) = a[4]
    BY <1>1
  <2>3. \A k \in 1..4 : i + k \in (i + 1)..(i + 4)
    OBVIOUS
  <2> HIDE DEF e
  <2> QED  BY <1>4, <2>1, <2>2, <2>3, SMTT(30)
<1> HIDE DEF e
<1>9. FieldNo(b, i, e) = IF r # 0 THEN 16 ELSE a[0] \div 8
  <2>1. b[i] % 128 = a[0]
    BY <1>1, <1>5
  <2> QED  BY <1>8, <2>1 DEF FieldNo
<1>10. FieldNo(b, i, e) = Lesser(no, 16)
  BY <1>7, <1>9 DEF Lesser
<1> QED  BY <1>1, <1>6, <1>10 DEF e

LEMMA LiesBehind ==
  ASSUME NEW b \in Seq(0..255), NEW i \in Nat, NEW s \in Seq(0..255), NEW t \in Seq(0..255),
         LiesAt(b, i, s \o t)
  PROVE  LiesAt(b, i, s) /\ LiesAt(b, i + Len(s), t)
<1> DEFINE u == s \o t
<1>1. /\ Len(s) \in Nat /\ Len(t) \in Nat /\ DOMAIN s = 1..Len(s) /\ DOMAIN t = 1..Len(t)
      /\ DOMAIN u = 1..(Len(s) + Len(t)) /\ DOMAIN b = 1..Len(b) /\ Len(b) \in Nat
  OBVIOUS
<1>2. \A j \in 1..Len(s) : u[j] = s[j]
  OBVIOUS
<1>3. \A j \in 1..Len(t) : u[Len(s) + j] = t[j]
  OBVIOUS
<1>4. \A j \in DOMAIN u : i + j - 1 \in DOMAIN b => b[i + j - 1] = u[j]
  BY DEF LiesAt
<1> HIDE DEF u
<1>5. LiesAt(b, i, s)
  <2> SUFFICES ASSUME NEW j \in 1..Len(s), i + j - 1 \in DOMAIN b
               PROVE  b[i + j - 1] = s[j]
    BY <1>1 DEF LiesAt
  <2>1. j \in DOMAIN u
    BY <1>1
  <2> QED  BY <1>2, <1>4, <2>1
<1>6. LiesAt(b, i + Len(s), t)
  <2> SUFFICES ASSUME NEW j \in 1..Len(t), i + Len(s) + j - 1 \in DOMAIN b
               PROVE  b[i + Len(s) + j - 1] = t[j]
    BY <1>1 DEF LiesAt
  <2>1. Len(s) + j \in DOMAIN u /\ i + (Len(s) + j) - 1 = i + Len(s) + j - 1
    BY <1>1
  <2>2. b[i + (Len(s) + j) - 1] = u[Len(s) + j]
    BY <1>4, <2>1
  <2> QED  BY <1>3, <2>1, <2>2
<1> QED  BY <1>5, <1>6

\* What FieldAt makes of a field that was written at i and ends at e.
Reads(b, i, no, p, e) ==
  /\ e > Len(b) => FieldAt(b, i) = NoField
  /\ e <= Len(b)
       => /\ FieldAt(b, i)
               = [no |-> Lesser(no, 16), wire |-> 2, from |-> e - Len(p) + 1, to |-> e]
          /\ SubSeq(b, e - Len(p) + 1, e) = p

\* A field is the two varints of its tag and its length, of n and m bytes, and its
\* payload.
Made(no, p, n, m, a, c) ==
  /\ Groups(no * 8 + 2, n, a) /\ Groups(Len(p), m, c)
  /\ Len(LengthDelimited(no, p)) = n + m + Len(p)

LEMMA FieldBytes ==
  ASSUME NEW no \in Nat, no < TwoTo29, NEW p \in Seq(0..255), Len(p) <= MaxLength
  PROVE  /\ \E n, m \in 1..5 : \E a, c : Made(no, p, n, m, a, c)
         /\ Len(LengthDelimited(no, p)) \in Nat \ {0}
<1>1. Len(p) \in Nat
  OBVIOUS
<1>2. no * 8 + 2 \in Nat /\ no * 8 + 2 < 8 * TwoTo29
  BY SMT DEF TwoTo29
<1>3. Len(p) < 8 * TwoTo29
  BY SMT, <1>1, MaxLengthAssumption DEF TwoTo28, TwoTo29
<1>4. PICK n \in 1..5 : \E a : Groups(no * 8 + 2, n, a)
  BY <1>2, GroupsThere
<1>5. PICK m \in 1..5 : \E c : Groups(Len(p), m, c)
  BY <1>1, <1>3, GroupsThere
<1>6. /\ Varint[no * 8 + 2] \in Seq(0..255) /\ Len(Varint[no * 8 + 2]) = n
      /\ Varint[Len(p)] \in Seq(0..255) /\ Len(Varint[Len(p)]) = m
      /\ n \in Nat /\ 1 <= n /\ m \in Nat
  BY <1>4, <1>5 DEF Groups
<1>7. Len(LengthDelimited(no, p)) = n + m + Len(p)
  <2> DEFINE tag == Varint[no * 8 + 2]
             len == Varint[Len(p)]
  <2>1. LengthDelimited(no, p) = (tag \o len) \o p
    BY DEF LengthDelimited
  <2> HIDE DEF tag, len
  <2>2. /\ tag \in Seq(0..255) /\ Len(tag) = n /\ len \in Seq(0..255) /\ Len(len) = m
    BY <1>6 DEF tag, len
  <2>3. tag \o len \in Seq(0..255) /\ Len(tag \o len) = n + m
    BY <2>2
  <2> QED  BY <1>1, <1>6, <2>1, <2>3
<1> QED  BY <1>1, <1>4, <1>5, <1>6, <1>7 DEF Made

\* decode_fields reads what encode_ld wrote, if all of it is there.
LEMMA FieldRead ==
  ASSUME NEW b \in Seq(0..255), NEW i \in 1..Len(b), NEW no \in Nat, no < TwoTo29,
         NEW p \in Seq(0..255), Len(p) <= MaxLength, LiesAt(b, i, LengthDelimited(no, p))
  PROVE  /\ Len(LengthDelimited(no, p)) \in Nat \ {0}
         /\ Reads(b, i, no, p, i + Len(LengthDelimited(no, p)) - 1)
<1> DEFINE tag == Varint[no * 8 + 2]
           len == Varint[Len(p)]
           num == Lesser(no, 16)
<1>1. Len(p) \in Nat /\ Len(b) \in Nat /\ i \in Nat /\ 1 <= i /\ i <= Len(b)
  OBVIOUS
<1>2. no * 8 + 2 \in Nat
  OBVIOUS
<1>3. Len(p) < TwoTo28
  BY SMT, <1>1, MaxLengthAssumption DEF TwoTo28
<1>4. PICK n, m \in 1..5 : \E a, c : Made(no, p, n, m, a, c)
  BY FieldBytes
<1>5. PICK a, c : Groups(no * 8 + 2, n, a) /\ Groups(Len(p), m, c)
  BY <1>4 DEF Made
<1>6. /\ tag \in Seq(0..255) /\ Len(tag) = n /\ len \in Seq(0..255) /\ Len(len) = m
      /\ n \in Nat /\ 1 <= n /\ m \in Nat /\ 1 <= m
  BY <1>5 DEF Groups
<1>7. LengthDelimited(no, p) = (tag \o len) \o p
  BY DEF LengthDelimited
<1> HIDE DEF tag, len
<1>8. /\ tag \o len \in Seq(0..255) /\ Len(tag \o len) = n + m
      /\ Len(LengthDelimited(no, p)) = n + m + Len(p)
  BY <1>1, <1>6, <1>7
<1>9. LiesAt(b, i, tag) /\ LiesAt(b, i + n, len) /\ LiesAt(b, i + (n + m), p)
  <2>1. LiesAt(b, i, (tag \o len) \o p)
    BY <1>7, Zenon
  <2>2. LiesAt(b, i, tag \o len) /\ LiesAt(b, i + (n + m), p)
    BY <1>1, <1>8, <2>1, LiesBehind, ZenonT(60)
  <2> QED  BY <1>1, <1>6, <2>2, LiesBehind, ZenonT(60)
<1> DEFINE e == i + (n + m + Len(p)) - 1
           s == i + n
<1> SUFFICES Reads(b, i, no, p, e)
  BY <1>1, <1>6, <1>8
<1>10. CASE i + n - 1 > Len(b)
  <2>1. VarintEnd(b, i) = 0
    <3>1. i \in 1..(Len(b) + 1) /\ LiesAt(b, i, Varint[no * 8 + 2])
      BY <1>1, <1>9 DEF tag
    <3> QED  BY <1>2, <1>5, <1>10, <3>1, VarintRead, Zenon
  <2>2. ~ (e <= Len(b))
    BY <1>1, <1>6, <1>10
  <2> QED  BY <2>1, <2>2 DEF Reads, FieldAt, Tagged
<1>11. CASE i + n - 1 <= Len(b)
  <2>1. /\ VarintEnd(b, i) = i + n - 1 /\ i + n - 1 # 0 /\ i + n - 1 + 1 = s
        /\ FieldNo(b, i, i + n - 1) = num /\ b[i] % 8 = 2
    <3>1. IsRead(b, i, n, a)
      <4>1. i \in 1..(Len(b) + 1) /\ LiesAt(b, i, Varint[no * 8 + 2])
        BY <1>1, <1>9 DEF tag
      <4> QED  BY <1>2, <1>5, <1>11, <4>1, VarintRead, Zenon
    <3>2. i + n - 1 # 0 /\ i + n - 1 + 1 = s
      BY <1>1, <1>6
    <3>3. FieldNo(b, i, i + n - 1) = num /\ b[i] % 8 = 2
      BY <1>5, <3>1, TagRead, Zenon
    <3>4. VarintEnd(b, i) = i + n - 1
      BY <3>1, Zenon DEF IsRead
    <3> QED  BY <3>2, <3>3, <3>4, Zenon
  <2> DEFINE t == VarintEnd(b, s)
  <2>2. FieldAt(b, i) = Delimited(b, num, s, t)
    <3>1. FieldAt(b, i) = FieldOf(b, num, 2, s)
      BY <2>1, Zenon DEF FieldAt, Tagged
    <3> QED  BY <3>1 DEF FieldOf
  <2>3. s \in 1..(Len(b) + 1) /\ s \in Nat
    BY <1>1, <1>6, <1>11
  <2>4. LiesAt(b, s, Varint[Len(p)])
    BY <1>9 DEF len
  <2> HIDE DEF s
  <2>5. CASE s + m - 1 > Len(b)
    <3>1. t = 0
      BY <1>1, <1>5, <2>3, <2>5, <2>4, VarintRead, Zenon
    <3>2. ~ (e <= Len(b))
      BY <1>1, <1>6, <2>5 DEF s
    <3> QED  BY <2>2, <3>1, <3>2 DEF Reads, Delimited
  <2>6. CASE s + m - 1 <= Len(b)
    <3>1. IsRead(b, s, m, c)
      BY <1>1, <1>5, <2>3, <2>6, <2>4, VarintRead, Zenon
    <3>2. Length(b, s, s + m - 1) = Len(p)
      BY <1>1, <1>3, <1>5, <2>3, <3>1, LengthRead
    <3>3. t = s + m - 1
      BY <3>1 DEF IsRead
    <3>4. t # 0 /\ ~ (Len(p) > MaxLength)
      BY <1>1, <1>6, <2>3, <3>3, MaxLengthAssumption
    <3>5. FieldAt(b, i) = Slice(b, num, 2, t + 1, Len(p))
      BY <2>2, <3>2, <3>4, <3>3 DEF Delimited
    <3>6. t + 1 + Len(p) - 1 = e /\ t + 1 = e - Len(p) + 1 /\ t + 1 = i + (n + m) /\ e \in Nat
      BY <1>1, <1>6, <3>3 DEF s
    <3>7. FieldAt(b, i) = IF e > Len(b) THEN NoField
                          ELSE [no |-> num, wire |-> 2, from |-> e - Len(p) + 1, to |-> e]
      BY <3>5, <3>6, Zenon DEF Slice
    <3>8. ASSUME e <= Len(b)
          PROVE  SubSeq(b, e - Len(p) + 1, e) = p
      <4> DEFINE from == e - Len(p) + 1
      <4>1. from \in Nat /\ 1 <= from /\ from = i + (n + m) /\ e = from + Len(p) - 1
        BY <1>1, <1>6, <3>6
      <4> HIDE DEF from, e
      <4>2. \A j \in 1..Len(p) : from + j - 1 \in DOMAIN b /\ j \in DOMAIN p
        BY <1>1, <3>8, <4>1
      <4>3. \A j \in 1..Len(p) : b[from + j - 1] = p[j]
        BY <1>9, <4>1, <4>2 DEF LiesAt
      <4>4. SubSeq(b, from, e) \in Seq(0..255) /\ Len(SubSeq(b, from, e)) = Len(p)
        <5>1. from \in Int /\ e \in Int
          BY <1>1, <4>1
        <5>2. ASSUME NEW j \in from..e
              PROVE  b[j] \in 0..255
          <6>1. j \in 1..Len(b)
            BY <1>1, <3>8, <4>1, <5>1
          <6> QED  BY <6>1, ElementOfSeq
        <5>3. (IF from <= e THEN e - from + 1 ELSE 0) = Len(p)
          BY <1>1, <4>1
        <5> QED  BY <5>1, <5>3, <5>2, SubSeqProperties
      <4>5. \A j \in 1..Len(p) : SubSeq(b, from, e)[j] = b[from + j - 1]
        BY <1>1, <3>8, <4>1
      <4> QED  BY <4>3, <4>4, <4>5, SeqEqual DEF from
    <3> HIDE DEF e
    <3> QED  BY <1>1, <3>6, <3>7, <3>8 DEF Reads
  <2> QED  BY <1>1, <1>6, <2>3, <2>5, <2>6
<1> QED  BY <1>1, <1>6, <1>10, <1>11

-----------------------------------------------------------------------------
(* A message is read field by field.                                           *)

\* The number and the payload that field k was written with, as they are kept.
Kept(k) == <<Lesser(input.meant[k][1], 16), input.meant[k][2]>>

\* The fields found are the first of those written, and the loop stands where the
\* next one was written.
ReaderIInv ==
  /\ DecoderIInv
  /\ input.meant # <<>>
       => /\ Len(fields) <= Len(input.meant)
          /\ pos = input.at[Len(fields) + 1]
          /\ \A k \in DOMAIN fields :
               <<fields[k].no, Payload(input.blob, fields[k])>> = Kept(k)
  /\ stopped => Leaves

\* What is known of a message and of its next field.
LEMMA NextField ==
  ASSUME ReaderIInv, input.meant # <<>>, pos <= Len(input.blob)
  PROVE  LET k == Len(fields) + 1
             e == input.at[k + 1] - 1
         IN  /\ k \in 1..Len(input.meant) /\ pos < input.at[k + 1] /\ e \in Nat
             /\ Reads(input.blob, pos, input.meant[k][1], input.meant[k][2], e)
<1> DEFINE k == Len(fields) + 1
           b == input.blob
           no == input.meant[k][1]
           p == input.meant[k][2]
           field == LengthDelimited(no, p)
<1>1. /\ b \in Seq(0..255) /\ Len(b) \in Nat /\ pos \in 1..Len(b) /\ Len(fields) \in Nat
      /\ Len(fields) <= Len(input.meant) /\ pos = input.at[k] /\ input \in Inputs
  <2>1. DecoderIInv /\ Len(fields) <= Len(input.meant) /\ pos = input.at[k]
    BY DEF ReaderIInv
  <2>2. /\ b \in Seq(0..255) /\ pos \in 1..(Len(b) + 1) /\ input \in Inputs
        /\ \E S : fields \in Seq(S)
    BY <2>1 DEF DecoderIInv
  <2> QED  BY <2>1, <2>2
<1>2. Written(input) /\ input.meant \in Seq((0..(TwoTo29 - 1)) \X Seq(0..255))
  BY <1>1, InputsAssumption
<1>3. /\ Len(input.meant) \in Nat /\ DOMAIN input.meant = 1..Len(input.meant)
      /\ input.at \in Seq(Nat) /\ Len(input.at) = Len(input.meant) + 1
      /\ Len(b) < input.at[Len(input.meant) + 1]
  <2>1. Len(input.meant) \in Nat /\ DOMAIN input.meant = 1..Len(input.meant)
    BY <1>2, LenProperties
  <2> QED  BY <1>2, <2>1 DEF Written
<1>4. k \in 1..Len(input.meant)
  <2>1. k # Len(input.meant) + 1
    BY <1>1, <1>3
  <2> QED  BY <1>1, <1>3, <2>1, SMTT(30)
<1>5. /\ Len(p) <= MaxLength /\ input.at[k + 1] = input.at[k] + Len(field)
      /\ LiesAt(b, input.at[k], field)
  BY <1>2, <1>3, <1>4 DEF Written
<1>6. no \in Nat /\ no < TwoTo29 /\ p \in Seq(0..255)
  <2>1. input.meant[k] \in (0..(TwoTo29 - 1)) \X Seq(0..255)
    BY <1>2, <1>4, ElementOfSeq
  <2> QED  BY <2>1, Powers
<1>7. Len(field) \in Nat \ {0} /\ Reads(b, pos, no, p, pos + Len(field) - 1)
  <2> HIDE DEF b, no, p
  <2> QED  BY <1>1, <1>5, <1>6, FieldRead
<1>8. pos < input.at[k + 1] /\ input.at[k + 1] - 1 = pos + Len(field) - 1
      /\ input.at[k + 1] - 1 \in Nat
  <2>1. pos \in Nat /\ input.at[k + 1] = pos + Len(field)
    BY <1>1, <1>5
  <2>2. Len(field) \in Nat /\ Len(field) # 0
    BY <1>7
  <2> HIDE DEF field, k
  <2> QED  BY <2>1, <2>2
<1> QED  BY <1>4, <1>7, <1>8

LEMMA ReaderStep ==
  ASSUME ReaderIInv, DecoderIInv', [FieldsNext]_fieldVars
  PROVE  ReaderIInv'
<1>1. CASE Stop
  BY <1>1 DEF Stop, ReaderIInv, Leaves, Kept
<1>2. CASE UNCHANGED fieldVars
  BY <1>2 DEF fieldVars, ReaderIInv, Leaves, Kept
<1>3. CASE TakeField
  <2> DEFINE b == input.blob
             f == FieldAt(b, pos)
             k == Len(fields) + 1
  <2>1. /\ ~ stopped /\ pos <= Len(b) /\ f # NoField /\ fields' = Append(fields, f)
        /\ pos' = f.to + 1 /\ input' = input /\ stopped' = stopped
    BY <1>3 DEF TakeField, Behind
  <2> SUFFICES ASSUME input.meant # <<>>
               PROVE  /\ Len(fields') <= Len(input.meant)
                      /\ pos' = input.at[Len(fields') + 1]
                      /\ \A j \in DOMAIN fields' :
                           <<fields'[j].no, Payload(b, fields'[j])>> = Kept(j)
    BY <2>1 DEF ReaderIInv, Kept
  <2> DEFINE e == input.at[k + 1] - 1
             no == input.meant[k][1]
             p == input.meant[k][2]
  <2>2. k \in 1..Len(input.meant) /\ e \in Nat /\ pos < input.at[k + 1] /\ Reads(b, pos, no, p, e)
    BY <2>1, NextField
  <2>3. /\ f = [no |-> Lesser(no, 16), wire |-> 2, from |-> e - Len(p) + 1, to |-> e]
        /\ SubSeq(b, e - Len(p) + 1, e) = p
    <3>1. Len(b) \in Nat
      BY DEF ReaderIInv, DecoderIInv
    <3> HIDE DEF e, no, p, b
    <3>2. e <= Len(b)
      BY <2>1, <2>2, <3>1 DEF Reads
    <3> QED  BY <2>2, <3>2 DEF Reads
  <2>4. <<f.no, Payload(b, f)>> = Kept(k) /\ f.to = e
    <3> HIDE DEF e, f, b
    <3> QED  BY <2>3 DEF Payload, Kept
  <2>5. /\ Len(fields') = k /\ DOMAIN fields' = 1..k /\ DOMAIN fields = 1..(k - 1)
        /\ \A j \in 1..(k - 1) : fields'[j] = fields[j]
        /\ fields'[k] = f /\ k \in Nat \ {0}
    <3>1. PICK S : fields \in Seq(S)
      BY DEF ReaderIInv, DecoderIInv
    <3> DEFINE T == S \cup {f}
    <3>2. fields \in Seq(T) /\ f \in T
      BY <3>1, SeqMonotonic
    <3> HIDE DEF f, T
    <3> QED  BY <2>1, <3>2
  <2>6. \A j \in DOMAIN fields' : <<fields'[j].no, Payload(b, fields'[j])>> = Kept(j)
    <3> TAKE j \in DOMAIN fields'
    <3>1. CASE j \in 1..(k - 1)
      <4>1. fields'[j] = fields[j] /\ j \in DOMAIN fields
        BY <2>5, <3>1
      <4> QED  BY <4>1 DEF ReaderIInv
    <3>2. CASE j = k
      BY <2>4, <2>5, <3>2
    <3>3. j \in 1..(k - 1) \/ j = k
      BY <2>5
    <3> QED  BY <3>1, <3>2, <3>3
  <2>7. pos' = input.at[k + 1]
    <3>1. input.at[k + 1] \in Int
      <4>1. Written(input) /\ Len(input.meant) \in Nat
        BY InputsAssumption, LenProperties DEF ReaderIInv, DecoderIInv
      <4>2. input.at \in Seq(Nat) /\ k + 1 \in 1..Len(input.at)
        BY <2>2, <4>1, SMTT(30) DEF Written
      <4> QED  BY <4>2, ElementOfSeq
    <3> QED  BY <2>1, <2>4, <3>1
  <2> QED  BY <2>2, <2>5, <2>6, <2>7
<1> QED  BY <1>1, <1>2, <1>3 DEF FieldsNext

\* The fields of a message begin before it ends.
LEMMA EndIsLast ==
  ASSUME Written(input), Len(input.meant) \in Nat,
         \A k \in 1..Len(input.meant) : input.at[k] < input.at[k + 1]
  PROVE  \A k \in 1..(Len(input.meant) + 1) : input.at[k] <= input.at[Len(input.meant) + 1]
<1> DEFINE last == Len(input.meant) + 1
           T == {d \in 0..Len(input.meant) : ~ (input.at[last - d] <= input.at[last])}
<1>1. \A k \in 1..last : input.at[k] \in Int
  BY ElementOfSeq DEF Written
<1>2. T = {}
  <2> SUFFICES ASSUME T # {} PROVE FALSE
    OBVIOUS
  <2>1. PICK d \in T : \A c \in T : d <= c
    <3>1. T \in SUBSET Nat
      OBVIOUS
    <3> HIDE DEF T
    <3> QED  BY <3>1, LeastOf
  <2>2. d \in 0..Len(input.meant) /\ ~ (input.at[last - d] <= input.at[last])
    OBVIOUS
  <2>3. d # 0
    <3>1. last \in 1..last /\ last - 0 = last
      OBVIOUS
    <3> QED  BY <1>1, <2>2, <3>1
  <2>4. d - 1 \in 0..Len(input.meant) /\ ~ (d <= d - 1)
    BY <2>2, <2>3
  <2>5. input.at[last - (d - 1)] <= input.at[last]
    BY <2>1, <2>4
  <2>6. /\ last - d \in 1..Len(input.meant) /\ last - (d - 1) = (last - d) + 1
        /\ last - d \in 1..last /\ (last - d) + 1 \in 1..last /\ last \in 1..last
    BY <2>2, <2>3
  <2>7. input.at[last - d] < input.at[last - (d - 1)]
    BY <2>6
  <2>8. /\ input.at[last - d] \in Int /\ input.at[last - (d - 1)] \in Int
        /\ input.at[last] \in Int
    BY <1>1, <2>6
  <2> HIDE DEF last
  <2> QED  BY <2>2, <2>5, <2>7, <2>8
<1>3. ASSUME NEW k \in 1..last
      PROVE  input.at[k] <= input.at[last]
  <2>1. last - k \in 0..Len(input.meant) /\ last - (last - k) = k
    OBVIOUS
  <2> HIDE DEF last
  <2> QED  BY <1>2, <2>1
<1> QED  BY <1>3

LEMMA FieldsAscend ==
  ASSUME NEW x, Written(x), x.meant \in Seq((0..(TwoTo29 - 1)) \X Seq(0..255)),
         NEW k \in 1..Len(x.meant)
  PROVE  x.at[k] \in Nat /\ x.at[k + 1] \in Nat /\ x.at[k] < x.at[k + 1]
<1> DEFINE no == x.meant[k][1]
           p == x.meant[k][2]
           field == LengthDelimited(no, p)
<1>1. Len(x.meant) \in Nat /\ DOMAIN x.meant = 1..Len(x.meant)
  BY LenProperties
<1>2. /\ Len(p) <= MaxLength /\ x.at[k + 1] = x.at[k] + Len(field)
      /\ x.at \in Seq(Nat) /\ Len(x.at) = Len(x.meant) + 1
  BY <1>1 DEF Written
<1>3. x.at[k] \in Nat /\ x.at[k + 1] \in Nat
  <2>1. k \in 1..Len(x.at) /\ k + 1 \in 1..Len(x.at)
    <3> DEFINE L == Len(x.meant)
    <3>1. L \in Nat /\ k \in 1..L /\ Len(x.at) = L + 1
      BY <1>1, <1>2
    <3> HIDE DEF L
    <3> QED  BY <3>1
  <2> QED  BY <1>2, <2>1, ElementOfSeq
<1>4. no \in Nat /\ no < TwoTo29 /\ p \in Seq(0..255)
  <2>1. x.meant[k] \in (0..(TwoTo29 - 1)) \X Seq(0..255)
    BY ElementOfSeq
  <2> QED  BY <2>1, Powers
<1>5. Len(field) \in Nat /\ Len(field) # 0
  <2> HIDE DEF no, p
  <2> QED  BY <1>2, <1>4, FieldBytes
<1>6. x.at[k] < x.at[k + 1]
  <2> HIDE DEF field
  <2>1. x.at[k + 1] = x.at[k] + Len(field)
    BY <1>2
  <2> QED  BY <1>3, <1>5, <2>1
<1> QED  BY <1>3, <1>6

\* A loop that has left has read all that was written and is there.
LEMMA ReadToTheEnd ==
  ASSUME ReaderIInv, stopped, input.meant # <<>>
  PROVE  /\ Len(Found) <= Len(Meant)
         /\ Found = SubSeq(Meant, 1, Len(Found))
         /\ Whole => Found = Meant
<1> DEFINE n == Len(fields)
           L == Len(input.meant)
           b == input.blob
<1>1. /\ n \in Nat /\ DOMAIN fields = 1..n /\ L \in Nat /\ DOMAIN input.meant = 1..L
      /\ n <= L /\ pos = input.at[n + 1] /\ Written(input)
      /\ input.meant \in Seq((0..(TwoTo29 - 1)) \X Seq(0..255))
      /\ b \in Seq(0..255) /\ Len(b) \in Nat /\ pos \in Nat
  <2>1. /\ input \in Inputs /\ b \in Seq(0..255) /\ pos \in 1..(Len(b) + 1)
        /\ \E S : fields \in Seq(S)
    BY DEF ReaderIInv, DecoderIInv
  <2>2. Written(input) /\ input.meant \in Seq((0..(TwoTo29 - 1)) \X Seq(0..255))
    BY <2>1, InputsAssumption
  <2>3. L \in Nat /\ DOMAIN input.meant = 1..L
    BY <2>2, LenProperties
  <2>4. n <= L /\ pos = input.at[n + 1]
    BY DEF ReaderIInv
  <2> QED  BY <2>1, <2>2, <2>3, <2>4, SMTT(30)
<1>2. Found = [k \in 1..n |-> Kept(k)] /\ Meant = [k \in 1..L |-> Kept(k)]
  <2>1. \A k \in 1..n : <<fields[k].no, Payload(b, fields[k])>> = Kept(k)
    BY <1>1 DEF ReaderIInv
  <2>2. Meant = [k \in 1..L |-> Kept(k)]
    BY <1>1 DEF Meant, Kept
  <2> HIDE DEF b
  <2>3. Found = [k \in 1..n |-> Kept(k)]
    BY <1>1, <2>1, Zenon DEF Found, b
  <2> QED  BY <2>2, <2>3
<1> DEFINE S == {Kept(k) : k \in 1..L}
<1>3. /\ Found \in Seq(S) /\ Len(Found) = n /\ \A k \in 1..n : Found[k] = Kept(k)
      /\ Meant \in Seq(S) /\ Len(Meant) = L /\ \A k \in 1..L : Meant[k] = Kept(k)
  <2>1. \A k \in 1..L : Kept(k) \in S
    OBVIOUS
  <2>2. \A k \in 1..n : Kept(k) \in S
    BY <1>1
  <2> HIDE DEF S, n, L
  <2> QED  BY <1>1, <1>2, <2>1, <2>2
<1> HIDE DEF S, n, L
<1>4. SubSeq(Meant, 1, n) \in Seq(S) /\ Len(SubSeq(Meant, 1, n)) = n
      /\ \A k \in 1..n : SubSeq(Meant, 1, n)[k] = Meant[k]
  BY <1>1, <1>3
<1>5. Found = SubSeq(Meant, 1, n)
  <2>1. \A k \in 1..n : Found[k] = SubSeq(Meant, 1, n)[k]
    <3> TAKE k \in 1..n
    <3>1. k \in 1..L
      BY <1>1
    <3> QED  BY <1>3, <1>4, <3>1
  <2> QED  BY <1>3, <1>4, <2>1, SeqEqual
<1>6. ASSUME Whole
      PROVE  n = L
  <2> SUFFICES ASSUME n # L PROVE FALSE
    OBVIOUS
  <2>1. Len(b) + 1 = input.at[L + 1]
    BY <1>1, <1>6 DEF Whole, Written, L
  <2>2. \A k \in 1..L : /\ input.at[k] \in Nat /\ input.at[k + 1] \in Nat
                        /\ input.at[k] < input.at[k + 1]
    BY <1>1, FieldsAscend DEF L
  <2>3. n + 1 \in 1..L /\ n + 2 \in 1..(L + 1) /\ L + 1 \in Nat /\ (n + 1) + 1 = n + 2
    BY <1>1
  <2>4. input.at[n + 1] < input.at[n + 2] /\ input.at[n + 1] \in Nat /\ input.at[n + 2] \in Nat
    BY <2>2, <2>3
  <2>5. input.at[n + 2] <= input.at[L + 1]
    BY <1>1, <2>2, <2>3, EndIsLast DEF L
  <2>6. pos <= Len(b)
    BY <1>1, <2>1, <2>4, <2>5, SMTT(30)
  <2>7. Reads(b, pos, input.meant[n + 1][1], input.meant[n + 1][2], input.at[n + 2] - 1)
    BY <2>3, <2>6, NextField DEF n, b
  <2>8. input.at[n + 2] - 1 <= Len(b)
    <3> DEFINE x == input.at[n + 2]
    <3>1. x <= Len(b) + 1 /\ x \in Nat /\ Len(b) \in Nat
      BY <1>1, <2>1, <2>4, <2>5, Zenon
    <3> HIDE DEF x
    <3>2. x - 1 <= Len(b)
      BY <3>1
    <3> QED  BY <3>2 DEF x
  <2>9. FieldAt(b, pos) # NoField
    BY <2>7, <2>8 DEF Reads, NoField
  <2> QED  BY <1>1, <2>6, <2>9 DEF ReaderIInv, Leaves, b
<1> QED  BY <1>1, <1>3, <1>5, <1>6 DEF L

\* What encode_ld writes is what decode_fields reads, for every list of fields and
\* payloads of any bytes up to the accepted length; of a message that was cut off
\* anywhere the fields that are complete, and nothing else.
THEOREM WrittenIsRead == FieldsSpec => []ReadsWhatWasWritten
<1>1. FieldsInit => DecoderIInv /\ ReaderIInv
  <2> SUFFICES ASSUME FieldsInit PROVE DecoderIInv /\ ReaderIInv
    OBVIOUS
  <2>1. DecoderIInv
    BY InputsAssumption DEF FieldsInit, DecoderIInv, SlicesInBlob
  <2>2. input.meant # <<>> => input.at[1] = 1 /\ Len(input.meant) \in Nat
    BY InputsAssumption, LenProperties DEF FieldsInit, Written
  <2>3. fields = <<>> /\ pos = 1 /\ Len(fields) = 0 /\ DOMAIN fields = {} /\ ~ stopped
    BY DEF FieldsInit
  <2> QED  BY <2>1, <2>2, <2>3 DEF ReaderIInv
<1>2. ReaderIInv /\ [FieldsNext]_fieldVars => ReaderIInv'
  BY DecoderStep, ReaderStep DEF ReaderIInv
<1>3. ReaderIInv => ReadsWhatWasWritten
  BY ReadToTheEnd DEF ReadsWhatWasWritten
<1> QED  BY <1>1, <1>2, <1>3, PTL DEF FieldsSpec

-----------------------------------------------------------------------------
(* The function in Decode exists: it is defined behind every place of the blob. *)

DecodeStep(b, g, i) ==
  IF i > Len(b) \/ FieldAt(b, i) = NoField THEN <<>>
  ELSE <<FieldAt(b, i)>> \o g[Behind(FieldAt(b, i))]
From(b, g, n) == g = [i \in n..(Len(b) + 1) |-> DecodeStep(b, g, i)]

\* The loop moves on, and at most behind the blob.
LEMMA MovesOn ==
  ASSUME NEW b \in Seq(0..255), NEW i \in 1..(Len(b) + 1),
         ~ (i > Len(b)), FieldAt(b, i) # NoField
  PROVE  /\ Behind(FieldAt(b, i)) \in (i + 1)..(Len(b) + 1)
         /\ Inside(b, i, FieldAt(b, i))
<1>1. Len(b) \in Nat /\ i \in 1..Len(b)
  OBVIOUS
<1>2. Inside(b, i, FieldAt(b, i))
  BY <1>1, FieldAtInBlob
<1> DEFINE f == FieldAt(b, i)
<1> HIDE DEF f
<1>3. f.from \in Nat /\ f.to \in Nat /\ i < f.from /\ f.from <= f.to + 1 /\ f.to <= Len(b)
  BY <1>2 DEF Inside, f
<1>4. f.to + 1 \in (i + 1)..(Len(b) + 1)
  BY <1>1, <1>3
<1> QED  BY <1>2, <1>4 DEF Behind, f

LEMMA RestThere ==
  ASSUME NEW b \in Seq(0..255)
  PROVE  \E g : From(b, g, 1)
<1> DEFINE L == Len(b) + 1
           T == {k \in Nat : k < L /\ ~ \E g : From(b, g, L - k)}
<1>1. L \in Nat /\ L >= 1
  OBVIOUS
<1> SUFFICES ASSUME T # {} PROVE FALSE
  <2>1. L - 1 \in Nat /\ L - 1 < L /\ L - (L - 1) = 1
    BY <1>1
  <2> HIDE DEF L
  <2> QED  BY <2>1
<1>2. PICK k \in T : \A j \in T : k <= j
  <2>1. T \in SUBSET Nat
    OBVIOUS
  <2> HIDE DEF T
  <2> QED  BY <2>1, LeastOf
<1>3. k \in Nat /\ k < L /\ ~ \E g : From(b, g, L - k)
  BY <1>2
<1>4. CASE k = 0
  <2> DEFINE g == [i \in L..L |-> <<>>]
  <2>1. \A i \in L..L : DecodeStep(b, g, i) = <<>>
    BY DEF DecodeStep
  <2>2. From(b, g, L)
    BY <2>1 DEF From
  <2>3. L - k = L
    BY <1>1, <1>4
  <2> QED  BY <1>3, <2>2, <2>3
<1>5. CASE k # 0
  <2> DEFINE n == L - k
  <2>1. k - 1 \in Nat /\ k - 1 < L /\ ~ (k <= k - 1) /\ L - (k - 1) = n + 1 /\ n \in 1..L
    BY <1>1, <1>3, <1>5
  <2>2. PICK g : From(b, g, n + 1)
    <3>1. k - 1 \notin T
      BY <1>2, <2>1
    <3> HIDE DEF n, L
    <3>2. \E g : From(b, g, L - (k - 1))
      BY <2>1, <3>1
    <3> QED  BY <2>1, <3>2
  <2> DEFINE h == [i \in n..L |-> DecodeStep(b, g, i)]
             f == [i \in n..L |-> DecodeStep(b, h, i)]
  <2>3. ASSUME NEW i \in n..L
        PROVE  h[i] = f[i]
    <3>1. i \in 1..L
      BY <1>1, <2>1
    <3>2. CASE i > Len(b) \/ FieldAt(b, i) = NoField
      BY <3>2 DEF DecodeStep
    <3>3. CASE ~ (i > Len(b) \/ FieldAt(b, i) = NoField)
      <4> DEFINE u == Behind(FieldAt(b, i))
      <4>1. u \in (i + 1)..L
        BY <3>1, <3>3, MovesOn
      <4>2. u \in (n + 1)..L /\ u \in n..L
        BY <1>1, <2>1, <4>1
      <4> HIDE DEF u
      <4>3. g[u] = DecodeStep(b, g, u) /\ h[u] = DecodeStep(b, g, u)
        BY <2>2, <4>2 DEF From
      <4>4. h[i] = <<FieldAt(b, i)>> \o g[u] /\ f[i] = <<FieldAt(b, i)>> \o h[u]
        BY <3>3 DEF DecodeStep, u
      <4> QED  BY <4>3, <4>4
    <3> QED  BY <3>2, <3>3
  <2>4. h = f
    <3>1. h = [i \in n..L |-> h[i]] /\ f = [i \in n..L |-> f[i]]
      OBVIOUS
    <3> HIDE DEF h, f
    <3> QED  BY <2>3, <3>1
  <2>5. From(b, h, n)
    <3> HIDE DEF h, n
    <3> QED  BY <2>4 DEF From
  <2> QED  BY <1>3, <2>5
<1> QED  BY <1>4, <1>5

LEMMA DecodeIs ==
  ASSUME NEW b \in Seq(0..255)
  PROVE  \E g : /\ \A i \in 1..(Len(b) + 1) : g[i] = DecodeStep(b, g, i)
                /\ Decode(b) = g[1]
<1> DEFINE g == CHOOSE h : From(b, h, 1)
<1>1. From(b, g, 1)
  BY RestThere
<1>2. Decode(b) = g[1]
  BY Zenon DEF Decode, From, DecodeStep
<1> HIDE DEF g
<1>3. \A i \in 1..(Len(b) + 1) : g[i] = DecodeStep(b, g, i)
  BY <1>1 DEF From
<1> QED  BY <1>2, <1>3

\* Decode yields a sequence of fields of the blob.
FieldsOf(b) == {f \in {FieldAt(b, i) : i \in 1..Len(b)} : f # NoField}

LEMMA DecodedFields ==
  ASSUME NEW b \in Seq(0..255)
  PROVE  Decode(b) \in Seq(FieldsOf(b))
<1> DEFINE L == Len(b) + 1
<1>1. PICK g : /\ \A i \in 1..L : g[i] = DecodeStep(b, g, i)
               /\ Decode(b) = g[1]
  BY DecodeIs
<1> DEFINE T == {k \in Nat : k < L /\ g[L - k] \notin Seq(FieldsOf(b))}
<1>2. L \in Nat /\ L >= 1 /\ Len(b) \in Nat
  OBVIOUS
<1> SUFFICES ASSUME T # {} PROVE FALSE
  <2>1. L - 1 \in Nat /\ L - 1 < L /\ L - (L - 1) = 1
    BY <1>2
  <2> HIDE DEF L
  <2> QED  BY <1>1, <2>1
<1>3. PICK k \in T : \A j \in T : k <= j
  <2>1. T \in SUBSET Nat
    OBVIOUS
  <2> HIDE DEF T
  <2> QED  BY <2>1, LeastOf
<1>4. k \in Nat /\ k < L /\ g[L - k] \notin Seq(FieldsOf(b))
  BY <1>3
<1> DEFINE i == L - k
<1>5. i \in 1..L /\ i \in 1..(Len(b) + 1)
  BY <1>2, <1>4
<1> HIDE DEF i
<1>6. g[i] = DecodeStep(b, g, i) /\ g[i] \notin Seq(FieldsOf(b))
  BY <1>1, <1>4, <1>5 DEF i
<1>7. CASE i > Len(b) \/ FieldAt(b, i) = NoField
  BY <1>6, <1>7 DEF DecodeStep
<1>8. CASE ~ (i > Len(b) \/ FieldAt(b, i) = NoField)
  <2> DEFINE u == Behind(FieldAt(b, i))
  <2>1. u \in (i + 1)..L
    BY <1>5, <1>8, MovesOn
  <2> HIDE DEF u
  <2>2. L - u \in Nat /\ L - u < L /\ ~ (k <= L - u) /\ L - (L - u) = u
    BY <1>2, <1>4, <1>5, <2>1 DEF i
  <2>3. g[u] \in Seq(FieldsOf(b))
    <3>1. L - u \notin T
      BY <1>3, <2>2
    <3> HIDE DEF L
    <3> QED  BY <2>2, <3>1
  <2>4. FieldAt(b, i) \in FieldsOf(b)
    BY <1>5, <1>8 DEF FieldsOf
  <2>5. g[i] = <<FieldAt(b, i)>> \o g[u]
    BY <1>6, <1>8 DEF DecodeStep, u
  <2>6. <<FieldAt(b, i)>> \in Seq(FieldsOf(b))
    BY <2>4
  <2> QED  BY <1>6, <2>3, <2>5, <2>6, ConcatProperties
<1> QED  BY <1>7, <1>8

\* Every field that was decoded is FieldAt of some place, and lies in the blob.
LEMMA DecodedField ==
  ASSUME NEW b \in Seq(0..255), NEW k \in DOMAIN Decode(b)
  PROVE  \E i \in 1..Len(b) : /\ Decode(b)[k] = FieldAt(b, i) /\ FieldAt(b, i) # NoField
                              /\ Inside(b, i, FieldAt(b, i))
<1>1. Decode(b)[k] \in FieldsOf(b)
  BY DecodedFields, LenProperties, ElementOfSeq
<1>2. PICK i \in 1..Len(b) : Decode(b)[k] = FieldAt(b, i) /\ FieldAt(b, i) # NoField
  BY <1>1 DEF FieldsOf
<1> QED  BY <1>2, FieldAtInBlob

-----------------------------------------------------------------------------
(* Messages of one and of two fields.                                          *)

\* The blob decodes to the fields of m, each <<number, payload>>.
IsMessage(b, m) ==
  /\ DOMAIN Decode(b) = DOMAIN m
  /\ \A k \in DOMAIN m : /\ Decode(b)[k].no = m[k][1] /\ Decode(b)[k].wire = 2
                         /\ PayloadOf(b, k) = m[k][2]

LEMMA NothingDecoded == Decode(<<>>) = <<>>
<1> DEFINE b == <<>>
<1>1. b \in Seq(0..255) /\ Len(b) = 0
  OBVIOUS
<1> HIDE DEF b
<1>2. PICK g : /\ \A i \in 1..(Len(b) + 1) : g[i] = DecodeStep(b, g, i)
               /\ Decode(b) = g[1]
  BY <1>1, DecodeIs
<1>3. g[1] = DecodeStep(b, g, 1)
  BY <1>1, <1>2
<1> QED  BY <1>1, <1>2, <1>3 DEF DecodeStep, b

LEMMA FieldIsBytes ==
  ASSUME NEW no \in 1..2, NEW p \in Seq(0..255), Len(p) <= MaxLength
  PROVE  /\ LengthDelimited(no, p) \in Seq(0..255)
         /\ Len(LengthDelimited(no, p)) \in Nat \ {0}
         /\ Len(LengthDelimited(no, p)) <= Len(p) + 10
<1>1. no \in Nat /\ no < TwoTo29 /\ Len(p) \in Nat
  BY DEF TwoTo29
<1>2. PICK n, m \in 1..5 : \E a, c : Made(no, p, n, m, a, c)
  BY <1>1, FieldBytes
<1>3. PICK a, c : Made(no, p, n, m, a, c)
  BY <1>2
<1>4. Len(LengthDelimited(no, p)) = n + m + Len(p)
  BY <1>3 DEF Made
<1>5. Varint[no * 8 + 2] \in Seq(0..255) /\ Varint[Len(p)] \in Seq(0..255)
  BY <1>3 DEF Made, Groups
<1>6. LengthDelimited(no, p) \in Seq(0..255)
  BY <1>5, ConcatProperties DEF LengthDelimited
<1> QED  BY <1>1, <1>4, <1>6

\* The field at i of a blob, if it was written there and ends inside the blob.
LEMMA FieldDecoded ==
  ASSUME NEW b \in Seq(0..255), NEW i \in 1..Len(b), NEW no \in 1..2,
         NEW p \in Seq(0..255), Len(p) <= MaxLength, LiesAt(b, i, LengthDelimited(no, p)),
         i + Len(LengthDelimited(no, p)) - 1 <= Len(b)
  PROVE  LET f == FieldAt(b, i)
         IN  /\ f # NoField /\ f.no = no /\ f.wire = 2 /\ Payload(b, f) = p
             /\ Behind(f) = i + Len(LengthDelimited(no, p))
<1> DEFINE f == FieldAt(b, i)
           n == Len(LengthDelimited(no, p))
           e == i + n - 1
<1>1. no \in Nat /\ no < TwoTo29 /\ Lesser(no, 16) = no
  BY DEF TwoTo29, Lesser
<1>2. n \in Nat \ {0} /\ Reads(b, i, no, p, e)
  BY <1>1, FieldRead
<1>3. /\ f = [no |-> no, wire |-> 2, from |-> e - Len(p) + 1, to |-> e]
      /\ SubSeq(b, e - Len(p) + 1, e) = p
  <2>1. e <= Len(b)
    OBVIOUS
  <2> HIDE DEF e
  <2> QED  BY <1>1, <1>2, <2>1 DEF Reads
<1> HIDE DEF f
<1>4. f.no = no /\ f.wire = 2 /\ f.from = e - Len(p) + 1 /\ f.to = e
  BY <1>3
<1>5. f # NoField
  <2>1. NoField.wire = 3
    BY DEF NoField
  <2> QED  BY <1>4, <2>1
<1>6. e + 1 = i + n
  <2> HIDE DEF n
  <2> QED  BY <1>2
<1> HIDE DEF e, n
<1>7. Payload(b, f) = p
  BY <1>3, <1>4 DEF Payload
<1>8. Behind(f) = i + n
  BY <1>4, <1>6 DEF Behind
<1> QED  BY <1>4, <1>5, <1>7, <1>8 DEF f, n

LEMMA Joined ==
  ASSUME NEW f, NEW h
  PROVE  <<f>> \o <<>> = <<f>> /\ <<f>> \o <<h>> = <<f, h>>
<1> DEFINE S == {f, h}
<1>1. <<f>> \in Seq(S) /\ <<h>> \in Seq(S) /\ <<f, h>> \in Seq(S)
  OBVIOUS
<1> HIDE DEF S
<1>2. <<f>> \o <<>> = <<f>>
  BY <1>1, ConcatEmptySeq
<1>3. /\ Len(<<f>>) = 1 /\ Len(<<h>>) = 1 /\ Len(<<f, h>>) = 2 /\ <<f>>[1] = f /\ <<h>>[1] = h
      /\ <<f, h>>[1] = f /\ <<f, h>>[2] = h
  OBVIOUS
<1> DEFINE u == <<f>> \o <<h>>
           v == <<f, h>>
<1>4. u \in Seq(S) /\ Len(u) = 2 /\ u[1] = f /\ u[2] = h
  BY <1>1, <1>3, ConcatProperties
<1>5. v \in Seq(S) /\ Len(v) = 2 /\ v[1] = f /\ v[2] = h
  BY <1>1, <1>3
<1> HIDE DEF u, v
<1>6. \A i \in 1..2 : u[i] = v[i]
  <2>1. \A i \in 1..2 : i = 1 \/ i = 2
    OBVIOUS
  <2> QED  BY <1>4, <1>5, <2>1
<1>7. u = v
  BY <1>4, <1>5, <1>6, SeqEqual
<1> QED  BY <1>2, <1>7 DEF u, v

LEMMA LiesInItself ==
  ASSUME NEW b \in Seq(0..255)
  PROVE  LiesAt(b, 1, b)
<1>1. DOMAIN b = 1..Len(b) /\ Len(b) \in Nat
  OBVIOUS
<1>2. ASSUME NEW j \in DOMAIN b
      PROVE  1 + j - 1 = j
  BY <1>1
<1> QED  BY <1>2 DEF LiesAt

LEMMA OneFieldDecoded ==
  ASSUME NEW no \in 1..2, NEW p \in Seq(0..255), Len(p) <= MaxLength
  PROVE  IsMessage(LengthDelimited(no, p), <<<<no, p>>>>)
<1> DEFINE b == LengthDelimited(no, p)
           f == FieldAt(b, 1)
<1>1. b \in Seq(0..255) /\ Len(b) \in Nat \ {0}
  BY FieldIsBytes
<1>2. LiesAt(b, 1, b)
  <2> HIDE DEF b
  <2> QED  BY <1>1, LiesInItself
<1>3. 1 \in 1..Len(b) /\ 1 + Len(b) - 1 <= Len(b) /\ 1 + Len(b) = Len(b) + 1
      /\ ~ (1 > Len(b)) /\ Len(b) + 1 > Len(b)
      /\ Len(b) + 1 \in 1..(Len(b) + 1) /\ 1 \in 1..(Len(b) + 1)
  <2> HIDE DEF b
  <2> QED  BY <1>1
<1>4. f # NoField /\ f.no = no /\ f.wire = 2 /\ Payload(b, f) = p /\ Behind(f) = 1 + Len(b)
  BY <1>1, <1>2, <1>3, FieldDecoded
<1> HIDE DEF b, f
<1>5. PICK g : /\ \A i \in 1..(Len(b) + 1) : g[i] = DecodeStep(b, g, i)
               /\ Decode(b) = g[1]
  BY <1>1, DecodeIs
<1>6. Decode(b) = <<f>>
  <2>1. g[Len(b) + 1] = <<>>
    BY <1>3, <1>5 DEF DecodeStep
  <2>2. g[1] = <<f>> \o g[Len(b) + 1]
    <3>1. g[1] = <<f>> \o g[Behind(f)]
      BY <1>3, <1>4, <1>5 DEF DecodeStep, f
    <3> QED  BY <1>3, <1>4, <3>1
  <2> QED  BY <1>5, <2>1, <2>2, Joined
<1>7. IsMessage(b, <<<<no, p>>>>)
  BY <1>4, <1>6 DEF IsMessage, PayloadOf
<1> QED  BY <1>7 DEF b

LEMMA TwoFieldsDecoded ==
  ASSUME NEW p \in Seq(0..255), Len(p) <= MaxLength,
         NEW q \in Seq(0..255), Len(q) <= MaxLength
  PROVE  IsMessage(LengthDelimited(1, p) \o LengthDelimited(2, q), <<<<1, p>>, <<2, q>>>>)
<1> DEFINE s == LengthDelimited(1, p)
           t == LengthDelimited(2, q)
           b == s \o t
           m == Len(s) + 1
           f == FieldAt(b, 1)
           h == FieldAt(b, m)
<1>1. s \in Seq(0..255) /\ Len(s) \in Nat \ {0} /\ t \in Seq(0..255) /\ Len(t) \in Nat \ {0}
  BY FieldIsBytes
<1>2. /\ b \in Seq(0..255) /\ Len(b) = Len(s) + Len(t) /\ LiesAt(b, 1, b)
      /\ LiesAt(b, 1, s) /\ LiesAt(b, 1 + Len(s), t)
  <2> HIDE DEF s, t
  <2>1. b \in Seq(0..255) /\ Len(b) = Len(s) + Len(t)
    BY <1>1
  <2>2. LiesAt(b, 1, b)
    <3> HIDE DEF b
    <3> QED  BY <2>1, LiesInItself
  <2>3. 1 \in Nat
    OBVIOUS
  <2> QED  BY <1>1, <2>1, <2>2, <2>3, LiesBehind
<1>3. /\ 1 \in 1..Len(b) /\ 1 + Len(s) - 1 <= Len(b) /\ 1 + Len(s) = m
      /\ m \in 1..Len(b) /\ m + Len(t) - 1 <= Len(b) /\ m + Len(t) = Len(b) + 1
      /\ ~ (1 > Len(b)) /\ ~ (m > Len(b)) /\ Len(b) + 1 > Len(b)
      /\ Len(b) + 1 \in 1..(Len(b) + 1) /\ 1 \in 1..(Len(b) + 1) /\ m \in 1..(Len(b) + 1)
  <2> HIDE DEF s, t, b
  <2> QED  BY <1>1, <1>2
<1>4. f # NoField /\ f.no = 1 /\ f.wire = 2 /\ Payload(b, f) = p /\ Behind(f) = 1 + Len(s)
  <2> HIDE DEF b
  <2> QED  BY <1>2, <1>3, FieldDecoded
<1>5. h # NoField /\ h.no = 2 /\ h.wire = 2 /\ Payload(b, h) = q /\ Behind(h) = m + Len(t)
  <2>1. LiesAt(b, m, t)
    BY <1>2, <1>3
  <2> HIDE DEF b, m
  <2> QED  BY <1>2, <1>3, <2>1, FieldDecoded
<1> HIDE DEF b, f, h, m
<1>6. PICK g : /\ \A i \in 1..(Len(b) + 1) : g[i] = DecodeStep(b, g, i)
               /\ Decode(b) = g[1]
  BY <1>2, DecodeIs
<1>7. Decode(b) = <<f, h>>
  <2>1. g[Len(b) + 1] = <<>>
    BY <1>3, <1>6 DEF DecodeStep
  <2>2. g[m] = <<h>> \o g[Len(b) + 1]
    <3>1. g[m] = <<h>> \o g[Behind(h)]
      BY <1>3, <1>5, <1>6 DEF DecodeStep, h
    <3> QED  BY <1>3, <1>5, <3>1
  <2>3. g[1] = <<f>> \o g[m]
    <3>1. g[1] = <<f>> \o g[Behind(f)]
      BY <1>3, <1>4, <1>6 DEF DecodeStep, f
    <3> QED  BY <1>3, <1>4, <3>1
  <2> HIDE DEF s, t
  <2>4. Decode(b) = <<f>> \o (<<h>> \o <<>>)
    BY <1>6, <2>1, <2>2, <2>3
  <2> QED  BY <2>4, Joined
<1>8. IsMessage(b, <<<<1, p>>, <<2, q>>>>)
  <2> DEFINE r == <<<<1, p>>, <<2, q>>>>
  <2>1. DOMAIN r = {1, 2} /\ DOMAIN Decode(b) = {1, 2}
    BY <1>7
  <2>2. r[1][1] = 1 /\ r[1][2] = p /\ r[2][1] = 2 /\ r[2][2] = q
    OBVIOUS
  <2>3. Decode(b)[1] = f /\ Decode(b)[2] = h
    BY <1>7
  <2> HIDE DEF r
  <2>4. IsMessage(b, r)
    BY <1>4, <1>5, <2>1, <2>2, <2>3 DEF IsMessage, PayloadOf
  <2> QED  BY <2>4 DEF r
<1> QED  BY <1>8 DEF b

-----------------------------------------------------------------------------
(* What the getters find.                                                      *)

LEMMA FirstIsOnly ==
  ASSUME NEW b, NEW k \in Int
  PROVE  FirstOf(b, {k}) = PayloadOf(b, k) /\ LastOf(b, {k}) = PayloadOf(b, k)
<1>1. Min({k}) = k /\ Max({k}) = k
  BY DEF Min, Max
<1> QED  BY <1>1 DEF FirstOf, LastOf

\* An empty blob has no field.
LEMMA NothingThere ==
  /\ \A no \in 1..2 : Numbered(<<>>, no) = {}
  /\ GetBytes(<<>>, 1) = <<>> /\ Full(<<>>) = {}
BY NothingDecoded DEF Numbered, Delimiteds, GetBytes, FirstOf, Full

LEMMA OneFieldThere ==
  ASSUME NEW b, NEW p, IsMessage(b, <<<<1, p>>>>)
  PROVE  /\ Delimiteds(b) = {1} /\ PayloadOf(b, 1) = p
         /\ GetBytes(b, 1) = p /\ AnyValue(b) = <<>>
         /\ AnyUrl(b) \in {p, <<>>}
         /\ p # <<>> => TicketHandle(b) = p
<1> DEFINE m == <<<<1, p>>>>
<1>1. DOMAIN m = {1} /\ m[1][1] = 1 /\ m[1][2] = p
  OBVIOUS
<1> HIDE DEF m
<1>2. IsMessage(b, m)
  BY DEF m
<1>3. /\ DOMAIN Decode(b) = {1} /\ Decode(b)[1].no = 1 /\ Decode(b)[1].wire = 2
      /\ PayloadOf(b, 1) = p
  BY <1>1, <1>2 DEF IsMessage
<1>4. Delimiteds(b) = {1} /\ Numbered(b, 1) = {1} /\ Numbered(b, 2) = {}
  BY <1>3 DEF Delimiteds, Numbered
<1>5. GetBytes(b, 1) = p /\ AnyValue(b) = <<>>
  BY <1>3, <1>4, FirstIsOnly DEF GetBytes, AnyValue, LastOf
<1>6. AnyUrl(b) \in {p, <<>>}
  <2> DEFINE S == {k \in Numbered(b, 1) : Invalid(PayloadOf(b, k)) = {}}
  <2>1. S = {1} \/ S = {}
    BY <1>4
  <2>2. AnyUrl(b) = LastOf(b, S)
    BY DEF AnyUrl
  <2> HIDE DEF S
  <2> QED  BY <1>3, <2>1, <2>2, FirstIsOnly DEF LastOf
<1>7. ASSUME p # <<>> PROVE TicketHandle(b) = p
  <2>1. Full(b) = {1}
    BY <1>3, <1>4, <1>7 DEF Full
  <2> QED  BY <1>3, <2>1, FirstIsOnly DEF TicketHandle
<1> QED  BY <1>3, <1>4, <1>5, <1>6, <1>7

LEMMA TwoFieldsThere ==
  ASSUME NEW b, NEW p, NEW q, IsMessage(b, <<<<1, p>>, <<2, q>>>>)
  PROVE  /\ GetBytes(b, 1) = p /\ GetBytes(b, 2) = q /\ AnyValue(b) = q
         /\ Invalid(p) = {} => AnyUrl(b) = p
<1> DEFINE m == <<<<1, p>>, <<2, q>>>>
<1>1. DOMAIN m = {1, 2} /\ m[1][1] = 1 /\ m[1][2] = p /\ m[2][1] = 2 /\ m[2][2] = q
  OBVIOUS
<1> HIDE DEF m
<1>2. IsMessage(b, m)
  BY DEF m
<1>3. /\ DOMAIN Decode(b) = {1, 2} /\ Decode(b)[1].no = 1 /\ Decode(b)[1].wire = 2
      /\ Decode(b)[2].no = 2 /\ Decode(b)[2].wire = 2
      /\ PayloadOf(b, 1) = p /\ PayloadOf(b, 2) = q
  BY <1>1, <1>2 DEF IsMessage
<1>4. Numbered(b, 1) = {1} /\ Numbered(b, 2) = {2}
  BY <1>3 DEF Delimiteds, Numbered
<1>5. GetBytes(b, 1) = p /\ GetBytes(b, 2) = q /\ AnyValue(b) = q
  BY <1>3, <1>4, FirstIsOnly DEF GetBytes, AnyValue
<1>6. ASSUME Invalid(p) = {} PROVE AnyUrl(b) = p
  <2>1. {k \in Numbered(b, 1) : Invalid(PayloadOf(b, k)) = {}} = {1}
    BY <1>3, <1>4, <1>6
  <2> QED  BY <1>3, <2>1, FirstIsOnly DEF AnyUrl
<1> QED  BY <1>5, <1>6

\* An Any is taken apart into the name and the value that it was made of.
Names == {StatementQuery, PreparedQuery, CreateRequest, CreateResult, CloseRequest}

LEMMA AnyThere ==
  ASSUME NEW name \in Names, NEW v \in Seq(0..255), Len(v) <= MaxLength, 2 <= MaxLength
  PROVE  LET b == EncodeAny(name, v)
         IN  /\ AnyUrl(b) = <<Google, name>> /\ AnyValue(b) = v
             /\ \A names \in SUBSET Names : HasName(AnyUrl(b), names) <=> name \in names
<1> DEFINE url == <<Google, name>>
           b == EncodeAny(name, v)
<1>1. /\ url \in Seq(0..255) /\ Len(url) = 2 /\ DOMAIN url = {1, 2}
      /\ url[1] = Google /\ url[2] = name /\ name \in 65..69
  BY DEF Names, Google, StatementQuery, PreparedQuery, CreateRequest, CreateResult, CloseRequest
<1> HIDE DEF url
<1>2. Invalid(url) = {}
  <2>1. url[1] = 116 /\ url[2] \in 65..69
    BY <1>1 DEF Google
  <2> QED  BY <1>1, <2>1 DEF Invalid, Lead, Trail
<1>3. IsMessage(b, <<<<1, url>>, <<2, v>>>>)
  BY <1>1, TwoFieldsDecoded DEF EncodeAny, url
<1> HIDE DEF b
<1>4. AnyUrl(b) = url /\ AnyValue(b) = v
  BY <1>2, <1>3, TwoFieldsThere
<1>5. ASSUME NEW names \in SUBSET Names
      PROVE  HasName(url, names) <=> name \in names
  <2>1. name # Google
    BY <1>1 DEF Google
  <2>2. HasName(url, names) <=> \E k \in {1, 2} : url[k] = Google /\ k < 2 /\ url[k + 1] \in names
    BY <1>1 DEF HasName
  <2>3. 1 + 1 = 2 /\ 1 < 2
    OBVIOUS
  <2> QED  BY <1>1, <2>1, <2>2, <2>3
<1> QED  BY <1>4, <1>5 DEF b, url

-----------------------------------------------------------------------------
(* Texts.                                                                      *)

LEMMA LossyIs ==
  ASSUME NEW s \in Seq(0..255), Invalid(s) = {}
  PROVE  Lossy(s) = s
<1>1. s = [k \in DOMAIN s |-> s[k]]
  BY LenProperties
<1>2. Lossy(s) = [k \in DOMAIN s |-> s[k]]
  BY Zenon DEF Lossy
<1> QED  BY <1>1, <1>2

LEMMA NoText == Lossy(<<>>) = <<>> /\ Trim(<<>>) = <<>>
<1>1. <<>> \in Seq(0..255) /\ DOMAIN <<>> = {}
  OBVIOUS
<1>2. Invalid(<<>>) = {}
  BY <1>1 DEF Invalid
<1> QED  BY <1>1, <1>2, LossyIs DEF Trim

\* A text of ASCII characters is UTF-8.
LEMMA AsciiIsValid ==
  ASSUME NEW s, \A k \in DOMAIN s : s[k] \in 0..127
  PROVE  Invalid(s) = {}
<1>1. ASSUME NEW k \in DOMAIN s
      PROVE  s[k] # 195 /\ s[k] # 169 /\ ~ (s[k] > 127)
  <2>1. s[k] \in 0..127
    OBVIOUS
  <2> QED  BY <2>1
<1>2. ASSUME NEW k \in Invalid(s)
      PROVE  k \in DOMAIN s /\ (s[k] = 195 \/ s[k] = 169 \/ s[k] > 127)
  BY DEF Invalid, Lead, Trail
<1> QED  BY <1>1, <1>2

\* Trimming keeps everything from the first to the last character that is no space.
LEMMA TrimIs ==
  ASSUME NEW s \in Seq(0..255), NEW i \in 1..Len(s), s[i] \notin Space
  PROVE  \E lo, hi \in 1..Len(s) :
           /\ lo <= i /\ i <= hi /\ s[lo] \notin Space
           /\ Trim(s) \in Seq(0..255) /\ Len(Trim(s)) = hi - lo + 1
           /\ DOMAIN Trim(s) = 1..(hi - lo + 1)
           /\ \A j \in 1..(hi - lo + 1) : Trim(s)[j] = s[lo + j - 1]
<1> DEFINE kept == {k \in DOMAIN s : s[k] \notin Space}
           n == Len(s)
           T == {j \in Nat : j <= n /\ n - j \in kept}
<1>1. n \in Nat /\ DOMAIN s = 1..n /\ i \in kept /\ kept \subseteq 1..n
  OBVIOUS
<1>2. PICK lo \in kept : \A j \in kept : lo <= j
  <2>1. kept \in SUBSET Nat /\ kept # {}
    BY <1>1
  <2> HIDE DEF kept
  <2> QED  BY <2>1, LeastOf
<1>3. PICK hi \in kept : \A j \in kept : j <= hi
  <2>1. T \in SUBSET Nat
    OBVIOUS
  <2>2. n - i \in T
    <3> HIDE DEF kept, n
    <3>1. n - (n - i) = i /\ n - i \in Nat /\ n - i <= n
      BY <1>1
    <3> QED  BY <1>1, <3>1
  <2>3. PICK m \in T : \A j \in T : m <= j
    <3> HIDE DEF T
    <3> QED  BY <2>1, <2>2, LeastOf
  <2>4. m \in Nat /\ m <= n /\ n - m \in kept
    BY <2>3
  <2>5. ASSUME NEW j \in kept
        PROVE  j <= n - m
    <3> HIDE DEF kept, n
    <3>1. j \in 1..n
      BY <1>1
    <3>2. n - (n - j) = j /\ n - j \in Nat /\ n - j <= n
      BY <1>1, <3>1
    <3>3. n - j \in T
      BY <3>2
    <3>4. m <= n - j
      BY <2>3, <3>3
    <3> QED  BY <1>1, <2>4, <3>1, <3>4
  <2> QED  BY <2>4, <2>5
<1>4. lo \in 1..n /\ hi \in 1..n /\ lo <= i /\ i <= hi /\ s[lo] \notin Space
  BY <1>1, <1>2, <1>3
<1>5. Min(kept) = lo /\ Max(kept) = hi
  <2> HIDE DEF kept
  <2>1. \A j \in kept : j \in Int
    BY <1>1
  <2>2. ASSUME NEW j \in kept, \A k \in kept : j <= k
        PROVE  j = lo
    <3>1. j <= lo /\ lo <= j /\ j \in Int /\ lo \in Int
      BY <1>2, <2>1, <2>2
    <3> QED  BY <3>1
  <2>3. ASSUME NEW j \in kept, \A k \in kept : j >= k
        PROVE  j = hi
    <3>1. j <= hi /\ j >= hi /\ j \in Int /\ hi \in Int
      BY <1>3, <2>1, <2>3
    <3> QED  BY <3>1
  <2>4. \A k \in kept : hi >= k
    <3> TAKE k \in kept
    <3>1. k <= hi /\ k \in Int /\ hi \in Int
      BY <1>3, <2>1
    <3> QED  BY <3>1
  <2>5. Min(kept) \in kept /\ \A k \in kept : Min(kept) <= k
    BY <1>2 DEF Min
  <2>6. Max(kept) \in kept /\ \A k \in kept : Max(kept) >= k
    BY <2>4 DEF Max
  <2> QED  BY <2>2, <2>3, <2>5, <2>6
<1>6. Trim(s) = SubSeq(s, lo, hi)
  <2>1. kept # {}
    BY <1>1
  <2>2. Trim(s) = IF kept = {} THEN <<>> ELSE SubSeq(s, Min(kept), Max(kept))
    BY DEF Trim
  <2> HIDE DEF kept
  <2> QED  BY <1>5, <2>1, <2>2
<1> HIDE DEF kept
<1>7. /\ SubSeq(s, lo, hi) \in Seq(0..255) /\ Len(SubSeq(s, lo, hi)) = hi - lo + 1
      /\ \A j \in 1..(hi - lo + 1) : SubSeq(s, lo, hi)[j] = s[lo + j - 1]
  <2>1. lo \in Int /\ hi \in Int /\ lo <= hi
    BY <1>4
  <2>2. \A j \in lo..hi : s[j] \in 0..255
    <3> TAKE j \in lo..hi
    <3>1. j \in 1..Len(s)
      BY <1>1, <1>4
    <3> QED  BY <3>1, ElementOfSeq
  <2> QED  BY <2>1, <2>2, SubSeqProperties
<1>8. DOMAIN SubSeq(s, lo, hi) = 1..(hi - lo + 1)
  BY <1>7, LenProperties
<1> QED  BY <1>4, <1>6, <1>7, <1>8

\* Trimming a text takes no keyword away and glues nothing to it.
LEMMA TrimmedQuery ==
  ASSUME NEW s \in Seq(0..255), LooksLikeQuery(s)
  PROVE  LooksLikeQuery(Trim(s))
<1>1. Len(s) \in Nat /\ DOMAIN s = 1..Len(s)
  OBVIOUS
<1>2. PICK i \in 1..Len(s) : /\ s[i] = K
                             /\ i > 1 => s[i - 1] \notin Word
                             /\ i < Len(s) => s[i + 1] \notin Word
  BY <1>1 DEF LooksLikeQuery
<1>3. s[i] \notin Space
  BY <1>2 DEF K, Space
<1> DEFINE r == Trim(s)
<1>4. PICK lo, hi \in 1..Len(s) :
        /\ lo <= i /\ i <= hi /\ s[lo] \notin Space
        /\ Len(r) = hi - lo + 1 /\ DOMAIN r = 1..(hi - lo + 1)
        /\ \A j \in 1..(hi - lo + 1) : r[j] = s[lo + j - 1]
  BY <1>3, TrimIs
<1> HIDE DEF r
<1> DEFINE k == i - lo + 1
           n == hi - lo + 1
<1>5. k \in 1..n /\ n \in Nat /\ lo + k - 1 = i
  BY <1>1, <1>2, <1>4
<1>6. r[k] = K
  BY <1>2, <1>4, <1>5
<1>7. ASSUME k > 1 PROVE r[k - 1] \notin Word
  <2>1. k - 1 \in 1..n /\ lo + (k - 1) - 1 = i - 1 /\ i > 1
    BY <1>1, <1>2, <1>4, <1>5, <1>7, SMTT(30)
  <2> QED  BY <1>2, <1>4, <2>1
<1>8. ASSUME k < n PROVE r[k + 1] \notin Word
  <2>1. k + 1 \in 1..n /\ lo + (k + 1) - 1 = i + 1 /\ i < Len(s)
    BY <1>1, <1>2, <1>4, <1>5, <1>8
  <2> QED  BY <1>2, <1>4, <2>1
<1>9. LooksLikeQuery(r)
  <2> HIDE DEF k, n
  <2> QED  BY <1>4, <1>5, <1>6, <1>7, <1>8 DEF LooksLikeQuery, n
<1> QED  BY <1>9 DEF r

-----------------------------------------------------------------------------
(* Blobs that are no messages.                                                 *)

\* A name that is found in a payload of a text is in the text.
LEMMA NamesInText ==
  ASSUME NEW b \in Seq(0..255), NEW names, ~ HasName(b, names)
  PROVE  ~ HasName(AnyUrl(b), names)
<1> DEFINE S == {k \in Numbered(b, 1) : Invalid(PayloadOf(b, k)) = {}}
<1>1. CASE S = {}
  <2>1. AnyUrl(b) = <<>>
    BY <1>1 DEF AnyUrl, LastOf
  <2> QED  BY <2>1 DEF HasName
<1>2. CASE S # {}
  <2>1. AnyUrl(b) = PayloadOf(b, Max(S))
    BY <1>2 DEF AnyUrl, LastOf
  <2>2. S \subseteq 1..Len(Decode(b)) /\ Len(Decode(b)) \in Nat /\ DOMAIN Decode(b) = 1..Len(Decode(b))
    BY DecodedFields, LenProperties DEF Numbered, Delimiteds
  <2>3. Max(S) \in S
    <3> HIDE DEF S
    <3> DEFINE n == Len(Decode(b))
               T == {j \in Nat : j <= n /\ n - j \in S}
    <3> HIDE DEF n
    <3>1. S \subseteq 1..n /\ n \in Nat
      BY <2>2 DEF n
    <3>2. T \in SUBSET Nat
      OBVIOUS
    <3>3. \A j \in S : n - j \in T /\ n - (n - j) = j
      <4> TAKE j \in S
      <4>1. j \in 1..n
        BY <3>1
      <4>2. n - (n - j) = j /\ n - j \in Nat /\ n - j <= n
        BY <3>1, <4>1
      <4> QED  BY <4>2
    <3>4. PICK m \in T : \A j \in T : m <= j
      <4>1. T # {}
        BY <1>2, <3>3
      <4> HIDE DEF T
      <4> QED  BY <3>2, <4>1, LeastOf
    <3>5. n - m \in S /\ m \in Nat
      BY <3>4
    <3>6. \A j \in S : n - m >= j
      <4> TAKE j \in S
      <4>1. m <= n - j /\ j \in 1..n
        BY <3>1, <3>3, <3>4
      <4> QED  BY <3>1, <3>5, <4>1
    <3> QED  BY <3>5, <3>6 DEF Max
  <2>4. PICK k \in DOMAIN Decode(b) : AnyUrl(b) = PayloadOf(b, k)
    BY <2>1, <2>3 DEF Numbered, Delimiteds
  <2> HIDE DEF S
  <2>5. PICK i \in 1..Len(b) : Decode(b)[k] = FieldAt(b, i) /\ Inside(b, i, FieldAt(b, i))
    BY DecodedField
  <2> DEFINE f == FieldAt(b, i)
             p == SubSeq(b, f.from, f.to)
  <2>6. AnyUrl(b) = p
    BY <2>4, <2>5 DEF PayloadOf, Payload
  <2> HIDE DEF f
  <2>7. f.from \in Nat /\ f.to \in Nat /\ 1 <= f.from /\ f.from <= f.to + 1 /\ f.to <= Len(b)
    BY <2>5 DEF Inside, f
  <2>8. /\ Len(p) \in Nat /\ DOMAIN p = 1..Len(p) /\ Len(b) \in Nat /\ DOMAIN b = 1..Len(b)
        /\ \A j \in 1..Len(p) : p[j] = b[f.from + j - 1] /\ f.from + j - 1 \in 1..Len(b)
    <3>1. \A j \in f.from..f.to : b[j] \in 0..255
      <4> TAKE j \in f.from..f.to
      <4>1. j \in 1..Len(b)
        BY <2>7
      <4> QED  BY <4>1, ElementOfSeq
    <3>2. /\ p \in Seq(0..255) /\ Len(p) = IF f.from <= f.to THEN f.to - f.from + 1 ELSE 0
          /\ \A j \in 1..(f.to - f.from + 1) : p[j] = b[f.from + j - 1]
      <4> DEFINE from == f.from   to == f.to
      <4>1. from \in Int /\ to \in Int
        BY <2>7
      <4>2. \A j \in from..to : b[j] \in 0..255
        BY <3>1
      <4> HIDE DEF from, to
      <4>3. SubSeq(b, from, to) \in Seq(0..255)
        BY <4>1, <4>2, SubSeqProperties
      <4>4. Len(SubSeq(b, from, to)) = IF from <= to THEN to - from + 1 ELSE 0
        BY <4>1, <4>2, SubSeqProperties
      <4>5. \A j \in 1..(to - from + 1) : SubSeq(b, from, to)[j] = b[from + j - 1]
        BY <4>1, <4>2, SubSeqProperties
      <4> QED  BY <4>3, <4>4, <4>5 DEF from, to
    <3>3. Len(p) \in Nat /\ DOMAIN p = 1..Len(p) /\ Len(b) \in Nat /\ DOMAIN b = 1..Len(b)
      BY <3>2, LenProperties, SMTT(30)
    <3> HIDE DEF p
    <3>4. \A j \in 1..Len(p) : j \in 1..(f.to - f.from + 1) /\ f.from + j - 1 \in 1..Len(b)
      BY <2>7, <3>2, <3>3
    <3> QED  BY <3>2, <3>3, <3>4
  <2> HIDE DEF p
  <2> SUFFICES ASSUME HasName(p, names)
               PROVE  HasName(b, names)
    BY <2>6
  <2>9. PICK j \in 1..Len(p) : p[j] = Google /\ j < Len(p) /\ p[j + 1] \in names
    BY <2>8 DEF HasName
  <2> DEFINE m == f.from + j - 1
  <2>10. j + 1 \in 1..Len(p) /\ f.from + (j + 1) - 1 = m + 1 /\ m \in Int
    BY <2>7, <2>8, <2>9
  <2>11. m \in DOMAIN b /\ b[m] = Google /\ m < Len(b) /\ b[m + 1] \in names
    <3>1. m + 1 \in 1..Len(b) /\ p[j + 1] = b[m + 1]
      BY <2>8, <2>10
    <3>2. m \in 1..Len(b) /\ p[j] = b[m]
      BY <2>8, <2>9
    <3> HIDE DEF m
    <3> QED  BY <2>8, <2>9, <2>10, <3>1, <3>2
  <2> HIDE DEF m
  <2> QED  BY <2>11 DEF HasName
<1> QED  BY <1>1, <1>2

\* The digits of a handle are tags of fields that no reader looks for.
LEMMA HandleIsNoMessage ==
  ASSUME NEW b \in Seq(0..255), IsHandle(b)
  PROVE  TicketHandle(b) = b
<1>1. Len(b) \in Nat /\ DOMAIN b = 1..Len(b) /\ \A k \in 1..Len(b) : b[k] \in 48..102
  <2>1. DOMAIN b = 1..Len(b) /\ Len(b) \in Nat
    BY LenProperties
  <2>2. \A x \in (48..57) \cup (97..102) : x \in 48..102
    OBVIOUS
  <2>3. \A k \in DOMAIN b : b[k] \in (48..57) \cup (97..102)
    BY Zenon DEF IsHandle
  <2> QED  BY <2>1, <2>2, <2>3
<1>2. ASSUME NEW i \in 1..Len(b), FieldAt(b, i) # NoField
      PROVE  FieldAt(b, i).no \notin {1, 2}
  <2>1. b[i] \in 48..102 /\ i \in Nat /\ 1 <= i /\ i <= Len(b)
    BY <1>1
  <2>2. VarintEnd(b, i) = i
    <3> DEFINE ends == {j \in i..Lesser(i + 9, Len(b)) : b[j] < 128}
    <3>1. i \in ends /\ ends \in SUBSET Nat /\ \A j \in ends : i <= j
      <4> DEFINE last == Lesser(i + 9, Len(b))
      <4>1. last \in Nat /\ i <= last /\ i <= i
        BY <1>1, <2>1 DEF Lesser
      <4>2. b[i] < 128
        <5> HIDE DEF ends, last
        <5>1. \A x \in 48..102 : x < 128
          OBVIOUS
        <5> QED  BY <2>1, <5>1
      <4> HIDE DEF last
      <4>3. i \in i..last /\ \A j \in i..last : j \in Nat /\ i <= j
        BY <2>1, <4>1
      <4>4. ends = {j \in i..last : b[j] < 128}
        BY DEF last
      <4> HIDE DEF ends
      <4> QED  BY <4>2, <4>3, <4>4
    <3>2. VarintEnd(b, i) = IF ends = {} THEN 0 ELSE Least(ends)
      BY DEF VarintEnd
    <3> HIDE DEF ends
    <3>3. Least(ends) \in ends /\ Least(ends) <= i
      BY <3>1, LeastIsThere
    <3>4. Least(ends) = i
      <4>1. Least(ends) \in Nat /\ i <= Least(ends)
        BY <3>1, <3>3
      <4> QED  BY <2>1, <3>3, <4>1
    <3> QED  BY <3>1, <3>2, <3>4
  <2>3. FieldAt(b, i) = FieldOf(b, FieldNo(b, i, i), b[i] % 8, i + 1)
    BY <2>1, <2>2 DEF FieldAt, Tagged
  <2>4. FieldNo(b, i, i) \in {16, (b[i] % 128) \div 8}
    BY DEF FieldNo
  <2>5. (b[i] % 128) \div 8 \in 6..12
    <3>1. \A x \in 48..102 : (x % 128) \div 8 \in 6..12
      <4> TAKE x \in 48..102
      <4>1. x % 128 = x
        BY SMT
      <4>2. x \div 8 \in 6..12
        BY SMT
      <4> QED  BY <4>1, <4>2
    <3> QED  BY <2>1, <3>1
  <2> DEFINE no == FieldNo(b, i, i)
  <2>6. no \in Int /\ no \notin {1, 2}
    BY <2>4, <2>5
  <2> HIDE DEF no
  <2>7. ASSUME NEW w, NEW s, NEW n, Slice(b, no, w, s, n) # NoField
        PROVE  Slice(b, no, w, s, n).no = no
    BY <2>7 DEF Slice
  <2>8. ASSUME NEW s, NEW e, Delimited(b, no, s, e) # NoField
        PROVE  Delimited(b, no, s, e).no = no
    <3>1. Delimited(b, no, s, e) \in {NoField, Slice(b, no, 2, e + 1, Length(b, s, e))}
      BY Zenon DEF Delimited
    <3> QED  BY <2>7, <2>8, <3>1
  <2>9. \A s : Number(b, no, s).no = no
    BY DEF Number
  <2> DEFINE s == i + 1
  <2> HIDE DEF s
  <2>10. FieldAt(b, i)
           \in {Delimited(b, no, s, VarintEnd(b, s)), Number(b, no, s), Slice(b, no, 1, s, 8),
                Slice(b, no, 5, s, 4), NoField}
    BY <2>3 DEF FieldOf, s, no
  <2>11. FieldAt(b, i).no = no
    BY <1>2, <2>7, <2>8, <2>9, <2>10
  <2> QED  BY <2>6, <2>11
<1>3. \A no \in {1, 2} : Numbered(b, no) = {}
  <2> SUFFICES ASSUME NEW k \in DOMAIN Decode(b)
               PROVE  Decode(b)[k].no \notin {1, 2}
    BY DEF Numbered, Delimiteds
  <2> QED  BY <1>2, DecodedField
<1>4. Full(b) = {} /\ AnyValue(b) = <<>>
  BY <1>3 DEF Full, AnyValue, LastOf
<1> QED  BY <1>4, NothingThere DEF TicketHandle

-----------------------------------------------------------------------------
(* Every kind of message.                                                      *)

\* A message of one field inside an Any.
LEMMA WrappedField ==
  ASSUME NEW name \in Names, NEW p \in Seq(0..255), Len(p) + 20 <= MaxLength
  PROVE  LET v == LengthDelimited(1, p)
             b == EncodeAny(name, v)
         IN  /\ AnyUrl(b) # <<>> /\ AnyValue(b) = v /\ v # <<>> /\ GetBytes(v, 1) = p
             /\ \A names \in SUBSET Names : HasName(AnyUrl(b), names) <=> name \in names
<1> DEFINE v == LengthDelimited(1, p)
           b == EncodeAny(name, v)
<1>1. Len(p) \in Nat /\ MaxLength \in Nat
  BY MaxLengthAssumption, LenProperties
<1>2. Len(p) <= MaxLength /\ 2 <= MaxLength
  BY <1>1
<1>3. v \in Seq(0..255) /\ Len(v) \in Nat \ {0} /\ Len(v) <= Len(p) + 10
  BY <1>2, FieldIsBytes
<1>4. IsMessage(v, <<<<1, p>>>>)
  BY <1>2, OneFieldDecoded
<1> HIDE DEF v
<1>5. Len(v) <= MaxLength /\ v # <<>>
  BY <1>1, <1>3
<1>6. /\ AnyUrl(b) = <<Google, name>> /\ AnyValue(b) = v
      /\ \A names \in SUBSET Names : HasName(AnyUrl(b), names) <=> name \in names
  BY <1>2, <1>3, <1>5, AnyThere
<1>7. AnyUrl(b) # <<>>
  <2> HIDE DEF b
  <2>1. <<Google, name>> # <<>>
    OBVIOUS
  <2> QED  BY <1>6, <2>1
<1>8. GetBytes(v, 1) = p
  BY <1>4, OneFieldThere
<1> QED  BY <1>5, <1>6, <1>7, <1>8 DEF v, b

LEMMA CreateRead ==
  ASSUME NEW p \in Seq(0..255), Len(p) + 20 <= MaxLength, Invalid(p) = {}, p # <<>>
  PROVE  ParseCreate(EncodeAny(CreateRequest, LengthDelimited(1, p))) = p
<1> DEFINE b == EncodeAny(CreateRequest, LengthDelimited(1, p))
<1>1. /\ CreateRequest \in Names /\ {CreateRequest, CreateResult} \in SUBSET Names
      /\ CreateRequest \in {CreateRequest, CreateResult}
  BY DEF Names
<1>2. HasName(AnyUrl(b), {CreateRequest, CreateResult}) /\ GetBytes(AnyValue(b), 1) = p
  BY <1>1, WrappedField
<1> HIDE DEF b
<1>3. GetStr(AnyValue(b), 1) = p
  BY <1>2, LossyIs DEF GetStr
<1>4. ParseCreate(b) = p
  BY <1>2, <1>3 DEF ParseCreate
<1> QED  BY <1>4 DEF b

LEMMA BareCreateRead ==
  ASSUME NEW p \in Seq(0..255), Len(p) + 20 <= MaxLength, Invalid(p) = {}, p # <<>>
  PROVE  ParseCreate(LengthDelimited(1, p)) = p
<1> DEFINE b == LengthDelimited(1, p)
<1>1. Len(p) <= MaxLength
  BY MaxLengthAssumption, LenProperties
<1>2. IsMessage(b, <<<<1, p>>>>)
  BY <1>1, OneFieldDecoded
<1> HIDE DEF b
<1>3. GetBytes(b, 1) = p /\ AnyValue(b) = <<>>
  BY <1>2, OneFieldThere
<1>4. GetStr(b, 1) = p /\ GetStr(AnyValue(b), 1) = <<>>
  BY <1>3, LossyIs, NothingThere, NoText DEF GetStr
<1>5. ParseCreate(b) = p
  BY <1>4 DEF ParseCreate
<1> QED  BY <1>5 DEF b

LEMMA StatementRead ==
  ASSUME NEW p \in Seq(0..255), Len(p) + 20 <= MaxLength, Invalid(p) = {}
  PROVE  ResolveDescriptor(EncodeAny(StatementQuery, LengthDelimited(1, p))) = <<"query", p>>
<1> DEFINE b == EncodeAny(StatementQuery, LengthDelimited(1, p))
<1>1. /\ StatementQuery \in Names /\ {StatementQuery} \in SUBSET Names
      /\ {PreparedQuery} \in SUBSET Names /\ StatementQuery \notin {PreparedQuery}
  BY DEF Names, StatementQuery, PreparedQuery
<1>2. /\ HasName(AnyUrl(b), {StatementQuery}) /\ ~ HasName(AnyUrl(b), {PreparedQuery})
      /\ AnyValue(b) # <<>> /\ GetBytes(AnyValue(b), 1) = p
  BY <1>1, WrappedField
<1> HIDE DEF b
<1>3. GetStr(AnyValue(b), 1) = p
  BY <1>2, LossyIs DEF GetStr
<1>4. ResolveDescriptor(b) = <<"query", p>>
  BY <1>2, <1>3 DEF ResolveDescriptor
<1> QED  BY <1>4 DEF b

LEMMA PreparedRead ==
  ASSUME NEW p \in Seq(0..255), Len(p) + 20 <= MaxLength
  PROVE  ResolveDescriptor(EncodeAny(PreparedQuery, LengthDelimited(1, p))) = <<"handle", p>>
<1> DEFINE b == EncodeAny(PreparedQuery, LengthDelimited(1, p))
<1>1. PreparedQuery \in Names /\ {PreparedQuery} \in SUBSET Names
  BY DEF Names
<1>2. HasName(AnyUrl(b), {PreparedQuery}) /\ GetBytes(AnyValue(b), 1) = p
  BY <1>1, WrappedField
<1> HIDE DEF b
<1>3. ResolveDescriptor(b) = <<"handle", p>>
  BY <1>2 DEF ResolveDescriptor
<1> QED  BY <1>3 DEF b

LEMMA ResultRead ==
  ASSUME NEW p \in Seq(0..255), NEW q \in Seq(0..255), Len(p) + Len(q) + 20 <= MaxLength
  PROVE  ParseResult(EncodeAny(CreateResult, LengthDelimited(1, p) \o LengthDelimited(2, q)))
           = <<p, q>>
<1> DEFINE s == LengthDelimited(1, p)
           t == LengthDelimited(2, q)
           v == s \o t
           b == EncodeAny(CreateResult, v)
<1>1. Len(p) \in Nat /\ Len(q) \in Nat /\ MaxLength \in Nat
  BY MaxLengthAssumption, LenProperties
<1>2. Len(p) <= MaxLength /\ Len(q) <= MaxLength /\ 2 <= MaxLength
  BY <1>1
<1>3. /\ s \in Seq(0..255) /\ Len(s) \in Nat \ {0} /\ Len(s) <= Len(p) + 10
      /\ t \in Seq(0..255) /\ Len(t) \in Nat \ {0} /\ Len(t) <= Len(q) + 10
  BY <1>2, FieldIsBytes
<1>4. IsMessage(v, <<<<1, p>>, <<2, q>>>>)
  BY <1>2, TwoFieldsDecoded
<1>5. v \in Seq(0..255) /\ Len(v) = Len(s) + Len(t)
  <2> HIDE DEF s, t
  <2> QED  BY <1>3, ConcatProperties
<1> HIDE DEF s, t, v
<1>6. Len(v) <= MaxLength /\ v # <<>>
  BY <1>1, <1>3, <1>5
<1>7. AnyUrl(b) = <<Google, CreateResult>> /\ AnyValue(b) = v
  BY <1>2, <1>5, <1>6, AnyThere DEF Names
<1> HIDE DEF b
<1>8. AnyUrl(b) # <<>>
  <2>1. <<Google, CreateResult>> # <<>>
    OBVIOUS
  <2> QED  BY <1>7, <2>1
<1>9. GetBytes(v, 1) = p /\ GetBytes(v, 2) = q
  BY <1>4, TwoFieldsThere
<1>10. ParseResult(b) = <<p, q>>
  BY <1>6, <1>7, <1>8, <1>9 DEF ParseResult
<1> QED  BY <1>10 DEF b, v, s, t

LEMMA CloseRead ==
  ASSUME NEW p \in Seq(0..255), Len(p) + 20 <= MaxLength, p # <<>>
  PROVE  /\ ParseClose(EncodeAny(CloseRequest, LengthDelimited(1, p))) = p
         /\ ParseClose(LengthDelimited(1, p)) = p
         /\ TicketHandle(LengthDelimited(1, p)) = p
<1> DEFINE b == EncodeAny(CloseRequest, LengthDelimited(1, p))
           v == LengthDelimited(1, p)
<1>1. CloseRequest \in Names
  BY DEF Names
<1>2. AnyValue(b) = v /\ v # <<>> /\ GetBytes(v, 1) = p
  BY <1>1, WrappedField
<1>3. Len(p) <= MaxLength
  BY MaxLengthAssumption, LenProperties
<1>4. IsMessage(v, <<<<1, p>>>>)
  BY <1>3, OneFieldDecoded
<1> HIDE DEF b, v
<1>5. AnyValue(v) = <<>> /\ TicketHandle(v) = p
  BY <1>4, OneFieldThere
<1>6. ParseClose(b) = p /\ ParseClose(v) = p
  BY <1>2, <1>5 DEF ParseClose
<1> QED  BY <1>5, <1>6 DEF b, v

\* A text in which nothing parses as a field with a text has nothing but itself to
\* be read as.
LEMMA FieldlessRead ==
  ASSUME NEW s \in Seq(0..255), Invalid(s) = {}, Delimiteds(s) = {}
  PROVE  ResolveDescriptor(s) = <<"query", Trim(s)>>
<1>1. Lossy(s) = s
  BY LossyIs
<1>2. Numbered(s, 1) = {}
  BY DEF Numbered
<1>3. AnyUrl(s) = <<>> /\ GetStr(s, 1) = <<>>
  BY <1>2, NoText, FirstIsOnly DEF AnyUrl, GetStr, GetBytes, FirstOf, LastOf
<1>4. BestNested(s) = <<>>
  BY DEF BestNested, Nested
<1>5. /\ \A names : ~ HasName(<<>>, names)
      /\ ~ LooksLikeQuery(<<>>)
  <2>1. DOMAIN <<>> = {}
    OBVIOUS
  <2> QED  BY <2>1 DEF HasName, LooksLikeQuery
<1>6. ExtractQuery(s) = Trim(s)
  BY <1>1, <1>3, <1>4, <1>5 DEF ExtractQuery
<1> QED  BY <1>3, <1>5, <1>6 DEF ResolveDescriptor

LEMMA QueryRead ==
  ASSUME NEW s \in Seq(0..255), Invalid(s) = {}, LooksLikeQuery(s),
         ~ HasName(s, {StatementQuery, PreparedQuery, CreateRequest})
  PROVE  ResolveDescriptor(s) = <<"query", Trim(s)>>
<1>1. \A names \in SUBSET {StatementQuery, PreparedQuery, CreateRequest} : ~ HasName(s, names)
  BY DEF HasName
<1>2. /\ ~ HasName(AnyUrl(s), {PreparedQuery}) /\ ~ HasName(AnyUrl(s), {StatementQuery})
      /\ ~ HasName(AnyUrl(s), {StatementQuery, CreateRequest})
  <2>1. \A names \in SUBSET {StatementQuery, PreparedQuery, CreateRequest} :
          ~ HasName(AnyUrl(s), names)
    BY <1>1, NamesInText
  <2> QED  BY <2>1
<1>3. Lossy(s) = s
  BY LossyIs
<1>4. LooksLikeQuery(Trim(s))
  BY TrimmedQuery
<1>5. ExtractQuery(s) = Trim(s)
  BY <1>2, <1>3, <1>4 DEF ExtractQuery
<1> QED  BY <1>2, <1>5 DEF ResolveDescriptor

\* The parts of a path are joined to bytes.
LEMMA PathBytes ==
  ASSUME NEW s \in Seq(0..255), NEW t \in Seq(0..255)
  PROVE  s \o <<10>> \o t \in Seq(0..255)
OBVIOUS

-----------------------------------------------------------------------------
(* A ticket whose handle is gone.                                              *)

LEMMA JoinedBytes ==
  ASSUME NEW s \in Seq(0..255), NEW t \in Seq(0..255)
  PROVE  /\ s \o t \in Seq(0..255) /\ Len(s \o t) = Len(s) + Len(t)
         /\ \A k \in 1..Len(s) : (s \o t)[k] = s[k]
         /\ \A k \in 1..Len(t) : (s \o t)[Len(s) + k] = t[k]
OBVIOUS

\* The ticket is its tag, the length of the handle and the handle: no keyword.
LEMMA TicketBytes ==
  ASSUME NEW h \in Seq(0..255), IsHandle(h)
  PROVE  LET b == LengthDelimited(1, h)
         IN  /\ b \in Seq(0..255) /\ Len(b) = 34 /\ DOMAIN b = 1..34
             /\ b[1] = 10 /\ b[2] = 32
             /\ \A k \in 3..34 : b[k] \in (48..57) \cup (97..102)
<1> DEFINE b == LengthDelimited(1, h)
<1>1. Len(h) = 32 /\ DOMAIN h = 1..32 /\ \A k \in 1..32 : h[k] \in (48..57) \cup (97..102)
  <2>1. Len(h) = 32 /\ DOMAIN h = 1..Len(h)
    BY LenProperties DEF IsHandle
  <2>2. DOMAIN h = 1..32
    BY <2>1
  <2> QED  BY <2>1, <2>2, Zenon DEF IsHandle
<1>2. Varint[10] = <<10>> /\ Varint[32] = <<32>>
  <2>1. 10 \in Nat /\ 32 \in Nat /\ 10 < 128 /\ 32 < 128
    OBVIOUS
  <2>2. Varint[10] = VarintStep(Varint, 10) /\ Varint[32] = VarintStep(Varint, 32)
    BY <2>1, VarintIs
  <2> QED  BY <2>1, <2>2 DEF VarintStep
<1> DEFINE t == <<10>>
           l == <<32>>
<1>3. b = t \o l \o h
  <2>1. 1 * 8 + 2 = 10
    OBVIOUS
  <2> QED  BY <1>1, <1>2, <2>1 DEF LengthDelimited
<1>4. /\ t \in Seq(0..255) /\ Len(t) = 1 /\ t[1] = 10
      /\ l \in Seq(0..255) /\ Len(l) = 1 /\ l[1] = 32
  OBVIOUS
<1> HIDE DEF t, l, b
<1> DEFINE u == t \o l
<1>5. /\ u \in Seq(0..255) /\ Len(u) = Len(t) + Len(l)
      /\ \A k \in 1..Len(t) : u[k] = t[k]
      /\ \A k \in 1..Len(l) : u[Len(t) + k] = l[k]
  BY <1>4, JoinedBytes
<1>6. u \in Seq(0..255) /\ Len(u) = 2 /\ u[1] = 10 /\ u[2] = 32
  <2> HIDE DEF u
  <2>1. 1 \in 1..1 /\ 1 + 1 = 2
    OBVIOUS
  <2>2. u[1] = t[1] /\ u[2] = l[1]
    BY <1>4, <1>5, <2>1
  <2> QED  BY <1>4, <1>5, <2>1, <2>2
<1>7. b = u \o h
  BY <1>3
<1> HIDE DEF u
<1>8. /\ b \in Seq(0..255) /\ Len(b) = 34
      /\ b[1] = u[1] /\ b[2] = u[2]
      /\ \A k \in 3..34 : b[k] = h[k - 2]
  <2>1. /\ b \in Seq(0..255) /\ Len(b) = Len(u) + Len(h)
        /\ \A k \in 1..Len(u) : b[k] = u[k]
        /\ \A k \in 1..Len(h) : b[Len(u) + k] = h[k]
    <3> DEFINE c == u \o h
    <3>1. /\ c \in Seq(0..255) /\ Len(c) = Len(u) + Len(h)
          /\ \A k \in 1..Len(u) : c[k] = u[k]
          /\ \A k \in 1..Len(h) : c[Len(u) + k] = h[k]
      <4>1. u \in Seq(0..255)
        BY <1>6
      <4> QED  BY <4>1, JoinedBytes
    <3> HIDE DEF c
    <3>2. b = c
      BY <1>7 DEF c
    <3> QED  BY <3>1, <3>2
  <2>2. 2 + 32 = 34 /\ 1 \in 1..2 /\ 2 \in 1..2
    OBVIOUS
  <2>3. ASSUME NEW k \in 3..34
        PROVE  b[k] = h[k - 2]
    <3>1. k - 2 \in 1..32 /\ 2 + (k - 2) = k
      OBVIOUS
    <3>2. k - 2 \in 1..Len(h) /\ Len(u) + (k - 2) = k
      BY <1>1, <1>6, <3>1
    <3>3. b[Len(u) + (k - 2)] = h[k - 2]
      BY <2>1, <3>2
    <3> QED  BY <3>2, <3>3
  <2> QED  BY <1>1, <1>6, <2>1, <2>2, <2>3
<1>9. DOMAIN b = 1..34
  BY <1>8, LenProperties
<1>10. b[1] = 10 /\ b[2] = 32
  BY <1>6, <1>8
<1>11. ASSUME NEW k \in 3..34
       PROVE  b[k] \in (48..57) \cup (97..102)
  <2>1. k - 2 \in 1..32
    OBVIOUS
  <2>2. b[k] = h[k - 2]
    BY <1>8, <2>1
  <2> QED  BY <1>1, <2>1, <2>2
<1> QED  BY <1>8, <1>9, <1>10, <1>11 DEF b

\* A text without a keyword stays one when it is trimmed.
LEMMA NoKeyword ==
  ASSUME NEW s \in Seq(0..255), \A k \in DOMAIN s : s[k] # K
  PROVE  ~ LooksLikeQuery(s) /\ ~ LooksLikeQuery(Trim(s))
<1>1. ~ LooksLikeQuery(s)
  BY DEF LooksLikeQuery
<1>2. CASE \A i \in 1..Len(s) : s[i] \in Space
  <2>1. DOMAIN s = 1..Len(s)
    BY LenProperties
  <2>2. {k \in DOMAIN s : s[k] \notin Space} = {}
    BY <1>2, <2>1
  <2>3. Trim(s) = <<>>
    BY <2>2, Zenon DEF Trim
  <2> QED  BY <1>1, <2>3 DEF LooksLikeQuery
<1>3. CASE \E i \in 1..Len(s) : s[i] \notin Space
  <2>1. PICK i \in 1..Len(s) : s[i] \notin Space
    BY <1>3
  <2> DEFINE r == Trim(s)
  <2>2. PICK lo, hi \in 1..Len(s) :
          /\ lo <= i /\ i <= hi
          /\ DOMAIN r = 1..(hi - lo + 1)
          /\ \A j \in 1..(hi - lo + 1) : r[j] = s[lo + j - 1]
    BY <2>1, TrimIs
  <2> HIDE DEF r
  <2>3. Len(s) \in Nat /\ DOMAIN s = 1..Len(s)
    BY LenProperties
  <2>4. ASSUME NEW j \in DOMAIN r
        PROVE  r[j] # K
    <3>1. j \in 1..(hi - lo + 1) /\ lo + j - 1 \in 1..Len(s)
      BY <2>2, <2>3
    <3> QED  BY <2>2, <2>3, <3>1
  <2>5. ~ LooksLikeQuery(r)
    BY <2>4 DEF LooksLikeQuery
  <2> QED  BY <1>1, <2>5 DEF r
<1> QED  BY <1>2, <1>3

LEMMA LostTicketRead ==
  ASSUME NEW h \in Seq(0..255), IsHandle(h), 32 <= MaxLength
  PROVE  LET text == ExtractQuery(LengthDelimited(1, h))
         IN  text # <<>> /\ ~ LooksLikeQuery(text)
<1> DEFINE b == LengthDelimited(1, h)
<1>1. /\ b \in Seq(0..255) /\ Len(b) = 34 /\ DOMAIN b = 1..34
      /\ b[1] = 10 /\ b[2] = 32
      /\ \A k \in 3..34 : b[k] \in (48..57) \cup (97..102)
  BY TicketBytes
<1>2. IsMessage(b, <<<<1, h>>>>)
  <2>1. Len(h) <= MaxLength /\ 1 \in 1..2
    BY DEF IsHandle
  <2> QED  BY <2>1, OneFieldDecoded
<1> HIDE DEF b
<1>3. Delimiteds(b) = {1} /\ PayloadOf(b, 1) = h /\ GetBytes(b, 1) = h /\ AnyValue(b) = <<>>
  BY <1>2, OneFieldThere
<1>4. \A x \in (48..57) \cup (97..102) : x \in 0..127 /\ x # 77 /\ x \notin Space
  BY DEF Space
<1>5. \A k \in DOMAIN h : h[k] \in 0..127 /\ h[k] # K
  <2>1. \A k \in DOMAIN h : h[k] \in (48..57) \cup (97..102)
    BY Zenon DEF IsHandle
  <2> QED  BY <1>4, <2>1 DEF K
<1>6. \A k \in DOMAIN b : b[k] \in 0..127 /\ b[k] # K
  <2> TAKE k \in DOMAIN b
  <2>1. k = 1 \/ k = 2 \/ k \in 3..34
    BY <1>1
  <2>2. CASE k \in 3..34
    <3>1. b[k] \in (48..57) \cup (97..102)
      BY <1>1, <2>2
    <3> QED  BY <1>4, <3>1 DEF K
  <2>3. CASE k = 1 \/ k = 2
    <3>1. b[k] = 10 \/ b[k] = 32
      BY <1>1, <2>3
    <3> QED  BY <3>1 DEF K
  <2> QED  BY <2>1, <2>2, <2>3
<1>7. Lossy(b) = b /\ Lossy(h) = h
  <2>1. Invalid(b) = {}
    BY <1>1, <1>6, AsciiIsValid
  <2>2. Invalid(h) = {}
    BY <1>5, AsciiIsValid
  <2> QED  BY <1>1, <2>1, <2>2, LossyIs
<1>8. /\ ~ LooksLikeQuery(Trim(b)) /\ ~ LooksLikeQuery(h) /\ ~ LooksLikeQuery(Trim(h))
  BY <1>1, <1>5, <1>6, NoKeyword
<1>9. Trim(GetStr(AnyValue(b), 1)) = <<>> /\ GetStr(b, 1) = h
  BY <1>3, <1>7, NothingThere, NoText DEF GetStr
<1>10. BestNested(b) = <<>>
  <2>1. Nested(b) = {}
    <3> SUFFICES ASSUME NEW k \in Nested(b) PROVE FALSE
      OBVIOUS
    <3>1. k = 1 /\ LooksLikeQuery(NestedText(b, k))
      BY <1>3 DEF Nested
    <3> QED  BY <1>3, <1>8, <3>1 DEF NestedText
  <2> QED  BY <2>1 DEF BestNested
<1>11. ExtractQuery(b) = Trim(b)
  BY <1>7, <1>8, <1>9, <1>10 DEF ExtractQuery
<1>12. Trim(b) # <<>>
  <2>1. 3 \in 1..Len(b) /\ b[3] \notin Space
    <3>1. 3 \in 3..34 /\ 3 \in 1..34
      OBVIOUS
    <3>2. b[3] \in (48..57) \cup (97..102)
      BY <1>1, <3>1
    <3>3. b[3] \notin Space
      BY <1>4, <3>2
    <3>4. Len(b) = 34
      BY <1>1
    <3> QED  BY <3>1, <3>3, <3>4
  <2> DEFINE r == Trim(b)
  <2>2. PICK lo, hi \in 1..Len(b) :
          lo <= 3 /\ 3 <= hi /\ Len(r) = hi - lo + 1
    BY <1>1, <2>1, TrimIs, ZenonT(60)
  <2> HIDE DEF r
  <2>3. Len(r) # 0
    BY <1>1, <2>2
  <2>4. r # <<>>
    BY <2>3
  <2> QED  BY <2>4 DEF r
<1> QED  BY <1>8, <1>11, <1>12 DEF b

-----------------------------------------------------------------------------
(* The exchange.                                                               *)

LEMMA HandleIsText ==
  ASSUME NEW s \in Seq(0..255), IsHandle(s)
  PROVE  s # <<>>
<1>1. Len(s) = 32
  BY DEF IsHandle
<1>2. ASSUME s = <<>> PROVE Len(s) = 0
  BY <1>2
<1> QED  BY <1>1, <1>2

LEMMA Fits20 ==
  ASSUME NEW m \in Nat, NEW n \in Nat, NEW l \in Nat, m + n + 20 <= l
  PROVE  m + 20 <= l /\ m <= l
OBVIOUS

LEMMA MeantIsRead ==
  ASSUME NEW x \in Exchanges, x.kind # "lost ticket", Readable(x)
  PROVE  Understood(x, Built(x)) = Meaning(x)
<1> DEFINE p == x.text
           q == x.more
<1>1. /\ p \in Seq(0..255) /\ q \in Seq(0..255) /\ Len(p) \in Nat /\ Len(q) \in Nat
      /\ Len(p) + Len(q) + 20 <= MaxLength /\ Len(p) + 20 <= MaxLength
  <2>1. /\ p \in Seq(0..255) /\ q \in Seq(0..255) /\ Len(p) + Len(q) + 20 <= MaxLength
    BY ExchangesAssumption
  <2> HIDE DEF p, q
  <2>2. Len(p) \in Nat /\ Len(q) \in Nat /\ MaxLength \in Nat
    BY <2>1, LenProperties, MaxLengthAssumption
  <2>4. Len(p) + 20 <= MaxLength
    BY <2>1, <2>2, Fits20
  <2> QED  BY <2>1, <2>2, <2>4
<1>2. /\ x.kind \in {"create", "bare create", "statement", "text"} => Invalid(p) = {}
      /\ x.kind \in {"ticket", "raw ticket", "lost ticket", "close", "wrapped close"}
           => IsHandle(p)
      /\ x.kind = "bare create" => p # <<>>
  BY ExchangesAssumption
<1>3. IsHandle(p) => p # <<>>
  BY <1>1, HandleIsText
<1>4. CASE x.kind = "create"
  BY <1>1, <1>2, <1>4, CreateRead DEF Built, Understood, Meaning, Readable
<1>5. CASE x.kind = "bare create"
  BY <1>1, <1>2, <1>5, BareCreateRead DEF Built, Understood, Meaning
<1>6. CASE x.kind = "statement"
  BY <1>1, <1>2, <1>6, StatementRead DEF Built, Understood, Meaning
<1>7. CASE x.kind = "prepared"
  BY <1>1, <1>7, PreparedRead DEF Built, Understood, Meaning
<1>8. CASE x.kind = "result"
  BY <1>1, <1>8, ResultRead DEF Built, Understood, Meaning
<1>9. CASE x.kind = "wrapped close"
  BY <1>1, <1>2, <1>3, <1>9, CloseRead DEF Built, Understood, Meaning
<1>10. CASE x.kind = "close"
  BY <1>1, <1>2, <1>3, <1>10, CloseRead DEF Built, Understood, Meaning
<1>11. CASE x.kind = "ticket"
  BY <1>1, <1>2, <1>3, <1>11, CloseRead DEF Built, Understood, Meaning
<1>12. CASE x.kind = "raw ticket"
  BY <1>1, <1>2, <1>12, HandleIsNoMessage DEF Built, Understood, Meaning
<1>13. CASE x.kind = "text"
  <2>1. Built(x) = p /\ Plain(p)
    BY <1>13 DEF Built, Readable
  <2> HIDE DEF p
  <2>2. ResolveDescriptor(p) = <<"query", Trim(p)>>
    BY <1>1, <1>2, <1>13, <2>1, FieldlessRead, QueryRead DEF Plain
  <2>3. Understood(x, Built(x)) = ResolveDescriptor(Built(x))
    BY <1>13 DEF Understood
  <2>4. Meaning(x) = <<"query", Trim(Built(x))>>
    BY <1>13 DEF Meaning
  <2> QED  BY <2>1, <2>2, <2>3, <2>4, Zenon
<1>14. CASE x.kind = "path"
  <2> DEFINE s == PathBlob(x)
  <2>1. Built(x) = s /\ Plain(s) /\ Invalid(s) = {}
    BY <1>14, ExchangesAssumption DEF Built, Readable
  <2>2. s \in Seq(0..255)
    BY <1>1, PathBytes, Zenon DEF PathBlob
  <2> HIDE DEF s
  <2>3. ResolveDescriptor(s) = <<"query", Trim(s)>>
    BY <2>1, <2>2, FieldlessRead, QueryRead DEF Plain
  <2>4. Understood(x, Built(x)) = ResolveDescriptor(Built(x))
    BY <1>14 DEF Understood
  <2>5. Meaning(x) = <<"query", Trim(Built(x))>>
    BY <1>14 DEF Meaning
  <2> QED  BY <2>1, <2>3, <2>4, <2>5, Zenon
<1>15. x.kind \in {"create", "bare create", "statement", "text", "path", "prepared",
                   "ticket", "raw ticket", "lost ticket", "close", "wrapped close", "result"}
  BY ExchangesAssumption
<1> QED
  BY <1>4, <1>5, <1>6, <1>7, <1>8, <1>9, <1>10, <1>11, <1>12, <1>13, <1>14, <1>15

LEMMA LostIsNoQuery ==
  ASSUME NEW x \in Exchanges, x.kind = "lost ticket"
  PROVE  Understood(x, Built(x)) # <<>> /\ ~ LooksLikeQuery(Understood(x, Built(x)))
<1>1. x.text \in Seq(0..255) /\ IsHandle(x.text) /\ Len(x.text) + Len(x.more) + 20 <= MaxLength
      /\ x.more \in Seq(0..255)
  BY ExchangesAssumption
<1>2. 32 <= MaxLength
  <2>1. Len(x.text) = 32 /\ Len(x.more) \in Nat /\ MaxLength \in Nat
    BY <1>1, LenProperties, MaxLengthAssumption DEF IsHandle
  <2>2. 32 \in Nat
    OBVIOUS
  <2> QED  BY <1>1, <2>1, <2>2, Fits20
<1>3. Understood(x, Built(x)) = ExtractQuery(LengthDelimited(1, x.text))
  BY DEF Understood, Built
<1> QED  BY <1>1, <1>2, <1>3, LostTicketRead

\* What is on the wire, and what was read from it.
ExchangeIInv ==
  /\ sent \in Exchanges
  /\ stage = "written" => wire = Built(sent)
  /\ stage = "read" => got = Understood(sent, Built(sent))

LEMMA ExchangeInvariant == ExchangeSpec => []ExchangeIInv
<1>1. ExchangeInit => ExchangeIInv
  BY DEF ExchangeInit, ExchangeIInv
<1>2. ExchangeIInv /\ [ExchangeNext]_exchangeVars => ExchangeIInv'
  <2> SUFFICES ASSUME ExchangeIInv, [ExchangeNext]_exchangeVars PROVE ExchangeIInv'
    OBVIOUS
  <2>1. CASE Write
    BY <2>1 DEF ExchangeIInv, Write
  <2>2. CASE Read
    BY <2>2 DEF ExchangeIInv, Read
  <2>3. CASE UNCHANGED exchangeVars
    BY <2>3 DEF ExchangeIInv, exchangeVars
  <2> QED  BY <2>1, <2>2, <2>3 DEF ExchangeNext
<1> QED  BY <1>1, <1>2, PTL DEF ExchangeSpec

\* The messages that client and server build are read as they were meant, whatever
\* query, handle or schema they carry, and so is any plain text that can be told
\* from a message (Plain).  The empty create request, of which the text of the type
\* URL is taken for the query, and the other plain texts are not spoken of.
THEOREM MessagesAreUnderstood == ExchangeSpec => []UnderstoodAsMeant
<1>1. ExchangeIInv => UnderstoodAsMeant
  BY MeantIsRead DEF ExchangeIInv, UnderstoodAsMeant
<1> QED  BY <1>1, ExchangeInvariant, PTL

\* A ticket whose handle is gone is read as a text that is not empty and no query,
\* for every handle: do_get runs nothing that the client did not ask for.
THEOREM LostTicketsRunNothing == ExchangeSpec => []LostTicketIsNoQuery
<1>1. ExchangeIInv => LostTicketIsNoQuery
  BY LostIsNoQuery DEF ExchangeIInv, LostTicketIsNoQuery
<1> QED  BY <1>1, ExchangeInvariant, PTL
=============================================================================
