----------------------------- MODULE WireFields -----------------------------
(***************************************************************************)
(* The protobuf layer of the Flight SQL codec (encode_varint, encode_ld    *)
(* and decode_fields in src/lib.rs).  A blob is a sequence of bytes.       *)
(* Instead of a copy of a field's payload the operators give the place     *)
(* where it lies, so that a slice that leaves the blob (a panic of the     *)
(* code) can be seen.                                                      *)
(*                                                                         *)
(* Integers keep the code's widths without being that wide: of a field     *)
(* number only its value below 16 is used, and a length is compared with   *)
(* MaxLength only.                                                         *)
(*                                                                         *)
(* FirstByteOnly, Unchecked and EndExcluded are plausible bugs of the      *)
(* decoder; no definition uses them.                                       *)
(***************************************************************************)
EXTENDS Integers, Sequences

CONSTANT MaxLength  \* longest payload the decoder accepts, 50_000_000 in the code

\* A payload's length fits in 28 bits, four bytes of a varint.
TwoTo28 == 268435456
ASSUME MaxLengthAssumption == MaxLength \in Nat /\ MaxLength < TwoTo28

-----------------------------------------------------------------------------
(* Writing. *)

Varint[v \in Nat] ==
  IF v < 128 THEN <<v>> ELSE <<(v % 128) + 128>> \o Varint[v \div 128]

LengthDelimited(no, payload) ==
  Varint[no * 8 + 2] \o Varint[Len(payload)] \o payload

-----------------------------------------------------------------------------
(* Reading. *)

Lesser(m, n) == IF m <= n THEN m ELSE n
Least(S) == CHOOSE m \in S : \A n \in S : m <= n

\* The last byte of the varint at i, 0 if the blob or ten bytes end before it.
VarintEnd(b, i) ==
  LET ends == {j \in i..Lesser(i + 9, Len(b)) : b[j] < 128}
  IN  IF ends = {} THEN 0 ELSE Least(ends)

\* The seven bits that byte k adds to the varint in i..j.  Of the tenth byte a
\* u64 keeps one.
Group(b, i, j, k) ==
  IF k > j THEN 0 ELSE IF k = i + 9 THEN b[k] % 2 ELSE b[k] % 128

\* The varint in i..j as a length; whatever has more than 28 bits is too long.
Length(b, i, j) ==
  IF \E k \in (i + 4)..j : Group(b, i, j, k) # 0
    THEN MaxLength + 1
    ELSE Group(b, i, j, i) + 128 * Group(b, i, j, i + 1)
           + 16384 * Group(b, i, j, i + 2) + 2097152 * Group(b, i, j, i + 3)

\* The varint in i..j as a field number.  `(tag >> 3) as u32` is made of the
\* first five bytes; the variant looks at one.
FirstByteOnly(b, i, j) == (b[i] % 128) \div 8
FieldNo(b, i, j) ==
  IF \E k \in (i + 1)..(i + 4) : Group(b, i, j, k) # 0 THEN 16 ELSE (b[i] % 128) \div 8

\* The field at i: its number, wire type and payload; NoField where the code
\* leaves the loop.
NoField == [no |-> 0, wire |-> 3, from |-> 1, to |-> 0]

\* A payload of n bytes from s; the variants forget the end of the blob, or
\* reject a payload that just reaches it.
Unchecked(b, no, wire, s, n) == [no |-> no, wire |-> wire, from |-> s, to |-> s + n - 1]
EndExcluded(b, no, wire, s, n) ==
  IF s + n > Len(b) THEN NoField
  ELSE [no |-> no, wire |-> wire, from |-> s, to |-> s + n - 1]
Slice(b, no, wire, s, n) ==
  IF s + n - 1 > Len(b) THEN NoField
  ELSE [no |-> no, wire |-> wire, from |-> s, to |-> s + n - 1]

\* A payload behind its length, the varint in s..e.
Delimited(b, no, s, e) ==
  IF e = 0 \/ Length(b, s, e) > MaxLength THEN NoField
  ELSE Slice(b, no, 2, e + 1, Length(b, s, e))

\* A varint as a payload: it ends with the blob, if nowhere else.
Number(b, no, s) ==
  LET stop == {j \in s..Len(b) : b[j] < 128}
  IN  [no |-> no, wire |-> 0, from |-> s, to |-> IF stop = {} THEN Len(b) ELSE Least(stop)]

\* The field of a given number and wire type with its payload, or the length of
\* it, at s.
FieldOf(b, no, wire, s) ==
  CASE wire = 2 -> Delimited(b, no, s, VarintEnd(b, s))
    [] wire = 0 -> Number(b, no, s)
    [] wire = 1 -> Slice(b, no, 1, s, 8)
    [] wire = 5 -> Slice(b, no, 5, s, 4)
    [] OTHER -> NoField

\* The field whose tag is the varint in i..t.
Tagged(b, i, t) ==
  IF t = 0 THEN NoField ELSE FieldOf(b, FieldNo(b, i, t), b[i] % 8, t + 1)
FieldAt(b, i) == Tagged(b, i, VarintEnd(b, i))

\* The loop goes on behind the field.
Behind(f) == f.to + 1

\* All fields of a blob at once, for the message layer.
Decode(b) ==
  LET rest[i \in 1..(Len(b) + 1)] ==
        IF i > Len(b) \/ FieldAt(b, i) = NoField THEN <<>>
        ELSE <<FieldAt(b, i)>> \o rest[Behind(FieldAt(b, i))]
  IN  rest[1]

Payload(b, f) == SubSeq(b, f.from, f.to)
=============================================================================
