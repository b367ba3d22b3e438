------------------------------ MODULE MCCodec -------------------------------
(***************************************************************************)
(* The codec: in one behaviour either the decoder works on a blob, or a    *)
(* message is built and read.                                              *)
(***************************************************************************)
EXTENDS FieldDecoder, WireMessages

MCMaxLength == 400

codecVars == <<fieldVars, exchangeVars>>

NoMessage == [kind |-> "none", text |-> <<>>, more |-> <<>>]
NoMessageYet == sent = NoMessage /\ wire = <<>> /\ got = <<>> /\ stage = "none"

NoInput == [blob |-> <<>>, meant |-> <<>>, at |-> <<1>>]
NothingToDecode == input = NoInput /\ pos = 1 /\ fields = <<>> /\ stopped = TRUE

CodecInit ==
  \/ FieldsInit /\ NoMessageYet
  \/ ExchangeInit /\ NothingToDecode

CodecNext ==
  \/ FieldsNext /\ UNCHANGED exchangeVars
  \/ ExchangeNext /\ UNCHANGED fieldVars

\* The decoder's loop runs until it leaves.
CodecSpec ==
  /\ CodecInit /\ [][CodecNext]_codecVars
  /\ WF_codecVars(FieldsNext /\ UNCHANGED exchangeVars)

-----------------------------------------------------------------------------
(* Blobs for the decoder: short ones of any bytes, and written messages.      *)

Repeat(s, n) == [k \in 1..(n * Len(s)) |-> s[((k - 1) % Len(s)) + 1]]

\* One byte of every kind: tags of the six wire types, a short and a zero
\* length, a byte that continues a varint and the largest one.
Alphabet == {0, 1, 2, 8, 9, 10, 13, 11, 128, 255}

\* Blobs up to three bytes, four of the commonest ones, and longer blobs around
\* the eight and four bytes of the fixed wire types and the ten of a varint.
AnyBlob ==
  UNION {[1..n -> Alphabet] : n \in 0..3}
    \cup [1..4 -> {0, 1, 8, 10, 128}]
    \cup {<<tag>> \o Repeat(<<byte>>, n) \o last :
            tag \in {8, 9, 10, 13, 138}, byte \in {0, 7, 128, 255},
            n \in 3..11, last \in {<<>>, <<0>>, <<1>>, <<2>>, <<127>>}}

\* The header "1:" and "2:" messages of the codec, a field number of two bytes
\* (17, whose low bits say 1), payloads on both sides of a one-byte length, an
\* empty one and the longest accepted.
Numbers == {1, 2, 17}
Sizes == {0, 1, 3, 127, 128, 400}
Field == {<<no, Repeat(<<65>>, size)>> : no \in Numbers, size \in Sizes}
Message == {<<f>> : f \in Field} \cup {<<f, g>> : f \in Field, g \in Field}

Encoded(m) ==
  IF Len(m) = 1 THEN LengthDelimited(m[1][1], m[1][2])
  ELSE LengthDelimited(m[1][1], m[1][2]) \o LengthDelimited(m[2][1], m[2][2])

\* Where its fields lie.
At(m) ==
  LET end(k) == Len(LengthDelimited(m[k][1], m[k][2]))
  IN  IF Len(m) = 1 THEN <<1, 1 + end(1)>> ELSE <<1, 1 + end(1), 1 + end(1) + end(2)>>

\* Cut before the last 0, 1, 2, .. bytes, and in the first field.
Cuts(n) == {k \in {0, 1, 2, 3, 4, 5, n \div 2, n - 3, n - 2, n - 1, n} : 0 <= k /\ k <= n}

WrittenInputs ==
  UNION {{[blob |-> SubSeq(Encoded(m), 1, k), meant |-> m, at |-> At(m)] :
            k \in Cuts(Len(Encoded(m)))} : m \in Message}

AnyInputs == {[blob |-> b, meant |-> <<>>, at |-> <<1>>] : b \in AnyBlob}

MCInputs == AnyInputs \cup WrittenInputs
NoInputs == {}

-----------------------------------------------------------------------------
(* Messages: queries, handles and schemas as the client and the server send   *)
(* them.                                                                      *)

\* A keyword, a letter, a bracket, spaces, the bytes of a length-delimited tag
\* (newline, tab, and Lead with its Trail beyond ASCII).
Piece == {<<K>>, <<120>>, <<40>>, <<32>>, <<10>>, <<9>>, <<Lead, Trail>>}
Short == {<<>>} \cup Piece \cup {p \o q : p, q \in Piece} \cup {p \o q \o r : p, q, r \in Piece}

\* Behind a short text: nothing, a text of seven bytes, and one whose length
\* needs two bytes.
Rest == {<<>>, <<32>> \o Repeat(<<120>>, 6), <<32>> \o Repeat(<<120>>, 126),
         <<32>> \o Repeat(<<40, Lead, Trail>>, 60)}
Text == {s \o r : s \in Short, r \in Rest}

\* Sent as they are: the queries, and without a keyword the shorter texts.
PlainText == {t \in Text : LooksLikeQuery(t) \/ Len(t) <= 11}

\* Handles are 32 hexadecimal digits.
Hex == {48, 49, 50, 53, 56, 57, 97, 98, 101, 102}
Handle == {Repeat(<<x, y>>, 16) : x, y \in Hex} \cup {<<x>> \o Repeat(<<y>>, 31) : x, y \in Hex}

\* Encoded schemas: any bytes.
Schema == {<<>>, <<0>>, <<10, 2, 65>>, Repeat(<<255, 0, 10, Lead>>, 20), Repeat(<<18, 200>>, 90)}

Of(kinds, texts) == {[kind |-> k, text |-> t, more |-> <<>>] : k \in kinds, t \in texts}

MCExchanges ==
  Of({"create", "bare create", "statement"}, Text \ {<<>>})
    \cup Of({"text"}, PlainText)
    \cup {[kind |-> "path", text |-> s, more |-> r] : s \in Short, r \in {<<>>, <<K>>, <<120>>}}
    \cup Of({"prepared", "ticket", "raw ticket", "lost ticket", "close", "wrapped close"}, Handle)
    \cup {[kind |-> "result", text |-> h, more |-> s] : h \in Handle, s \in Schema}

CreateExchanges == Of({"create"}, Text)
=============================================================================
