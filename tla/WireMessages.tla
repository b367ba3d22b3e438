---------------------------- MODULE WireMessages ----------------------------
(***************************************************************************)
(* The Flight SQL messages (src/lib.rs): the builders that client and      *)
(* server call, and the readers that guess what a blob is (decode_any,     *)
(* extract_query, decode_ticket_handle, the parse_ functions, and          *)
(* resolve_descriptor_query in src/server.rs).                             *)
(*                                                                         *)
(* Text is a sequence of bytes, shortened where its wording does not       *)
(* matter: K is a whole query keyword, a type URL is the marker Google     *)
(* ("type.googleapis.com/arrow.flight..") and one byte for the name.  A    *)
(* character beyond ASCII is the pair Lead, Trail; no other byte above 127 *)
(* is UTF-8.                                                               *)
(*                                                                         *)
(* An exchange is a step that builds a message and a step that reads it.   *)
(*                                                                         *)
(* FragmentFirst and NoFallback are plausible bugs of a reader; no         *)
(* definition uses them.                                                   *)
(***************************************************************************)
EXTENDS WireFields, FiniteSetsExt

CONSTANT Exchanges  \* [kind, text, more]: what is sent, as which message

VARIABLES
  sent,   \* the exchange
  wire,   \* the bytes between the two sides
  got,    \* what the receiver understood
  stage   \* "new", "written", "read"

exchangeVars == <<sent, wire, got, stage>>

-----------------------------------------------------------------------------
(* Text. *)

K == 77
Google == 116
Lead == 195
Trail == 169
Replacement == 63

Space == (9..13) \cup {32}
Word == (48..57) \cup (65..90) \cup {95} \cup (97..122)

Trim(s) ==
  LET kept == {k \in DOMAIN s : s[k] \notin Space}
  IN  IF kept = {} THEN <<>> ELSE SubSeq(s, Min(kept), Max(kept))

\* The bytes that from_utf8 refuses.
Invalid(s) ==
  {k \in DOMAIN s :
     \/ s[k] = Lead /\ ~ (k < Len(s) /\ s[k + 1] = Trail)
     \/ s[k] = Trail /\ ~ (k > 1 /\ s[k - 1] = Lead)
     \/ s[k] > 127 /\ s[k] \notin {Lead, Trail}}

Lossy(s) == [k \in DOMAIN s |-> IF k \in Invalid(s) THEN Replacement ELSE s[k]]

LooksLikeQuery(s) ==
  \E k \in DOMAIN s :
    /\ s[k] = K
    /\ k > 1 => s[k - 1] \notin Word
    /\ k < Len(s) => s[k + 1] \notin Word

-----------------------------------------------------------------------------
(* Type URLs: the names the messages have, and the substrings the readers     *)
(* look for.                                                                  *)

StatementQuery == 65
PreparedQuery == 66
CreateRequest == 67
CreateResult == 68
CloseRequest == 69

HasName(url, names) ==
  \E k \in DOMAIN url : url[k] = Google /\ k < Len(url) /\ url[k + 1] \in names

HasGoogle(s) == \E k \in DOMAIN s : s[k] = Google

-----------------------------------------------------------------------------
(* What is sent: handles of 32 hexadecimal digits, UTF-8 texts, schemas of any     *)
(* bytes.  A message without its Any is not empty.  A path is two segments; the    *)
(* second may hold more of them.                                                   *)

PathBlob(x) == x.text \o <<10>> \o x.more

IsHandle(s) == Len(s) = 32 /\ \A k \in DOMAIN s : s[k] \in (48..57) \cup (97..102)

ASSUME ExchangesAssumption ==
  \A x \in Exchanges :
    /\ x.kind \in {"create", "bare create", "statement", "text", "path", "prepared",
                   "ticket", "raw ticket", "lost ticket", "close", "wrapped close", "result"}
    /\ x.text \in Seq(0..255) /\ x.more \in Seq(0..255)
    /\ Len(x.text) + Len(x.more) + 20 <= MaxLength
    /\ x.kind \in {"create", "bare create", "statement", "text"} => Invalid(x.text) = {}
    /\ x.kind \in {"ticket", "raw ticket", "lost ticket", "close", "wrapped close"}
         => IsHandle(x.text)
    /\ x.kind = "path" => Invalid(PathBlob(x)) = {}
    /\ x.kind = "bare create" => x.text # <<>>

-----------------------------------------------------------------------------
(* Fields of a message. *)

\* The length-delimited fields of a blob, those of number no, and their payloads.
Delimiteds(b) == LET f == Decode(b) IN {k \in DOMAIN f : f[k].wire = 2}
Numbered(b, no) == LET f == Decode(b) IN {k \in Delimiteds(b) : f[k].no = no}
PayloadOf(b, k) == Payload(b, Decode(b)[k])

FirstOf(b, ks) == IF ks = {} THEN <<>> ELSE PayloadOf(b, Min(ks))
LastOf(b, ks) == IF ks = {} THEN <<>> ELSE PayloadOf(b, Max(ks))

GetBytes(b, no) == FirstOf(b, Numbered(b, no))
GetStr(b, no) == Lossy(GetBytes(b, no))

EncodeAny(name, value) ==
  LengthDelimited(1, <<Google, name>>) \o LengthDelimited(2, value)

AnyUrl(b) == LastOf(b, {k \in Numbered(b, 1) : Invalid(PayloadOf(b, k)) = {}})
AnyValue(b) == LastOf(b, Numbered(b, 2))

-----------------------------------------------------------------------------
(* Readers. *)

\* The nested texts that look like a query, trimmed; the longest, of equal ones the
\* first, or nothing.
NestedText(b, k) == Trim(PayloadOf(b, k))
Nested(b) ==
  {k \in Delimiteds(b) :
     /\ Invalid(PayloadOf(b, k)) = {}
     /\ LooksLikeQuery(NestedText(b, k)) /\ ~ HasGoogle(NestedText(b, k))}
BestNested(b) ==
  LET size(k) == Len(NestedText(b, k))
  IN  IF Nested(b) = {} THEN <<>>
      ELSE NestedText(b, CHOOSE k \in Nested(b) :
             \A l \in Nested(b) : size(k) > size(l) \/ (size(k) = size(l) /\ k <= l))

\* What a blob asks for: a wrapped statement, else the raw text if it looks like
\* a query, else a bare or a nested text that does, else the raw text.  One
\* variant looks into the bytes before it takes the raw text, one gives up
\* instead of falling back on it.
FragmentFirst(b) ==
  LET bare == GetStr(b, 1)
  IN  IF LooksLikeQuery(GetStr(AnyValue(b), 1)) THEN Trim(GetStr(AnyValue(b), 1))
      ELSE IF LooksLikeQuery(bare) THEN Trim(bare) ELSE Trim(Lossy(b))
NoFallback(b) ==
  IF LooksLikeQuery(Trim(Lossy(b))) THEN Trim(Lossy(b)) ELSE BestNested(b)
ExtractQuery(b) ==
  LET wrapped == GetStr(AnyValue(b), 1)
      raw     == Trim(Lossy(b))
      bare    == GetStr(b, 1)
      nested  == BestNested(b)
  IN  IF HasName(AnyUrl(b), {StatementQuery, CreateRequest}) /\ Trim(wrapped) # <<>>
        THEN Trim(wrapped)
      ELSE IF LooksLikeQuery(raw) THEN raw
      ELSE IF LooksLikeQuery(bare) /\ ~ HasGoogle(bare) THEN Trim(bare)
      ELSE IF nested # <<>> THEN nested
      ELSE raw

\* TicketStatementQuery, the same inside an Any, or the handle as it is.
Full(b) == {k \in Numbered(b, 1) : PayloadOf(b, k) # <<>>}
TicketHandle(b) ==
  IF Full(b) # {} THEN FirstOf(b, Full(b))
  ELSE IF Full(AnyValue(b)) # {} THEN FirstOf(AnyValue(b), Full(AnyValue(b)))
  ELSE b

ParseCreate(b) ==
  LET wrapped == IF HasName(AnyUrl(b), {CreateRequest, CreateResult})
                   THEN GetStr(AnyValue(b), 1) ELSE <<>>
      bare    == GetStr(b, 1)
  IN  IF wrapped # <<>> THEN wrapped ELSE IF bare # <<>> THEN bare ELSE ExtractQuery(b)

ParseResult(b) ==
  LET inner == IF AnyValue(b) # <<>> /\ AnyUrl(b) # <<>> THEN AnyValue(b) ELSE b
  IN  <<GetBytes(inner, 1), GetBytes(inner, 2)>>

ParseClose(b) ==
  LET h == GetBytes(IF AnyValue(b) = <<>> THEN b ELSE AnyValue(b), 1)
  IN  IF h # <<>> THEN h ELSE TicketHandle(b)

\* A descriptor names a handle or holds a query.
ResolveDescriptor(b) ==
  IF HasName(AnyUrl(b), {PreparedQuery}) THEN <<"handle", GetBytes(AnyValue(b), 1)>>
  ELSE IF HasName(AnyUrl(b), {StatementQuery}) /\ AnyValue(b) # <<>>
    THEN <<"query", GetStr(AnyValue(b), 1)>>
  ELSE <<"query", ExtractQuery(b)>>

-----------------------------------------------------------------------------
(* The messages, by kind: how they are built, and who reads them. *)

Built(x) ==
  CASE x.kind = "create"         -> EncodeAny(CreateRequest, LengthDelimited(1, x.text))
    [] x.kind = "result"         ->
         EncodeAny(CreateResult, LengthDelimited(1, x.text) \o LengthDelimited(2, x.more))
    [] x.kind = "prepared"       -> EncodeAny(PreparedQuery, LengthDelimited(1, x.text))
    [] x.kind = "statement"      -> EncodeAny(StatementQuery, LengthDelimited(1, x.text))
    [] x.kind = "wrapped close"  -> EncodeAny(CloseRequest, LengthDelimited(1, x.text))
    [] x.kind \in {"ticket", "lost ticket", "close", "bare create"} ->
         LengthDelimited(1, x.text)
    [] x.kind = "path" -> PathBlob(x)
    [] x.kind \in {"text", "raw ticket"} -> x.text

Understood(x, b) ==
  CASE x.kind \in {"create", "bare create"} -> ParseCreate(b)
    [] x.kind = "result" -> ParseResult(b)
    [] x.kind \in {"prepared", "statement", "text", "path"} -> ResolveDescriptor(b)
    [] x.kind \in {"ticket", "raw ticket"} -> TicketHandle(b)
    [] x.kind = "lost ticket" -> ExtractQuery(b)
    [] x.kind \in {"close", "wrapped close"} -> ParseClose(b)

ExchangeInit ==
  /\ sent \in Exchanges
  /\ wire = <<>> /\ got = <<>>
  /\ stage = "new"

Write ==
  /\ stage = "new"
  /\ wire' = Built(sent)
  /\ stage' = "written"
  /\ UNCHANGED <<sent, got>>

Read ==
  /\ stage = "written"
  /\ got' = Understood(sent, wire)
  /\ stage' = "read"
  /\ UNCHANGED <<sent, wire>>

ExchangeNext == Write \/ Read

ExchangeSpec == ExchangeInit /\ [][ExchangeNext]_exchangeVars

-----------------------------------------------------------------------------

\* What the sender meant.
Meaning(x) ==
  CASE x.kind \in {"create", "bare create"} -> x.text
    [] x.kind = "result" -> <<x.text, x.more>>
    [] x.kind = "prepared" -> <<"handle", x.text>>
    [] x.kind = "statement" -> <<"query", x.text>>
    [] x.kind \in {"text", "path"} -> <<"query", Trim(Built(x))>>
    [] OTHER -> x.text

\* A text that is sent as it is and can be told from a message: nothing in it parses
\* as a field with a text, or it has a keyword and no name of a type.
Plain(s) ==
  \/ Delimiteds(s) = {}
  \/ LooksLikeQuery(s) /\ ~ HasName(s, {StatementQuery, PreparedQuery, CreateRequest})

\* Nothing is claimed of other plain texts, nor of the empty request to create.
Readable(x) ==
  /\ x.kind \in {"text", "path"} => Plain(Built(x))
  /\ x.kind = "create" => x.text # <<>>

\* The messages that client and server build for each other are read as they were
\* meant, whatever query, handle or schema a message carries, and a query that is
\* sent without a message if it can be told from one: the readers' guesses do not
\* get in each other's way.
UnderstoodAsMeant ==
  stage = "read" /\ sent.kind # "lost ticket" /\ Readable(sent) => got = Meaning(sent)

\* A ticket whose handle is gone is taken for a query (do_get): the text is there
\* and is no query, so that the database refuses it and nothing runs.
LostTicketIsNoQuery ==
  stage = "read" /\ sent.kind = "lost ticket" => got # <<>> /\ ~ LooksLikeQuery(got)

\* src/server.rs:412 refuses a CreatePreparedStatement whose query is empty
\* ("empty query"): an empty query must reach it as an empty query.
EmptyCreateIsEmpty ==
  stage = "read" /\ sent.kind = "create" /\ Trim(sent.text) = <<>> => Trim(got) = <<>>
=============================================================================
