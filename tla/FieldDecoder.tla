---------------------------- MODULE FieldDecoder ----------------------------
(***************************************************************************)
(* decode_fields (src/lib.rs) as a behaviour: its loop, one field a step,  *)
(* over the blobs of Inputs.                                               *)
(***************************************************************************)
EXTENDS WireFields

CONSTANT
  Inputs      \* [blob, meant, at]: a blob, the fields it was made of, <<number,
              \* payload>> each (none if it is no message), and where they lie

\* As much of s as the blob holds is written at i.
LiesAt(b, i, s) == \A j \in DOMAIN s : i + j - 1 \in DOMAIN b => b[i + j - 1] = s[j]

\* The blob is the fields one behind the other, as encode_ld writes them, or a
\* beginning of that: field k starts at at[k], the message ends before the last at.
Written(x) ==
  /\ x.at \in Seq(Nat) /\ Len(x.at) = Len(x.meant) + 1 /\ x.at[1] = 1
  /\ \A k \in DOMAIN x.meant :
       /\ Len(x.meant[k][2]) <= MaxLength
       /\ LET field == LengthDelimited(x.meant[k][1], x.meant[k][2])
          IN  x.at[k + 1] = x.at[k] + Len(field) /\ LiesAt(x.blob, x.at[k], field)
  /\ Len(x.blob) < x.at[Len(x.at)]

\* A field number has 29 bits beside the three of the wire type.
TwoTo29 == 536870912
ASSUME InputsAssumption ==
  \A x \in Inputs :
    /\ x.blob \in Seq(0..255)
    /\ x.meant \in Seq((0..(TwoTo29 - 1)) \X Seq(0..255))
    /\ x.meant # <<>> => Written(x)

VARIABLES
  input,    \* what is decoded
  pos,      \* `i`, counted from 1
  fields,   \* the fields found so far
  stopped   \* the loop is over

fieldVars == <<input, pos, fields, stopped>>

-----------------------------------------------------------------------------

FieldsInit ==
  /\ input \in Inputs
  /\ pos = 1
  /\ fields = <<>>
  /\ stopped = FALSE

TakeField ==
  /\ ~ stopped /\ pos <= Len(input.blob)
  /\ LET f == FieldAt(input.blob, pos)
     IN  /\ f # NoField
         /\ fields' = Append(fields, f)
         /\ pos' = Behind(f)
  /\ UNCHANGED <<input, stopped>>

\* The loop is left at the end of the blob and at what is no field; the variant
\* tries the latter again.
LeavesAtEnd == pos > Len(input.blob)
Leaves == pos > Len(input.blob) \/ FieldAt(input.blob, pos) = NoField

Stop ==
  /\ ~ stopped
  /\ Leaves
  /\ stopped' = TRUE
  /\ UNCHANGED <<input, pos, fields>>

FieldsNext == TakeField \/ Stop

FieldsSpec == FieldsInit /\ [][FieldsNext]_fieldVars /\ WF_fieldVars(FieldsNext)

-----------------------------------------------------------------------------

\* Every payload is a slice of the blob and lies behind the one before it: no
\* input makes the decoder panic or read a byte twice.
SlicesInBlob ==
  /\ \A k \in DOMAIN fields :
       /\ 1 <= fields[k].from /\ fields[k].from <= fields[k].to + 1
       /\ fields[k].to <= Len(input.blob)
  /\ \A k \in 2..Len(fields) : fields[k - 1].to < fields[k].from

\* The loop ends on every input: it makes progress or leaves.
DecodingEnds == <>stopped

Found ==
  [k \in DOMAIN fields |-> <<fields[k].no, Payload(input.blob, fields[k])>>]

\* The fields that were written, their numbers as far as the model keeps them.
Meant == [k \in DOMAIN input.meant |-> <<Lesser(input.meant[k][1], 16), input.meant[k][2]>>]
Whole == Len(input.blob) + 1 = input.at[Len(input.at)]

\* A message made by encode_ld is read as it was written; of one that was cut
\* off, the fields that are complete and nothing else.
ReadsWhatWasWritten ==
  stopped /\ input.meant # <<>> =>
    /\ Len(Found) <= Len(Meant)
    /\ Found = SubSeq(Meant, 1, Len(Found))
    /\ Whole => Found = Meant
=============================================================================
