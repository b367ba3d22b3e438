SPECIFICATION CodecSpec
CONSTANTS
  MaxLength <- MCMaxLength
  Inputs <- MCInputs
  Exchanges <- MCExchanges
INVARIANTS
  SlicesInBlob
  ReadsWhatWasWritten
  UnderstoodAsMeant
  LostTicketIsNoQuery
PROPERTY DecodingEnds
CHECK_DEADLOCK FALSE
