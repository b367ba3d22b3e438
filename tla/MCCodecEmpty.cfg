SPECIFICATION CodecSpec
CONSTANTS
  MaxLength <- MCMaxLength
  Inputs <- NoInputs
  Exchanges <- CreateExchanges
INVARIANT EmptyCreateIsEmpty
CHECK_DEADLOCK FALSE
