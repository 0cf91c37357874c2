SPECIFICATION Spec
CONSTANTS
  NIBBLE = 1
  MIN_MATCH = 2
  USIZE_MAX = 8
  MaxSource = 7
  Blocks <- MCBlocks
INVARIANTS
  TypeOK
  CallsEncodeInput
  NoEncodingRejected
CHECK_DEADLOCK FALSE
