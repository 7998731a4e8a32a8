CONSTANTS
  WORD = 2
  MAX_CHUNK_SIZE = 2
  UINT_RANGE = 32
  MAX_BUFFER_SIZE = 4
  MAX_COUNTER = 8
  SLOW_RETRY_LIMIT_CYCLES = 3
  MaxRounds = 12
  HwMayFail = FALSE
  SinkMayFail = FALSE
  CryptoMayFail = FALSE
  Requests <- ReseedOddEnding
  Draws <- SomeDraws
  Totals <- MCTotals
SPECIFICATION Spec
INVARIANT AmountDeliveredByHealthyHardware
