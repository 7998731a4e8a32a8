CONSTANTS
  WORD = 2
  MAX_CHUNK_SIZE = 2
  UINT_RANGE = 32
  MAX_BUFFER_SIZE = 4
  MAX_COUNTER = 8
  SLOW_RETRY_LIMIT_CYCLES = 3
  MaxRounds = 5
  HwMayFail = TRUE
  SinkMayFail = FALSE
  CryptoMayFail = FALSE
  Requests <- InfinitePlain
  Draws <- SomeDraws
  Totals <- MCTotals
SPECIFICATION Spec
INVARIANT UnderflowIsHandled
CHECK_DEADLOCK FALSE
