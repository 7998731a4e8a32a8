CONSTANTS
  WORD = 2
  MAX_CHUNK_SIZE = 2
  UINT_RANGE = 4
  MAX_BUFFER_SIZE = 4
  MAX_COUNTER = 8
  SLOW_RETRY_LIMIT_CYCLES = 3
  MaxRounds = 6
  HwMayFail = FALSE
  SinkMayFail = TRUE
  CryptoMayFail = FALSE
  Requests <- InfiniteRequests
  Draws <- SomeDraws
  Totals <- MCTotals
SPECIFICATION Spec
INVARIANTS RaceFree FreshOutput
CHECK_DEADLOCK FALSE
