CONSTANTS
  WORD = 2
  MAX_CHUNK_SIZE = 3
  UINT_RANGE = 32
  MAX_BUFFER_SIZE = 4
  MAX_COUNTER = 8
  SLOW_RETRY_LIMIT_CYCLES = 3
  MaxRounds = 12
  HwMayFail = TRUE
  SinkMayFail = TRUE
  CryptoMayFail = TRUE
  Requests <- AllRequests
  Draws <- SomeDraws
  Totals <- MCTotals
SPECIFICATION FairSpec
INVARIANTS TypeOK RaceFree FreshOutput OutputBounded OutputAccounted CompleteUnlessIncident NoRoundSkipped
PROPERTIES Terminates ImplementsStream
