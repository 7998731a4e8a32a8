CONSTANTS
  WORD = 2
  MAX_CHUNK_SIZE = 3
  SIZE_RANGE = 64
  UINT_RANGE = 8
  KILO = 2
  MAX_THREADS = 5
  DEFAULT_THREADS = 2
  AmountArgs <- MCAmountArgs
  ThreadArgs <- MCThreadArgs
  MaxArgs = 3
  RDRAND_MIN_KEY_LENGTH = 4
  RDRAND_MAX_KEY_LENGTH = 32
  DEFAULT_KEY_LEN = 16
  MAX_KEYS = 2
  DigitCounts <- MCDigitCounts
  MaxLines = 4
SPECIFICATION ProgramSpec
INVARIANTS ProgramTypeOK AcceptedPlanIsExact KeysAreTheFile GeneratesAsAsked
CHECK_DEADLOCK FALSE
