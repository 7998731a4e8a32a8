CONSTANTS
  WORD = 8
  UINT_RANGE = 32
  HwMayFail = TRUE
  RETRY_LIMIT = 2
  RESEED_STEPS = 2
  Builds = {"asm"}
  Calls <- RetryCalls
SPECIFICATION Spec
INVARIANT RetriesUpToLimit
