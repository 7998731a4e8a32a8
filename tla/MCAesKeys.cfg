CONSTANTS
  MAX_COUNTER = 8
  MAX_BUFFER_SIZE = 4
  RDRAND_MIN_KEY_LENGTH = 4
  RDRAND_MAX_KEY_LENGTH = 32
  DEFAULT_KEY_LEN = 16
  Draws <- SomeDraws
  KeyAmounts <- SomeAmounts
  KeyLengths <- SomeKeyLengths
  Lengths <- SomeLengths
  CryptoMayFail = TRUE
  HwMayFail = TRUE
  MaxMaterial = 3
  MaxServed = 14
SPECIFICATION Spec
INVARIANTS TypeOK KeystreamNeverRepeats CurrentIsBound
