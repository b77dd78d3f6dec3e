CONSTANTS
  COUNTER_BYTE_LEN = 4
  NONCE_RAND_BYTE_LEN = 12
  PoolSize = 8

SPECIFICATION NonceSpec

INVARIANT OncePerByte

PROPERTY NonceEnds

CHECK_DEADLOCK FALSE
