SPECIFICATION TSpec
CONSTANTS
  Bodies <- MCBodies
  tokenTailMax = 12
  BufMax = 4
  NsPerMs = 2
  MaxInt = 127
  Windows = {0, 40}
INVARIANTS CountIgnoresChunks ExactWhenReported NeverZero
CHECK_DEADLOCK FALSE
