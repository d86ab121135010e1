SPECIFICATION Spec
CONSTANTS
  MaxDirect = 1
  MayRelay = TRUE
  Queue = 1
  Window = 1
  MaxFrames = 1
  MaxChanges = 1
INVARIANT NoRelayProof
CHECK_DEADLOCK FALSE
