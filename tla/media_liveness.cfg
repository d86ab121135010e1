SPECIFICATION FairSpec
CONSTANTS
  MaxDirect = 1
  MayRelay = FALSE
  Queue = 1
  Window = 1
  MaxFrames = 2
  MaxChanges = 1
PROPERTY StoppedSessionsEnd
CHECK_DEADLOCK FALSE
