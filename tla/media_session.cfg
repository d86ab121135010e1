SPECIFICATION Spec
CONSTANTS
  MaxDirect = 1
  MayRelay = TRUE
  Queue = 1
  Window = 2
  MaxFrames = 2
  MaxChanges = 1
INVARIANTS RelayTrips ConfirmedMeansRead
PROPERTY ImplementsFailClosed
CHECK_DEADLOCK FALSE
