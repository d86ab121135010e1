SPECIFICATION Spec
CONSTANTS
  Socket = {s1, s2, s3, s4}
  Identity = {a, b}
  Task = {t1, t2}
  None = None
  InputGates = TRUE
  MaxLive = 3
  MaxAttempts = 4
  MaxIdentities = 1
  MaxMessages = 1
  Pings = {1}
  AuthTimeout = 1
  PongTimeout = 1
  Expires = 4
  Linger = 4
  AlarmDelay = 1
  Horizon = 1
  MaxRestarts = 1
SYMMETRY Symmetry
INVARIANTS LiveCap OneRoute RegisteredIdentities
PROPERTY SupersededHasSuccessor
CHECK_DEADLOCK FALSE
