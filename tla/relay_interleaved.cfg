SPECIFICATION Spec
CONSTANTS
  Socket = {s1, s2, s3}
  Identity = {a, b}
  Task = {t1, t2}
  None = None
  InputGates = FALSE
  MaxLive = 3
  MaxAttempts = 3
  MaxIdentities = 2
  MaxMessages = 2
  Pings = {2}
  AuthTimeout = 2
  PongTimeout = 1
  Expires = 6
  Linger = 2
  AlarmDelay = 1
  Horizon = 1
  MaxRestarts = 0
SYMMETRY Symmetry
INVARIANTS DatagramsAccounted LedgerBalanced
PROPERTIES ArchivedIsFinal ImplementsDirectory
CHECK_DEADLOCK FALSE
