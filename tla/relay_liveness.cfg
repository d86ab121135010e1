SPECIFICATION FairSpec
CONSTANTS
  Socket = {s1, s2}
  Identity = {a}
  Task = {t1, t2}
  None = None
  InputGates = TRUE
  MaxLive = 2
  MaxAttempts = 2
  MaxIdentities = 1
  MaxMessages = 2
  Pings = {1}
  AuthTimeout = 1
  PongTimeout = 1
  Expires = 3
  Linger = 4
  AlarmDelay = 1
  Horizon = 8
  MaxRestarts = 0
INVARIANT DeadlinesCovered
PROPERTIES SocketsRetired StorageReclaimed
CHECK_DEADLOCK FALSE
