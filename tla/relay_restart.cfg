SPECIFICATION FairSpec
CONSTANTS
  Socket = {s1}
  Identity = {a}
  Task = {t1}
  None = None
  InputGates = TRUE
  MaxLive = 2
  MaxAttempts = 1
  MaxIdentities = 1
  MaxMessages = 2
  Pings = {2}
  AuthTimeout = 1
  PongTimeout = 1
  Expires = 3
  Linger = 4
  AlarmDelay = 1
  Horizon = 8
  MaxRestarts = 1
PROPERTY StorageReclaimed
CHECK_DEADLOCK FALSE
