SPECIFICATION FairSpec
CONSTANTS
  Conn = {c1, c2}
  Task = {t1, t2}
  None = None
  MaxStreams = 1
INVARIANTS SharedConnection StalledRecycled
PROPERTIES ReplacementKept HandshakesEnd
CHECK_DEADLOCK FALSE
