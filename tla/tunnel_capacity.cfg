SPECIFICATION Spec
CONSTANTS
  Conn = {c1}
  Task = {t1, t2}
  None = None
  MaxStreams = 1
INVARIANT FullRecycled
CHECK_DEADLOCK FALSE
