SPECIFICATION FairSpec
CONSTANTS
  Txn <- MCTxn
  Stale <- MCStale
  Sent <- MCSent
  Others <- MCOthers
  Addresses = 2
  Attempts = 2
  Window = 2
  Backoff = 1
  H3Timeout = 2
  Capacity = 1
  MaxForeign = 1
  MaxRebinds = 1
  SetupTimeout = 5
  ConnectTimeout = 2
  EchoTimeout = 1
  MaxAge = 2
  Delay = 1
  MaxStrays = 1
INVARIANTS WalkFinds RttCovers AnswersHeard SeenOnBinding FreshMappings MeetInTime StraysCaught ListenerProves
PROPERTY RunsEnd
CHECK_DEADLOCK FALSE
