SPECIFICATION FairSpec
CONSTANTS
  Process = {p1, p2}
  Nobody = Nobody
  MaxKeys = 2
  web = web
  cam = cam
  other = other
  Service = {web, cam}
  Me = Me
  Endpoint = {Me, other}
  All = All
  RuleSets <- MCRuleSets
  Unknown = Unknown
  Malformed = Malformed
  Partial = Partial
  HandshakeTimeout = 1
  RejectTimeout = 1
  RequestTimeout = 1
  DialTimeout = 1
  ClientTimeout = 5
  Delay = 1
  MaxBytes = 1
INVARIANTS OneIdentity OnlyAllowed StatusInTime CleanMeansComplete
PROPERTIES ImplementsDuplex EndsPropagate NeverParked
CHECK_DEADLOCK FALSE
