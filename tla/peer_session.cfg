SPECIFICATION SessionSpec
CONSTANTS
  Blocks = 2
  MaxMessages = 2
  MaxCandidates = 2
INVARIANTS SuccessMeansEchoed InOrder SignalingSettles
PROPERTIES ImplementsAgreement ExperimentsEnd
CHECK_DEADLOCK FALSE
