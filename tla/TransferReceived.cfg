SPECIFICATION FtrSpec
CONSTANTS
  Contents <- ThreeFiles
  CHUNK = 2
  MaxCopy = 6
  Inputs <- OneGet
INVARIANTS ReceivedIsSent
CHECK_DEADLOCK FALSE
