CONSTANTS
  Cap = 2
  Jobs <- HexdumpJobs
SPECIFICATION Spec
PROPERTIES AlwaysReturns
CHECK_DEADLOCK FALSE
