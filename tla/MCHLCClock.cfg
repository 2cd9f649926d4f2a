CONSTANTS
  MinWall <- MCMinWall
  MaxWall = 3
  MaxLogical = 1
  deviceID = 1
  MaxCalls = 3
  WireClocks <- MCWireClocks
SPECIFICATION Spec
INVARIANTS
  StrictlyIncreasing
  ReceivedIsPast
CHECK_DEADLOCK FALSE
