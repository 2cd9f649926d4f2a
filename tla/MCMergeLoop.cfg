CONSTANTS
  MinWall <- MCMinWall
  MaxWall = 1
  MaxLogical = 1
  OpIDs = {"o1", "o2", "o3", "o4", "o5"}
  DocIDs = {"d1"}
  Fields = {"f", "g"}
  Values = {"v1", "v2", "v3"}
  Replicas = {r1, r2}
  Ops <- MCOps
  MaxLen = 3
SPECIFICATION MergeSpec
INVARIANTS
  WinnersAreMerge
  Converged
CHECK_DEADLOCK FALSE
