CONSTANTS
  MinWall <- MCMinWall
  MaxWall = 1
  MaxLogical = 1
  OpIDs = {"o1", "o2", "o3", "o4"}
  DocIDs = {"d1", "d2"}
  Fields = {"f", "g"}
  Values = {"o1", "o2", "o3", "o4"}
  Ops <- MCOps
  Procs = {p1, p2}
SPECIFICATION Spec
INVARIANTS
  LossFree
