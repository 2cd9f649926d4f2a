CONSTANTS
  MinWall <- MCMinWall
  MaxWall = 3
  MaxLogical = 1
  OpIDs = {"o1", "o2", "o3", "o4"}
  DocIDs <- MCDocIDs
  Fields <- MCFields
  Values = {"o1", "o2", "o3", "o4"}
  Reqs = {r1, r2}
  Msgs <- MCMsgs
  Ops <- MCOps
  Walls = {1}
  serverID = 1
  threshold = 1
  MaxVersion = 2
SPECIFICATION FairSpec
INVARIANTS
  CursorAdvances
  NothingSentTwice
  AnnouncedAfterCommit
PROPERTIES
  DeltaComplete
  SnapshotComplete
  PromiseSpec
  RequestsEnd
