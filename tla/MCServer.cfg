CONSTANTS
  Reqs = {r1, r2}
  Scopes <- MCScopes
  UserLen = 4
  Hyphens = {2}
  NPages = 3
  MaxCommits = 2
  Beside = {}
SPECIFICATION FairSpec
INVARIANTS
  RowsAreReplicated
  OwnRowsOnly
  BackupIsOneCommit
  StopIsKept
  NothingCutOff
PROPERTIES
  Exits
CHECK_DEADLOCK FALSE
