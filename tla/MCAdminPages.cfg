CONSTANTS
  KeyIDs = {k1, k2}
  Secrets = {s1, s2}
  Procs = {p1, p2}
  syncPageSize = 1
  MaxEvents = 3
SPECIFICATION PagesSpec
SYMMETRY MCSymmetry
INVARIANTS
  ToldSecretWorks
  RevokedUnlessRaced
  ListedAreCounted
  WalkSeesAll
