CONSTANTS
  k1 = k1
  k2 = k2
  Procs = {p1, p2}
  Kids = {k1, k2}
  Docs <- MCDocs
  jwksCacheTTL = 3
  recent = 1
  Timeout = 1
  MaxTime = 5
SPECIFICATION Spec
SYMMETRY MCSymmetry
INVARIANTS
  TypeOK
  CacheIsAsOld
  WaitersAreServed
PROPERTIES
  WithdrawnKeyExpires
  NewKeyIsFound
