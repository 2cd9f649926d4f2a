CONSTANTS
  KeyIDs = {k1, k2}
  Secrets = {s1, s2}
  Procs = {p1, p2}
SPECIFICATION Spec
INVARIANTS
  RevokedIsRejected
