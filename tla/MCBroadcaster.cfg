CONSTANTS
  Conns = {c1, c2}
  Writers = {w1, w2}
SPECIFICATION FairSpec
INVARIANTS
  NoLostWakeup
PROPERTIES
  NotifyReturns
  EventuallySeen
CHECK_DEADLOCK FALSE
