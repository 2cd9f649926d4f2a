CONSTANTS
  Requests = {p1, p2}
  IPs = {ip1, ip2, ip3}
  allowedIPs = {ip1, ip2}
  maxAdminAttempts = 2
  rateLimitWindow = 2
  MaxTime = 4
SPECIFICATION LimitSpec
INVARIANTS
  ExcessIsBounded
PROPERTIES
  WindowIsFixed
  LimitedForRecentFailures
