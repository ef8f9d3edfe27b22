SPECIFICATION Spec
CONSTANTS
  c1 = c1 c2 = c2 c3 = c3 c4 = c4
  p1 = p1 p2 = p2 s1 = s1 s2 = s2 d1 = d1 d2 = d2
  k1 = k1 k2 = k2 j1 = j1 res = res None = None
  Calls = {c1, c2, c3, c4}
  Principals = {p1, p2}
  Services = {s1}
  Ids = {1, 2}
  Dids = {d1, d2}
  Requests <- MCRequests
  Transitions <- MCTransitions
  MaximumLifetime = 1
  DefaultLifetime = 1
  HostedVerification = TRUE
  MaxClock = 1
PROPERTY SignsOnlyWhileActive
CHECK_DEADLOCK FALSE
