SPECIFICATION Spec
CONSTANTS
  c1 = c1 c2 = c2 s1 = s1 s2 = s2 j1 = j1 j2 = j2 None = None
  Calls = {c1, c2}
  Requests <- MCRequests
  Services = {s1}
  Changes = {"active", "suspended"}
  Documents = {0, 1, 2}
  InvalidDocuments = {1}
  CacheControls <- MCCacheControls
  maximumInspectRedirects = 1
  RequestTimeout = 1
  DefaultMaxAge = 2
  MaxStages = 1
  MaxClock = 4
INVARIANTS TypeOK UsedWhileFresh AnswersHold
CHECK_DEADLOCK FALSE
