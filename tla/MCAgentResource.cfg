SPECIFICATION Spec
CONSTANTS
  a = a b = b d1 = d1 d2 = d2 d3 = d3 k1 = k1 k2 = k2 None = None
  URLs <- MCURLs
  Origin <- MCOrigin
  Refused = {4}
  Dids = {d1, d2, d3}
  Home <- MCHome
  Methods = {"aep-jwt", "bearer", "api-key"}
  Advertised <- MCAdvertised
  Requests <- MCRequests
  Credentials = {k1, k2}
INVARIANTS TypeOK SentAsPromised
CHECK_DEADLOCK FALSE
