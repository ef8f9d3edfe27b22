SPECIFICATION Spec
CONSTANTS
  c1 = c1 c2 = c2 c3 = c3 x = x y = y k1 = k1 k2 = k2
  apikey = apikey custom = custom i1 = i1 i2 = i2 None = None
  Calls = {c1, c2, c3}
  Requests <- MCRequests
  Sessions = {x, y}
  Identities = {i1, i2}
  GrantTypes = {apikey, custom}
  BuiltInGrantTypes = {apikey}
  Starts <- MCStarts
  Decisions <- MCDecisions
  MaxCredentials = 2
INVARIANTS TypeOK OneIdentity RevokeForgets
PROPERTY EveryCallReturns
CHECK_DEADLOCK FALSE
