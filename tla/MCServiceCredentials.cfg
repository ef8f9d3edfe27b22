SPECIFICATION Spec
CONSTANTS
  a1 = a1
  a2 = a2
  g1 = g1
  g2 = g2
  r1 = r1
  q1 = q1
  k1 = k1
  k2 = k2
  s1 = s1
  s2 = s2
  None = None
  Agents = {a1, a2}
  Grants = {g1, g2}
  CredentialIDs = {k1, k2}
  Secrets = {s1, s2}
  Lifetimes = {1}
  Revokes = {r1}
  Requests = {q1}
  GrantTypes <- MCGrantTypes
  Methods <- MCMethods
  JWTMethod = TRUE
  Presentations <- MCPresentations
  MaxTime = 1
SYMMETRY Symmetry
INVARIANTS
  TypeOK
  DeadStaysDead
  RevokeIsComplete
  RevokedByOwner
  AuthenticatedAsGranted
\* Every call is answered in the end.
CHECK_DEADLOCK FALSE
