SPECIFICATION Spec
CONSTANTS
  c1 = c1 c2 = c2 x = x y = y None = None
  dPlain = dPlain dLinked = dLinked dBad = dBad dForeign = dForeign
  oOld = oOld oNew = oNew pGood = pGood
  Calls = {c1, c2}
  Sessions = {x, y}
  Requests <- MCRequests
  Documents <- MCDocuments
  Kind <- MCKind
  Publications <- MCPublications
  First <- MCFirst
  Earlier <- MCEarlier
  maximumInspectRedirects = 1
  RequestTimeout = 1
  DefaultInspectFreshness = 2
  MaxStarts = 3
  MaxPublished = 1
  MaxClock = 2
INVARIANTS TypeOK AsFreshAsPromised
CHECK_DEADLOCK FALSE
