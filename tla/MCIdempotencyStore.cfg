SPECIFICATION FairSpec
CONSTANTS
  c1 = c1
  c2 = c2
  c3 = c3
  None = None
  Calls <- MCCalls
  Inputs <- MCInputs
  RequestsOf <- MCRequestsOf
  Retention = 2
  MaxTime = 3
INVARIANTS
  TypeOK
  SingleFlight
  OncePerRetention
  RepliesAreFaithful
PROPERTIES
  ImplementsContract
  EveryCallReturns
\* Every call of the model returns in the end and the clock reaches its bound.
CHECK_DEADLOCK FALSE
