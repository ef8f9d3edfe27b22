SPECIFICATION ReplaySpec
CONSTANTS
  c1 = c1
  c2 = c2
  c3 = c3
  x = x
  y = y
  Nil = Nil
  Calls <- MCCalls
  Assertions <- MCAssertions
  Skew = 2
  MaximumLifetime = 3
  MaxInt64 = 7
  MaxTime = 7
SYMMETRY Symmetry
INVARIANTS
  ReplayTypeOK
  AcceptedOnceInWindow
  RecordIsNeverStale
\* Every request is answered in the end and the clock reaches its bound.
CHECK_DEADLOCK FALSE
