SPECIFICATION MCSpec
CONSTANTS
  t1 = t1
  t2 = t2
  t3 = t3
  x1 = x1
  v1 = v1
  v2 = v2
  NoArgs = NoArgs
  NoVersion = NoVersion
  Threads = {t1, t2, t3}
  Args = {x1}
  Versions = {v1, v2}
  MaxActions = 2
  MaxOwnership = 3
SYMMETRY Symmetry
INVARIANTS
  DispatchedAtMostOnce
  WithdrawnWasNotDispatched
  QuietUnderHuman
  DispatchedAsConfirmed
  StoredResultIsTrue
PROPERTIES
  OldConsentNeverRevives
CHECK_DEADLOCK FALSE
