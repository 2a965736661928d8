SPECIFICATION MCSpec
CONSTANTS
  o1 = o1
  o2 = o2
  w1 = w1
  w2 = w2
  NoOp = NoOp
  NoWorker = NoWorker
  Workers = {w1, w2}
  Ops = {o1, o2}
  OrderOf <- SameOrder
  OutboxAttempts = 2
  JobAttempts = 1
  MaxJob = 1
SYMMETRY Symmetry
INVARIANTS
  OutcomeMatchesProvider
  CaseMatchesOperation
  SubmissionsEnd
  OneRefundPerOrder
PROPERTIES
  KeepsPromise
CHECK_DEADLOCK FALSE
