SPECIFICATION Spec
CONSTANTS
  r1 = r1
  r2 = r2
  s1 = s1
  w1 = w1
  w2 = w2
  NoRun = NoRun
  NoWorker = NoWorker
  Workers = {w1, w2}
  Runs <- TwoRuns
  Sessions <- OneSession
  SessionOf <- SameSession
  Kind <- ReadOnly
  Collaboration = TRUE
  MaxAttempts = 1
  ReplayAttempts = 1
  CasRetries = 1
  MaxVersion = 2
  MaxCancel = 2
  MaxReplay = 2
  MaxOwnership = 3
SYMMETRY Symmetry
INVARIANT HandoffEndsCompleted
CHECK_DEADLOCK FALSE
