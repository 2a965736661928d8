SPECIFICATION Spec
CONSTANTS
  r1 = r1
  r2 = r2
  s1 = s1
  w1 = w1
  w2 = w2
  NoRun = NoRun
  NoWorker = NoWorker
  Workers = {w1, w2}
  Runs <- OneRun
  Sessions <- OneSession
  SessionOf <- SameSession
  Kind <- ReadThenWrite
  Collaboration = FALSE
  MaxAttempts = 2
  ReplayAttempts = 1
  CasRetries = 2
  MaxVersion = 4
  MaxCancel = 10
  MaxReplay = 3
  MaxOwnership = 1
SYMMETRY WorkerSymmetry
INVARIANTS
  WritesSentAtMostOnce
  OutstandingWriteIsIsolated
  UnknownWriteNeverSettles
  CancelledSentNothing
CHECK_DEADLOCK FALSE
