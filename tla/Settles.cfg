SPECIFICATION MCSpec
CONSTANTS
  r1 = r1
  s1 = s1
  w1 = w1
  w2 = w2
  o1 = o1
  document = document
  index = index
  NoOp = NoOp
  NoRun = NoRun
  NoWorker = NoWorker
  Workers = {w1, w2}
  Runs <- OneRun
  Sessions <- OneSession
  SessionOf <- SameSession
  Kind <- WriteOnly
  Collaboration = TRUE
  MaxAttempts = 2
  ReplayAttempts = 1
  CasRetries = 2
  MaxVersion = 4
  MaxCancel = 4
  MaxReplay = 0
  MaxOwnership = 2
PROPERTIES
  EveryRunSettles
  EventuallySettled
  EveryImportEnds
CHECK_DEADLOCK FALSE
