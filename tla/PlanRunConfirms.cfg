SPECIFICATION Spec
CONSTANTS
  N = 2
  Deps <- Chain
  Writes = {1, 2}
  MaxResume = 1
  MaxAttempts = 1
  MaxExec = 3
  MaxFaults = 2
INVARIANT ConfirmsOnlyWhatWasAsked
CHECK_DEADLOCK FALSE
