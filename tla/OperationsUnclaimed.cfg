SPECIFICATION MCSpec
CONSTANTS
  c1 = c1
  w1 = w1
  w2 = w2
  NoCase = NoCase
  Cases = {c1}
  Orders = {"order"}
  OrderOf <- OneOrder
  Workers = {w1, w2}
  MaxAttempts = 2
  MaxVersion = 6
  reverse = reverse
  other = other
  i1 = i1
  i2 = i2
  i3 = i3
  NoOne = NoOne
  NoKey = NoKey
  Keys = {reverse, other}
  Supported = {reverse}
  Invocations = {i1, i2, i3}
  N = 3
  Deps <- Fork
  Writes = {2, 3}
  MaxResume = 1
  ReadAttempts = 2
  MaxExec = 3
  MaxFaults = 2
INVARIANT CallerOwnsLease
CHECK_DEADLOCK FALSE
