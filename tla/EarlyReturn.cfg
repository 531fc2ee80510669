\* ConnectBlock may return early: the master and two workers, four checks of which one fails
SPECIFICATION Spec
CONSTANTS
  Workers = {w1, w2}
  Master = m
  Checks = {1, 2, 3, 4}
  Bad = {3}
  nBatchSize = 2
  NONE = NONE
INVARIANT DataOutlivesChecks
