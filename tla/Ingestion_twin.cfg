SPECIFICATION Spec
CONSTANTS
  Vehicles = {v1}
  MaxTs = 2
  Workers = {w1, w2}
  QueueSize = 2
  BatchSize = 2
  Policies = {FALSE}
  InsertMayFail = FALSE
  RedisMayFail = FALSE
  MayStop = FALSE
  None = None
INVARIANT TwinIsLatest
CHECK_DEADLOCK FALSE
