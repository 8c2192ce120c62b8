SPECIFICATION FairSpec
CONSTANTS
  Vehicles = {v1}
  MaxTs = 2
  Workers = {w1, w2}
  QueueSize = 1
  BatchSize = 2
  Policies = {TRUE, FALSE}
  InsertMayFail = TRUE
  RedisMayFail = TRUE
  MayStop = TRUE
  None = None
INVARIANTS TypeOK Conservation FanoutOnce
PROPERTY NothingIsStuck
CHECK_DEADLOCK FALSE
