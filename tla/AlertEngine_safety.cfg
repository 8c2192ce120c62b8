SPECIFICATION Spec
CONSTANTS
  Vehicles = {v1}
  Readings <- CalmToTrouble
  LostCommsAfter = 0
  RecentMax = 2
  None = None
  RedisMayFail = FALSE
  MaxMessages = 3
  LastMessage = 2
  MaxRestarts = 0
INVARIANTS TypeOK AlertsAreDue AlertsGoOut
CHECK_DEADLOCK FALSE
