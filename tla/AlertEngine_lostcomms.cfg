SPECIFICATION FairSpec
CONSTANTS
  Vehicles = {v1, v2}
  Readings <- OnlyCalm
  LostCommsAfter = 0
  RecentMax = 2
  None = None
  RedisMayFail = TRUE
  MaxMessages = 2
  LastMessage = 2
  MaxRestarts = 1
INVARIANTS OneAlertPerGap LostFlagIsHonest
PROPERTY SilentIsReported
CHECK_DEADLOCK FALSE
