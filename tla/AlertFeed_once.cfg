SPECIFICATION FeedSpec
CONSTANTS
  Firers = {consumer, sweeper}
  RecentMax = 3
  RangeMax = 2
  MaxAlerts = 2
  PushSize = 1
  MaxFired = 2
  MaxCuts = 0
INVARIANT ListedOnce
CHECK_DEADLOCK FALSE
