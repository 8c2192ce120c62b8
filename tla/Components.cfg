SPECIFICATION ComponentsSpec
CONSTANTS
  Values <- Temperatures
  Window = 3
  K = 2
  MaxSeen = 7
  Grid = {0, 1, 2}
  MaxVertices = 5
  Turn = 4
  MaxLat = 0
  MaxLon = 0
  Fine = 3
  Charge = 100
  Drain = 20
  MaxAge = 2
  Latencies = {1, 2, 5}
  Capacity = 3
  DefaultCapacity = 4
  MaxObserved = 5
  Firers = {consumer, sweeper}
  RecentMax = 3
  RangeMax = 2
  MaxAlerts = 2
  PushSize = 1
  MaxFired = 4
  MaxCuts = 1
INVARIANTS ComponentsTypeOK TrianglesByTheirSides CutsLoseNothing RecallHolds RejectedAtTheEdges ScrapeIsTrue FeedIsHistory RepeatsOnlyAtTheFetch
PROPERTY RollsOverHistory
CHECK_DEADLOCK FALSE
