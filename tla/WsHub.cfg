SPECIFICATION FairSpec
CONSTANTS
  Clients = {c1, c2}
  SendSize = 1
  MaxFrames = 2
  None = None
INVARIANTS TypeOK NeverSendsOnClosed OneOrder
PROPERTIES MissedWhenFull HubNeverBlocks NoLeak
CHECK_DEADLOCK FALSE
