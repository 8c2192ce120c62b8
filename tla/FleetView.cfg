SPECIFICATION FairSpec
CONSTANTS
  Vehicles = {v1, v2}
  MaxTs = 2
  MaxMessages = 2
  SendSize = 1
  None = None
  MaxBreaks = 1
  MaxRestarts = 1
INVARIANTS TypeOK ViewIsNewest
PROPERTIES OnlyForward PageConverges
CHECK_DEADLOCK FALSE
