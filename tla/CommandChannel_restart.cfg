SPECIFICATION FairRestartSpec
CONSTANTS
  Requests = {r1, r2}
  Known = {r1}
  Handlers = {h1}
  Ackers = {a1}
  None = None
  AckTimeout = 1
  LogMayFail = TRUE
  MaxSeq = 1
  LastIssue = 2
  FleetMayDrop = TRUE
  FastRestart = FALSE
  MaxSends = 2
  MaxRestarts = 1
INVARIANT AppliedWasExecuted
PROPERTIES HandedOverIsApplied SentIsResolved
CHECK_DEADLOCK FALSE
