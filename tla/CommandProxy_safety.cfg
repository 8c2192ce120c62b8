SPECIFICATION ProxySpec
CONSTANTS
  Requests = {r1, r2}
  Known = {r1}
  Handlers = {h1, h2}
  Ackers = {a1}
  None = None
  AckTimeout = 1
  LogMayFail = FALSE
  MaxSeq = 2
  LastIssue = 1
  FleetMayDrop = TRUE
  FastRestart = FALSE
  MaxSends = 2
  MaxRestarts = 0
SYMMETRY Symmetry
INVARIANTS TypeOK IdsUnique RecordConsistent LogNeverAhead SentIsTrue ExecutedWasAsked
PROPERTIES NeverBackwards DeliveryPromise
CHECK_DEADLOCK FALSE
