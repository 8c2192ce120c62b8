SPECIFICATION Spec
CONSTANTS
  Requests = {r1}
  Handlers = {h1}
  Ackers = {a1, a2}
  None = None
  AckTimeout = 1
  LogMayFail = FALSE
  MaxSeq = 1
  LastIssue = 2
INVARIANT LogSettles
CHECK_DEADLOCK FALSE
