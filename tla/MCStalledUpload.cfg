SPECIFICATION Spec
CONSTANTS
  r1 = r1
  r2 = r2
  r3 = r3
  None = None
  Requests = {r1, r2, r3}
  MaxConnections = 2
INVARIANT FailedAttemptFreesSession
CHECK_DEADLOCK FALSE
