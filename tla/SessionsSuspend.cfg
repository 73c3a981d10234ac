SPECIFICATION FairSpec
CONSTANTS
  Members = {m1}
  Browsers = {b1}
  Requests = {r1, r2}
  Suspendable = {m1}
  None = None
  TTL = 1
  Faults = FALSE
  MaxTime = 1
  MaxLogins = 1
INVARIANT SuspendedNeverLogsIn
PROPERTY RequestsAnswered
