SPECIFICATION Spec
CONSTANTS
  Members = {m1}
  Browsers = {b1, b2}
  Requests = {r1, r2}
  Suspendable = {}
  None = None
  TTL = 1
  Faults = TRUE
  MaxTime = 1
  MaxLogins = 2
SYMMETRY Symmetry
INVARIANTS
  TypeOK
  AnsweredTokenIsLive
  SessionsEndForAReason
  OneTokenPerFamily
  SpentStaysSpent
  LogoutOutlivedOnlyByRefresh
  RefreshRefusedForAReason
PROPERTY LedgerSpec
