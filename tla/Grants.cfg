SPECIFICATION Spec
CONSTANTS
  Members = {m1}
  Clients = {a1, a2}
  Scopes = {}
  GrantIds = {g1, g2}
  Tokens = {t1, t2}
  Requests = {r1, r2}
  None = None
  Faults = TRUE
SYMMETRY Symmetry
INVARIANTS TypeOK RevokeReachesEveryGrant NoTokenOutlivesItsGrant ReplayRefused
PROPERTIES RevokeTouchesOneConnection
CHECK_DEADLOCK FALSE
