SPECIFICATION Spec
CONSTANTS
  Members = {m1}
  Clients = {a1}
  Scopes = {s1}
  GrantIds = {g1}
  Tokens = {t1}
  Requests = {r1, r2}
  None = None
  Faults = FALSE
SYMMETRY Symmetry
INVARIANTS RevokedStaysRevoked
CHECK_DEADLOCK FALSE
