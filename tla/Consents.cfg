SPECIFICATION Spec
CONSTANTS
  Members = {m1}
  Clients = {a1}
  Scopes = {s1}
  GrantIds = {g1}
  Tokens = {t1}
  Requests = {r1, r2, r3}
  None = None
  Faults = TRUE
SYMMETRY Symmetry
INVARIANTS ScopesAreAgreed
PROPERTIES ConnectionsSpec
CHECK_DEADLOCK FALSE
