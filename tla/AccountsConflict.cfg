SPECIFICATION Spec
CONSTANTS
  Ids = {i1, i2}
  Names = {n1}
  Identities = {k1}
  Requests = {r1, r2}
  Suspendable = {}
  None = None
  Faults = FALSE
INVARIANT TakenNameIs409
