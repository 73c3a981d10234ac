SPECIFICATION Spec
CONSTANTS
  Ids = {i1}
  Names = {n1}
  Identities = {k1}
  Requests = {r1}
  Suspendable = {i1}
  None = None
  Faults = FALSE
PROPERTY ApprovesOnlyUnverified
