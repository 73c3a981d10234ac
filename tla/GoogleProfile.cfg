SPECIFICATION LoginSpec
CONSTANTS
  Ids = {i1}
  Names = {n1}
  Identities = {k1}
  Requests = {r1}
  Suspendable = {}
  None = None
  Faults = FALSE
INVARIANT VerifiesTheLinked
