SPECIFICATION LoginSpec
CONSTANTS
  Ids = {i1, i2}
  Names = {n1, n2}
  Identities = {k1}
  Requests = {r1, r2}
  Suspendable = {i1}
  None = None
  Faults = TRUE
SYMMETRY Symmetry
INVARIANTS
  LoginTypeOK
  SignsInTheLinked
  SignUpSignsIn
  RetrySignsIn
  AccountsAreWhole
PROPERTIES
  UpdatesDoNotOverwrite
  DirectorySpec
