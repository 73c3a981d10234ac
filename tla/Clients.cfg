SPECIFICATION Spec
CONSTANTS
  Ids = {i1, i2}
  ClientIds = {c1, c2}
  Values = {v1, v2}
  Bad = Bad
  Members = {m1}
  Requests = {r1, r2}
  None = None
SYMMETRY Symmetry
INVARIANTS
  TypeOK
  ClientsAreSound
  InheritedOnlyByChoice
  ListShowsEveryGrant
PROPERTIES
  UpdatesMerge
CHECK_DEADLOCK FALSE
