SPECIFICATION Spec
CONSTANTS
  Members = {m1}
  Names = {n1}
  Fields = {"phoneNumber", "country"}
  Values = {v1}
  Empty = Empty
  Invalid = Invalid
  AppScopes = {{"openid", "phone", "membership"}}
  Requests = {r1, r2}
  None = None
  MaxTime = 1
SYMMETRY Symmetry
INVARIANTS TypeOK DefaultDeny DetailsOnlyIfActive
PROPERTIES PatchesMerge
CHECK_DEADLOCK FALSE
