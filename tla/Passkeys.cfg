SPECIFICATION Spec
CONSTANTS
  Challenges = {c1, c2}
  Keys = {k1, k2, k3}
  Counting = {k1, k3}
  Registered = {k1}
  Names = {n1, n2}
  Suspendable = {k1}
  Requests = {r1, r2}
  MaxCounter = 2
  None = None
  Faults = TRUE
SYMMETRY Symmetry
INVARIANTS TypeOK ChallengePassesOnce RefusedOnlyIfOvertaken AnswerSpendsChallenge NamedByItsCeremony
PROPERTIES CounterGoesBackOnlyInARace JoinsTheDirectory
CHECK_DEADLOCK FALSE
