---------------------------- MODULE SessionLedger ----------------------------
(***************************************************************************)
(* What the refresh tokens of members-api promise, with the tokens, the    *)
(* requests and the clock forgotten: a login opens a session for one       *)
(* member, the session belongs to that member for as long as it lives, and *)
(* once it has ended (logout, or a refresh that failed half way) nothing   *)
(* brings it back.  Sessions end one at a time: ending one never takes     *)
(* another with it.  Sessions.tla is shown to implement this module.       *)
(***************************************************************************)
EXTENDS Naturals

CONSTANT Members

VARIABLES
  opened,  \* how many sessions were ever opened; they are numbered 1..opened
  live     \* the sessions that can still be continued, each with its member

vars == <<opened, live>>

Session == [id : Nat \ {0}, member : Members]

Init == opened = 0 /\ live = {}

Open(m) ==
  /\ opened' = opened + 1
  /\ live' = live \cup {[id |-> opened + 1, member |-> m]}

End(s) ==
  /\ live' = live \ {s}
  /\ UNCHANGED opened

Next == (\E m \in Members : Open(m)) \/ (\E s \in live : End(s))

Spec == Init /\ [][Next]_vars
=============================================================================
