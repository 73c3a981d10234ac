----------------------------- MODULE Connections -----------------------------
(***************************************************************************)
(* What consent and revocation promise together, with the requests, the    *)
(* codes, the expiry and the failures forgotten: a grant connects one      *)
(* member to one app and never changes hands; its scopes are those a       *)
(* consent found in it and those it added; a revocation takes the scopes   *)
(* and every token in one step; and a grant that was revoked is back only  *)
(* through a consent that had begun while it stood.                        *)
(***************************************************************************)
CONSTANTS GrantIds, Members, Clients, Scopes, Tokens, None

VARIABLES
  owner,     \* owner[g]: the member and the app that g connects, or connected
  standing,  \* the grants that stand
  allowed,   \* allowed[g]: the scopes of g, {} when it does not stand
  usable,    \* usable[g]: its codes and access tokens, {} when it does not stand
  begun      \* what the consents under way for a known grant are about to save

vars == <<owner, standing, allowed, usable, begun>>

Nobody == [member |-> None, client |-> None]

Init ==
  /\ owner = [g \in GrantIds |-> Nobody]
  /\ standing = {}
  /\ allowed = [g \in GrantIds |-> {}]
  /\ usable = [g \in GrantIds |-> {}]
  /\ begun = {}

(* A first consent. *)
Connect(g, m, a, S) ==
  /\ owner[g] = Nobody
  /\ owner' = [owner EXCEPT ![g] = [member |-> m, client |-> a]]
  /\ standing' = standing \cup {g}
  /\ allowed' = [allowed EXCEPT ![g] = S]
  /\ UNCHANGED <<usable, begun>>

(* A later one has read the grant, and added the scopes it asked for. *)
Begin(g, S) ==
  /\ g \in standing
  /\ begun' = begun \cup {[grant |-> g, scopes |-> allowed[g] \cup S]}
  /\ UNCHANGED <<owner, standing, allowed, usable>>

GiveUp(b) ==
  /\ begun' = begun \ {b}
  /\ UNCHANGED <<owner, standing, allowed, usable>>

(* It saves what it has; another may be about to save the same. *)
Write(b) ==
  /\ standing' = standing \cup {b.grant}
  /\ allowed' = [allowed EXCEPT ![b.grant] = b.scopes]
  /\ begun' \in {begun, begun \ {b}}
  /\ UNCHANGED owner

Extend(b) ==
  /\ b.grant \in standing
  /\ Write(b)
  /\ UNCHANGED usable

(* Tokens whose save raced the revocation come back with their grant. *)
Revive(b) ==
  /\ b.grant \notin standing
  /\ Write(b)
  /\ \E U \in SUBSET Tokens : usable' = [usable EXCEPT ![b.grant] = U]

Issue(g, t) ==
  /\ g \in standing
  /\ \A h \in GrantIds : t \notin usable[h]
  /\ usable' = [usable EXCEPT ![g] = usable[g] \cup {t}]
  /\ UNCHANGED <<owner, standing, allowed, begun>>

(* A replayed code, or a revocation that comes no further than this. *)
SignOut(g) ==
  /\ usable' = [usable EXCEPT ![g] = {}]
  /\ UNCHANGED <<owner, standing, allowed, begun>>

End(g) ==
  /\ standing' = standing \ {g}
  /\ allowed' = [allowed EXCEPT ![g] = {}]
  /\ usable' = [usable EXCEPT ![g] = {}]
  /\ UNCHANGED <<owner, begun>>

Next ==
  \/ \E g \in GrantIds :
       \/ \E m \in Members, a \in Clients, S \in SUBSET Scopes : Connect(g, m, a, S)
       \/ \E S \in SUBSET Scopes : Begin(g, S)
       \/ \E t \in Tokens : Issue(g, t)
       \/ SignOut(g) \/ End(g)
  \/ \E b \in begun : GiveUp(b) \/ Extend(b) \/ Revive(b)

Spec == Init /\ [][Next]_vars
=============================================================================
