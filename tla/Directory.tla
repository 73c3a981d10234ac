------------------------------ MODULE Directory ------------------------------
(***************************************************************************)
(* What registration, renaming and the Google/Telegram links promise       *)
(* together: the membership is a table in which a username and an external *)
(* identity each belong to at most one member.  Joining and renaming are   *)
(* single steps here; in the code each is a lookup, then a write.          *)
(***************************************************************************)
CONSTANTS Ids, Names, Identities, None

VARIABLES
  name,   \* name[i]: the username of member i, None before i has joined
  links   \* links[i]: the external identities member i signs in with

vars == <<name, links>>

Taken(n) == \E i \in Ids : name[i] = n

Linked(k) == \E i \in Ids : k \in links[i]

Init == name = [i \in Ids |-> None] /\ links = [i \in Ids |-> {}]

(* A password member joins with no identity, any other with one. *)
Join(i, n, K) ==
  /\ name[i] = None
  /\ ~Taken(n)
  /\ \A k \in K : ~Linked(k)
  /\ name' = [name EXCEPT ![i] = n]
  /\ links' = [links EXCEPT ![i] = K]

Rename(i, n) ==
  /\ name[i] # None
  /\ ~Taken(n)
  /\ name' = [name EXCEPT ![i] = n]
  /\ UNCHANGED links

Next ==
  \E i \in Ids, n \in Names :
    \/ Rename(i, n)
    \/ Join(i, n, {})
    \/ \E k \in Identities : Join(i, n, {k})

Spec == Init /\ [][Next]_vars
=============================================================================
