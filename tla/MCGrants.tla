------------------------------ MODULE MCGrants ------------------------------
(* Grants on small sets; requests, grants and tokens are interchangeable.   *)
EXTENDS Grants, TLC

Symmetry ==
  Permutations(Requests) \cup Permutations(GrantIds) \cup Permutations(Tokens)
    \cup Permutations(Clients)
=============================================================================
