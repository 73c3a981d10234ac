-------------------------- MODULE MCFederatedLogin --------------------------
(* Small instances of FederatedLogin for TLC. *)
EXTENDS FederatedLogin, TLC

Symmetry == Permutations(Requests) \cup Permutations(Names) \cup Permutations(Identities)
=============================================================================
