----------------------------- MODULE MCProfiles -----------------------------
(* Small instances of Profiles for TLC. *)
EXTENDS Profiles, TLC

(* Slots, names and values are only compared for equality.                  *)
Symmetry == Permutations(Requests) \cup Permutations(Names) \cup Permutations(Values)
=============================================================================
