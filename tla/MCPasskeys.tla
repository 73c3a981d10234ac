----------------------------- MODULE MCPasskeys -----------------------------
(* Passkeys on small sets.  The challenges, names and requests are          *)
(* interchangeable; the passkeys are not: k1 has a member and counts, the   *)
(* others are still to be made, and of them k3 counts.                      *)
EXTENDS Passkeys, TLC

Symmetry == Permutations(Challenges) \cup Permutations(Names) \cup Permutations(Requests)
=============================================================================
