----------------------------- MODULE MCAccounts -----------------------------
(* Small instances of Accounts for TLC. *)
EXTENDS Accounts, TLC

(* Slots, names and identities are only ever compared for equality.  Member *)
(* ids are left out where Suspendable tells them apart.                     *)
Symmetry == Permutations(Requests) \cup Permutations(Names) \cup Permutations(Identities)
=============================================================================
