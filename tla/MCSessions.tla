----------------------------- MODULE MCSessions -----------------------------
(* Small instances of Sessions for TLC. *)
EXTENDS Sessions, TLC

(* Slots and browsers are interchangeable: no action compares or orders them. *)
Symmetry == Permutations(Requests) \cup Permutations(Browsers)
=============================================================================
