------------------------------ MODULE MCClients ------------------------------
(* Small instances of Clients for TLC. *)
EXTENDS Clients, TLC

Symmetry == Permutations(Requests) \cup Permutations(Ids)
            \cup Permutations(ClientIds) \cup Permutations(Values)
=============================================================================
