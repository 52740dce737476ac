------------------------ MODULE MCRefreshCoordinator ------------------------
(* Small instances of the refresh coordinator for TLC. *)
EXTENDS RefreshCoordinator, TLC

(* Requests, and the values they choose from, are interchangeable. *)
Symmetry ==
    Permutations(Requests) \cup Permutations(Sources)
        \cup Permutations(Imports) \cup Permutations(Operations)
=============================================================================
