------------------------------ MODULE MCWsFeed ------------------------------
(* Model checking of WsFeed. *)
EXTENDS WsFeed, TLC

Symmetry == Permutations(Clients) \cup Permutations(Bridges)
=============================================================================
