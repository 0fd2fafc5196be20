------------------------------ MODULE MCFunds ------------------------------
(* Model checking of Funds: calls, reviews and deposits are interchangeable. *)
EXTENDS Funds, TLC

\* Intake takes an amount below zero like any other.
EitherSign == {-1, 2}

Symmetry == Permutations(Opens) \cup Permutations(Debits) \cup Permutations(Reviews) \cup Permutations(Hashes)
=============================================================================
