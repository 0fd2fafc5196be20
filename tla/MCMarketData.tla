---------------------------- MODULE MCMarketData ----------------------------
(* Model checking of MarketData: three orders make two trades and a rest whose
   handlers can overtake each other, and a recent list of one overflows. *)
EXTENDS MarketData, TLC

Symmetry == Permutations(Orders)
=============================================================================
