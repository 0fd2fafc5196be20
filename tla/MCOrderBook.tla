---------------------------- MODULE MCOrderBook ----------------------------
(* Model checking of OrderBook: every history of three or four orders at two
   or three prices, loaded or placed, with cancels in between. *)
EXTENDS OrderBook, TLC

Symmetry == Permutations(Orders)
=============================================================================
