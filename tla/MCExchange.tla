----------------------------- MODULE MCExchange -----------------------------
(* Model checking of Exchange.  Three orders are enough for a match to meet two
   resting orders and for a cancelled or lost match to leave a counterparty. *)
EXTENDS ExchangeInv, TLC

Symmetry == Permutations(Orders)
=============================================================================
