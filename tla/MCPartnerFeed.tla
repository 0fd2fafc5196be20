--------------------------- MODULE MCPartnerFeed ---------------------------
(* Model checking of PartnerFeed and MarketFeed.  A quantity of 20 is jittered to
   19..21, and from 19 to 21 is a material drift; 7 bits make the pause wrap within
   the bound on the attempts, as 64 bits do after 34 failures. *)
EXTENDS PartnerFeed

CONSTANT Prices

MCSnapshots == UNION {[S -> {20}] : S \in SUBSET Prices}
=============================================================================
