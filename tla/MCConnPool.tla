----------------------------- MODULE MCConnPool -----------------------------
(* Model checking of ConnPool: a settlement, two requests of any kind, so that two reviews
   of one deposit or two trades that name the orders the other way round can meet, and
   the publisher, over a pool of two connections. *)
EXTENDS ConnPool, TLC
=============================================================================
