------------------------------ MODULE MCOutbox ------------------------------
(* Model checking of Outbox: three events, one of them always refused, in
   batches of two by two publishers. *)
EXTENDS Outbox
=============================================================================
