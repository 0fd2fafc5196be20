----------------------------- MODULE MCSandbox ------------------------------
(* Model checking of Sandbox.  The levels of the bot can meet each other, and
   the user's order can be matched by both of them. *)
EXTENDS Sandbox, TLC

CONSTANTS p1, p2

MeetingLevels ==
    p1 :> {[side |-> SELL, price |-> 1, qty |-> 1]}
    @@ p2 :> {[side |-> BUY, price |-> 2, qty |-> 2], [side |-> SELL, price |-> 2, qty |-> 2]}
=============================================================================
