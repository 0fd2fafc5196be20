------------------------------ MODULE BookSpec ------------------------------
(***************************************************************************)
(* What the order book of one symbol promises, whoever calls it: orders    *)
(* are loaded before the worker starts, then placed and cancelled one      *)
(* command at a time, and an incoming order trades with the resting orders *)
(* of the other side best price first, first come first served.            *)
(***************************************************************************)
EXTENDS MatchingBook

CONSTANTS Prices,  \* limit prices a client may ask for
          MaxQty   \* largest quantity of an order

ASSUME BookBounds == Prices \subseteq Nat \ {0} /\ MaxQty \in Nat \ {0}

VARIABLE started  \* Engine.started: Start has been called

vars == <<attr, book, ahead, rem, incoming, fills, seq, started>>

Request == [side : Sides, price : Prices, qty : 1..MaxQty]

Init == /\ BookInit
        /\ attr = [o \in Orders |-> NoAttr]
        /\ started = FALSE

\* LoadOrder inserts without matching; after Start it is ignored.
LoadOrder(o, a) ==
    /\ ~started
    /\ attr[o] = NoAttr
    /\ attr' = [attr EXCEPT ![o] = a]
    /\ book' = book \cup {o}
    /\ ahead' = Queued(o, a)
    /\ rem' = [rem EXCEPT ![o] = a.qty]
    /\ UNCHANGED <<incoming, fills, seq, started>>

Start == /\ ~started
         /\ started' = TRUE
         /\ UNCHANGED <<attr, bookVars>>

\* handlePlace receives an order the engine has not seen.
Place(o, a) == /\ started
               /\ attr[o] = NoAttr
               /\ attr' = [attr EXCEPT ![o] = a]
               /\ BeginMatch(o, a.qty)
               /\ UNCHANGED started

Match == /\ MatchOne \/ FinishMatch
         /\ UNCHANGED <<attr, started>>

Cancel(o) == /\ started
             /\ CancelResting(o)
             /\ UNCHANGED <<attr, started>>

Next == \/ Start
        \/ Match
        \/ \E o \in Orders : Cancel(o)
        \/ \E o \in Orders, a \in Request : LoadOrder(o, a) \/ Place(o, a)

Spec == Init /\ [][Next]_vars
=============================================================================
