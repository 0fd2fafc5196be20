----------------------------- MODULE OrderBook -----------------------------
(***************************************************************************)
(* The data structure of internal/engine/book.go: each side of the book is *)
(* a slice of price levels, bids by descending and asks by ascending       *)
(* price, and each level holds its orders first in, first out.  The steps  *)
(* are those of the worker that owns the book.  Refinement states that the *)
(* structure behaves as the price-time priority queue of BookSpec.         *)
(***************************************************************************)
EXTENDS Naturals, Sequences, SequencesExt

CONSTANTS Orders, None, Prices, MaxQty

ASSUME OrderBookBounds ==
    /\ None \notin Orders
    /\ Prices \subseteq Nat \ {0}
    /\ MaxQty \in Nat \ {0}

VARIABLES bids, asks,  \* Seq([price, orders]), best level first
          attr, rem, incoming, fills, seq, started

vars == <<bids, asks, attr, rem, incoming, fills, seq, started>>

BUY == "BUY"
SELL == "SELL"
Request == [side : {BUY, SELL}, price : Prices, qty : 1..MaxQty]
NoAttr == [side |-> BUY, price |-> 0, qty |-> 0]
Lesser(m, n) == IF m < n THEN m ELSE n

Level(p, orders) == [price |-> p, orders |-> orders]

-----------------------------------------------------------------------------
(* PriceLevel and OrderBook *)

\* Where the scan ends: the first of the levels that stop it, or one past the last.
SlotOf(levels, stops) == IF stops = {} THEN Len(levels) + 1 ELSE Min(stops)

\* Mutant: the last order at a price is the first to trade.
AddAtFront(levels, i, o, p) ==
    IF i <= Len(levels) /\ levels[i].price = p
    THEN [levels EXCEPT ![i].orders = <<o>> \o @]
    ELSE InsertAt(levels, i, Level(p, <<o>>))

AddAt(levels, i, o, p) ==
    IF i <= Len(levels) /\ levels[i].price = p
    THEN [levels EXCEPT ![i].orders = Append(@, o)]
    ELSE InsertAt(levels, i, Level(p, <<o>>))

addBid(o, p) == AddAt(bids, SlotOf(bids, {i \in DOMAIN bids : bids[i].price <= p}), o, p)
addAsk(o, p) == AddAt(asks, SlotOf(asks, {i \in DOMAIN asks : asks[i].price >= p}), o, p)

\* Insert an order on its side; the other side is untouched.
AddOrder(o, a) ==
    \/ a.side = BUY  /\ bids' = addBid(o, a.price) /\ UNCHANGED asks
    \/ a.side = SELL /\ asks' = addAsk(o, a.price) /\ UNCHANGED bids

\* Take the k-th order out of the i-th level, and the level with its last order.
Without(levels, i, k) ==
    IF Len(levels[i].orders) = 1 THEN RemoveAt(levels, i)
    ELSE [levels EXCEPT ![i].orders = RemoveAt(@, k)]

\* Pop the first order of the first level.
Popped(levels) == Without(levels, 1, 1)

\* Where Cancel finds the order: the levels that have it, and its places in a level.
LevelsOf(levels, o) == {i \in DOMAIN levels : o \in Range(levels[i].orders)}
PlacesOf(orders, o) == {k \in DOMAIN orders : orders[k] = o}

Removed(levels, o) ==
    LET i == Min(LevelsOf(levels, o))
    IN  Without(levels, i, Min(PlacesOf(levels[i].orders, o)))

-----------------------------------------------------------------------------
(* Match *)

Facing == IF attr[incoming].side = BUY THEN asks ELSE bids

\* Mutant: equal prices do not trade.
LimitExceeds(p) == IF attr[incoming].side = BUY THEN attr[incoming].price > p
                                                ELSE attr[incoming].price < p

LimitReaches(p) == IF attr[incoming].side = BUY THEN attr[incoming].price >= p
                                                ELSE attr[incoming].price <= p

LoopGuard == rem[incoming] > 0 /\ Facing # <<>> /\ LimitReaches(Facing[1].price)

MatchOne ==
    /\ incoming # None
    /\ LoopGuard
    /\ LET r == Facing[1].orders[1]
           q == Lesser(rem[incoming], rem[r])
           left == IF rem[r] = q THEN Popped(Facing) ELSE Facing
       IN  /\ rem' = [rem EXCEPT ![incoming] = @ - q, ![r] = @ - q]
           /\ \/ /\ attr[incoming].side = BUY
                 /\ fills' = fills \cup {[buy |-> incoming, sell |-> r,
                                          price |-> Facing[1].price, qty |-> q, seq |-> seq + 1]}
                 /\ asks' = left /\ UNCHANGED bids
              \/ /\ attr[incoming].side = SELL
                 /\ fills' = fills \cup {[buy |-> r, sell |-> incoming,
                                          price |-> Facing[1].price, qty |-> q, seq |-> seq + 1]}
                 /\ bids' = left /\ UNCHANGED asks
    /\ seq' = seq + 1
    /\ UNCHANGED <<attr, incoming, started>>

FinishMatch ==
    /\ incoming # None
    /\ ~LoopGuard
    /\ \/ rem[incoming] > 0 /\ AddOrder(incoming, attr[incoming])
       \/ rem[incoming] = 0 /\ UNCHANGED <<bids, asks>>
    /\ incoming' = None
    /\ fills' = {}
    /\ UNCHANGED <<attr, rem, seq, started>>

-----------------------------------------------------------------------------
(* The commands of the engine *)

Init == /\ bids = <<>> /\ asks = <<>>
        /\ attr = [o \in Orders |-> NoAttr]
        /\ rem = [o \in Orders |-> 0]
        /\ incoming = None /\ fills = {} /\ seq = 0
        /\ started = FALSE

LoadOrder(o, a) ==
    /\ ~started
    /\ attr[o] = NoAttr
    /\ attr' = [attr EXCEPT ![o] = a]
    /\ rem' = [rem EXCEPT ![o] = a.qty]
    /\ AddOrder(o, a)
    /\ UNCHANGED <<incoming, fills, seq, started>>

Start == /\ ~started
         /\ started' = TRUE
         /\ UNCHANGED <<bids, asks, attr, rem, incoming, fills, seq>>

Place(o, a) == /\ started
               /\ incoming = None
               /\ attr[o] = NoAttr
               /\ attr' = [attr EXCEPT ![o] = a]
               /\ rem' = [rem EXCEPT ![o] = a.qty]
               /\ incoming' = o
               /\ UNCHANGED <<bids, asks, fills, seq, started>>

\* The bids are searched first; an id that rests on neither side is ignored.
CancelResting(o) ==
    \/ /\ LevelsOf(bids, o) # {}
       /\ bids' = Removed(bids, o) /\ UNCHANGED asks
    \/ /\ LevelsOf(bids, o) = {} /\ LevelsOf(asks, o) # {}
       /\ asks' = Removed(asks, o) /\ UNCHANGED bids
    \/ /\ LevelsOf(bids, o) = {} /\ LevelsOf(asks, o) = {}
       /\ UNCHANGED <<bids, asks>>

Cancel(o) == /\ started
             /\ incoming = None
             /\ CancelResting(o)
             /\ rem' = [rem EXCEPT ![o] = 0]
             /\ UNCHANGED <<attr, incoming, fills, seq, started>>

Next == \/ Start
        \/ MatchOne
        \/ FinishMatch
        \/ \E o \in Orders : Cancel(o)
        \/ \E o \in Orders, a \in Request : LoadOrder(o, a) \/ Place(o, a)

Spec == Init /\ [][Next]_vars

-----------------------------------------------------------------------------
(* Properties *)

\* Order o is the k-th of the i-th level.
Stands(levels, i, k, o) ==
    i \in DOMAIN levels /\ k \in DOMAIN levels[i].orders /\ levels[i].orders[k] = o

IdsOf(levels) == UNION {Range(levels[i].orders) : i \in DOMAIN levels}

\* Match would take x before y: from a better level, or earlier in the same one.
Precedes(levels, x, y) ==
    \E i, j \in DOMAIN levels :
        \E k \in DOMAIN levels[i].orders, l \in DOMAIN levels[j].orders :
            /\ Stands(levels, i, k, x) /\ Stands(levels, j, l, y)
            /\ i < j \/ (i = j /\ k < l)

Before(levels) == {p \in IdsOf(levels) \X IdsOf(levels) : Precedes(levels, p[1], p[2])}

\* When Match has returned, no bid reaches an ask, unless both were put there by
\* LoadOrder, which does not match (engine.go 70-89): such a pair can only have
\* been crossed from the start, so an order placed later never rests crossed.
Uncrossed == [][incoming # None /\ incoming' = None =>
                   \A b \in IdsOf(bids'), s \in IdsOf(asks') :
                      incoming \in {b, s} => attr[b].price < attr[s].price]_vars

Abstract == INSTANCE BookSpec
              WITH book <- IdsOf(bids) \cup IdsOf(asks),
                   ahead <- Before(bids) \cup Before(asks)

\* The slices of price levels implement the price-time priority queue: every step
\* of book.go is the step of BookSpec of the same name.
Refinement == Abstract!Spec
=============================================================================
