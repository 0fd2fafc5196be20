---------------------------- MODULE MatchingBook ----------------------------
(***************************************************************************)
(* One shard of the matching engine (internal/engine): the order book of a *)
(* symbol and the worker goroutine that is its only writer, seen as the    *)
(* price-time priority queue it is meant to be.  The book is the set of    *)
(* resting orders and the relation "is matched before"; the price levels   *)
(* and FIFO lists of book.go are in module OrderBook, which is checked to  *)
(* implement this one.                                                     *)
(*                                                                         *)
(* The module defines the steps of the worker.  BookSpec closes them into  *)
(* a specification of the book alone; Exchange puts them in the system.    *)
(* Prices and quantities are natural multiples of the smallest increment   *)
(* (engine.Order holds them as float64; rounding is not modelled here).    *)
(***************************************************************************)
EXTENDS Naturals, FiniteSets

CONSTANTS Orders,  \* order ids
          None     \* the absence of an order

ASSUME NoneAssumption == None \notin Orders

VARIABLES attr,     \* [Orders -> Attr], immutable once the order exists
          book,     \* the set of resting orders
          ahead,    \* pairs <<a, b>> of one side of the book: a is matched before b
          rem,      \* Order.Remaining of the engine's order objects, 0 outside the engine
          incoming, \* the order Match is working on, or None
          fills,    \* the trades this call of Match has made so far
          seq       \* trade counter of the worker, 0 when the process starts

bookVars == <<book, ahead, rem, incoming, fills, seq>>

BUY == "BUY"
SELL == "SELL"
Sides == {BUY, SELL}
Opposite(s) == IF s = BUY THEN SELL ELSE BUY

Attr == [side : Sides, price : Nat, qty : Nat]
NoAttr == [side |-> BUY, price |-> 0, qty |-> 0]

\* A trade of the engine; buy, sell and seq make the settlement's idempotency key.
Trade == [buy : Orders, sell : Orders, price : Nat, qty : Nat, seq : Nat]

Lesser(m, n) == IF m < n THEN m ELSE n

-----------------------------------------------------------------------------
(* Priority *)

OnSide(s) == {o \in book : attr[o].side = s}

\* A resting order p keeps its place ahead of a new order with attributes a:
\* addBid and addAsk walk past the better levels and join the end of an equal one.
KeepsPlace(p, a) == IF a.side = BUY THEN attr[p].price >= a.price
                                    ELSE attr[p].price <= a.price

Queued(o, a) ==
    ahead \cup {<<p, o>> : p \in {p \in OnSide(a.side) : KeepsPlace(p, a)}}
          \cup {<<o, p>> : p \in {p \in OnSide(a.side) : ~KeepsPlace(p, a)}}

Unqueued(o) == {p \in ahead : p[1] # o /\ p[2] # o}

\* The head of the first price level of side s.
IsBest(r, s) == r \in OnSide(s) /\ \A a \in book : <<a, r>> \notin ahead

\* Mutant: the limit of the incoming order is not looked at.
CrossesAnyPrice(i, r) == TRUE

Crosses(i, r) == IF attr[i].side = BUY THEN attr[i].price >= attr[r].price
                                       ELSE attr[i].price <= attr[r].price

CanFill(r) == /\ incoming # None
              /\ rem[incoming] > 0
              /\ IsBest(r, Opposite(attr[incoming].side))
              /\ Crosses(incoming, r)

-----------------------------------------------------------------------------
(* The steps of the worker *)

BookInit == /\ book = {} /\ ahead = {} /\ rem = [o \in Orders |-> 0]
            /\ incoming = None /\ fills = {} /\ seq = 0

\* handlePlace calls Match with an order whose Remaining is q.
BeginMatch(o, q) ==
    /\ incoming = None
    /\ incoming' = o
    /\ rem' = [rem EXCEPT ![o] = q]
    /\ UNCHANGED <<book, ahead, fills, seq>>

\* Mutant: the resting order is filled whatever the incoming one has left.
FillQtyOfResting(r) == rem[r]

FillQty(r) == Lesser(rem[incoming], rem[r])

NewTrade(r) ==
    [buy   |-> IF attr[incoming].side = BUY THEN incoming ELSE r,
     sell  |-> IF attr[incoming].side = BUY THEN r ELSE incoming,
     price |-> attr[r].price,
     qty   |-> FillQty(r),
     seq   |-> seq + 1]

\* One iteration of the matching loop, against the best resting order.
MatchOne ==
    \E r \in book :
        /\ CanFill(r)
        /\ fills' = fills \cup {NewTrade(r)}
        /\ seq' = seq + 1
        /\ rem' = [rem EXCEPT ![incoming] = @ - FillQty(r), ![r] = @ - FillQty(r)]
        /\ \/ /\ rem[r] = FillQty(r)
              /\ book' = book \ {r}
              /\ ahead' = Unqueued(r)
           \/ /\ rem[r] # FillQty(r)
              /\ UNCHANGED <<book, ahead>>
        /\ UNCHANGED incoming

\* The loop is over: what remains of the incoming order rests and Match returns.
FinishMatch ==
    /\ incoming # None
    /\ \A r \in book : ~CanFill(r)
    /\ \/ /\ rem[incoming] > 0
          /\ book' = book \cup {incoming}
          /\ ahead' = Queued(incoming, attr[incoming])
       \/ /\ rem[incoming] = 0
          /\ UNCHANGED <<book, ahead>>
    /\ incoming' = None
    /\ fills' = {}
    /\ UNCHANGED <<rem, seq>>

\* Mutant: only bids are searched.
CancelRestingBid(o) ==
    /\ incoming = None
    /\ book' = IF attr[o].side = BUY THEN book \ {o} ELSE book
    /\ ahead' = IF attr[o].side = BUY THEN Unqueued(o) ELSE ahead
    /\ UNCHANGED <<rem, incoming, fills, seq>>

\* handleCancel; an order that does not rest is ignored.
CancelResting(o) ==
    /\ incoming = None
    /\ book' = book \ {o}
    /\ ahead' = Unqueued(o)
    /\ rem' = [rem EXCEPT ![o] = 0]
    /\ UNCHANGED <<incoming, fills, seq>>

-----------------------------------------------------------------------------
BookTypeOK ==
    /\ attr \in [Orders -> Attr]
    /\ book \subseteq Orders
    /\ ahead \subseteq Orders \X Orders
    /\ rem \in [Orders -> Nat]
    /\ incoming \in Orders \cup {None}
    /\ fills \subseteq Trade
    /\ seq \in Nat
=============================================================================
