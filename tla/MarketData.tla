----------------------------- MODULE MarketData -----------------------------
(***************************************************************************)
(* The public view of a book (internal/marketdata): the engine publishes   *)
(* what it does, the bus starts one goroutine per event and subscriber     *)
(* (internal/eventbus), and the handlers keep aggregated levels and the    *)
(* recent trades.  The handlers exclude each other with a mutex; nothing   *)
(* makes them run in the order of the events.                              *)
(***************************************************************************)
EXTENDS BookSpec, Sequences, SequencesExt

CONSTANT MaxRecent  \* maxRecentTrades, 100 in the code

ASSUME ViewBounds == MaxRecent \in Nat

VARIABLES bids, asks,  \* Seq([price, qty]): OrderBookView
          recent,      \* Seq of trade events: RecentTrade, newest first
          pending,     \* events whose handler has not run
          sent,        \* number of events published so far
          inOrder,     \* history: no handler has overtaken an earlier event's
          loaded       \* history: LoadOrder has put an order into the book

view == <<bids, asks, recent, pending, sent, inOrder, loaded>>

-----------------------------------------------------------------------------
(* The engine publishes; Publish returns before any handler has run *)

TradeEvent(t, at) == [kind |-> "trade", at |-> at, price |-> t.price, qty |-> t.qty]

OrderEvent(kind, o, at) ==
    [kind |-> kind, at |-> at, side |-> attr[o].side, price |-> attr[o].price, qty |-> rem[o]]

\* handlePlace: the trades of Match in their order, then what is left of the order.
PublishMatch ==
    /\ FinishMatch
    /\ LET trades == {TradeEvent(t, sent + 1 + Cardinality({u \in fills : u.seq < t.seq})) : t \in fills}
           rested == IF rem[incoming] = 0 THEN {}
                     ELSE {OrderEvent("rested", incoming, sent + 1 + Cardinality(fills))}
       IN  /\ pending' = pending \cup trades \cup rested
           /\ sent' = sent + Cardinality(trades \cup rested)
    /\ UNCHANGED <<attr, started, bids, asks, recent, inOrder, loaded>>

\* handleCancel: an order that does not rest is not reported.
PublishCancel(o) ==
    /\ Cancel(o)
    /\ \/ /\ o \in book
          /\ pending' = pending \cup {OrderEvent("cancelled", o, sent + 1)}
          /\ sent' = sent + 1
       \/ o \notin book /\ UNCHANGED <<pending, sent>>
    /\ UNCHANGED <<bids, asks, recent, inOrder, loaded>>

\* LoadOrder publishes nothing.
Load(o, a) ==
    /\ LoadOrder(o, a)
    /\ loaded' = TRUE
    /\ UNCHANGED <<bids, asks, recent, pending, sent, inOrder>>

Unpublished ==
    /\ \/ Start
       \/ MatchOne /\ UNCHANGED <<attr, started>>
       \/ \E o \in Orders, a \in Request : Place(o, a)
    /\ UNCHANGED view

-----------------------------------------------------------------------------
(* The handlers of marketdata.Service *)

HasLevel(levels, p) == \E i \in DOMAIN levels : levels[i].price = p
LevelAt(levels, p) == CHOOSE i \in DOMAIN levels : levels[i].price = p

addLevel(levels, p, q) ==
    IF HasLevel(levels, p) THEN [levels EXCEPT ![LevelAt(levels, p)].qty = @ + q]
    ELSE Append(levels, [price |-> p, qty |-> q])

\* A level that is used up goes; what exceeds it, or has no level, is forgotten.
deductLevel(levels, p, q) ==
    IF ~HasLevel(levels, p) THEN levels
    ELSE LET i == LevelAt(levels, p)
         IN  IF levels[i].qty > q THEN [levels EXCEPT ![i].qty = @ - q] ELSE RemoveAt(levels, i)

OnOrderRested(e) ==
    /\ e.kind = "rested"
    /\ bids' = IF e.side = BUY THEN addLevel(bids, e.price, e.qty) ELSE bids
    /\ asks' = IF e.side = BUY THEN asks ELSE addLevel(asks, e.price, e.qty)
    /\ UNCHANGED recent

OnOrderCancelled(e) ==
    /\ e.kind = "cancelled"
    /\ bids' = IF e.side = BUY THEN deductLevel(bids, e.price, e.qty) ELSE bids
    /\ asks' = IF e.side = BUY THEN asks ELSE deductLevel(asks, e.price, e.qty)
    /\ UNCHANGED recent

\* Mutant: one trade too few is kept.
CappedShort(s) == IF Len(s) > MaxRecent - 1 THEN SubSeq(s, 1, MaxRecent - 1) ELSE s

Capped(s) == IF Len(s) > MaxRecent THEN SubSeq(s, 1, MaxRecent) ELSE s

\* Mutant: a trade is taken from the asks only.
OnTradeMatchedAsks(e) ==
    /\ e.kind = "trade"
    /\ asks' = deductLevel(asks, e.price, e.qty)
    /\ recent' = Capped(<<e>> \o recent)
    /\ UNCHANGED bids

OnTradeMatched(e) ==
    /\ e.kind = "trade"
    /\ bids' = deductLevel(bids, e.price, e.qty)
    /\ asks' = deductLevel(asks, e.price, e.qty)
    /\ recent' = Capped(<<e>> \o recent)

\* The goroutine of one event gets the mutex.
Dispatch(e) ==
    /\ e \in pending
    /\ OnOrderRested(e) \/ OnOrderCancelled(e) \/ OnTradeMatched(e)
    /\ pending' = pending \ {e}
    /\ inOrder' = (inOrder /\ \A f \in pending : e.at <= f.at)
    /\ UNCHANGED <<vars, sent, loaded>>

ViewInit ==
    /\ Init
    /\ bids = <<>> /\ asks = <<>> /\ recent = <<>>
    /\ pending = {} /\ sent = 0 /\ inOrder = TRUE /\ loaded = FALSE

ViewNext ==
    \/ PublishMatch
    \/ \E o \in Orders : PublishCancel(o)
    \/ \E o \in Orders, a \in Request : Load(o, a)
    \/ Unpublished
    \/ \E e \in pending : Dispatch(e)

ViewSpec == ViewInit /\ [][ViewNext]_<<vars, view>>

-----------------------------------------------------------------------------
(* Properties *)

\* What rests on side s at price p, counted in units of quantity.
SideTotal(s, p) ==
    Cardinality({u \in OnSide(s) \X (1..MaxQty) : attr[u[1]].price = p /\ u[2] <= rem[u[1]]})

Shown(levels, p) == IF HasLevel(levels, p) THEN levels[LevelAt(levels, p)].qty ELSE 0

ShowsBook == \A p \in Prices : Shown(bids, p) = SideTotal(BUY, p) /\ Shown(asks, p) = SideTotal(SELL, p)

Settled == pending = {} /\ incoming = None

\* Handlers that keep the order of the events keep the view equal to the book, in
\* particular when a trade is deducted from both sides at its price.
InOrderViewShowsBook == inOrder /\ ~loaded /\ Settled => ShowsBook

\* Every trade is shown once, until newer or later handled ones push it out.
RecentTradesComplete ==
    /\ IsInjective(recent)
    /\ pending = {} /\ incoming = None => Len(recent) = Lesser(MaxRecent, seq)
=============================================================================
