------------------------------ MODULE Exchange ------------------------------
(***************************************************************************)
(* The life of user orders on one symbol, from POST /orders to settlement: *)
(* the orders, trades and ledger tables, the requests that write them, the *)
(* bounded command channel of the engine, the worker that owns the book    *)
(* (MatchingBook), the settlement goroutines of the event bus, and the     *)
(* restart that rebuilds the book from the orders table.                   *)
(*                                                                         *)
(* A database transaction is one action: it locks the rows it changes with *)
(* FOR UPDATE and commits or leaves no trace.  What follows a commit (the  *)
(* submission to the engine) is an action of its own, and everything that  *)
(* lives in the process may be lost in between.                            *)
(*                                                                         *)
(* Left out: the idempotency keys of POST /orders and the balance check of *)
(* PlaceOrder (who may place), the outbox rows written by each transaction *)
(* and the OrderRested and OrderCancelled events, which only views read.   *)
(* Prices and quantities are positive, as the clients of the API send.     *)
(***************************************************************************)
EXTENDS MatchingBook, Integers, Sequences

CONSTANTS Prices,       \* limit prices a client may ask for
          MaxQty,       \* largest quantity of an order
          ChanCap,      \* buffer of the engine's command channel
          MaxRestarts   \* bound on the crashes and restarts of the process

ASSUME ExchangeBounds ==
    /\ IsFiniteSet(Orders)
    /\ Prices \subseteq Nat \ {0}
    /\ MaxQty \in Nat \ {0}
    /\ ChanCap \in Nat \ {0}
    /\ MaxRestarts \in Nat

VARIABLES
    status,      \* orders.status, NEW before the row exists
    filled,      \* orders.filled_quantity
    created,     \* rank of the order by orders.created_at, 0 before the row exists
    held,        \* what the RESERVE and RELEASE entries of the order have taken so far
    trades,      \* the rows of the trades table, each with its idempotency key
    submitting,  \* PlaceOrder requests that have committed and not yet submitted
    cancelling,  \* CancelOrder requests that have committed and not yet submitted
    chan,        \* the engine's command channel
    events,      \* TradeMatched events whose settlement goroutine has not finished
    restarts     \* number of restarts so far

dbVars == <<status, filled, created, held, trades>>
requestVars == <<submitting, cancelling>>
vars == <<attr, bookVars, dbVars, requestVars, chan, events, restarts>>

Statuses == {"NEW", "OPEN", "PARTIAL", "FILLED", "CANCELLED"}
IsTerminal(s) == s = "FILLED" \/ s = "CANCELLED"
IsCancellable(s) == s = "OPEN" \/ s = "PARTIAL"

Request == [side : Sides, price : Prices, qty : 1..MaxQty]
Command == [kind : {"place", "cancel"}, id : Orders]

-----------------------------------------------------------------------------
(* order.Service *)

\* The reserve of n units of an order: quote for a buy, base for a sell.
ReserveOf(a, n) == IF a.side = BUY THEN a.price * n ELSE n

\* The transaction of PlaceOrder: the OPEN row and its RESERVE entry.
PlaceOrder(o, a) ==
    /\ status[o] = "NEW"
    /\ attr' = [attr EXCEPT ![o] = a]
    /\ status' = [status EXCEPT ![o] = "OPEN"]
    /\ created' = [created EXCEPT ![o] = Cardinality({p \in Orders : status[p] # "NEW"}) + 1]
    /\ held' = [held EXCEPT ![o] = ReserveOf(a, a.qty)]
    /\ submitting' = submitting \cup {o}
    /\ UNCHANGED <<bookVars, filled, trades, cancelling, chan, events, restarts>>

\* Engine.Submit never blocks: a full channel loses the command, which is logged.
Submit(c) == chan' = IF Len(chan) < ChanCap THEN Append(chan, c) ELSE chan

\* Mutant: the request may submit its order again.
SubmitPlaceRepeats(o) ==
    /\ o \in submitting
    /\ Submit([kind |-> "place", id |-> o])
    /\ UNCHANGED <<attr, bookVars, dbVars, submitting, cancelling, events, restarts>>

SubmitPlace(o) ==
    /\ o \in submitting
    /\ submitting' = submitting \ {o}
    /\ Submit([kind |-> "place", id |-> o])
    /\ UNCHANGED <<attr, bookVars, dbVars, cancelling, events, restarts>>

\* Mutant: the filled part of the reserve is given back too.
UnreservedWhole(o) == ReserveOf(attr[o], attr[o].qty)

\* What CancelOrder gives back: the reserve less its filled part.
Unreserved(o) == ReserveOf(attr[o], attr[o].qty) - ReserveOf(attr[o], filled[o])

\* The transaction of CancelOrder.  The check before it is repeated under the lock.
CancelOrder(o) ==
    /\ IsCancellable(status[o])
    /\ status' = [status EXCEPT ![o] = "CANCELLED"]
    /\ held' = IF Unreserved(o) > 0 THEN [held EXCEPT ![o] = @ - Unreserved(o)] ELSE held
    /\ cancelling' = cancelling \cup {o}
    /\ UNCHANGED <<attr, bookVars, filled, created, trades, submitting, chan, events, restarts>>

SubmitCancel(o) ==
    /\ o \in cancelling
    /\ cancelling' = cancelling \ {o}
    /\ Submit([kind |-> "cancel", id |-> o])
    /\ UNCHANGED <<attr, bookVars, dbVars, submitting, events, restarts>>

-----------------------------------------------------------------------------
(* The engine's worker *)

HandlePlace ==
    /\ chan # <<>>
    /\ Head(chan).kind = "place"
    /\ BeginMatch(Head(chan).id, attr[Head(chan).id].qty)
    /\ chan' = Tail(chan)
    /\ UNCHANGED <<attr, dbVars, requestVars, events, restarts>>

HandleCancel ==
    /\ chan # <<>>
    /\ Head(chan).kind = "cancel"
    /\ CancelResting(Head(chan).id)
    /\ chan' = Tail(chan)
    /\ UNCHANGED <<attr, dbVars, requestVars, events, restarts>>

MatchStep ==
    /\ MatchOne
    /\ UNCHANGED <<attr, dbVars, requestVars, chan, events, restarts>>

\* Match returns and handlePlace publishes its trades; each handler call is a
\* goroutine of its own, so nothing orders their settlement.
Publish ==
    /\ FinishMatch
    /\ events' = events \cup fills
    /\ UNCHANGED <<attr, dbVars, requestVars, chan, restarts>>

-----------------------------------------------------------------------------
(* Settlement and trade.Service *)

\* Mutant: the sell order is missing from the key.
KeyOfBuy(t) == <<t.buy, t.seq>>

KeyOf(t) == <<t.buy, t.sell, t.seq>>

\* Mutant: the statuses are not checked under the row locks.
CanExecuteUnchecked(t) ==
    /\ \A u \in trades : KeyOf(u) # KeyOf(t)
    /\ attr[t.buy].side = BUY /\ attr[t.sell].side = SELL

\* The key is new and, under the row locks, both orders exist and neither is terminal.
CanExecute(t) ==
    /\ \A u \in trades : KeyOf(u) # KeyOf(t)
    /\ status[t.buy] # "NEW" /\ status[t.sell] # "NEW"
    /\ attr[t.buy].side = BUY /\ attr[t.sell].side = SELL
    /\ ~IsTerminal(status[t.buy]) /\ ~IsTerminal(status[t.sell])

\* Mutant: an exact fill does not complete the order.
StatusAfterStrict(o, n) ==
    IF filled[o] + n > attr[o].qty THEN "FILLED"
    ELSE IF status[o] = "OPEN" THEN "PARTIAL" ELSE status[o]

\* applyOrderFill: the order's status once n more units are filled.
StatusAfter(o, n) ==
    IF filled[o] + n >= attr[o].qty THEN "FILLED"
    ELSE IF status[o] = "OPEN" THEN "PARTIAL" ELSE status[o]

\* Mutant: the fill replaces what was filled before.
ExecuteTradeOverwrites(t) ==
    /\ CanExecute(t)
    /\ trades' = trades \cup {t}
    /\ filled' = [filled EXCEPT ![t.buy] = t.qty, ![t.sell] = t.qty]
    /\ status' = [status EXCEPT ![t.buy] = StatusAfter(t.buy, t.qty),
                                ![t.sell] = StatusAfter(t.sell, t.qty)]
    /\ UNCHANGED <<created, held>>

\* The transaction of ExecuteTrade: the trade and its four entries, both fills.
ExecuteTrade(t) ==
    /\ CanExecute(t)
    /\ trades' = trades \cup {t}
    /\ filled' = [filled EXCEPT ![t.buy] = @ + t.qty, ![t.sell] = @ + t.qty]
    /\ status' = [status EXCEPT ![t.buy] = StatusAfter(t.buy, t.qty),
                                ![t.sell] = StatusAfter(t.sell, t.qty)]
    /\ UNCHANGED <<created, held>>

Settle(t) ==
    /\ t \in events
    /\ ExecuteTrade(t)
    /\ events' = events \ {t}
    /\ UNCHANGED <<attr, bookVars, requestVars, chan, restarts>>

\* ExecuteTrade refuses, or the database fails: the error is logged, the event is
\* gone and the engine keeps the match it has made.
SettleFails(t) ==
    /\ t \in events
    /\ events' = events \ {t}
    /\ UNCHANGED <<attr, bookVars, dbVars, requestVars, chan, restarts>>

-----------------------------------------------------------------------------
(* The process *)

\* Mutant: a restart forgets what was filled.
RemainingWhole(o) == attr[o].qty

Remaining(o) == attr[o].qty - filled[o]

Rehydrated == {o \in Orders : IsCancellable(status[o]) /\ Remaining(o) > 0}

\* LoadOrder in the order of created_at: better limits first, then older orders.
LoadedBefore(a, b) ==
    /\ attr[a].side = attr[b].side
    /\ \/ KeepsPlace(a, attr[b]) /\ ~KeepsPlace(b, attr[a])
       \/ attr[a].price = attr[b].price /\ created[a] < created[b]

\* The process stops, anywhere, and a new one rebuilds the book from the orders
\* table before it serves: requests, commands, events and the counter are lost.
Restart ==
    /\ restarts < MaxRestarts
    /\ restarts' = restarts + 1
    /\ book' = Rehydrated
    /\ ahead' = {p \in Rehydrated \X Rehydrated : LoadedBefore(p[1], p[2])}
    /\ rem' = [o \in Orders |-> IF o \in Rehydrated THEN Remaining(o) ELSE 0]
    /\ incoming' = None
    /\ fills' = {}
    /\ seq' = 0
    /\ submitting' = {}
    /\ cancelling' = {}
    /\ chan' = <<>>
    /\ events' = {}
    /\ UNCHANGED <<attr, dbVars>>

Init ==
    /\ BookInit
    /\ attr = [o \in Orders |-> NoAttr]
    /\ status = [o \in Orders |-> "NEW"]
    /\ filled = [o \in Orders |-> 0]
    /\ created = [o \in Orders |-> 0]
    /\ held = [o \in Orders |-> 0]
    /\ trades = {} /\ submitting = {} /\ cancelling = {}
    /\ chan = <<>> /\ events = {} /\ restarts = 0

Worker == HandlePlace \/ HandleCancel \/ MatchStep \/ Publish

Next ==
    \/ \E o \in Orders, a \in Request : PlaceOrder(o, a)
    \/ \E o \in Orders : SubmitPlace(o) \/ CancelOrder(o) \/ SubmitCancel(o)
    \/ Worker
    \/ \E t \in events : Settle(t) \/ SettleFails(t)
    \/ Restart

Spec == Init /\ [][Next]_vars

-----------------------------------------------------------------------------
(* Properties *)

TypeOK ==
    /\ BookTypeOK
    /\ status \in [Orders -> Statuses]
    /\ filled \in [Orders -> Nat]
    /\ created \in [Orders -> Nat]
    /\ held \in [Orders -> Int]
    /\ trades \subseteq Trade
    /\ submitting \subseteq Orders
    /\ cancelling \subseteq Orders
    /\ chan \in Seq(Command)
    /\ events \subseteq Trade
    /\ restarts \in 0..MaxRestarts

Involves(t, o) == o = t.buy \/ o = t.sell

\* The total quantity of the trades of S in which o takes part.
Volume(S, o) ==
    Cardinality({u \in S \X (1..MaxQty) : Involves(u[1], o) /\ u[2] <= u[1].qty})

\* No order is filled beyond its quantity, however matches, cancels, failed
\* settlements and restarts interleave (ExecuteTrade itself does not check it).
NoOverfill == \A o \in Orders : filled[o] <= attr[o].qty

\* What the engine may still give an order (its remainder and its trades that are
\* not settled) and what it already has never exceed the order, across restarts
\* too: the database and the book cannot both count the same unit.
EngineWithinOrder ==
    \A o \in Orders : filled[o] + Volume(events \cup fills, o) + rem[o] <= attr[o].qty

\* orders.filled_quantity is the total of the order's rows in trades.
FillsMatchTrades == \A o \in Orders : filled[o] = Volume(trades, o)

\* The status column agrees with the filled quantity; in particular a cancelled
\* order was not complete and a complete order is FILLED (applyOrderFill, CancelOrder).
StatusMatchesFill ==
    \A o \in Orders :
        /\ status[o] = "OPEN" => filled[o] = 0
        /\ status[o] = "PARTIAL" => filled[o] > 0
        /\ status[o] = "FILLED" <=> filled[o] = attr[o].qty /\ status[o] # "NEW"

\* The reserve still held is that of the whole order until it is cancelled and that
\* of its fills afterwards: nothing is released twice, nor filled after its release.
ReserveMatchesOrder ==
    \A o \in Orders :
        held[o] = ReserveOf(attr[o], IF status[o] = "CANCELLED" THEN filled[o] ELSE attr[o].qty)

\* Every trade the engine makes has an idempotency key of its own, although the
\* counter in the key starts again at 0 with every process: no settlement is
\* swallowed as the duplicate of another match.
KeysAreFresh ==
    /\ \A t, u \in trades \cup events \cup fills : KeyOf(t) = KeyOf(u) => t = u
    /\ trades \cap (events \cup fills) = {}

\* A trade is executed within the limits of both of its orders.
WithinLimits ==
    \A t \in trades \cup events \cup fills :
        attr[t.sell].price <= t.price /\ t.price <= attr[t.buy].price

\* An order's row moves along OPEN -> PARTIAL -> FILLED or to CANCELLED, its fills
\* only grow, and a terminal row never changes again.
OrderLifecycle ==
    [][\A o \in Orders :
        /\ filled[o] <= filled'[o]
        /\ IsTerminal(status[o]) => status'[o] = status[o] /\ filled'[o] = filled[o]
        /\ status[o] = "PARTIAL" => status'[o] # "OPEN"
        /\ status[o] # "NEW" => status'[o] # "NEW" /\ attr'[o] = attr[o]]_vars

\* A cancel command that reaches the channel while its order rests removes it from
\* the book: by the worker, or by a restart that does not load cancelled orders.
CancelTakesEffect ==
    \A o \in Orders :
        (o \in book /\ [kind |-> "cancel", id |-> o] \in {chan[i] : i \in DOMAIN chan})
            ~> o \notin book

\* README: CancelOrder "Submits cancel to engine (removes from book)".  When no
\* request or command is left, no cancelled order rests in the book.
Quiet == submitting = {} /\ cancelling = {} /\ chan = <<>> /\ incoming = None
NoCancelledOrderRests ==
    Quiet => \A o \in book : status[o] # "CANCELLED"
=============================================================================
