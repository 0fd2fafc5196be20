------------------------------ MODULE Sandbox -------------------------------
(***************************************************************************)
(* Exchange in the sandbox environment.  The liquidity bot places orders   *)
(* without an owner and without a row; a match of such an order is booked  *)
(* against the MARKET user: the settlement first commits an order row for  *)
(* the house, in a transaction of its own, and then executes the trade     *)
(* between that row and the user's order.  Callers of POST /trades, which  *)
(* asks for no role, may book trades of their own meanwhile (ManualTrades).*)
(*                                                                         *)
(* The bot is seen here as the engine sees it: any level, at any time (its *)
(* own state is in PartnerFeed).  Nobody cancels rows of the MARKET user.  *)
(***************************************************************************)
EXTENDS ManualTrades

CONSTANTS PartnerOrders,  \* ids of the orders of the bot
          MarketRows,     \* ids of the order rows of the MARKET user
          Levels          \* what the bot may quote with each of its orders

UserOrders == Orders \ (PartnerOrders \cup MarketRows)

ASSUME SandboxAssumption ==
    /\ PartnerOrders \subseteq Orders /\ MarketRows \subseteq Orders
    /\ PartnerOrders \cap MarketRows = {}
    /\ Levels \in [PartnerOrders -> SUBSET Request]

VARIABLES quoted,    \* the orders the bot has placed and not cancelled
          standsFor  \* the partner order that each MARKET row was written for, or None

sandboxVars == <<vars, quoted, standsFor>>

\* An engine order without an owner.
isPartner(o) == o \in PartnerOrders

-----------------------------------------------------------------------------
(* The bot *)

\* A placement that the full channel refuses is forgotten.
PartnerPlaces(o, a) ==
    /\ attr[o] = NoAttr
    /\ attr' = [attr EXCEPT ![o] = a]
    /\ quoted' = IF Len(chan) < ChanCap THEN quoted \cup {o} ELSE quoted
    /\ Submit([kind |-> "place", id |-> o])
    /\ UNCHANGED <<bookVars, dbVars, requestVars, events, restarts, standsFor>>

PartnerCancels(o) ==
    /\ o \in quoted
    /\ quoted' = quoted \ {o}
    /\ Submit([kind |-> "cancel", id |-> o])
    /\ UNCHANGED <<attr, bookVars, dbVars, requestVars, events, restarts, standsFor>>

-----------------------------------------------------------------------------
(* sandboxSettlementProcessor *)

PartnerOf(t) == IF isPartner(t.buy) THEN t.buy ELSE t.sell

\* The event with the row of the house in the place of the partner's order.
Rewritten(t, m) == IF isPartner(t.buy) THEN [t EXCEPT !.buy = m] ELSE [t EXCEPT !.sell = m]

\* Mutant: the row is for the whole order of the partner.
MarketOrderWhole(t) ==
    [side |-> attr[PartnerOf(t)].side, price |-> t.price, qty |-> attr[PartnerOf(t)].qty]

\* The order of the house: the partner's side, the match's price and quantity.
MarketOrder(t) == [side |-> attr[PartnerOf(t)].side, price |-> t.price, qty |-> t.qty]

\* Mutant: the row goes to the engine like any other order.
PersistMarketOrderSubmits(t, m) ==
    /\ isPartner(t.buy) # isPartner(t.sell)
    /\ status[m] = "NEW"
    /\ attr' = [attr EXCEPT ![m] = MarketOrder(t)]
    /\ status' = [status EXCEPT ![m] = "OPEN"]
    /\ created' = [created EXCEPT ![m] = Cardinality({p \in Orders : status[p] # "NEW"}) + 1]
    /\ standsFor' = [standsFor EXCEPT ![m] = PartnerOf(t)]
    /\ events' = (events \ {t}) \cup {Rewritten(t, m)}
    /\ Submit([kind |-> "place", id |-> m])
    /\ UNCHANGED <<bookVars, filled, held, trades, requestVars, restarts, quoted>>

\* persistMarketOrder: an OPEN row without a RESERVE entry, committed before the
\* goroutine goes on to ExecuteTrade.
PersistMarketOrder(t, m) ==
    /\ isPartner(t.buy) # isPartner(t.sell)
    /\ status[m] = "NEW"
    /\ attr' = [attr EXCEPT ![m] = MarketOrder(t)]
    /\ status' = [status EXCEPT ![m] = "OPEN"]
    /\ created' = [created EXCEPT ![m] = Cardinality({p \in Orders : status[p] # "NEW"}) + 1]
    /\ standsFor' = [standsFor EXCEPT ![m] = PartnerOf(t)]
    /\ events' = (events \ {t}) \cup {Rewritten(t, m)}
    /\ UNCHANGED <<bookVars, filled, held, trades, requestVars, chan, restarts, quoted>>

\* Both sides are the partner's: the event is ignored.
IgnoreMatch(t) ==
    /\ isPartner(t.buy) /\ isPartner(t.sell)
    /\ events' = events \ {t}
    /\ UNCHANGED <<attr, bookVars, dbVars, requestVars, chan, restarts, quoted, standsFor>>

\* Neither side is the partner's, or no longer.
SettleMatch(t) ==
    /\ ~isPartner(t.buy) /\ ~isPartner(t.sell)
    /\ Settle(t)
    /\ UNCHANGED <<quoted, standsFor>>

\* An error of either transaction is logged and the event is gone.
LoseMatch(t) ==
    /\ ~(isPartner(t.buy) /\ isPartner(t.sell))
    /\ SettleFails(t)
    /\ UNCHANGED <<quoted, standsFor>>

OnTradeMatched(t) ==
    \/ IgnoreMatch(t) \/ SettleMatch(t) \/ LoseMatch(t)
    \/ \E m \in MarketRows : PersistMarketOrder(t, m)

-----------------------------------------------------------------------------
(* The rest of the system *)

User(o) ==
    /\ (\E a \in Request : PlaceOrder(o, a)) \/ SubmitPlace(o) \/ CancelOrder(o) \/ SubmitCancel(o)
    /\ UNCHANGED <<quoted, standsFor>>

Submits(o) ==
    /\ SubmitPlace(o) \/ SubmitCancel(o)
    /\ UNCHANGED <<quoted, standsFor>>

EngineStep == Worker /\ UNCHANGED <<quoted, standsFor>>

Trader ==
    /\ \E t \in ManualRequest : Sensible(t) /\ ManualTrade(t)
    /\ UNCHANGED <<quoted, standsFor>>

\* The bot's orders are nowhere but in the process.
SandboxRestart ==
    /\ Restart
    /\ quoted' = {}
    /\ UNCHANGED standsFor

SandboxInit ==
    /\ Init
    /\ quoted = {}
    /\ standsFor = [m \in MarketRows |-> None]

SandboxNext ==
    \/ \E o \in UserOrders : User(o)
    \/ \E o \in PartnerOrders : PartnerCancels(o) \/ \E a \in Levels[o] : PartnerPlaces(o, a)
    \/ EngineStep
    \/ \E t \in events : OnTradeMatched(t)
    \/ Trader
    \/ SandboxRestart

SandboxSpec == SandboxInit /\ [][SandboxNext]_sandboxVars

\* Goroutines that can run do run: the worker, the settlement handlers, and the
\* requests between their commit and their submission.  Clients, the bot and
\* crashes are free.
SandboxFairSpec ==
    /\ SandboxSpec
    /\ WF_sandboxVars(EngineStep)
    /\ WF_sandboxVars(\E t \in events : OnTradeMatched(t))
    /\ \A o \in UserOrders : WF_sandboxVars(Submits(o))

-----------------------------------------------------------------------------
(* Properties *)

\* A trade of the engine, whoever its orders are from, is within the limits of both;
\* the house takes it at the price of the match.
MatchesWithinLimits ==
    \A t \in trades \cup events \cup fills :
        t.seq \notin ManualKeys =>
            attr[t.sell].price <= t.price /\ t.price <= attr[t.buy].price

ByHand(o) == \E t \in trades : t.seq \in ManualKeys /\ Involves(t, o)

\* README, POST /trades: "prevents double-fill".  ExecuteTrade does not compare the
\* quantities, so only what the engine hands out protects an order, a row of the house
\* included: unless a manual trade has touched it, its fills, its matches in flight
\* and its remainder in the book fit its quantity.
OverfillNeedsManualTrade ==
    \A o \in UserOrders \cup MarketRows :
        ~ByHand(o) => filled[o] + Volume(events \cup fills, o) + rem[o] <= attr[o].qty

\* The house never owes more than the partner has shown: the rows written for a
\* partner order, its matches in flight and what is left of it in the book fit its
\* quantity, whatever fails in between.
HouseWithinPartner ==
    \A p \in PartnerOrders :
        LET rows == {m \in MarketRows : standsFor[m] = p}
            booked == {u \in rows \X (1..MaxQty) : u[2] <= attr[u[1]].qty}
        IN  Cardinality(booked) + Volume(events \cup fills, p) + rem[p] <= attr[p].qty

\* persistMarketOrder: "a one-shot order row".  While the process lives a row of the
\* house takes part in one match, which fills it completely or fails, and is never
\* offered to users; only a restart loads what failed settlements have left over.
HouseRowsAreOneShot ==
    restarts = 0 =>
        \A m \in MarketRows :
            /\ m \notin book
            /\ ~ByHand(m) => filled[m] \in {0, attr[m].qty}
            /\ Cardinality({t \in trades : Involves(t, m) /\ t.seq \notin ManualKeys}) <= 1
=============================================================================
