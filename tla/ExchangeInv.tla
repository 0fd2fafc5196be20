---------------------------- MODULE ExchangeInv ----------------------------
(***************************************************************************)
(* The inductive invariant of Exchange from which its safety properties    *)
(* follow.  TLC checks it on small instances, ExchangeProofs proves it.    *)
(***************************************************************************)
EXTENDS Exchange

Matched == trades \cup events \cup fills

\* The engine has not worked on the order: nothing of it is matched or resting.
Untouched(o) ==
    /\ rem[o] = 0 /\ o \notin book /\ o # incoming
    /\ filled[o] = 0
    /\ \A t \in Matched : ~Involves(t, o)

IsPlaceOf(c, o) == c.kind = "place" /\ c.id = o

\* Rows and requests: a row that does not exist is nowhere else, and a placement on
\* its way to the engine has not reached it and is on its way once.
Pipeline ==
    /\ \A o \in Orders : status[o] = "NEW" =>
          attr[o] = NoAttr /\ held[o] = 0 /\ Untouched(o) /\ o \notin submitting
    /\ \A o \in Orders : status[o] # "NEW" => attr[o] \in Request
    /\ \A o \in submitting :
          Untouched(o) /\ \A i \in DOMAIN chan : ~IsPlaceOf(chan[i], o)
    /\ \A i \in DOMAIN chan : chan[i].kind = "place" =>
          status[chan[i].id] # "NEW" /\ Untouched(chan[i].id)
    /\ \A i, j \in DOMAIN chan :
          chan[i].kind = "place" /\ chan[j].kind = "place" /\ chan[i].id = chan[j].id => i = j

\* Remaining is positive exactly for what rests, and the incoming order does not rest.
BookShape ==
    /\ \A o \in Orders : rem[o] > 0 => o \in book \/ o = incoming
    /\ \A o \in book : rem[o] > 0
    /\ incoming \notin book
    /\ incoming = None => fills = {}

\* Trades are between a buy and a sell order, within both limits and the bound.
TradeShape ==
    /\ IsFiniteSet(Matched)
    /\ \A t \in Matched :
          /\ t.qty \in 1..MaxQty
          /\ attr[t.buy].side = BUY /\ attr[t.sell].side = SELL
          /\ attr[t.sell].price <= t.price /\ t.price <= attr[t.buy].price

\* Two orders are matched with each other at most once, in all processes together:
\* a match exhausts one of them, and rehydrated orders only meet new ones.
PairsMatchOnce ==
    /\ \A t, u \in Matched : t.buy = u.buy /\ t.sell = u.sell => t = u
    /\ trades \cap (events \cup fills) = {}
    /\ events \cap fills = {}
    /\ incoming # None /\ rem[incoming] > 0 =>
          \A t \in Matched, r \in book : ~(Involves(t, incoming) /\ Involves(t, r))

IInv ==
    /\ TypeOK
    /\ Pipeline
    /\ BookShape
    /\ TradeShape
    /\ PairsMatchOnce
    /\ EngineWithinOrder
    /\ FillsMatchTrades
    /\ StatusMatchesFill
    /\ ReserveMatchesOrder
=============================================================================
