---------------------------- MODULE ManualTrades ----------------------------
(***************************************************************************)
(* Exchange with POST /trades: a trade that any authenticated caller books *)
(* goes through the same ExecuteTrade as the engine's settlements, with a  *)
(* key and numbers of the caller's, and without the engine's knowledge.    *)
(***************************************************************************)
EXTENDS Exchange

CONSTANT ManualKeys  \* keys of manual trades, numbers the engine's counter does not reach

\* handler.ExecuteTrade; a key that is spent is answered without effect.
ManualTrade(t) ==
    /\ \A u \in trades : u.seq # t.seq
    /\ ExecuteTrade(t)
    /\ UNCHANGED <<attr, bookVars, requestVars, chan, events, restarts>>

ManualRequest == [buy : Orders, sell : Orders, price : Prices, qty : 1..MaxQty, seq : ManualKeys]

\* The caller asks for no more than either order is for.
Sensible(t) == t.qty <= attr[t.buy].qty /\ t.qty <= attr[t.sell].qty
=============================================================================
