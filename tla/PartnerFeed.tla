----------------------------- MODULE PartnerFeed -----------------------------
(***************************************************************************)
(* The liquidity bot of the sandbox (internal/partnerfeed): every tick it  *)
(* compares the levels it believes to rest in the engine with the latest   *)
(* snapshot of MarketFeed, cancels those that are gone or have drifted and *)
(* places the new ones, through the engine's bounded command channel.      *)
(* One side of one symbol: the other side is a second call of sync with a  *)
(* map of its own.  The engine is reduced to what becomes of the bot's     *)
(* orders: they rest, trade, or are cancelled (see MatchingBook).          *)
(***************************************************************************)
EXTENDS MarketFeed, Sequences

CONSTANTS ChanCap,    \* buffer of the engine's command channel
          MaxOrders   \* bound on the orders the bot places: no tick is followed beyond it

ASSUME BotBounds == ChanCap \in Nat \ {0} /\ MaxOrders \in Nat

VARIABLES cur,      \* bookState.sideMap: set of [price, id, qty], one per price
          pc,       \* of sync: idle, cancelling, placing; stopped
          want,     \* levels wanted by the sync under way: price -> quantity
          todo,     \* prices it has still to place
          lastId,   \* the last order id used
          chan,     \* the engine's command channel
          resting,  \* set of [price, id]: orders of the bot in the book
          refused,  \* orders whose cancel the full channel refused
          traded    \* orders that have met a counterparty

botVars == <<cur, pc, want, todo, lastId>>
engineVars == <<chan, resting, refused, traded>>
vars == <<feedVars, botVars, engineVars>>

\* The quantity is perturbed by up to 5 percent: the extremes stand for the range.
Jitter(q) == {(q * 19) \div 20, (q * 21) \div 20}

Wanted(s) == {w \in [DOMAIN s -> UNION {Jitter(s[p]) : p \in DOMAIN s}] :
                 \A p \in DOMAIN s : w[p] \in Jitter(s[p])}

\* A change of more than 10 percent.
MaterialDrift(prev, next) == 10 * (IF next > prev THEN next - prev ELSE prev - next) > prev

PricesOf(levels) == {l.price : l \in levels}

Placement(p, id) == [kind |-> "place", id |-> id, price |-> p]
Cancellation(l) == [kind |-> "cancel", id |-> l.id, price |-> l.price]

-----------------------------------------------------------------------------
(* Bot *)

\* A tick does nothing while the feed has no fresh book: what rests stays.
Tick ==
    /\ pc = "idle"
    /\ HasOrderBook
    /\ lastId + Cardinality(DOMAIN snapshot) <= MaxOrders
    /\ want' \in Wanted(snapshot)
    /\ pc' = "cancelling"
    /\ UNCHANGED <<cur, todo, lastId, engineVars, feedVars>>

Outdated(l) == l.price \in DOMAIN want => MaterialDrift(l.qty, want[l.price])

\* Mutant: the level is forgotten and its order left in the engine.
CancelLevelSilently(l) ==
    /\ pc = "cancelling"
    /\ l \in cur
    /\ Outdated(l)
    /\ cur' = cur \ {l}
    /\ UNCHANGED <<pc, want, todo, lastId, engineVars, feedVars>>

\* The level is forgotten whether or not the engine takes the command.
CancelLevel(l) ==
    /\ pc = "cancelling"
    /\ l \in cur
    /\ Outdated(l)
    /\ \/ /\ Len(chan) < ChanCap
          /\ chan' = Append(chan, Cancellation(l))
          /\ UNCHANGED refused
       \/ /\ Len(chan) = ChanCap
          /\ refused' = refused \cup {l.id}
          /\ UNCHANGED chan
    /\ cur' = cur \ {l}
    /\ UNCHANGED <<pc, want, todo, lastId, resting, traded, feedVars>>

\* Mutant: levels that rest already are placed again.
AllLevels == DOMAIN want

MissingLevels == DOMAIN want \ PricesOf(cur)

BeginPlacing ==
    /\ pc = "cancelling"
    /\ \A l \in cur : ~Outdated(l)
    /\ pc' = "placing"
    /\ todo' = MissingLevels
    /\ UNCHANGED <<cur, want, lastId, engineVars, feedVars>>

\* Mutant: a placement that is refused is remembered as resting.
PlaceLevelUnchecked(p) ==
    /\ pc = "placing"
    /\ p \in todo
    /\ lastId' = lastId + 1
    /\ cur' = cur \cup {[price |-> p, id |-> lastId + 1, qty |-> want[p]]}
    /\ chan' = IF Len(chan) < ChanCap THEN Append(chan, Placement(p, lastId + 1)) ELSE chan
    /\ todo' = todo \ {p}
    /\ UNCHANGED <<pc, want, resting, refused, traded, feedVars>>

\* A placement that is refused is left for the next tick.
PlaceLevel(p) ==
    /\ pc = "placing"
    /\ p \in todo
    /\ lastId' = lastId + 1
    /\ \/ /\ Len(chan) < ChanCap
          /\ chan' = Append(chan, Placement(p, lastId + 1))
          /\ cur' = cur \cup {[price |-> p, id |-> lastId + 1, qty |-> want[p]]}
       \/ /\ Len(chan) = ChanCap
          /\ UNCHANGED <<chan, cur>>
    /\ todo' = todo \ {p}
    /\ UNCHANGED <<pc, want, resting, refused, traded, feedVars>>

EndSync ==
    /\ pc = "placing"
    /\ todo = {}
    /\ pc' = "idle"
    /\ want' = <<>>
    /\ UNCHANGED <<cur, todo, lastId, engineVars, feedVars>>

\* The select of Start takes the context's branch.
BotStops ==
    /\ pc = "idle"
    /\ cancelled
    /\ pc' = "stopped"
    /\ UNCHANGED <<cur, want, todo, lastId, engineVars, feedVars>>

Sync == (\E l \in cur : CancelLevel(l)) \/ BeginPlacing \/ (\E p \in todo : PlaceLevel(p)) \/ EndSync

-----------------------------------------------------------------------------
(* The engine, as the bot's orders see it *)

HandlePlace ==
    /\ chan # <<>>
    /\ Head(chan).kind = "place"
    /\ LET o == [price |-> Head(chan).price, id |-> Head(chan).id]
       IN  \/ resting' = resting \cup {o} /\ UNCHANGED traded
           \/ traded' = traded \cup {o.id} /\ UNCHANGED resting
    /\ chan' = Tail(chan)
    /\ UNCHANGED <<refused, botVars, feedVars>>

HandleCancel ==
    /\ chan # <<>>
    /\ Head(chan).kind = "cancel"
    /\ resting' = {o \in resting : o.id # Head(chan).id}
    /\ chan' = Tail(chan)
    /\ UNCHANGED <<refused, traded, botVars, feedVars>>

\* A resting order is used up by an incoming one; the bot is not told.
Take(o) ==
    /\ o \in resting
    /\ resting' = resting \ {o}
    /\ traded' = traded \cup {o.id}
    /\ UNCHANGED <<chan, refused, botVars, feedVars>>

-----------------------------------------------------------------------------
Init ==
    /\ FeedInit
    /\ cur = {} /\ pc = "idle" /\ want = <<>> /\ todo = {} /\ lastId = 0
    /\ chan = <<>> /\ resting = {} /\ refused = {} /\ traded = {}

Next ==
    \/ FeedNext /\ UNCHANGED <<botVars, engineVars>>
    \/ Tick \/ Sync \/ BotStops
    \/ HandlePlace \/ HandleCancel
    \/ \E o \in resting : Take(o)

\* Goroutines that can run do; between a tick and the context's end select chooses
\* at random, so the end is not passed over for ever.
Spec ==
    /\ Init /\ [][Next]_vars
    /\ FeedFairness
    /\ WF_vars(Sync)
    /\ SF_vars(BotStops)

-----------------------------------------------------------------------------
(* Properties *)

CancelQueued(id) == \E i \in DOMAIN chan : chan[i].kind = "cancel" /\ chan[i].id = id

\* An order of the bot that rests is one the bot knows of, or its cancel is on the
\* way, or the full channel refused its cancel: nothing else makes the bot forget it.
NothingForgotten ==
    \A o \in resting :
        \/ \E l \in cur : l.id = o.id
        \/ CancelQueued(o.id)
        \/ o.id \in refused

\* A level is replaced by cancel and placement in this order through one channel, so
\* two orders of the bot at one price are the work of a refused cancel.
OneOrderPerLevel ==
    \A o, r \in resting : o # r /\ o.price = r.price => {o.id, r.id} \cap refused # {}

\* As long as nothing was refused or traded, the map of the bot is the engine's book
\* whenever both are at rest ("The local book mirrors the partner book").
MirrorIsBook ==
    pc = "idle" /\ chan = <<>> /\ refused = {} /\ traded = {} =>
        resting = {[price |-> l.price, id |-> l.id] : l \in cur}

\* README, graceful shutdown: the cancelled context reaches the stream client and the
\* bot, and both end, in the middle of a pause, a dial or a sync too.
WorkersStop == cancelled ~> phase = "stopped" /\ pc = "stopped"
=============================================================================
