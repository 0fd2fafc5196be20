------------------------- MODULE PartnerFeedProofs -------------------------
(***************************************************************************)
(* Proofs about PartnerFeed, for any snapshots, any channel and any number *)
(* of orders: the liquidity bot forgets no order of its own but by a       *)
(* refused cancel, two of its orders at one price are the work of such a   *)
(* cancel, and its map mirrors the book.  The stream client's pauses are   *)
(* bounded, for durations of any width.                                    *)
(***************************************************************************)
EXTENDS PartnerFeed, WellFoundedInduction, TLAPS

SnapshotPrices == UNION {DOMAIN s : s \in Snapshots}

Command == [kind : {"place", "cancel"}, id : Nat, price : SnapshotPrices]

Order == [price : SnapshotPrices, id : Nat]

IsPlace(i) == i \in DOMAIN chan /\ chan[i].kind = "place"
IsCancel(j, id) == j \in DOMAIN chan /\ chan[j].kind = "cancel" /\ chan[j].id = id
Known(id) == \E l \in cur : l.id = id

\* The prices of a sync are those of a snapshot, and while it places, the prices
\* it has still to place are not in the map.
BotTypeOK ==
    /\ snapshot \in Snapshots \cup {NoSnapshot}
    /\ lastId \in Nat
    /\ \A l \in cur : l.price \in SnapshotPrices /\ l.id \in 1..lastId
    /\ pc \in {"cancelling", "placing"} => DOMAIN want \subseteq SnapshotPrices
    /\ pc = "placing" => todo \subseteq DOMAIN want

EngineTypeOK ==
    /\ chan \in Seq(Command)
    /\ resting \subseteq Order
    /\ \A i \in DOMAIN chan : chan[i].id \in 1..lastId
    /\ \A o \in resting : o.id \in 1..lastId

\* An id is that of one level of the map, and of one placement or one resting order.
UniqueIds ==
    /\ \A l, m \in cur : l.id = m.id \/ l.price = m.price => l = m
    /\ pc = "placing" => \A l \in cur : l.price \notin todo
    /\ \A o, r \in resting : o.id = r.id => o = r
    /\ \A i, k \in DOMAIN chan : IsPlace(i) /\ IsPlace(k) /\ chan[i].id = chan[k].id => i = k
    /\ \A i \in DOMAIN chan : IsPlace(i) => \A o \in resting : o.id # chan[i].id

\* The map and the engine agree on the price of an order.
SamePrices ==
    /\ \A l \in cur, o \in resting : l.id = o.id => l.price = o.price
    /\ \A l \in cur, i \in DOMAIN chan : l.id = chan[i].id => l.price = chan[i].price /\ IsPlace(i)

\* What the bot knows of is on its way, rests, or has traded.
LevelsArePlaced ==
    \A l \in cur :
        \/ \E i \in DOMAIN chan : IsPlace(i) /\ chan[i].id = l.id
        \/ \E o \in resting : o.id = l.id
        \/ l.id \in traded

\* NothingForgotten also for the orders on their way: their cancel is queued behind them.
CancelsFollow ==
    /\ NothingForgotten
    /\ \A i \in DOMAIN chan : IsPlace(i) =>
           \/ Known(chan[i].id)
           \/ \E j \in DOMAIN chan : i < j /\ IsCancel(j, chan[i].id)
           \/ chan[i].id \in refused

\* Of two orders at one price the older has its cancel queued before the newer's placement.
CancelsPrecede ==
    /\ OneOrderPerLevel
    /\ \A o \in resting, k \in DOMAIN chan : IsPlace(k) /\ chan[k].price = o.price =>
           \/ {o.id, chan[k].id} \cap refused # {}
           \/ \E j \in DOMAIN chan : j < k /\ IsCancel(j, o.id)
    /\ \A i, k \in DOMAIN chan : i < k /\ IsPlace(i) /\ IsPlace(k) /\ chan[k].price = chan[i].price =>
           \/ {chan[i].id, chan[k].id} \cap refused # {}
           \/ \E j \in DOMAIN chan : i < j /\ j < k /\ IsCancel(j, chan[i].id)

FeedInv ==
    BotTypeOK /\ EngineTypeOK /\ UniqueIds /\ SamePrices /\ LevelsArePlaced
    /\ CancelsFollow /\ CancelsPrecede

-----------------------------------------------------------------------------
\* The map, the channel and the book are empty at the start.
LEMMA FeedInitInv == Init => FeedInv
<1> SUFFICES ASSUME Init PROVE FeedInv
    OBVIOUS
<1>1. BotTypeOK /\ EngineTypeOK
    BY DEF Init, FeedInit, BotTypeOK, EngineTypeOK
<1>2. UniqueIds /\ SamePrices /\ LevelsArePlaced
    BY DEF Init, UniqueIds, SamePrices, LevelsArePlaced
<1>3. CancelsFollow /\ CancelsPrecede
    BY DEF Init, CancelsFollow, CancelsPrecede, NothingForgotten, OneOrderPerLevel
<1> QED
    BY <1>1, <1>2, <1>3 DEF FeedInv

\* A step that leaves the map and the orders alone.
LEMMA NoOrderMoves ==
    ASSUME FeedInv, BotTypeOK', UNCHANGED <<cur, engineVars>>, lastId' \in {lastId, lastId + 1},
           pc' = "placing" => \A l \in cur : l.price \notin todo'
    PROVE  FeedInv'
<1>0. EngineTypeOK'
    BY DEF engineVars, FeedInv, BotTypeOK, EngineTypeOK
<1>1. UniqueIds' /\ SamePrices' /\ LevelsArePlaced'
    BY DEF engineVars, FeedInv, UniqueIds, SamePrices, LevelsArePlaced, IsPlace
<1>2. NothingForgotten' /\ OneOrderPerLevel'
    BY DEF engineVars, FeedInv, CancelsFollow, CancelsPrecede, NothingForgotten, OneOrderPerLevel,
           CancelQueued
<1>3. CancelsFollow'
    BY <1>2 DEF engineVars, FeedInv, CancelsFollow, IsPlace, IsCancel, Known
<1>4. CancelsPrecede'
    BY <1>2 DEF engineVars, FeedInv, CancelsPrecede, IsPlace, IsCancel
<1> QED
    BY <1>0, <1>1, <1>3, <1>4 DEF FeedInv

\* The client of the stream stores snapshots of the partner and nothing else of these.
LEMMA FeedNextInv ==
    ASSUME FeedInv, FeedNext, UNCHANGED <<botVars, engineVars>>
    PROVE  FeedInv'
<1>1. snapshot' \in Snapshots \cup {NoSnapshot}
    BY DEF FeedNext, Connect, ConnectionFails, WaitEnds, OtherMessage, onDepth, CancelWorkers,
           GrowStale, FeedInv, BotTypeOK
<1>2. BotTypeOK'
    BY <1>1 DEF botVars, FeedInv, BotTypeOK
<1> QED
    BY <1>2, NoOrderMoves DEF botVars, FeedInv, UniqueIds

\* A tick wants the prices of the snapshot.
LEMMA TickInv ==
    ASSUME FeedInv, Tick
    PROVE  FeedInv'
<1>1. snapshot \in Snapshots /\ DOMAIN want' = DOMAIN snapshot
    BY DEF Tick, HasOrderBook, Wanted, FeedInv, BotTypeOK
<1>2. DOMAIN want' \subseteq SnapshotPrices
    BY <1>1 DEF SnapshotPrices
<1>3. pc' = "cancelling" /\ UNCHANGED <<cur, lastId, engineVars, snapshot>>
    BY DEF Tick, feedVars
<1>4. BotTypeOK'
    BY <1>2, <1>3 DEF FeedInv, BotTypeOK
<1> QED
    BY <1>3, <1>4, NoOrderMoves

\* What is still to place is missing in the map.
LEMMA BeginPlacingInv ==
    ASSUME FeedInv, BeginPlacing
    PROVE  FeedInv'
<1>1. todo' = DOMAIN want \ PricesOf(cur) /\ pc = "cancelling"
    BY DEF BeginPlacing, MissingLevels
<1>2. UNCHANGED <<cur, lastId, engineVars, snapshot, want>>
    BY DEF BeginPlacing, feedVars
<1>3. BotTypeOK'
    BY <1>1, <1>2 DEF FeedInv, BotTypeOK
<1> QED
    BY <1>1, <1>2, <1>3, NoOrderMoves DEF PricesOf

\* The end of a sync, and of the bot.
LEMMA BotEndsInv ==
    ASSUME FeedInv, EndSync \/ BotStops
    PROVE  FeedInv'
<1>1. pc' \in {"idle", "stopped"} /\ UNCHANGED <<cur, lastId, engineVars, snapshot>>
    BY DEF EndSync, BotStops, feedVars
<1>2. BotTypeOK'
    BY <1>1 DEF FeedInv, BotTypeOK
<1> QED
    BY <1>1, <1>2, NoOrderMoves

-----------------------------------------------------------------------------
\* A cancel goes behind the placement of its order, or the order is refused.
LEMMA CancelLevelInv ==
    ASSUME FeedInv, NEW l \in cur, CancelLevel(l)
    PROVE  FeedInv'
<1>1. /\ cur' = cur \ {l} /\ UNCHANGED <<pc, want, todo, lastId, resting, traded, snapshot>>
      /\ l.id \in 1..lastId /\ l.price \in SnapshotPrices /\ lastId \in Nat
    BY DEF CancelLevel, feedVars, FeedInv, BotTypeOK
<1>2. \A m \in cur' : m \in cur /\ m.id # l.id
    BY <1>1 DEF FeedInv, UniqueIds
<1>3. \A id : Known(id) => Known(id)' \/ id = l.id
    BY <1>1 DEF Known
<1>4. BotTypeOK'
    BY <1>1 DEF FeedInv, BotTypeOK
<1>5. chan \in Seq(Command)
    BY DEF FeedInv, EngineTypeOK
<1>6. CASE UNCHANGED chan /\ refused' = refused \cup {l.id}
    <2>1. EngineTypeOK' /\ UniqueIds' /\ SamePrices'
        BY <1>1, <1>6 DEF FeedInv, EngineTypeOK, UniqueIds, SamePrices, IsPlace
    <2>2. LevelsArePlaced'
        BY <1>1, <1>6 DEF FeedInv, LevelsArePlaced, IsPlace
    <2>3. NothingForgotten' /\ OneOrderPerLevel'
        BY <1>1, <1>3, <1>6 DEF FeedInv, CancelsFollow, CancelsPrecede, NothingForgotten,
                                OneOrderPerLevel, CancelQueued, Known
    <2>4. CancelsFollow'
        BY <1>3, <1>6, <2>3 DEF FeedInv, CancelsFollow, IsPlace, IsCancel
    <2>5. CancelsPrecede'
        BY <1>1, <1>6, <2>3 DEF FeedInv, CancelsPrecede, IsPlace, IsCancel
    <2> QED
        BY <1>4, <2>1, <2>2, <2>4, <2>5 DEF FeedInv
<1>7. CASE chan' = Append(chan, Cancellation(l)) /\ UNCHANGED refused
    <2>0. PICK last \in Nat : last = Len(chan) + 1
        BY <1>5
    <2>1. /\ chan' \in Seq(Command) /\ DOMAIN chan = 1..Len(chan) /\ DOMAIN chan' = 1..last
          /\ Len(chan) \in Nat /\ \A i \in DOMAIN chan : chan'[i] = chan[i]
        BY <1>1, <1>5, <1>7, <2>0 DEF Command, Cancellation
    <2>2. chan'[last].kind = "cancel" /\ chan'[last].id = l.id
        BY <1>5, <1>7, <2>0 DEF Cancellation
    <2>3. /\ \A i \in DOMAIN chan' : i \in DOMAIN chan \/ i = last
          /\ \A i \in DOMAIN chan : i \in DOMAIN chan' /\ i < last
          /\ last \in DOMAIN chan'
        BY <2>0, <2>1
    <2>4. /\ \A i \in DOMAIN chan' : IsPlace(i)' => IsPlace(i) /\ chan'[i] = chan[i]
          /\ \A i \in DOMAIN chan : IsPlace(i) => IsPlace(i)' /\ chan'[i] = chan[i]
        BY <2>1, <2>2, <2>3 DEF IsPlace
    <2>a. \A i \in DOMAIN chan : \A id : IsCancel(i, id) => IsCancel(i, id)'
        BY <2>1, <2>3 DEF IsCancel
    <2>b. IsCancel(last, l.id)'
        BY <2>2, <2>3 DEF IsCancel
    <2>5. EngineTypeOK'
        BY <1>1, <2>1, <2>2, <2>3 DEF FeedInv, EngineTypeOK
    <2>6. UniqueIds'
        BY <1>1, <2>4 DEF FeedInv, UniqueIds, IsPlace
    <2>7. SamePrices'
        BY <1>1, <1>2, <2>1, <2>2, <2>3, <2>4 DEF FeedInv, SamePrices
    <2>8. LevelsArePlaced'
        BY <1>1, <2>3, <2>4 DEF FeedInv, LevelsArePlaced
    <2>9. NothingForgotten' /\ OneOrderPerLevel'
        <3>1. \A id : CancelQueued(id) => CancelQueued(id)'
            BY <2>1, <2>3 DEF CancelQueued
        <3>2. CancelQueued(l.id)'
            BY <2>2, <2>3 DEF CancelQueued
        <3> QED
            BY <1>1, <1>3, <1>7, <3>1, <3>2 DEF FeedInv, CancelsFollow, CancelsPrecede,
                NothingForgotten, OneOrderPerLevel, Known
    <2>10. CancelsFollow'
        <3> SUFFICES ASSUME NEW i \in DOMAIN chan', IsPlace(i)'
                     PROVE  \/ Known(chan[i].id)'
                            \/ \E j \in DOMAIN chan' : i < j /\ IsCancel(j, chan[i].id)'
                            \/ chan'[i].id \in refused
            BY <1>7, <2>4, <2>9 DEF CancelsFollow
        <3>1. i \in DOMAIN chan /\ IsPlace(i) /\ chan'[i] = chan[i] /\ i < last
            BY <2>3, <2>4 DEF IsPlace
        <3>2. CASE Known(chan[i].id)
            BY <1>3, <2>3, <2>b, <3>1, <3>2
        <3>3. CASE \E j \in DOMAIN chan : i < j /\ IsCancel(j, chan[i].id)
            BY <2>3, <2>a, <3>1, <3>3
        <3> QED
            BY <3>1, <3>2, <3>3 DEF FeedInv, CancelsFollow
    <2>11. CancelsPrecede'
        BY <1>1, <1>7, <2>3, <2>4, <2>9 DEF FeedInv, CancelsPrecede, IsPlace, IsCancel
    <2> QED
        BY <1>4, <2>5, <2>6, <2>7, <2>8, <2>10, <2>11 DEF FeedInv
<1> QED
    BY <1>6, <1>7 DEF CancelLevel

\* A new level: nothing live stands at its price but what has its cancel queued.
LEMMA PlaceLevelInv ==
    ASSUME FeedInv, NEW p \in todo, PlaceLevel(p)
    PROVE  FeedInv'
<1>1. /\ pc = "placing" /\ lastId' = lastId + 1 /\ todo' = todo \ {p} /\ lastId \in Nat
      /\ UNCHANGED <<pc, want, resting, refused, traded, snapshot>>
    BY DEF PlaceLevel, feedVars, FeedInv, BotTypeOK
<1>2. p \in SnapshotPrices /\ \A l \in cur : l.price # p
    BY <1>1 DEF FeedInv, BotTypeOK, UniqueIds
<1>3. CASE UNCHANGED <<chan, cur>>
    <2>1. BotTypeOK'
        BY <1>1, <1>3 DEF FeedInv, BotTypeOK
    <2> QED
        BY <1>1, <1>3, <2>1, NoOrderMoves DEF engineVars, FeedInv, UniqueIds
<1>4. CASE /\ chan' = Append(chan, Placement(p, lastId + 1))
           /\ cur' = cur \cup {[price |-> p, id |-> lastId + 1, qty |-> want[p]]}
    <2>1. chan \in Seq(Command)
        BY DEF FeedInv, EngineTypeOK
    <2>2. PICK new : new \in cur' /\ new.price = p /\ new.id = lastId + 1 /\ cur' = cur \cup {new}
        BY <1>4
    <2>3. PICK last \in Nat : last = Len(chan) + 1
        BY <2>1
    <2>4. PICK id \in Nat : id = lastId + 1
        BY <1>1
    <2>5. /\ chan' \in Seq(Command) /\ DOMAIN chan = 1..Len(chan) /\ DOMAIN chan' = 1..last
          /\ Len(chan) \in Nat /\ \A i \in DOMAIN chan : chan'[i] = chan[i]
        BY <1>2, <1>4, <2>1, <2>3, <2>4 DEF Command, Placement
    <2>6. chan'[last].kind = "place" /\ chan'[last].id = id /\ chan'[last].price = p
        BY <1>4, <2>1, <2>3, <2>4 DEF Placement
    <2>7. /\ \A i \in DOMAIN chan' : i \in DOMAIN chan \/ i = last
          /\ \A i \in DOMAIN chan : i \in DOMAIN chan' /\ i < last
          /\ last \in DOMAIN chan'
        BY <2>3, <2>5
    <2>8. /\ \A l \in cur : l.id < id /\ l.id \in Nat
          /\ \A i \in DOMAIN chan : chan[i].id < id /\ chan[i].id \in Nat
          /\ \A o \in resting : o.id < id /\ o.id \in Nat
        BY <1>1, <2>4 DEF FeedInv, BotTypeOK, EngineTypeOK
    <2>9. /\ \A i \in DOMAIN chan' : IsPlace(i)' => i = last \/ (IsPlace(i) /\ chan'[i] = chan[i])
          /\ \A i \in DOMAIN chan : IsPlace(i) => IsPlace(i)' /\ chan'[i] = chan[i]
          /\ IsPlace(last)'
        BY <2>5, <2>6, <2>7 DEF IsPlace
    <2>10. \A i \in DOMAIN chan : \A x : IsCancel(i, x) => IsCancel(i, x)'
        BY <2>5, <2>7 DEF IsCancel
    <2>11. \A x : Known(x) => Known(x)'
        BY <2>2 DEF Known
    <2>12. BotTypeOK'
        BY <1>1, <1>2, <2>2, <2>4 DEF FeedInv, BotTypeOK
    <2>13. EngineTypeOK'
        BY <1>1, <2>4, <2>5, <2>6, <2>7, <2>8 DEF FeedInv, EngineTypeOK
    <2>14. UniqueIds'
        BY <1>1, <1>2, <2>2, <2>4, <2>6, <2>8, <2>9 DEF FeedInv, UniqueIds, IsPlace
    <2>15. SamePrices'
        BY <1>1, <2>2, <2>4, <2>5, <2>6, <2>7, <2>8, <2>9 DEF FeedInv, SamePrices
    <2>16. LevelsArePlaced'
        BY <1>1, <2>2, <2>4, <2>6, <2>7, <2>9 DEF FeedInv, LevelsArePlaced
    <2>17. NothingForgotten' /\ OneOrderPerLevel'
        <3>1. \A x : CancelQueued(x) => CancelQueued(x)'
            BY <2>5, <2>7 DEF CancelQueued
        <3> QED
            BY <1>1, <2>11, <3>1 DEF FeedInv, CancelsFollow, CancelsPrecede,
                NothingForgotten, OneOrderPerLevel, Known
    <2>18. CancelsFollow'
        <3> SUFFICES ASSUME NEW i \in DOMAIN chan', IsPlace(i)'
                     PROVE  \/ Known(chan[i].id)'
                            \/ \E j \in DOMAIN chan' : i < j /\ IsCancel(j, chan[i].id)'
                            \/ chan'[i].id \in refused
            BY <1>1, <2>17 DEF CancelsFollow
        <3>1. CASE i = last
            BY <2>2, <2>4, <2>6, <3>1 DEF Known
        <3>2. CASE IsPlace(i) /\ chan'[i] = chan[i]
            <4>1. CASE Known(chan[i].id)
                BY <2>11, <3>2, <4>1 DEF Known
            <4>2. CASE \E j \in DOMAIN chan : i < j /\ IsCancel(j, chan[i].id)
                BY <2>7, <2>10, <3>2, <4>2 DEF IsCancel
            <4> QED
                BY <3>2, <4>1, <4>2 DEF FeedInv, CancelsFollow, IsPlace
        <3> QED
            BY <2>9, <3>1, <3>2
    <2>19. ASSUME NEW o \in resting, o.price = p
           PROVE  o.id \in refused \/ \E j \in DOMAIN chan : IsCancel(j, o.id)
        <3>1. ~Known(o.id)
            BY <1>2, <2>19 DEF FeedInv, SamePrices, Known
        <3> QED
            BY <3>1 DEF FeedInv, CancelsFollow, NothingForgotten, Known, CancelQueued, IsCancel
    <2>20. ASSUME NEW i \in DOMAIN chan, IsPlace(i), chan[i].price = p
           PROVE  chan[i].id \in refused \/ \E j \in DOMAIN chan : i < j /\ IsCancel(j, chan[i].id)
        <3>1. ~Known(chan[i].id)
            BY <1>2, <2>20 DEF FeedInv, SamePrices, Known
        <3> QED
            BY <2>20, <3>1 DEF FeedInv, CancelsFollow
    <2>21. ASSUME NEW o \in resting', NEW k \in DOMAIN chan', IsPlace(k)', chan'[k].price = o.price
           PROVE  \/ {o.id, chan'[k].id} \cap refused' # {}
                  \/ \E j \in DOMAIN chan' : j < k /\ IsCancel(j, o.id)'
        <3>1. CASE k = last
            BY <1>1, <2>6, <2>7, <2>10, <2>19, <2>21, <3>1
        <3>2. CASE IsPlace(k) /\ chan'[k] = chan[k]
            BY <1>1, <2>7, <2>10, <2>21, <3>2 DEF FeedInv, CancelsPrecede, IsPlace
        <3> QED
            BY <2>9, <2>21, <3>1, <3>2
    <2>22. ASSUME NEW i \in DOMAIN chan', NEW k \in DOMAIN chan', i < k, IsPlace(i)', IsPlace(k)',
                  chan'[k].price = chan'[i].price
           PROVE  \/ {chan'[i].id, chan'[k].id} \cap refused' # {}
                  \/ \E j \in DOMAIN chan' : i < j /\ j < k /\ IsCancel(j, chan[i].id)'
        <3>1. i \in DOMAIN chan /\ IsPlace(i) /\ chan'[i] = chan[i]
            BY <2>3, <2>5, <2>9, <2>22 DEF IsPlace
        <3>2. CASE k = last
            BY <1>1, <2>6, <2>7, <2>10, <2>20, <2>22, <3>1, <3>2 DEF IsCancel
        <3>3. CASE IsPlace(k) /\ chan'[k] = chan[k]
            BY <1>1, <2>7, <2>10, <2>22, <3>1, <3>3 DEF FeedInv, CancelsPrecede, IsPlace, IsCancel
        <3> QED
            BY <2>9, <2>22, <3>2, <3>3
    <2>23. CancelsPrecede'
        BY <2>17, <2>21, <2>22 DEF CancelsPrecede
    <2> QED
        BY <2>12, <2>13, <2>14, <2>15, <2>16, <2>18, <2>23 DEF FeedInv
<1> QED
    BY <1>3, <1>4 DEF PlaceLevel

-----------------------------------------------------------------------------
\* What the worker's receive does to the channel: every command moves up by one.
LEMMA Received ==
    ASSUME FeedInv, chan # <<>>, chan' = Tail(chan)
    PROVE  /\ chan' \in Seq(Command) /\ 1 \in DOMAIN chan /\ Head(chan) = chan[1]
           /\ \A i \in DOMAIN chan' : i \in Nat /\ i + 1 \in DOMAIN chan /\ chan'[i] = chan[i + 1]
           /\ \A i \in DOMAIN chan : i = 1 \/ \E n \in DOMAIN chan' : i = n + 1
           /\ \A i \in DOMAIN chan : i \in Nat /\ i >= 1
<1>1. chan \in Seq(Command)
    BY DEF FeedInv, EngineTypeOK
<1>2. PICK n \in Nat : n = Len(chan) /\ n >= 1
    BY <1>1
<1>3. /\ chan' \in Seq(Command) /\ DOMAIN chan = 1..n /\ DOMAIN chan' = 1..(n - 1)
      /\ \A i \in 1..(n - 1) : chan'[i] = chan[i + 1]
    BY <1>1, <1>2
<1>4. \A i \in 1..n : i = 1 \/ (i - 1 \in 1..(n - 1) /\ i = (i - 1) + 1)
    BY <1>2
<1>5. Head(chan) = chan[1] /\ 1 \in DOMAIN chan
    BY <1>1, <1>2
<1>6. \A i \in DOMAIN chan' : i \in Nat /\ i + 1 \in DOMAIN chan /\ chan'[i] = chan[i + 1]
    BY <1>2, <1>3
<1>7. ASSUME NEW i \in DOMAIN chan, i # 1
      PROVE  \E m \in DOMAIN chan' : i = m + 1
    <2>1. i - 1 \in DOMAIN chan' /\ i = (i - 1) + 1
        BY <1>3, <1>4, <1>7
    <2> QED
        BY <2>1
<1>8. \A i \in DOMAIN chan : i \in Nat /\ i >= 1
    BY <1>2, <1>3
<1> QED
    BY <1>3, <1>5, <1>6, <1>7, <1>8

\* What stays true of the queue, for the orders whose command is not the received one.
LEMMA Shifted ==
    ASSUME FeedInv, chan # <<>>, chan' = Tail(chan)
    PROVE  /\ \A i \in DOMAIN chan' : IsPlace(i)' => IsPlace(i + 1)
           /\ \A id : \A j \in DOMAIN chan : IsCancel(j, id) /\ j # 1 =>
                  \E n \in DOMAIN chan' : j = n + 1 /\ n \in Nat /\ IsCancel(n, id)'
           /\ \A id : CancelQueued(id) => IsCancel(1, id) \/ CancelQueued(id)'
<1>1. \A i \in DOMAIN chan' : IsPlace(i)' => IsPlace(i + 1)
    BY Received DEF IsPlace
<1>2. ASSUME NEW id, NEW j \in DOMAIN chan, IsCancel(j, id), j # 1
      PROVE  \E n \in DOMAIN chan' : j = n + 1 /\ n \in Nat /\ IsCancel(n, id)'
    <2>1. PICK n \in DOMAIN chan' : j = n + 1
        BY <1>2, Received
    <2>2. n \in Nat /\ chan'[n] = chan[j]
        BY <2>1, Received
    <2> QED
        BY <1>2, <2>1, <2>2 DEF IsCancel
<1>3. ASSUME NEW id, CancelQueued(id), ~IsCancel(1, id)
      PROVE  CancelQueued(id)'
    <2>1. PICK j \in DOMAIN chan : IsCancel(j, id)
        BY <1>3 DEF CancelQueued, IsCancel
    <2>2. PICK n \in DOMAIN chan' : IsCancel(n, id)'
        BY <1>2, <1>3, <2>1
    <2> QED
        BY <2>2 DEF CancelQueued, IsCancel
<1> QED
    BY <1>1, <1>2, <1>3

\* The order of the two queued orders at one price is kept when the channel is received from.
LEMMA QueuedPairs ==
    ASSUME FeedInv, chan # <<>>, chan' = Tail(chan), UNCHANGED refused,
           NEW i \in DOMAIN chan', NEW k \in DOMAIN chan', i < k, IsPlace(i)', IsPlace(k)',
           chan'[k].price = chan'[i].price
    PROVE  \/ {chan'[i].id, chan'[k].id} \cap refused' # {}
           \/ \E j \in DOMAIN chan' : i < j /\ j < k /\ IsCancel(j, chan[i].id)'
<1>1. /\ i \in Nat /\ k \in Nat /\ i + 1 < k + 1
      /\ i + 1 \in DOMAIN chan /\ k + 1 \in DOMAIN chan
      /\ chan'[i] = chan[i + 1] /\ chan'[k] = chan[k + 1]
    BY Received
<1>2. IsPlace(i + 1) /\ IsPlace(k + 1)
    BY Shifted
<1>3. \/ {chan[i + 1].id, chan[k + 1].id} \cap refused # {}
      \/ \E j \in DOMAIN chan : i + 1 < j /\ j < k + 1 /\ IsCancel(j, chan[i + 1].id)
    BY <1>1, <1>2 DEF FeedInv, CancelsPrecede
<1>4. ASSUME NEW j \in DOMAIN chan, i + 1 < j, j < k + 1, IsCancel(j, chan[i + 1].id)
      PROVE  \E n \in DOMAIN chan' : i < n /\ n < k /\ IsCancel(n, chan[i].id)'
    <2>1. PICK id : id = chan[i + 1].id
        OBVIOUS
    <2>2. j # 1 /\ j \in Nat
        BY <1>1, <1>4, Received
    <2>3. PICK n \in DOMAIN chan' : j = n + 1 /\ n \in Nat /\ IsCancel(n, id)'
        BY <1>4, <2>1, <2>2, Shifted
    <2>4. i < n /\ n < k
        BY <1>1, <1>4, <2>3
    <2> QED
        BY <1>1, <2>1, <2>3, <2>4 DEF IsCancel
<1> QED
    BY <1>1, <1>3, <1>4

\* A queued placement whose cancel is queued too keeps it behind itself.
LEMMA QueuedCancels ==
    ASSUME FeedInv, chan # <<>>, chan' = Tail(chan), UNCHANGED <<refused, cur>>,
           NEW i \in DOMAIN chan', IsPlace(i)'
    PROVE  \/ Known(chan[i].id)'
           \/ \E j \in DOMAIN chan' : i < j /\ IsCancel(j, chan[i].id)'
           \/ chan'[i].id \in refused'
<1>1. i \in Nat /\ i + 1 \in DOMAIN chan /\ chan'[i] = chan[i + 1] /\ IsPlace(i + 1)
    BY Received, Shifted
<1>2. PICK id : id = chan[i + 1].id /\ id = chan'[i].id
    BY <1>1
<1>3. Known(id) \/ id \in refused \/ \E j \in DOMAIN chan : i + 1 < j /\ IsCancel(j, id)
    BY <1>1, <1>2 DEF FeedInv, CancelsFollow
<1>4. ASSUME NEW j \in DOMAIN chan, i + 1 < j, IsCancel(j, id)
      PROVE  \E n \in DOMAIN chan' : i < n /\ IsCancel(n, chan[i].id)'
    <2>1. j # 1 /\ j \in Nat
        BY <1>1, <1>4, Received
    <2>2. PICK n \in DOMAIN chan' : j = n + 1 /\ n \in Nat /\ IsCancel(n, id)'
        BY <1>4, <2>1, Shifted
    <2>3. i < n
        BY <1>1, <1>4, <2>2
    <2> QED
        BY <1>2, <2>2, <2>3 DEF IsCancel
<1> QED
    BY <1>2, <1>3, <1>4 DEF Known

\* The types of the engine's state after a command is received.
LEMMA ReceivedTypes ==
    ASSUME FeedInv, chan # <<>>, chan' = Tail(chan), UNCHANGED <<botVars, snapshot>>,
           \A o \in resting' : o \in resting \/ (o \in Order /\ o.id = Head(chan).id)
    PROVE  BotTypeOK' /\ EngineTypeOK'
<1>1. BotTypeOK'
    BY DEF botVars, FeedInv, BotTypeOK
<1>2. chan' \in Seq(Command) /\ \A i \in DOMAIN chan' : chan'[i].id \in 1..lastId
    BY Received DEF FeedInv, EngineTypeOK
<1>3. resting' \subseteq Order /\ \A o \in resting' : o.id \in 1..lastId
    BY Received DEF FeedInv, EngineTypeOK
<1> QED
    BY <1>1, <1>2, <1>3 DEF botVars, EngineTypeOK

\* The placement that is received rests or trades; it was ahead of its cancel.
LEMMA HandlePlaceInv ==
    ASSUME FeedInv, HandlePlace
    PROVE  FeedInv'
<1>1. /\ chan # <<>> /\ chan' = Tail(chan) /\ UNCHANGED <<refused, botVars, feedVars>>
      /\ Head(chan) = chan[1] /\ 1 \in DOMAIN chan /\ IsPlace(1)
    BY Received DEF HandlePlace, IsPlace
<1>2. PICK o \in Order : o.price = chan[1].price /\ o.id = chan[1].id
                         /\ \/ resting' = resting \cup {o} /\ UNCHANGED traded
                            \/ traded' = traded \cup {o.id} /\ UNCHANGED resting
    <2> DEFINE o == [price |-> Head(chan).price, id |-> Head(chan).id]
    <2>1. chan[1] \in Command
        BY <1>1 DEF FeedInv, EngineTypeOK
    <2>2. o \in Order /\ o.price = chan[1].price /\ o.id = chan[1].id
        BY <1>1, <2>1 DEF Command, Order
    <2>3. \/ resting' = resting \cup {o} /\ UNCHANGED traded
          \/ traded' = traded \cup {o.id} /\ UNCHANGED resting
        BY DEF HandlePlace
    <2> HIDE DEF o
    <2> QED
        BY <2>2, <2>3
<1>3. \A r \in resting' : r \in resting \/ r = o
    BY <1>2
<1>4. BotTypeOK' /\ EngineTypeOK'
    BY <1>1, <1>2, <1>3, ReceivedTypes DEF feedVars
<1>5. UNCHANGED <<cur, pc, todo, lastId>>
    BY <1>1 DEF botVars
<1>6. \A i \in DOMAIN chan' : i + 1 # 1 /\ i + 1 \in DOMAIN chan /\ chan'[i] = chan[i + 1]
                              /\ i \in Nat /\ (IsPlace(i)' => IsPlace(i + 1))
    BY <1>1, Received, Shifted
<1>7. /\ \A r \in resting : r.id # o.id
      /\ \A i \in DOMAIN chan : IsPlace(i) /\ i # 1 => chan[i].id # o.id
    BY <1>1, <1>2 DEF FeedInv, UniqueIds
<1>8. UniqueIds'
    <2>1. \A r, q \in resting' : r.id = q.id => r = q
        BY <1>3, <1>7 DEF FeedInv, UniqueIds
    <2>2. \A i, k \in DOMAIN chan' : IsPlace(i)' /\ IsPlace(k)' /\ chan'[i].id = chan'[k].id => i = k
        BY <1>6 DEF FeedInv, UniqueIds
    <2>3. \A i \in DOMAIN chan' : IsPlace(i)' => \A r \in resting' : r.id # chan'[i].id
        BY <1>3, <1>6, <1>7 DEF FeedInv, UniqueIds
    <2>4. /\ \A l, m \in cur : l.id = m.id \/ l.price = m.price => l = m
          /\ pc = "placing" => \A l \in cur : l.price \notin todo
        BY DEF FeedInv, UniqueIds
    <2> QED
        BY <1>5, <2>1, <2>2, <2>3, <2>4 DEF UniqueIds
<1>9. SamePrices'
    <2>1. \A l \in cur, r \in resting' : l.id = r.id => l.price = r.price
        BY <1>1, <1>2, <1>3 DEF FeedInv, SamePrices
    <2>2. ASSUME NEW l \in cur, NEW i \in DOMAIN chan', l.id = chan'[i].id
          PROVE  l.price = chan'[i].price /\ IsPlace(i)'
        BY <1>6, <2>2 DEF FeedInv, SamePrices, IsPlace
    <2> QED
        BY <1>5, <2>1, <2>2 DEF SamePrices
<1>10. LevelsArePlaced'
    <2> SUFFICES ASSUME NEW l \in cur
                 PROVE  \/ \E i \in DOMAIN chan' : IsPlace(i)' /\ chan'[i].id = l.id
                        \/ \E r \in resting' : r.id = l.id
                        \/ l.id \in traded'
        BY <1>5 DEF LevelsArePlaced
    <2>1. CASE \E i \in DOMAIN chan : IsPlace(i) /\ chan[i].id = l.id
        <3>1. PICK i \in DOMAIN chan : IsPlace(i) /\ chan[i].id = l.id
            BY <2>1
        <3>2. CASE i = 1
            BY <1>2, <3>1, <3>2
        <3>3. CASE i # 1
            <4>1. PICK n \in DOMAIN chan' : i = n + 1
                BY <1>1, <3>3, Received
            <4> QED
                BY <1>6, <3>1, <4>1 DEF IsPlace
        <3> QED
            BY <3>2, <3>3
    <2>2. CASE (\E r \in resting : r.id = l.id) \/ l.id \in traded
        BY <1>2, <2>2
    <2> QED
        BY <2>1, <2>2 DEF FeedInv, LevelsArePlaced
<1>11. \A id : CancelQueued(id) => CancelQueued(id)'
    BY <1>1, Shifted DEF IsCancel, IsPlace
<1>12. Known(o.id) \/ CancelQueued(o.id)' \/ o.id \in refused
    <2>1. Known(o.id) \/ o.id \in refused \/ \E j \in DOMAIN chan : IsCancel(j, o.id)
        BY <1>1, <1>2 DEF FeedInv, CancelsFollow
    <2>2. (\E j \in DOMAIN chan : IsCancel(j, o.id)) => CancelQueued(o.id)
        BY DEF CancelQueued, IsCancel
    <2> QED
        BY <1>11, <2>1, <2>2
<1>13. NothingForgotten'
    <2> SUFFICES ASSUME NEW r \in resting'
                 PROVE  Known(r.id) \/ CancelQueued(r.id)' \/ r.id \in refused
        BY <1>1, <1>5 DEF NothingForgotten, Known
    <2>1. CASE r \in resting
        BY <1>11, <2>1 DEF FeedInv, CancelsFollow, NothingForgotten, Known
    <2> QED
        BY <1>3, <1>12, <2>1
<1>14. CancelsFollow'
    BY <1>1, <1>5, <1>13, QueuedCancels DEF CancelsFollow
<1>15. ASSUME NEW r \in resting, r.price = o.price
       PROVE  {r.id, o.id} \cap refused # {}
    <2>1. \A j \in DOMAIN chan : ~(j < 1)
        BY <1>1, Received
    <2> QED
        BY <1>1, <1>2, <1>15, <2>1 DEF FeedInv, CancelsPrecede
<1>16. OneOrderPerLevel'
    BY <1>1, <1>3, <1>15 DEF FeedInv, CancelsPrecede, OneOrderPerLevel
<1>17. ASSUME NEW id, NEW k \in DOMAIN chan', NEW j \in DOMAIN chan, j # 1, j < k + 1, IsCancel(j, id)
       PROVE  \E n \in DOMAIN chan' : n < k /\ IsCancel(n, id)'
    <2>1. PICK n \in DOMAIN chan' : j = n + 1 /\ n \in Nat /\ IsCancel(n, id)'
        BY <1>1, <1>17, Shifted
    <2> QED
        BY <1>6, <1>17, <2>1
<1>18. ASSUME NEW r \in resting', NEW k \in DOMAIN chan', IsPlace(k)', chan'[k].price = r.price
       PROVE  {r.id, chan'[k].id} \cap refused # {} \/ \E n \in DOMAIN chan' : n < k /\ IsCancel(n, r.id)'
    <2>1. k + 1 \in DOMAIN chan /\ IsPlace(k + 1) /\ chan'[k] = chan[k + 1] /\ 1 < k + 1
        BY <1>6, <1>18, Received, <1>1
    <2>2. \/ {r.id, chan[k + 1].id} \cap refused # {}
          \/ \E j \in DOMAIN chan : j < k + 1 /\ IsCancel(j, r.id)
        <3>1. CASE r \in resting
            BY <1>18, <2>1, <3>1 DEF FeedInv, CancelsPrecede
        <3>2. CASE r = o
            BY <1>1, <1>2, <1>18, <2>1, <3>2 DEF FeedInv, CancelsPrecede
        <3> QED
            BY <1>3, <3>1, <3>2
    <2>3. ~IsCancel(1, r.id)
        BY <1>1 DEF IsPlace, IsCancel
    <2> QED
        BY <1>17, <2>1, <2>2, <2>3
<1>19. CancelsPrecede'
    BY <1>1, <1>16, <1>18, QueuedPairs DEF CancelsPrecede
<1> QED
    BY <1>4, <1>8, <1>9, <1>10, <1>14, <1>19 DEF FeedInv

\* The cancel that is received names an order the bot has forgotten.
LEMMA HandleCancelInv ==
    ASSUME FeedInv, HandleCancel
    PROVE  FeedInv'
<1>1. /\ chan # <<>> /\ chan' = Tail(chan) /\ UNCHANGED <<refused, traded, botVars, feedVars>>
      /\ Head(chan) = chan[1] /\ 1 \in DOMAIN chan /\ ~IsPlace(1)
      /\ resting' = {o \in resting : o.id # chan[1].id}
    BY Received DEF HandleCancel, IsPlace
<1>2. UNCHANGED <<cur, pc, todo, lastId>>
    BY <1>1 DEF botVars
<1>3. \A r \in resting' : r \in resting /\ ~IsCancel(1, r.id)
    BY <1>1 DEF IsCancel
<1>4. BotTypeOK' /\ EngineTypeOK'
    BY <1>1, <1>3, ReceivedTypes DEF feedVars
<1>5. \A i \in DOMAIN chan' : i + 1 \in DOMAIN chan /\ chan'[i] = chan[i + 1]
                              /\ i \in Nat /\ (IsPlace(i)' => IsPlace(i + 1))
    BY <1>1, Received, Shifted
<1>6. UniqueIds'
    <2>1. \A i, k \in DOMAIN chan' : IsPlace(i)' /\ IsPlace(k)' /\ chan'[i].id = chan'[k].id => i = k
        BY <1>5 DEF FeedInv, UniqueIds
    <2>2. \A i \in DOMAIN chan' : IsPlace(i)' => \A r \in resting' : r.id # chan'[i].id
        BY <1>3, <1>5 DEF FeedInv, UniqueIds
    <2>3. /\ \A l, m \in cur : l.id = m.id \/ l.price = m.price => l = m
          /\ pc = "placing" => \A l \in cur : l.price \notin todo
          /\ \A o, r \in resting' : o.id = r.id => o = r
        BY <1>3 DEF FeedInv, UniqueIds
    <2> QED
        BY <1>2, <2>1, <2>2, <2>3 DEF UniqueIds
<1>7. SamePrices'
    <2>1. ASSUME NEW l \in cur, NEW i \in DOMAIN chan', l.id = chan'[i].id
          PROVE  l.price = chan'[i].price /\ IsPlace(i)'
        BY <1>5, <2>1 DEF FeedInv, SamePrices, IsPlace
    <2> QED
        BY <1>2, <1>3, <2>1 DEF FeedInv, SamePrices
<1>8. \A l \in cur : l.id # chan[1].id
    BY <1>1 DEF FeedInv, SamePrices
<1>9. LevelsArePlaced'
    <2> SUFFICES ASSUME NEW l \in cur
                 PROVE  \/ \E i \in DOMAIN chan' : IsPlace(i)' /\ chan'[i].id = l.id
                        \/ \E r \in resting' : r.id = l.id
                        \/ l.id \in traded'
        BY <1>2 DEF LevelsArePlaced
    <2>1. CASE \E i \in DOMAIN chan : IsPlace(i) /\ chan[i].id = l.id
        <3>1. PICK i \in DOMAIN chan : IsPlace(i) /\ chan[i].id = l.id /\ i # 1
            BY <1>1, <2>1
        <3>2. PICK n \in DOMAIN chan' : i = n + 1
            BY <1>1, <3>1, Received
        <3> QED
            BY <1>5, <3>1, <3>2 DEF IsPlace
    <2>2. CASE (\E r \in resting : r.id = l.id) \/ l.id \in traded
        BY <1>1, <1>8, <2>2
    <2> QED
        BY <2>1, <2>2 DEF FeedInv, LevelsArePlaced
<1>10. NothingForgotten'
    <2> SUFFICES ASSUME NEW r \in resting'
                 PROVE  Known(r.id) \/ CancelQueued(r.id)' \/ r.id \in refused
        BY <1>1, <1>2 DEF NothingForgotten, Known
    <2>1. CancelQueued(r.id) => CancelQueued(r.id)'
        BY <1>1, <1>3, Shifted
    <2> QED
        BY <1>3, <2>1 DEF FeedInv, CancelsFollow, NothingForgotten, Known
<1>11. CancelsFollow'
    BY <1>1, <1>2, <1>10, QueuedCancels DEF CancelsFollow
<1>12. OneOrderPerLevel'
    BY <1>1, <1>3 DEF FeedInv, CancelsPrecede, OneOrderPerLevel
<1>13. ASSUME NEW r \in resting', NEW k \in DOMAIN chan', IsPlace(k)', chan'[k].price = r.price
       PROVE  {r.id, chan'[k].id} \cap refused # {} \/ \E n \in DOMAIN chan' : n < k /\ IsCancel(n, r.id)'
    <2>1. k + 1 \in DOMAIN chan /\ IsPlace(k + 1) /\ chan'[k] = chan[k + 1] /\ k \in Nat
        BY <1>5, <1>13
    <2>2. \/ {r.id, chan[k + 1].id} \cap refused # {}
          \/ \E j \in DOMAIN chan : j < k + 1 /\ IsCancel(j, r.id)
        BY <1>3, <1>13, <2>1 DEF FeedInv, CancelsPrecede
    <2>3. ASSUME NEW j \in DOMAIN chan, j < k + 1, IsCancel(j, r.id)
          PROVE  \E n \in DOMAIN chan' : n < k /\ IsCancel(n, r.id)'
        <3>1. PICK n \in DOMAIN chan' : j = n + 1 /\ n \in Nat /\ IsCancel(n, r.id)'
            BY <1>1, <1>3, <2>3, Shifted
        <3> QED
            BY <2>1, <2>3, <3>1
    <2> QED
        BY <2>1, <2>2, <2>3
<1>14. CancelsPrecede'
    BY <1>1, <1>12, <1>13, QueuedPairs DEF CancelsPrecede
<1> QED
    BY <1>4, <1>6, <1>7, <1>9, <1>11, <1>14 DEF FeedInv

\* A resting order is used up.
LEMMA TakeInv ==
    ASSUME FeedInv, NEW o \in resting, Take(o)
    PROVE  FeedInv'
<1>1. /\ resting' = resting \ {o} /\ traded' = traded \cup {o.id}
      /\ UNCHANGED <<chan, refused, cur, pc, want, todo, lastId, snapshot>>
    BY DEF Take, botVars, feedVars
<1>2. BotTypeOK' /\ EngineTypeOK'
    BY <1>1 DEF FeedInv, BotTypeOK, EngineTypeOK
<1>3. UniqueIds' /\ SamePrices'
    BY <1>1 DEF FeedInv, UniqueIds, SamePrices, IsPlace
<1>4. LevelsArePlaced'
    BY <1>1 DEF FeedInv, LevelsArePlaced, IsPlace
<1>5. NothingForgotten' /\ OneOrderPerLevel'
    BY <1>1 DEF FeedInv, CancelsFollow, CancelsPrecede, NothingForgotten, OneOrderPerLevel, CancelQueued
<1>6. CancelsFollow'
    BY <1>1, <1>5 DEF FeedInv, CancelsFollow, IsPlace, IsCancel, Known
<1>7. CancelsPrecede'
    BY <1>1, <1>5 DEF FeedInv, CancelsPrecede, IsPlace, IsCancel
<1> QED
    BY <1>2, <1>3, <1>4, <1>6, <1>7 DEF FeedInv

-----------------------------------------------------------------------------
\* The invariant of the bot, its channel and its orders in the book.
THEOREM FeedInvariantHolds == Spec => []FeedInv
<1>1. FeedInv /\ [Next]_vars => FeedInv'
    <2> SUFFICES ASSUME FeedInv, [Next]_vars PROVE FeedInv'
        OBVIOUS
    <2>1. CASE UNCHANGED vars
        <3>1. UNCHANGED <<cur, pc, want, todo, lastId, snapshot, engineVars>>
            BY <2>1 DEF vars, botVars, feedVars
        <3>2. BotTypeOK'
            BY <3>1 DEF FeedInv, BotTypeOK
        <3> QED
            BY <3>1, <3>2, NoOrderMoves DEF FeedInv, UniqueIds
    <2>2. CASE Sync
        BY <2>2, CancelLevelInv, BeginPlacingInv, PlaceLevelInv, BotEndsInv DEF Sync
    <2> QED
        BY <2>1, <2>2, FeedNextInv, TickInv, BotEndsInv, HandlePlaceInv, HandleCancelInv, TakeInv DEF Next
<1> QED
    BY FeedInitInv, <1>1, PTL DEF Spec

\* The bot forgets a resting order only when the full channel refuses its cancel.
THEOREM NothingIsForgotten == Spec => []NothingForgotten
<1>1. FeedInv => NothingForgotten
    BY DEF FeedInv, CancelsFollow
<1> QED
    BY <1>1, FeedInvariantHolds, PTL

\* Two orders of the bot at one price are the work of a refused cancel.
THEOREM OneOrderAtAPrice == Spec => []OneOrderPerLevel
<1>1. FeedInv => OneOrderPerLevel
    BY DEF FeedInv, CancelsPrecede
<1> QED
    BY <1>1, FeedInvariantHolds, PTL

\* While nothing was refused or traded, the map of the bot is the book at rest.
THEOREM TheMapMirrorsTheBook == Spec => []MirrorIsBook
<1>1. FeedInv => MirrorIsBook
    <2> SUFFICES ASSUME FeedInv, chan = <<>>, refused = {}, traded = {}
                 PROVE  resting = {[price |-> l.price, id |-> l.id] : l \in cur}
        BY DEF MirrorIsBook
    <2>1. \A o \in resting : o \in Order /\ o = [price |-> o.price, id |-> o.id]
        BY DEF FeedInv, EngineTypeOK, Order
    <2>2. ASSUME NEW o \in resting
          PROVE  \E l \in cur : l.price = o.price /\ l.id = o.id
        BY DEF FeedInv, CancelsFollow, NothingForgotten, CancelQueued, SamePrices
    <2>3. ASSUME NEW l \in cur
          PROVE  \E o \in resting : l.price = o.price /\ l.id = o.id
        BY DEF FeedInv, LevelsArePlaced, SamePrices
    <2> QED
        BY <2>1, <2>2, <2>3
<1> QED
    BY <1>1, FeedInvariantHolds, PTL

-----------------------------------------------------------------------------
(* Powers of two.  That the recursive function exists is proved by its      *)
(* beginnings; the library's theorem about recursive functions takes an     *)
(* operator, which the provers cannot instantiate.                          *)

\* Induction over the naturals, for a set of them.
LEMMA InductionOverNat ==
    ASSUME NEW T, 0 \in T, \A n \in Nat : n \in T => n + 1 \in T
    PROVE  Nat \subseteq T
<1> DEFINE Less == OpToRel(<, Nat)
           Rest == Nat \ T
<1>1. IsWellFoundedOn(Less, Nat)
    BY NatLessThanWellFounded
<1>2. \A i, j \in Nat : i < j => <<i, j>> \in Less
    BY DEF OpToRel
<1>3. SUFFICES ASSUME Rest # {} PROVE FALSE
    OBVIOUS
<1>4. PICK n \in Rest : \A m \in Rest : <<m, n>> \notin Less
    <2>1. Rest \subseteq Nat
        OBVIOUS
    <2> HIDE DEF Less, Rest
    <2> QED
        BY <1>1, <1>3, <2>1, WFMin
<1>5. n \in Nat /\ n # 0 /\ n - 1 \in Nat /\ n - 1 < n
    OBVIOUS
<1>6. n - 1 \in T
    <2> HIDE DEF Less
    <2> QED
        BY <1>2, <1>4, <1>5
<1> QED
    BY <1>5, <1>6

\* The powers up to the n-th.
IsBeginning(g, n) == g = [k \in 0..n |-> IF k = 0 THEN 1 ELSE 2 * g[k - 1]]

\* Every beginning exists.
LEMMA BeginningExists == \A n \in Nat : \E g : IsBeginning(g, n)
<1> DEFINE Good == {n \in Nat : \E g : IsBeginning(g, n)}
<1>1. 0 \in Good
    <2> DEFINE g == [k \in 0..0 |-> 1]
    <2>1. IsBeginning(g, 0)
        BY DEF IsBeginning
    <2> HIDE DEF g
    <2> QED
        BY <2>1
<1>2. ASSUME NEW n \in Nat, n \in Good PROVE n + 1 \in Good
    <2>1. PICK g : IsBeginning(g, n)
        BY <1>2
    <2> DEFINE h == [k \in 0..(n + 1) |-> IF k = 0 THEN 1 ELSE 2 * g[k - 1]]
    <2>2. \A k \in 0..n : h[k] = g[k]
        BY <2>1 DEF IsBeginning
    <2>3. \A k \in 0..(n + 1) : k # 0 => k - 1 \in 0..n
        OBVIOUS
    <2>4. h = [k \in 0..(n + 1) |-> IF k = 0 THEN 1 ELSE 2 * h[k - 1]]
        BY <2>2, <2>3
    <2> HIDE DEF h
    <2>5. IsBeginning(h, n + 1)
        BY <2>4 DEF IsBeginning
    <2> QED
        BY <2>5
<1>3. Nat \subseteq Good
    <2> HIDE DEF Good
    <2> QED
        BY <1>1, <1>2, InductionOverNat
<1> QED
    BY <1>3

\* What a beginning is at each of its numbers.
LEMMA BeginningAt ==
    ASSUME NEW n \in Nat, NEW g, IsBeginning(g, n)
    PROVE  g[0] = 1 /\ \A k \in Nat : k < n => g[k + 1] = 2 * g[k]
<1>1. \A k \in 0..n : g[k] = IF k = 0 THEN 1 ELSE 2 * g[k - 1]
    BY DEF IsBeginning
<1>2. ASSUME NEW k \in Nat, k < n PROVE g[k + 1] = 2 * g[k]
    <2>1. k + 1 \in 0..n /\ k + 1 # 0 /\ (k + 1) - 1 = k
        BY <1>2
    <2> QED
        BY <1>1, <2>1
<1> QED
    BY <1>1, <1>2

\* Two beginnings agree.
LEMMA BeginningsAgree ==
    ASSUME NEW m \in Nat, NEW n \in Nat, NEW g, IsBeginning(g, m), NEW h, IsBeginning(h, n)
    PROVE  \A k \in Nat : k <= m /\ k <= n => g[k] = h[k]
<1> DEFINE Good == {k \in Nat : k <= m /\ k <= n => g[k] = h[k]}
<1>1. /\ g[0] = 1 /\ \A k \in Nat : k < m => g[k + 1] = 2 * g[k]
      /\ h[0] = 1 /\ \A k \in Nat : k < n => h[k + 1] = 2 * h[k]
    BY BeginningAt
<1>2. 0 \in Good
    BY <1>1
<1>3. ASSUME NEW k \in Nat, k \in Good PROVE k + 1 \in Good
    BY <1>1, <1>3
<1>4. Nat \subseteq Good
    <2> HIDE DEF Good
    <2> QED
        BY <1>2, <1>3, InductionOverNat
<1> QED
    BY <1>4

\* The function of the model doubles.
LEMMA Doubling == Power2[0] = 1 /\ \A n \in Nat : Power2[n + 1] = 2 * Power2[n]
<1> DEFINE Beginning(n) == CHOOSE g : IsBeginning(g, n)
           f == [n \in Nat |-> Beginning(n)[n]]
<1>1. \A n \in Nat : IsBeginning(Beginning(n), n)
    BY BeginningExists
<1> HIDE DEF Beginning
<1>2. f[0] = 1
    <2>1. Beginning(0)[0] = 1
        BY <1>1, BeginningAt
    <2> QED
        BY <2>1
<1>3. ASSUME NEW n \in Nat PROVE f[n + 1] = 2 * f[n]
    <2>1. n + 1 \in Nat /\ n < n + 1 /\ n <= n /\ n <= n + 1
        OBVIOUS
    <2>2. IsBeginning(Beginning(n), n) /\ IsBeginning(Beginning(n + 1), n + 1)
        BY <1>1, <2>1
    <2>3. Beginning(n + 1)[n + 1] = 2 * Beginning(n + 1)[n]
        BY <2>1, <2>2, BeginningAt
    <2>4. Beginning(n + 1)[n] = Beginning(n)[n]
        BY <2>1, <2>2, BeginningsAgree
    <2>5. f[n + 1] = Beginning(n + 1)[n + 1] /\ f[n] = Beginning(n)[n]
        BY <2>1
    <2> QED
        BY <2>3, <2>4, <2>5
<1>4. f = [n \in Nat |-> IF n = 0 THEN 1 ELSE 2 * f[n - 1]]
    <2>1. \A n \in Nat : n # 0 => n - 1 \in Nat /\ (n - 1) + 1 = n
        OBVIOUS
    <2>2. \A n \in Nat : f[n] = IF n = 0 THEN 1 ELSE 2 * f[n - 1]
        BY <1>2, <1>3, <2>1
    <2>3. f = [n \in Nat |-> f[n]]
        OBVIOUS
    <2> HIDE DEF f
    <2> QED
        BY <2>2, <2>3
<1> HIDE DEF f
<1>5. Power2 = [n \in Nat |-> IF n = 0 THEN 1 ELSE 2 * Power2[n - 1]]
    <2>1. \E g : g = [n \in Nat |-> IF n = 0 THEN 1 ELSE 2 * g[n - 1]]
        BY <1>4
    <2> QED
        BY <2>1, Zenon DEF Power2
<1>6. \A n \in Nat : Power2[n] = IF n = 0 THEN 1 ELSE 2 * Power2[n - 1]
    BY <1>5
<1>7. ASSUME NEW n \in Nat PROVE Power2[n + 1] = 2 * Power2[n]
    <2>1. n + 1 \in Nat /\ n + 1 # 0 /\ (n + 1) - 1 = n
        OBVIOUS
    <2> QED
        BY <1>6, <2>1
<1> QED
    BY <1>6, <1>7

\* Powers of two are positive.
LEMMA PowersPositive == \A n \in Nat : Power2[n] \in Nat /\ Power2[n] > 0
<1> DEFINE Good == {n \in Nat : Power2[n] \in Nat /\ Power2[n] > 0}
<1>1. 0 \in Good
    BY Doubling
<1>2. ASSUME NEW n \in Nat, n \in Good PROVE n + 1 \in Good
    BY <1>2, Doubling
<1>3. Nat \subseteq Good
    <2> HIDE DEF Good
    <2> QED
        BY <1>1, <1>2, InductionOverNat
<1> QED
    BY <1>3

-----------------------------------------------------------------------------
(* The pause *)

\* What fits in a width stays, and what does not becomes something that does.
LEMMA WrappedFacts ==
    ASSUME NEW x \in Int
    PROVE  /\ Wrapped(x) \in Int
           /\ x >= 0 /\ x < Power2[Width - 1] => Wrapped(x) = x
<1> DEFINE m == Power2[Width]  h == Power2[Width - 1]
<1>1. m \in Nat /\ h \in Nat /\ h > 0 /\ m = 2 * h
    <2>1. Width - 1 \in Nat /\ (Width - 1) + 1 = Width
        BY FeedBounds
    <2> QED
        BY <2>1, Doubling, PowersPositive
<1> HIDE DEF m, h
<1>2. x % m \in Int
    BY <1>1
<1>3. x >= 0 /\ x < h => x % m = x
    BY <1>1
<1>4. Wrapped(x) = IF x % m < h THEN x % m ELSE (x % m) - m
    BY DEF Wrapped, m, h
<1>5. Wrapped(x) \in Int
    BY <1>1, <1>2, <1>4
<1>6. x >= 0 /\ x < h => Wrapped(x) = x
    BY <1>1, <1>3, <1>4
<1> QED
    BY <1>5, <1>6 DEF h

\* The pause after n failures.
LEMMA BackoffFacts ==
    ASSUME NEW n \in Nat
    PROVE  /\ Backoff(n) <= 30 * Second
           /\ Power2[n] * Second < Power2[Width - 1] => Backoff(n) >= Second
<1> DEFINE p == Power2[n]  h == Power2[Width - 1]  d == Wrapped(Wrapped(p) * Second)
<1>1. p \in Nat /\ p > 0 /\ Second \in Nat /\ Second > 0
    BY PowersPositive, FeedBounds
<1>2. Width - 1 \in Nat
    BY FeedBounds
<1>3. h \in Nat
    BY <1>2, PowersPositive
<1>4. Backoff(n) = IF d > 30 * Second THEN 30 * Second ELSE d
    BY DEF Backoff
<1> HIDE DEF p, h
<1>5. Wrapped(p) \in Int /\ (p < h => Wrapped(p) = p)
    BY <1>1, WrappedFacts DEF h
<1>6. \A i \in Int, s \in Nat : i * s \in Int
    OBVIOUS
<1>7. Wrapped(p) * Second \in Int /\ p * Second \in Int
    BY <1>1, <1>5, <1>6
<1>8. d \in Int
    BY <1>7, WrappedFacts
<1>9. ASSUME p * Second < h PROVE d >= Second
    <2>1. \A i \in Nat, s \in Nat : i > 0 /\ s > 0 => i <= i * s /\ s <= i * s /\ i * s >= 0
        OBVIOUS
    <2>2. p <= p * Second /\ Second <= p * Second /\ p * Second >= 0
        BY <1>1, <2>1
    <2>3. p < h
        BY <1>1, <1>3, <1>7, <1>9, <2>2
    <2>4. d = Wrapped(p * Second)
        BY <1>5, <2>3
    <2>5. Wrapped(p * Second) = p * Second
        BY <1>7, <1>9, <2>2, WrappedFacts DEF h
    <2> QED
        BY <1>1, <1>7, <2>2, <2>4, <2>5
<1> HIDE DEF d
<1> QED
    BY <1>1, <1>4, <1>8, <1>9 DEF p, h

\* While the client waits, its pause is that of the last failure.
PauseInv ==
    /\ attempt \in Nat
    /\ phase = "waiting" => attempt > 0 /\ pause = Backoff(attempt - 1)

\* The pause is never longer than 30 seconds, and there is one before every dial until
\* the doubled duration no longer fits its width.
THEOREM PauseIsCapped == Spec => []BackoffIsCapped
<1>1. Init => PauseInv
    BY DEF Init, FeedInit, PauseInv
<1>2. PauseInv /\ [Next]_vars => PauseInv'
    <2> SUFFICES ASSUME PauseInv, [Next]_vars PROVE PauseInv'
        OBVIOUS
    <2>1. CASE UNCHANGED <<phase, attempt, pause>>
        BY <2>1 DEF PauseInv
    <2>2. CASE ConnectionFails
        BY <2>2 DEF ConnectionFails, PauseInv
    <2>3. CASE FeedNext
        BY <2>1, <2>2, <2>3
        DEF FeedNext, Connect, WaitEnds, OtherMessage, onDepth, AfterMessage, CancelWorkers, GrowStale, PauseInv
    <2>4. CASE UNCHANGED feedVars
        BY <2>1, <2>4 DEF feedVars
    <2>5. CASE Tick
        BY <2>4, <2>5 DEF Tick
    <2>6. CASE Sync
        <3>1. CASE BeginPlacing \/ EndSync
            BY <2>4, <3>1 DEF BeginPlacing, EndSync
        <3>2. CASE \E l \in cur : CancelLevel(l)
            BY <2>4, <3>2 DEF CancelLevel
        <3>3. CASE \E p \in todo : PlaceLevel(p)
            BY <2>4, <3>3 DEF PlaceLevel
        <3> QED
            BY <2>6, <3>1, <3>2, <3>3 DEF Sync
    <2>7. CASE BotStops \/ HandlePlace \/ HandleCancel
        BY <2>4, <2>7 DEF BotStops, HandlePlace, HandleCancel
    <2>8. CASE \E o \in resting : Take(o)
        BY <2>4, <2>8 DEF Take
    <2>9. CASE UNCHANGED vars
        BY <2>4, <2>9 DEF vars
    <2> QED
        BY <2>3, <2>5, <2>6, <2>7, <2>8, <2>9 DEF Next
<1>3. PauseInv => BackoffIsCapped
    <2> SUFFICES ASSUME PauseInv, phase = "waiting"
                 PROVE  /\ pause <= 30 * Second
                        /\ Power2[attempt - 1] * Second < Power2[Width - 1] => pause >= Second
        BY DEF BackoffIsCapped
    <2>1. attempt - 1 \in Nat /\ pause = Backoff(attempt - 1)
        BY DEF PauseInv
    <2> QED
        BY <2>1, BackoffFacts
<1> QED
    BY <1>1, <1>2, <1>3, PTL DEF Spec
=============================================================================
