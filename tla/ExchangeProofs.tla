--------------------------- MODULE ExchangeProofs ---------------------------
(***************************************************************************)
(* Proofs about Exchange and about Sandbox, the exchange whose settlement  *)
(* mints at the price of the partner and serves manual trades too.         *)
(*                                                                         *)
(* Exchange, for every set of orders, every price, quantity and channel    *)
(* bound and any number of restarts.  Sandbox, for any orders, levels of   *)
(* the bot, rows of the house, manual trades and any number of restarts:   *)
(* matches are within the limits, the engine gives no order and no row of  *)
(* the house more than it asked for, and the house owes no more than the   *)
(* partner has shown.                                                      *)
(***************************************************************************)
EXTENDS Sandbox, ExchangeInv, FiniteSetTheorems, TLAPS

-----------------------------------------------------------------------------
(* Volume is a sum *)

\* The units of the trades of S in which o takes part; Volume counts them.
Units(S, o) == {u \in S \X (1..MaxQty) : Involves(u[1], o) /\ u[2] <= u[1].qty}

\* A finite set of trades has finitely many units.
LEMMA UnitsFinite ==
    ASSUME NEW S, IsFiniteSet(S), NEW o
    PROVE  IsFiniteSet(Units(S, o)) /\ Volume(S, o) = Cardinality(Units(S, o)) /\ Volume(S, o) \in Nat
<1>1. IsFiniteSet(1..MaxQty)
    BY ExchangeBounds, FS_Interval
<1>2. IsFiniteSet(S \X (1..MaxQty))
    BY <1>1, FS_Product
<1>3. Units(S, o) \subseteq S \X (1..MaxQty)
    BY DEF Units
<1>4. IsFiniteSet(Units(S, o))
    BY <1>2, <1>3, FS_Subset
<1> QED
    BY <1>4, FS_CardinalityType DEF Units, Volume

\* Orders outside the trades of S have no volume in it.
LEMMA VolumeNone ==
    ASSUME NEW S, NEW o, \A t \in S : ~Involves(t, o)
    PROVE  Volume(S, o) = 0
<1>1. {u \in S \X (1..MaxQty) : Involves(u[1], o) /\ u[2] <= u[1].qty} = {}
    BY DEF Involves
<1> QED
    BY <1>1, FS_EmptySet DEF Volume

\* A new trade adds its quantity to the volume of its two orders.
LEMMA VolumeAdd ==
    ASSUME NEW S, IsFiniteSet(S), NEW t, t \notin S, t.qty \in 1..MaxQty, NEW o
    PROVE  /\ IsFiniteSet(S \cup {t})
           /\ Volume(S \cup {t}, o) =
                  IF Involves(t, o) THEN Volume(S, o) + t.qty ELSE Volume(S, o)
<1>1. IsFiniteSet(S \cup {t})
    BY FS_AddElement
<1>2. CASE ~Involves(t, o)
    <2>1. Units(S \cup {t}, o) = Units(S, o)
        BY <1>2 DEF Units
    <2> QED
        BY <1>1, <1>2, <2>1 DEF Units, Volume
<1>3. CASE Involves(t, o)
    <2> DEFINE T == {t} \X (1..t.qty)
    <2>1. Units(S \cup {t}, o) = Units(S, o) \cup T
        <3>1. 1..t.qty \subseteq 1..MaxQty /\ \A n \in 1..MaxQty : n <= t.qty <=> n \in 1..t.qty
            BY ExchangeBounds
        <3>2. Units({t}, o) = T
            BY <1>3, <3>1 DEF Units
        <3>3. Units(S \cup {t}, o) = Units(S, o) \cup Units({t}, o)
            BY DEF Units
        <3> QED BY <3>2, <3>3
    <2>2. Units(S, o) \cap T = {}
        BY DEF Units
    <2>3. IsFiniteSet(T) /\ Cardinality(T) = t.qty
        <3>1. IsFiniteSet(1..t.qty) /\ Cardinality(1..t.qty) = t.qty
            BY FS_Interval, ExchangeBounds
        <3>2. IsFiniteSet({t}) /\ Cardinality({t}) = 1
            BY FS_Singleton
        <3>3. IsFiniteSet(T) /\ Cardinality(T) = Cardinality({t}) * Cardinality(1..t.qty)
            <4> DEFINE A == {t}
                       B == 1..t.qty
            <4>1. IsFiniteSet(A) /\ IsFiniteSet(B) BY <3>1, <3>2
            <4> HIDE DEF A, B
            <4>2. IsFiniteSet(A \X B) /\ Cardinality(A \X B) = Cardinality(A) * Cardinality(B)
                BY <4>1, FS_Product
            <4> QED BY <4>2 DEF A, B
        <3> QED
            BY <3>1, <3>2, <3>3, ExchangeBounds
    <2>4. IsFiniteSet(Units(S, o)) /\ Volume(S, o) = Cardinality(Units(S, o)) /\ Volume(S, o) \in Nat
        BY UnitsFinite
    <2>5. Cardinality(Units(S, o) \cup T) = Volume(S, o) + t.qty
        <3>1. Cardinality(Units(S, o) \cup T)
                 = Cardinality(Units(S, o)) + Cardinality(T) - Cardinality(Units(S, o) \cap T)
            BY <2>3, <2>4, FS_Union
        <3>2. Cardinality(Units(S, o) \cap T) = 0
            BY <2>2, FS_EmptySet
        <3> QED
            BY <2>3, <2>4, <3>1, <3>2, ExchangeBounds
    <2>6. Volume(S \cup {t}, o) = Cardinality(Units(S \cup {t}, o))
        BY <1>1, UnitsFinite
    <2> QED
        BY <1>1, <1>3, <2>1, <2>5, <2>6
<1> QED
    BY <1>2, <1>3

\* Taking a trade out of S removes its quantity.
LEMMA VolumeRemove ==
    ASSUME NEW S, IsFiniteSet(S), NEW t \in S, t.qty \in 1..MaxQty, NEW o
    PROVE  /\ IsFiniteSet(S \ {t})
           /\ Volume(S, o) =
                  IF Involves(t, o) THEN Volume(S \ {t}, o) + t.qty ELSE Volume(S \ {t}, o)
<1>1. IsFiniteSet(S \ {t})
    BY FS_RemoveElement
<1>2. S = (S \ {t}) \cup {t} /\ t \notin S \ {t}
    OBVIOUS
<1> DEFINE R == S \ {t}
<1>3. IsFiniteSet(R) /\ t \notin R
    BY <1>1
<1>4. Volume(R \cup {t}, o) = IF Involves(t, o) THEN Volume(R, o) + t.qty ELSE Volume(R, o)
    <2> HIDE DEF R
    <2> QED BY <1>3, VolumeAdd
<1> QED
    BY <1>1, <1>2, <1>4

-----------------------------------------------------------------------------
(* The inductive invariant holds initially *)

\* The initial states satisfy every part of the invariant.
LEMMA InitInv == Init => IInv
<1> SUFFICES ASSUME Init PROVE IInv
    OBVIOUS
<1> USE DEF Init, BookInit
<1>1. TypeOK
    BY ExchangeBounds, NoneAssumption
    DEF TypeOK, BookTypeOK, Attr, NoAttr, Sides, Statuses, Trade, Command
<1>2. Matched = {} /\ events \cup fills = {}
    BY DEF Matched
<1>3. Pipeline
    BY <1>2, NoneAssumption DEF Pipeline, Untouched
<1>4. BookShape /\ TradeShape /\ PairsMatchOnce
    BY <1>2, FS_EmptySet DEF BookShape, TradeShape, PairsMatchOnce
<1>5. \A o \in Orders : Volume(events \cup fills, o) = 0 /\ Volume(trades, o) = 0
    BY <1>2, VolumeNone
<1>6. EngineWithinOrder /\ FillsMatchTrades
    BY <1>5 DEF EngineWithinOrder, FillsMatchTrades, NoAttr
<1>7. StatusMatchesFill /\ ReserveMatchesOrder
    BY DEF StatusMatchesFill, ReserveMatchesOrder, ReserveOf, NoAttr
<1> QED
    BY <1>1, <1>3, <1>4, <1>6, <1>7 DEF IInv

\* What a client asks for is a well-typed order of positive price and quantity.
LEMMA RequestIsAttr ==
    ASSUME NEW a \in Request
    PROVE  a \in Attr /\ a.qty \in Nat \ {0} /\ a.qty <= MaxQty /\ a.price \in Nat \ {0}
<1>1. a = [side |-> a.side, price |-> a.price, qty |-> a.qty]
      /\ a.side \in Sides /\ a.price \in Prices /\ a.qty \in 1..MaxQty
    BY DEF Request
<1>2. a.price \in Nat \ {0} /\ a.qty \in Nat \ {0} /\ a.qty <= MaxQty
    BY <1>1, ExchangeBounds
<1> QED
    BY <1>1, <1>2 DEF Attr

\* What the channel holds are commands.
LEMMA ChanElements ==
    ASSUME chan \in Seq(Command)
    PROVE  /\ DOMAIN chan = 1..Len(chan) /\ Len(chan) \in Nat
           /\ \A i \in DOMAIN chan : chan[i] \in Command /\ chan[i].id \in Orders
<1>1. chan \in Seq(Command)
    OBVIOUS
<1>2. \A i \in 1..Len(chan) : chan[i] \in Command
    BY <1>1
<1>3. DOMAIN chan = 1..Len(chan) /\ Len(chan) \in Nat
    BY <1>1
<1> QED
    BY <1>2, <1>3 DEF Command

-----------------------------------------------------------------------------
(* Every step preserves the inductive invariant *)

\* PlaceOrder touches an order that was nowhere else.
LEMMA PlaceOrderInv ==
    ASSUME IInv, NEW o \in Orders, NEW a \in Request, PlaceOrder(o, a)
    PROVE  IInv'
<1> USE DEF IInv, PlaceOrder
<1>0. /\ UNCHANGED <<book, ahead, rem, incoming, fills, seq, filled, trades, events, chan>>
      /\ status[o] = "NEW" /\ o \notin submitting /\ filled[o] = 0 /\ rem[o] = 0
      /\ a \in Attr /\ a.qty \in Nat \ {0}
    <2>1. a \in Attr /\ a.qty \in Nat \ {0}
        BY RequestIsAttr
    <2> QED
        BY <2>1 DEF bookVars, Pipeline, Untouched
<1>1. TypeOK'
    <2>1. IsFiniteSet({p \in Orders : status[p] # "NEW"})
        BY ExchangeBounds, FS_Subset
    <2>2. Cardinality({p \in Orders : status[p] # "NEW"}) \in Nat
        BY <2>1, FS_CardinalityType
    <2>3. ReserveOf(a, a.qty) \in Int
        BY <1>0 DEF ReserveOf, Attr
    <2>4. BookTypeOK'
        BY <1>0 DEF TypeOK, BookTypeOK
    <2>5. status' \in [Orders -> Statuses] /\ created' \in [Orders -> Nat] /\ held' \in [Orders -> Int]
        BY <2>2, <2>3 DEF TypeOK, Statuses
    <2>6. submitting' \subseteq Orders /\ UNCHANGED <<filled, trades, cancelling, chan, events, restarts>>
        BY DEF TypeOK, dbVars
    <2> QED
        BY <2>4, <2>5, <2>6 DEF TypeOK
<1>2. Matched' = Matched /\ \A p \in Orders : Untouched(p)' <=> Untouched(p)
    BY <1>0 DEF Matched, Untouched
<1>3. Pipeline'
    <2>1. \A i \in DOMAIN chan : ~IsPlaceOf(chan[i], o)
        BY <1>0 DEF Pipeline, IsPlaceOf
    <2>2. Untouched(o)
        BY <1>0 DEF Pipeline
    <2>3. submitting \subseteq Orders /\ \A i \in DOMAIN chan : chan[i].id \in Orders
        BY ChanElements DEF TypeOK
    <2> QED
        BY <1>0, <1>2, <2>1, <2>2, <2>3 DEF Pipeline, IsPlaceOf, TypeOK, BookTypeOK
<1>4. BookShape'
    BY <1>0 DEF BookShape
<1>5. \A t \in Matched : t.buy \in Orders /\ t.sell \in Orders /\ t.buy # o /\ t.sell # o
    BY <1>0 DEF Pipeline, Untouched, Involves, TypeOK, BookTypeOK, Matched, Trade
<1>6. TradeShape'
    BY <1>0, <1>2, <1>5 DEF TradeShape, TypeOK, BookTypeOK
<1>7. PairsMatchOnce'
    BY <1>0, <1>2 DEF PairsMatchOnce
<1>8. FillsMatchTrades'
    BY <1>0 DEF FillsMatchTrades
<1>9. EngineWithinOrder'
    <2>1. Volume(events \cup fills, o) = 0
        BY <1>0, VolumeNone DEF Pipeline, Untouched, Matched
    <2>2. ASSUME NEW p \in Orders
          PROVE  filled[p] + Volume(events \cup fills, p) + rem[p] <= attr'[p].qty
        <3>1. CASE p = o
            <4>1. attr'[p] = a
                BY <3>1 DEF TypeOK, BookTypeOK
            <4> QED
                BY <1>0, <2>1, <3>1, <4>1
        <3>2. CASE p # o
            BY <1>0, <3>2 DEF EngineWithinOrder, TypeOK, BookTypeOK
        <3> QED
            BY <3>1, <3>2
    <2> QED
        BY <1>0, <2>2 DEF EngineWithinOrder
<1>10. StatusMatchesFill' /\ ReserveMatchesOrder'
    BY <1>0 DEF StatusMatchesFill, ReserveMatchesOrder, TypeOK, BookTypeOK, Attr
<1> QED
    BY <1>1, <1>3, <1>4, <1>6, <1>7, <1>8, <1>9, <1>10

\* The volumes of the engine's trades are numbers, and shrink with the trades.
LEMMA EngineVolumes ==
    ASSUME IInv
    PROVE  /\ IsFiniteSet(events \cup fills) /\ IsFiniteSet(trades)
           /\ \A p \in Orders : Volume(events \cup fills, p) \in Nat
           /\ \A t \in events \cup fills, p \in Orders :
                 /\ Volume((events \cup fills) \ {t}, p) \in Nat
                 /\ Volume(events \cup fills, p) =
                       IF Involves(t, p) THEN Volume((events \cup fills) \ {t}, p) + t.qty
                                         ELSE Volume((events \cup fills) \ {t}, p)
                 /\ Volume((events \cup fills) \ {t}, p) <= Volume(events \cup fills, p)
<1>1. IsFiniteSet(events \cup fills) /\ IsFiniteSet(trades)
    BY FS_Subset DEF IInv, TradeShape, Matched
<1>2. \A p \in Orders : Volume(events \cup fills, p) \in Nat
    BY <1>1, UnitsFinite
<1>3. ASSUME NEW t \in events \cup fills, NEW p \in Orders
      PROVE  /\ Volume((events \cup fills) \ {t}, p) \in Nat
             /\ Volume(events \cup fills, p) =
                   IF Involves(t, p) THEN Volume((events \cup fills) \ {t}, p) + t.qty
                                     ELSE Volume((events \cup fills) \ {t}, p)
             /\ Volume((events \cup fills) \ {t}, p) <= Volume(events \cup fills, p)
    <2>1. t.qty \in 1..MaxQty
        BY DEF IInv, TradeShape, Matched
    <2>2. IsFiniteSet((events \cup fills) \ {t})
        BY <1>1, FS_RemoveElement
    <2>3. Volume((events \cup fills) \ {t}, p) \in Nat
        BY <2>2, UnitsFinite
    <2>4. Volume(events \cup fills, p) =
             IF Involves(t, p) THEN Volume((events \cup fills) \ {t}, p) + t.qty
                               ELSE Volume((events \cup fills) \ {t}, p)
        BY <1>1, <2>1, VolumeRemove
    <2> QED
        BY <2>1, <2>3, <2>4, ExchangeBounds
<1> QED
    BY <1>1, <1>2, <1>3

\* The quantities of one order are numbers, and what the engine holds of it fits.
LEMMA OrderNumbers ==
    ASSUME IInv, NEW p \in Orders
    PROVE  /\ filled[p] \in Nat /\ rem[p] \in Nat /\ attr[p].qty \in Nat /\ attr[p].price \in Nat
           /\ Volume(events \cup fills, p) \in Nat
           /\ filled[p] + Volume(events \cup fills, p) + rem[p] <= attr[p].qty
<1>1. Volume(events \cup fills, p) \in Nat
    BY EngineVolumes
<1>2. filled[p] \in Nat /\ rem[p] \in Nat /\ attr[p].qty \in Nat /\ attr[p].price \in Nat
    BY DEF IInv, TypeOK, BookTypeOK, Attr
<1> QED
    BY <1>1, <1>2 DEF IInv, EngineWithinOrder

\* Steps that leave the rows, the book and the trades alone.
LEMMA Frame ==
    ASSUME IInv, UNCHANGED <<attr, book, rem, incoming, fills, filled, trades, events>>
    PROVE  /\ BookShape' /\ TradeShape' /\ PairsMatchOnce'
           /\ EngineWithinOrder' /\ FillsMatchTrades'
           /\ \A p \in Orders : Untouched(p)' <=> Untouched(p)
<1>1. Matched' = Matched
    BY DEF Matched
<1>2. BookShape' /\ TradeShape' /\ PairsMatchOnce'
    BY <1>1 DEF IInv, BookShape, TradeShape, PairsMatchOnce
<1>3. EngineWithinOrder' /\ FillsMatchTrades'
    BY DEF IInv, EngineWithinOrder, FillsMatchTrades
<1>4. \A p \in Orders : Untouched(p)' <=> Untouched(p)
    BY <1>1 DEF Untouched
<1> QED
    BY <1>2, <1>3, <1>4

\* Submit appends its command or drops it.
LEMMA SubmitElements ==
    ASSUME chan \in Seq(Command), NEW c \in Command, Submit(c)
    PROVE  /\ chan' \in Seq(Command)
           /\ \/ chan' = chan
              \/ /\ DOMAIN chan' = DOMAIN chan \cup {Len(chan) + 1}
                 /\ Len(chan) + 1 \notin DOMAIN chan
                 /\ chan'[Len(chan) + 1] = c
                 /\ \A i \in DOMAIN chan : chan'[i] = chan[i]
<1>1. chan \in Seq(Command)
    OBVIOUS
<1>2. CASE Len(chan) < ChanCap
    <2>1. chan' = Append(chan, c)
        BY <1>2 DEF Submit
    <2>2. chan' \in Seq(Command) /\ Len(chan') = Len(chan) + 1 /\ Len(chan) \in Nat
        BY <1>1, <2>1
    <2>3. DOMAIN chan = 1..Len(chan) /\ DOMAIN chan' = 1..Len(chan')
        BY <1>1, <2>2
    <2>4. chan'[Len(chan) + 1] = c /\ \A i \in 1..Len(chan) : chan'[i] = chan[i]
        BY <1>1, <2>1
    <2> QED
        BY <2>2, <2>3, <2>4
<1>3. CASE ~(Len(chan) < ChanCap)
    BY <1>1, <1>3 DEF Submit
<1> QED
    BY <1>2, <1>3

\* SubmitPlace hands over an untouched order that no other command places.
LEMMA SubmitPlaceInv ==
    ASSUME IInv, NEW o \in Orders, SubmitPlace(o)
    PROVE  IInv'
<1>0. /\ UNCHANGED <<attr, book, ahead, rem, incoming, fills, seq>>
      /\ UNCHANGED <<status, filled, created, held, trades, cancelling, events, restarts>>
      /\ o \in submitting /\ submitting' = submitting \ {o}
      /\ Submit([kind |-> "place", id |-> o])
    BY DEF SubmitPlace, bookVars, dbVars
<1>1. TypeOK
    BY DEF IInv
<1>2. [kind |-> "place", id |-> o] \in Command
    BY DEF Command
<1>3. /\ chan' \in Seq(Command)
      /\ \/ chan' = chan
         \/ /\ DOMAIN chan' = DOMAIN chan \cup {Len(chan) + 1}
            /\ Len(chan) + 1 \notin DOMAIN chan
            /\ chan'[Len(chan) + 1] = [kind |-> "place", id |-> o]
            /\ \A i \in DOMAIN chan : chan'[i] = chan[i]
    BY <1>0, <1>1, <1>2, SubmitElements DEF TypeOK
<1>4. TypeOK'
    BY <1>0, <1>1, <1>3 DEF TypeOK, BookTypeOK
<1>5. /\ BookShape' /\ TradeShape' /\ PairsMatchOnce' /\ EngineWithinOrder' /\ FillsMatchTrades'
      /\ \A p \in Orders : Untouched(p)' <=> Untouched(p)
    BY <1>0, Frame
<1>6. Pipeline'
    <2>1. Pipeline /\ submitting \subseteq Orders
        BY DEF IInv, TypeOK
    <2>2. \A i \in DOMAIN chan : chan[i].id \in Orders
        BY <1>1, ChanElements DEF TypeOK
    <2>3. Untouched(o) /\ status[o] # "NEW" /\ \A i \in DOMAIN chan : ~IsPlaceOf(chan[i], o)
        BY <1>0, <2>1 DEF Pipeline
    <2>4. CASE chan' = chan
        BY <1>0, <1>5, <2>1, <2>2, <2>4 DEF Pipeline, IsPlaceOf
    <2>5. CASE chan' # chan
        BY <1>0, <1>3, <1>5, <2>1, <2>2, <2>3, <2>5 DEF Pipeline, IsPlaceOf
    <2> QED
        BY <2>4, <2>5
<1>7. StatusMatchesFill' /\ ReserveMatchesOrder'
    BY <1>0 DEF IInv, StatusMatchesFill, ReserveMatchesOrder
<1> QED
    BY <1>4, <1>5, <1>6, <1>7 DEF IInv

\* A cancel command on its way places nothing.
LEMMA SubmitCancelInv ==
    ASSUME IInv, NEW o \in Orders, SubmitCancel(o)
    PROVE  IInv'
<1>0. /\ UNCHANGED <<attr, book, ahead, rem, incoming, fills, seq>>
      /\ UNCHANGED <<status, filled, created, held, trades, submitting, events, restarts>>
      /\ cancelling' = cancelling \ {o}
      /\ Submit([kind |-> "cancel", id |-> o])
    BY DEF SubmitCancel, bookVars, dbVars
<1>1. TypeOK
    BY DEF IInv
<1>2. [kind |-> "cancel", id |-> o] \in Command
    BY DEF Command
<1>3. /\ chan' \in Seq(Command)
      /\ \/ chan' = chan
         \/ /\ DOMAIN chan' = DOMAIN chan \cup {Len(chan) + 1}
            /\ Len(chan) + 1 \notin DOMAIN chan
            /\ chan'[Len(chan) + 1] = [kind |-> "cancel", id |-> o]
            /\ \A i \in DOMAIN chan : chan'[i] = chan[i]
    BY <1>0, <1>1, <1>2, SubmitElements DEF TypeOK
<1>4. TypeOK'
    BY <1>0, <1>1, <1>3 DEF TypeOK, BookTypeOK
<1>5. /\ BookShape' /\ TradeShape' /\ PairsMatchOnce' /\ EngineWithinOrder' /\ FillsMatchTrades'
      /\ \A p \in Orders : Untouched(p)' <=> Untouched(p)
    BY <1>0, Frame
<1>6. Pipeline'
    <2>1. Pipeline /\ submitting \subseteq Orders
        BY DEF IInv, TypeOK
    <2>2. \A i \in DOMAIN chan : chan[i].id \in Orders
        BY <1>1, ChanElements DEF TypeOK
    <2>4. CASE chan' = chan
        BY <1>0, <1>5, <2>1, <2>2, <2>4 DEF Pipeline, IsPlaceOf
    <2>5. CASE chan' # chan
        BY <1>0, <1>3, <1>5, <2>1, <2>2, <2>5 DEF Pipeline, IsPlaceOf
    <2> QED
        BY <2>4, <2>5
<1>7. StatusMatchesFill' /\ ReserveMatchesOrder'
    BY <1>0 DEF IInv, StatusMatchesFill, ReserveMatchesOrder
<1> QED
    BY <1>4, <1>5, <1>6, <1>7 DEF IInv

\* A live order has something left to release.
LEMMA UnreservedPositive ==
    ASSUME IInv, NEW o \in Orders, IsCancellable(status[o])
    PROVE  /\ filled[o] < attr[o].qty /\ filled[o] \in Nat /\ attr[o].qty \in Nat
           /\ Unreserved(o) \in Int /\ Unreserved(o) > 0
<1>1. attr[o] \in Request /\ status[o] # "NEW" /\ status[o] # "FILLED"
    BY DEF IInv, Pipeline, IsCancellable
<1>2. attr[o].qty \in Nat \ {0} /\ attr[o].price \in Nat \ {0}
    BY <1>1, RequestIsAttr
<1>3. filled[o] \in Nat /\ rem[o] \in Nat /\ Volume(events \cup fills, o) \in Nat
    <2>1. IsFiniteSet(events \cup fills)
        BY FS_Subset DEF IInv, TradeShape, Matched
    <2> QED
        BY <2>1, UnitsFinite DEF IInv, TypeOK, BookTypeOK
<1>4. filled[o] + Volume(events \cup fills, o) + rem[o] <= attr[o].qty
    BY DEF IInv, EngineWithinOrder
<1>5. filled[o] # attr[o].qty
    BY <1>1 DEF IInv, StatusMatchesFill
<1>6. filled[o] < attr[o].qty
    BY <1>2, <1>3, <1>4, <1>5
<1>7. ASSUME NEW p \in Nat \ {0}, NEW m \in Nat, NEW n \in Nat, m < n
      PROVE  p * n - p * m > 0
    BY <1>7
<1> QED
    BY <1>2, <1>3, <1>6, <1>7 DEF Unreserved, ReserveOf

\* CancelOrder leaves the reserve of the fills.
LEMMA CancelOrderInv ==
    ASSUME IInv, NEW o \in Orders, CancelOrder(o)
    PROVE  IInv'
<1>0. /\ UNCHANGED <<attr, book, ahead, rem, incoming, fills, seq>>
      /\ UNCHANGED <<filled, created, trades, submitting, chan, events, restarts>>
      /\ IsCancellable(status[o])
      /\ status' = [status EXCEPT ![o] = "CANCELLED"]
      /\ cancelling' = cancelling \cup {o}
    BY DEF CancelOrder, bookVars
<1>1. /\ filled[o] < attr[o].qty /\ filled[o] \in Nat /\ attr[o].qty \in Nat
      /\ Unreserved(o) \in Int /\ Unreserved(o) > 0
    BY <1>0, UnreservedPositive
<1>2. held' = [held EXCEPT ![o] = @ - Unreserved(o)]
    BY <1>1 DEF CancelOrder
<1>3. TypeOK
    BY DEF IInv
<1>4. TypeOK'
    <2>1. held' \in [Orders -> Int]
        BY <1>1, <1>2, <1>3 DEF TypeOK
    <2>2. status' \in [Orders -> Statuses]
        BY <1>0, <1>3 DEF TypeOK, Statuses
    <2> QED
        BY <1>0, <1>3, <2>1, <2>2 DEF TypeOK, BookTypeOK
<1>5. /\ BookShape' /\ TradeShape' /\ PairsMatchOnce' /\ EngineWithinOrder' /\ FillsMatchTrades'
      /\ \A p \in Orders : Untouched(p)' <=> Untouched(p)
    BY <1>0, Frame
<1>6. status[o] # "NEW" /\ status[o] # "CANCELLED" /\ status[o] # "FILLED"
    BY <1>0 DEF IsCancellable
<1>7. Pipeline'
    <2>1. Pipeline /\ submitting \subseteq Orders /\ \A i \in DOMAIN chan : chan[i].id \in Orders
        BY <1>3, ChanElements DEF IInv, TypeOK
    <2>2. \A p \in Orders : (status'[p] = "NEW" <=> status[p] = "NEW") /\ (p # o => held'[p] = held[p])
        BY <1>0, <1>2, <1>3, <1>6 DEF TypeOK
    <2> QED
        BY <1>0, <1>5, <1>6, <2>1, <2>2 DEF Pipeline, IsPlaceOf
<1>8. StatusMatchesFill'
    BY <1>0, <1>1, <1>3, <1>6 DEF IInv, StatusMatchesFill, TypeOK
<1>9. ReserveMatchesOrder'
    <2>1. held[o] = ReserveOf(attr[o], attr[o].qty)
        BY <1>6 DEF IInv, ReserveMatchesOrder
    <2>2. attr[o].price \in Nat /\ held[o] \in Int
        BY <1>3 DEF TypeOK, BookTypeOK, Attr
    <2>3. ReserveOf(attr[o], attr[o].qty) \in Int /\ ReserveOf(attr[o], filled[o]) \in Int
        BY <1>1, <2>2 DEF ReserveOf
    <2>4. held'[o] = ReserveOf(attr[o], filled[o]) /\ status'[o] = "CANCELLED"
        BY <1>0, <1>2, <1>3, <2>1, <2>3 DEF Unreserved, TypeOK
    <2>5. \A p \in Orders \ {o} : held'[p] = held[p] /\ status'[p] = status[p]
        BY <1>0, <1>2, <1>3 DEF TypeOK
    <2>6. ReserveMatchesOrder
        BY DEF IInv
    <2> QED
        BY <1>0, <2>4, <2>5, <2>6 DEF ReserveMatchesOrder
<1> QED
    BY <1>4, <1>5, <1>7, <1>8, <1>9 DEF IInv

\* Taking the first command leaves the others, one place further on.
LEMMA TailElements ==
    ASSUME chan \in Seq(Command), chan # <<>>, chan' = Tail(chan)
    PROVE  /\ chan' \in Seq(Command)
           /\ 1 \in DOMAIN chan /\ Head(chan) = chan[1] /\ chan[1] \in Command
           /\ \A i \in DOMAIN chan' : i + 1 \in DOMAIN chan /\ i # 0 /\ chan'[i] = chan[i + 1]
           /\ \A i \in DOMAIN chan' : i \in Int
<1>1. chan \in Seq(Command) /\ chan # <<>>
    OBVIOUS
<1>2. Len(chan) \in Nat \ {0} /\ DOMAIN chan = 1..Len(chan)
    BY <1>1
<1>3. chan' \in Seq(Command) /\ DOMAIN chan' = 1..(Len(chan) - 1)
    BY <1>1, <1>2
<1>4. \A i \in 1..(Len(chan) - 1) : chan'[i] = chan[i + 1]
    BY <1>1, <1>2
<1>5. Head(chan) = chan[1] /\ chan[1] \in Command
    BY <1>1, <1>2
<1> QED
    BY <1>2, <1>3, <1>4, <1>5

\* The worker takes an untouched order into the engine, with its whole quantity.
LEMMA HandlePlaceInv ==
    ASSUME IInv, HandlePlace
    PROVE  IInv'
<1>0. /\ UNCHANGED <<attr, book, ahead, fills, seq, status, filled, created, held, trades>>
      /\ UNCHANGED <<submitting, cancelling, events, restarts>>
      /\ chan # <<>> /\ Head(chan).kind = "place" /\ chan' = Tail(chan)
      /\ incoming = None
    BY DEF HandlePlace, BeginMatch, dbVars, requestVars
<1>1. TypeOK /\ Pipeline /\ BookShape
    BY DEF IInv
<1>2. /\ chan' \in Seq(Command)
      /\ 1 \in DOMAIN chan /\ Head(chan) = chan[1] /\ chan[1] \in Command
      /\ \A i \in DOMAIN chan' : i + 1 \in DOMAIN chan /\ i # 0 /\ chan'[i] = chan[i + 1]
      /\ \A i \in DOMAIN chan' : i \in Int
    BY <1>0, <1>1, TailElements DEF TypeOK
<1>3. PICK o \in Orders : /\ chan[1].kind = "place" /\ chan[1].id = o
                          /\ incoming' = o /\ rem' = [rem EXCEPT ![o] = attr[o].qty]
    BY <1>0, <1>2 DEF Command, HandlePlace, BeginMatch
<1>4. Untouched(o) /\ status[o] # "NEW" /\ attr[o] \in Request
    BY <1>1, <1>2, <1>3 DEF Pipeline
<1>5. attr[o].qty \in Nat \ {0}
    BY <1>4, RequestIsAttr
<1>6. TypeOK'
    BY <1>0, <1>1, <1>2, <1>3, <1>5 DEF TypeOK, BookTypeOK
<1>7. Matched' = Matched
    BY <1>0 DEF Matched
<1>8. \A p \in Orders : p # o => (Untouched(p) => Untouched(p)')
    BY <1>0, <1>1, <1>3, <1>7 DEF Untouched, TypeOK, BookTypeOK
<1>9. Pipeline'
    <2>1. o \notin submitting
        BY <1>1, <1>2, <1>3 DEF Pipeline, IsPlaceOf
    <2>2. \A i \in DOMAIN chan' : chan'[i].kind = "place" => chan'[i].id # o
        BY <1>1, <1>2, <1>3 DEF Pipeline
    <2>3. submitting \subseteq Orders /\ \A i \in DOMAIN chan : chan[i].id \in Orders
        BY <1>1, ChanElements DEF TypeOK
    <2>4. \A p \in Orders : status[p] = "NEW" => p # o
        BY <1>4
    <2>5. \A i, j \in DOMAIN chan' :
             chan'[i].kind = "place" /\ chan'[j].kind = "place" /\ chan'[i].id = chan'[j].id => i = j
        <3> SUFFICES ASSUME NEW i \in DOMAIN chan', NEW j \in DOMAIN chan',
                            chan'[i].kind = "place", chan'[j].kind = "place", chan'[i].id = chan'[j].id
                     PROVE  i = j
            OBVIOUS
        <3>1. i + 1 = j + 1
            BY <1>1, <1>2 DEF Pipeline
        <3> QED
            BY <1>2, <3>1
    <2>6. \A p \in submitting' : Untouched(p)' /\ \A i \in DOMAIN chan' : ~IsPlaceOf(chan'[i], p)
        BY <1>0, <1>1, <1>2, <1>8, <2>1, <2>3 DEF Pipeline, IsPlaceOf
    <2>7. ASSUME NEW i \in DOMAIN chan', NEW p \in Orders,
                 chan'[i].kind = "place", chan'[i].id = p
          PROVE  status'[p] # "NEW" /\ Untouched(p)'
        <3>1. chan'[i] = chan[i + 1] /\ i + 1 \in DOMAIN chan
            BY <1>2
        <3>2. p # o /\ status[p] # "NEW" /\ Untouched(p)
            BY <1>1, <2>2, <2>7, <3>1 DEF Pipeline
        <3> QED
            BY <1>0, <1>8, <3>2
    <2>8. \A i \in DOMAIN chan' : chan'[i].id \in Orders
        BY <1>2, <2>3
    <2>9. \A i \in DOMAIN chan' : chan'[i].kind = "place" =>
              (status[chan[i].id] # "NEW" /\ Untouched(chan[i].id))'
        BY <2>7, <2>8 DEF Untouched
    <2> QED
        BY <1>0, <1>1, <1>8, <2>4, <2>5, <2>6, <2>9 DEF Pipeline
<1>10. BookShape'
    <2>1. o \notin book /\ rem'[o] > 0 /\ \A p \in Orders \ {o} : rem'[p] = rem[p]
        BY <1>1, <1>3, <1>4, <1>5 DEF Untouched, TypeOK, BookTypeOK
    <2>2. book \subseteq Orders
        BY <1>1 DEF TypeOK, BookTypeOK
    <2> QED
        BY <1>0, <1>1, <1>3, <2>1, <2>2, NoneAssumption DEF BookShape
<1>11. TradeShape'
    BY <1>0, <1>7 DEF IInv, TradeShape
<1>12. PairsMatchOnce'
    BY <1>0, <1>3, <1>4, <1>7 DEF IInv, PairsMatchOnce, Untouched
<1>13. EngineWithinOrder'
    <2>1. Volume(events \cup fills, o) = 0 /\ filled[o] = 0
        BY <1>4, VolumeNone DEF Untouched, Matched
    <2>2. ASSUME NEW p \in Orders
          PROVE  filled[p] + Volume(events \cup fills, p) + rem'[p] <= attr[p].qty
        <3>1. CASE p = o
            BY <1>0, <1>1, <1>3, <1>5, <2>1, <3>1 DEF TypeOK, BookTypeOK
        <3>2. CASE p # o
            BY <1>0, <1>1, <1>3, <3>2 DEF IInv, EngineWithinOrder, TypeOK, BookTypeOK
        <3> QED
            BY <3>1, <3>2
    <2> QED
        BY <1>0, <2>2 DEF EngineWithinOrder
<1>14. FillsMatchTrades' /\ StatusMatchesFill' /\ ReserveMatchesOrder'
    BY <1>0 DEF IInv, FillsMatchTrades, StatusMatchesFill, ReserveMatchesOrder
<1> QED
    BY <1>6, <1>9, <1>10, <1>11, <1>12, <1>13, <1>14 DEF IInv

\* A step that starts nothing new keeps the pipeline in order.
LEMMA PipelineStep ==
    ASSUME TypeOK, Pipeline, UNCHANGED <<attr, held, submitting>>,
           chan' = chan \/ (chan # <<>> /\ chan' = Tail(chan)),
           \A p \in Orders : status'[p] = "NEW" <=> status[p] = "NEW",
           \A p \in Orders : Untouched(p) => Untouched(p)'
    PROVE  Pipeline'
<1>1. submitting \subseteq Orders /\ \A i \in DOMAIN chan : chan[i].id \in Orders
    BY ChanElements DEF TypeOK
<1>2. CASE chan' = chan
    <2>1. \A i \in DOMAIN chan' : chan'[i].kind = "place" =>
              (status[chan[i].id] # "NEW" /\ Untouched(chan[i].id))'
        <3>1. ASSUME NEW i \in DOMAIN chan, NEW p \in Orders, chan[i].kind = "place", chan[i].id = p
              PROVE  status'[p] # "NEW" /\ Untouched(p)'
            BY <3>1 DEF Pipeline
        <3> QED
            BY <1>1, <1>2, <3>1 DEF Untouched
    <2> QED
        BY <1>1, <1>2, <2>1 DEF Pipeline, IsPlaceOf
<1>3. CASE chan # <<>> /\ chan' = Tail(chan)
    <2>1. /\ \A i \in DOMAIN chan' : i + 1 \in DOMAIN chan /\ chan'[i] = chan[i + 1]
          /\ \A i \in DOMAIN chan' : i \in Int
        BY <1>3, TailElements DEF TypeOK
    <2>2. \A i \in DOMAIN chan' : chan'[i].kind = "place" =>
              (status[chan[i].id] # "NEW" /\ Untouched(chan[i].id))'
        <3>1. ASSUME NEW i \in DOMAIN chan', NEW p \in Orders, chan'[i].kind = "place", chan'[i].id = p
              PROVE  status'[p] # "NEW" /\ Untouched(p)'
            <4>1. i + 1 \in DOMAIN chan /\ chan[i + 1].kind = "place" /\ chan[i + 1].id = p
                BY <2>1, <3>1
            <4> QED
                BY <4>1 DEF Pipeline
        <3>2. \A i \in DOMAIN chan' : chan'[i].id \in Orders
            BY <1>1, <2>1
        <3> QED
            BY <3>1, <3>2 DEF Untouched
    <2>3. \A i, j \in DOMAIN chan' :
             chan'[i].kind = "place" /\ chan'[j].kind = "place" /\ chan'[i].id = chan'[j].id => i = j
        <3> SUFFICES ASSUME NEW i \in DOMAIN chan', NEW j \in DOMAIN chan',
                            chan'[i].kind = "place", chan'[j].kind = "place", chan'[i].id = chan'[j].id
                     PROVE  i = j
            OBVIOUS
        <3>1. i + 1 = j + 1
            BY <2>1 DEF Pipeline
        <3> QED
            BY <2>1, <3>1
    <2>4. \A p \in submitting' : Untouched(p)' /\ \A i \in DOMAIN chan' : ~IsPlaceOf(chan'[i], p)
        BY <1>1, <2>1 DEF Pipeline, IsPlaceOf
    <2> QED
        BY <2>2, <2>3, <2>4 DEF Pipeline
<1> QED
    BY <1>2, <1>3

\* Removing a resting order only takes away.
LEMMA HandleCancelInv ==
    ASSUME IInv, HandleCancel
    PROVE  IInv'
<1>0. /\ UNCHANGED <<attr, incoming, fills, seq, status, filled, created, held, trades>>
      /\ UNCHANGED <<submitting, cancelling, events, restarts>>
      /\ chan # <<>> /\ chan' = Tail(chan) /\ incoming = None
    BY DEF HandleCancel, CancelResting, dbVars, requestVars
<1>1. TypeOK /\ Pipeline /\ BookShape
    BY DEF IInv
<1>2. chan' \in Seq(Command) /\ Head(chan) \in Command
    BY <1>0, <1>1, TailElements DEF TypeOK
<1>3. PICK o \in Orders : /\ book' = book \ {o} /\ ahead' = Unqueued(o)
                          /\ rem' = [rem EXCEPT ![o] = 0]
    BY <1>2 DEF HandleCancel, CancelResting, Command
<1>4. TypeOK'
    BY <1>0, <1>1, <1>2, <1>3 DEF TypeOK, BookTypeOK, Unqueued
<1>5. Matched' = Matched
    BY <1>0 DEF Matched
<1>6. rem'[o] = 0 /\ \A p \in Orders \ {o} : rem'[p] = rem[p]
    BY <1>1, <1>3 DEF TypeOK, BookTypeOK
<1>7. \A p \in Orders : Untouched(p) => Untouched(p)'
    BY <1>0, <1>3, <1>5, <1>6 DEF Untouched
<1>8. Pipeline'
    BY <1>0, <1>1, <1>7, PipelineStep
<1>9. BookShape'
    <2>1. book \subseteq Orders
        BY <1>1 DEF TypeOK, BookTypeOK
    <2> QED
        BY <1>0, <1>1, <1>3, <1>6, <2>1 DEF BookShape
<1>10. TradeShape' /\ PairsMatchOnce'
    BY <1>0, <1>5 DEF IInv, TradeShape, PairsMatchOnce
<1>11. EngineWithinOrder'
    <2>1. ASSUME NEW p \in Orders
          PROVE  filled[p] + Volume(events \cup fills, p) + rem'[p] <= attr[p].qty
        <3>1. /\ filled[p] \in Nat /\ rem[p] \in Nat /\ attr[p].qty \in Nat
              /\ Volume(events \cup fills, p) \in Nat
              /\ filled[p] + Volume(events \cup fills, p) + rem[p] <= attr[p].qty
            BY OrderNumbers
        <3>2. rem'[p] = rem[p] \/ rem'[p] = 0
            BY <1>6
        <3> QED
            BY <3>1, <3>2
    <2> QED
        BY <1>0, <2>1 DEF EngineWithinOrder
<1>12. FillsMatchTrades' /\ StatusMatchesFill' /\ ReserveMatchesOrder'
    BY <1>0 DEF IInv, FillsMatchTrades, StatusMatchesFill, ReserveMatchesOrder
<1> QED
    BY <1>4, <1>8, <1>9, <1>10, <1>11, <1>12 DEF IInv

\* What rests of the incoming order enters the book; its trades change hands.
LEMMA PublishInv ==
    ASSUME IInv, Publish
    PROVE  IInv'
<1>0. /\ UNCHANGED <<attr, rem, seq, status, filled, created, held, trades>>
      /\ UNCHANGED <<submitting, cancelling, chan, restarts>>
      /\ incoming \in Orders /\ incoming' = None /\ fills' = {} /\ events' = events \cup fills
      /\ \/ /\ rem[incoming] > 0 /\ book' = book \cup {incoming}
            /\ ahead' = Queued(incoming, attr[incoming])
         \/ rem[incoming] = 0 /\ book' = book /\ ahead' = ahead
    BY DEF Publish, FinishMatch, dbVars, requestVars, IInv, TypeOK, BookTypeOK
<1>1. TypeOK /\ Pipeline /\ BookShape
    BY DEF IInv
<1>2. Queued(incoming, attr[incoming]) \subseteq Orders \X Orders
    BY <1>0, <1>1 DEF Queued, OnSide, TypeOK, BookTypeOK
<1>3. TypeOK'
    BY <1>0, <1>1, <1>2 DEF TypeOK, BookTypeOK
<1>4. Matched' = Matched /\ events' \cup fills' = events \cup fills
    BY <1>0 DEF Matched
<1>5. \A p \in Orders : Untouched(p) => Untouched(p)'
    BY <1>0, <1>4, NoneAssumption DEF Untouched
<1>6. Pipeline'
    BY <1>0, <1>1, <1>5, PipelineStep
<1>7. BookShape'
    BY <1>0, <1>1, NoneAssumption DEF BookShape, TypeOK, BookTypeOK
<1>8. TradeShape' /\ PairsMatchOnce'
    BY <1>0, <1>4 DEF IInv, TradeShape, PairsMatchOnce
<1>9. EngineWithinOrder' /\ FillsMatchTrades' /\ StatusMatchesFill' /\ ReserveMatchesOrder'
    BY <1>0, <1>4 DEF IInv, EngineWithinOrder, FillsMatchTrades, StatusMatchesFill, ReserveMatchesOrder
<1> QED
    BY <1>3, <1>6, <1>7, <1>8, <1>9 DEF IInv

\* A settlement that fails only takes an event away.
LEMMA SettleFailsInv ==
    ASSUME IInv, NEW t \in events, SettleFails(t)
    PROVE  IInv'
<1>0. /\ UNCHANGED <<attr, book, ahead, rem, incoming, fills, seq>>
      /\ UNCHANGED <<status, filled, created, held, trades, submitting, cancelling, chan, restarts>>
      /\ events' = events \ {t}
    BY DEF SettleFails, bookVars, dbVars, requestVars
<1>1. TypeOK /\ Pipeline
    BY DEF IInv
<1>2. TypeOK'
    BY <1>0, <1>1 DEF TypeOK, BookTypeOK
<1>3. Matched' \subseteq Matched /\ events' \cup fills' = (events \cup fills) \ {t}
    BY <1>0 DEF Matched, IInv, PairsMatchOnce
<1>4. Pipeline'
    <2>1. \A p \in Orders : Untouched(p) => Untouched(p)'
        BY <1>0, <1>3 DEF Untouched
    <2> QED
        BY <1>0, <1>1, <2>1, PipelineStep
<1>5. BookShape' /\ PairsMatchOnce'
    BY <1>0, <1>3 DEF IInv, BookShape, PairsMatchOnce
<1>6. TradeShape'
    <2>1. IsFiniteSet(Matched')
        BY <1>3, FS_Subset DEF IInv, TradeShape
    <2> QED
        BY <1>0, <1>3, <2>1 DEF IInv, TradeShape
<1>7. EngineWithinOrder'
    <2>1. PICK U : U = (events \cup fills) \ {t}
        OBVIOUS
    <2>2. ASSUME NEW p \in Orders
          PROVE  filled[p] + Volume(U, p) + rem[p] <= attr[p].qty
        <3>1. /\ filled[p] \in Nat /\ rem[p] \in Nat /\ attr[p].qty \in Nat
              /\ Volume(events \cup fills, p) \in Nat
              /\ filled[p] + Volume(events \cup fills, p) + rem[p] <= attr[p].qty
            BY OrderNumbers
        <3>2. Volume(U, p) <= Volume(events \cup fills, p) /\ Volume(U, p) \in Nat
            BY <2>1, EngineVolumes
        <3> QED
            BY <3>1, <3>2
    <2>3. events' \cup fills' = U
        BY <1>3, <2>1
    <2>4. \A p \in Orders : filled'[p] + Volume(events' \cup fills', p) + rem'[p] <= attr'[p].qty
        BY <1>0, <2>2, <2>3
    <2> QED
        BY <2>4 DEF EngineWithinOrder
<1>8. FillsMatchTrades' /\ StatusMatchesFill' /\ ReserveMatchesOrder'
    BY <1>0 DEF IInv, FillsMatchTrades, StatusMatchesFill, ReserveMatchesOrder
<1> QED
    BY <1>2, <1>4, <1>5, <1>6, <1>7, <1>8 DEF IInv

\* Trade t fills q units of the incoming order i and the resting order r.
MatchOf(i, r, q, t) ==
    /\ incoming = i /\ i # r /\ r \in Orders /\ rem[i] > 0 /\ rem[r] > 0
    /\ q <= rem[i] /\ q <= rem[r] /\ (q = rem[i] \/ q = rem[r])
    /\ t.qty = q /\ t.seq = seq + 1 /\ \A p \in Orders : Involves(t, p) <=> p = i \/ p = r
    /\ attr[t.buy].side = BUY /\ attr[t.sell].side = SELL
    /\ attr[t.sell].price <= t.price /\ t.price <= attr[t.buy].price
    /\ fills' = fills \cup {t} /\ seq' = seq + 1
    /\ rem' = [rem EXCEPT ![i] = @ - q, ![r] = @ - q]
    /\ \/ rem[r] = q /\ book' = book \ {r} /\ ahead' = Unqueued(r)
       \/ rem[r] # q /\ book' = book /\ ahead' = ahead

\* What a match needs of the state: types, and resting orders within the bound.
MatchReady ==
    /\ attr \in [Orders -> Attr] /\ rem \in [Orders -> Nat] /\ seq \in Nat
    /\ book \subseteq Orders /\ incoming \in Orders \cup {None} /\ incoming \notin book
    /\ \A o \in book : rem[o] > 0 /\ rem[o] <= MaxQty

\* One match: a positive quantity that exhausts one of the two orders.
LEMMA MatchFacts ==
    ASSUME MatchReady, MatchStep
    PROVE  \E i \in Orders, r \in book, q \in 1..MaxQty, t \in Trade :
             MatchOf(i, r, q, t)
<1>2. PICK r \in book :
          /\ CanFill(r)
          /\ fills' = fills \cup {NewTrade(r)}
          /\ seq' = seq + 1
          /\ rem' = [rem EXCEPT ![incoming] = @ - FillQty(r), ![r] = @ - FillQty(r)]
          /\ \/ rem[r] = FillQty(r) /\ book' = book \ {r} /\ ahead' = Unqueued(r)
             \/ rem[r] # FillQty(r) /\ book' = book /\ ahead' = ahead
    BY DEF MatchStep, MatchOne
<1>3. PICK i \in Orders : i = incoming
    BY <1>2 DEF CanFill, MatchReady
<1>4. /\ i # r /\ r \in Orders /\ rem[i] > 0 /\ rem[r] > 0
      /\ rem[i] \in Nat /\ rem[r] \in Nat
      /\ attr[i] \in Attr /\ attr[r] \in Attr /\ seq \in Nat
    BY <1>2, <1>3 DEF CanFill, MatchReady
<1>5. PICK q : q = FillQty(r)
    OBVIOUS
<1>6. q \in Nat /\ q > 0 /\ q <= rem[i] /\ q <= rem[r] /\ (q = rem[i] \/ q = rem[r])
    BY <1>3, <1>4, <1>5 DEF FillQty, Lesser
<1>7. q \in 1..MaxQty
    BY <1>4, <1>6, ExchangeBounds DEF MatchReady
<1>8. PICK t : t = NewTrade(r)
    OBVIOUS
<1>9. /\ t.buy = (IF attr[i].side = BUY THEN i ELSE r)
      /\ t.sell = (IF attr[i].side = BUY THEN r ELSE i)
      /\ t.price = attr[r].price /\ t.qty = q /\ t.seq = seq + 1 /\ t \in Trade
    BY <1>3, <1>4, <1>5, <1>6, <1>8 DEF NewTrade, Trade, Attr
<1>10. attr[r].side = Opposite(attr[i].side) /\ Crosses(i, r)
    BY <1>2, <1>3 DEF CanFill, IsBest, OnSide
<1>11. attr[i].side \in {BUY, SELL} /\ attr[i].price \in Nat /\ attr[r].price \in Nat
    BY <1>4 DEF Attr, Sides
<1>12. /\ attr[t.buy].side = BUY /\ attr[t.sell].side = SELL
       /\ attr[t.sell].price <= t.price /\ t.price <= attr[t.buy].price
       /\ \A p \in Orders : Involves(t, p) <=> p = i \/ p = r
    <2>1. CASE attr[i].side = BUY
        <3>1. t.buy = i /\ t.sell = r /\ attr[r].side = SELL /\ attr[i].price >= attr[r].price
            BY <1>9, <1>10, <2>1 DEF Opposite, Crosses
        <3> QED
            BY <1>9, <1>11, <2>1, <3>1 DEF Involves
    <2>2. CASE attr[i].side = SELL
        <3>1. t.buy = r /\ t.sell = i /\ attr[r].side = BUY /\ attr[i].price <= attr[r].price
            BY <1>9, <1>10, <2>2 DEF Opposite, Crosses, BUY, SELL
        <3> QED
            BY <1>9, <1>11, <2>2, <3>1 DEF Involves
    <2> QED
        BY <1>11, <2>1, <2>2
<1>13. /\ fills' = fills \cup {t} /\ seq' = seq + 1
       /\ rem' = [rem EXCEPT ![i] = @ - q, ![r] = @ - q]
       /\ \/ rem[r] = q /\ book' = book \ {r} /\ ahead' = Unqueued(r)
          \/ rem[r] # q /\ book' = book /\ ahead' = ahead
    BY <1>2, <1>3, <1>5, <1>8
<1>14. t \in Trade /\ t.qty = q /\ t.seq = seq + 1 /\ incoming = i
    BY <1>3, <1>9
<1>15. MatchOf(i, r, q, t)
    BY <1>4, <1>6, <1>12, <1>13, <1>14 DEF MatchOf
<1> QED
    BY <1>7, <1>14, <1>15

\* The new trade is the first between its two orders; both give up its quantity.
LEMMA MatchStepInv ==
    ASSUME IInv, MatchStep
    PROVE  IInv'
<1>0. /\ UNCHANGED <<attr, incoming, status, filled, created, held, trades>>
      /\ UNCHANGED <<submitting, cancelling, chan, events, restarts>>
    BY DEF MatchStep, MatchOne, dbVars, requestVars
<1>1. TypeOK /\ Pipeline /\ BookShape /\ TradeShape /\ PairsMatchOnce
    BY DEF IInv
<1>2a. PICK i \in Orders, r \in book, q \in 1..MaxQty, t \in Trade : MatchOf(i, r, q, t)
    <2>1. ASSUME NEW o \in book
          PROVE  rem[o] > 0 /\ rem[o] <= MaxQty
        <3>1. o \in Orders /\ rem[o] > 0
            BY <1>1 DEF TypeOK, BookTypeOK, BookShape
        <3>2. attr[o] \in Request
            BY <1>1, <3>1 DEF Pipeline, Untouched
        <3>3. attr[o].qty <= MaxQty /\ attr[o].qty \in Nat
            BY <3>2, RequestIsAttr
        <3>4. /\ filled[o] \in Nat /\ Volume(events \cup fills, o) \in Nat /\ rem[o] \in Nat
              /\ filled[o] + Volume(events \cup fills, o) + rem[o] <= attr[o].qty
            BY <3>1, OrderNumbers
        <3> QED
            BY <3>1, <3>3, <3>4, ExchangeBounds
    <2>2. MatchReady
        BY <1>1, <2>1 DEF MatchReady, TypeOK, BookTypeOK, BookShape
    <2> QED
        BY <2>2, MatchFacts
<1>2. /\ incoming = i /\ i # r /\ r \in Orders /\ rem[i] > 0 /\ rem[r] > 0
      /\ q <= rem[i] /\ q <= rem[r] /\ (q = rem[i] \/ q = rem[r])
      /\ t.qty = q /\ \A p \in Orders : Involves(t, p) <=> p = i \/ p = r
      /\ attr[t.buy].side = BUY /\ attr[t.sell].side = SELL
      /\ attr[t.sell].price <= t.price /\ t.price <= attr[t.buy].price
      /\ fills' = fills \cup {t} /\ seq' = seq + 1
      /\ rem' = [rem EXCEPT ![i] = @ - q, ![r] = @ - q]
      /\ \/ rem[r] = q /\ book' = book \ {r} /\ ahead' = Unqueued(r)
         \/ rem[r] # q /\ book' = book /\ ahead' = ahead
    BY <1>2a DEF MatchOf
<1>3. q \in Nat \ {0} /\ rem[i] \in Nat /\ rem[r] \in Nat /\ rem \in [Orders -> Nat]
    <2>1. rem \in [Orders -> Nat]
        BY <1>1 DEF TypeOK, BookTypeOK
    <2>2. q \in Nat \ {0}
        BY ExchangeBounds
    <2>3. i \in Orders /\ r \in Orders
        BY <1>2
    <2> QED
        BY <2>1, <2>2, <2>3
<1>4. /\ rem'[i] = rem[i] - q /\ rem'[r] = rem[r] - q
      /\ \A p \in Orders : p # i /\ p # r => rem'[p] = rem[p]
      /\ rem' \in [Orders -> Nat]
    BY <1>2, <1>3
<1>5. TypeOK'
    <2>1. book' \subseteq Orders /\ ahead' \subseteq Orders \X Orders
        BY <1>1, <1>2 DEF TypeOK, BookTypeOK, Unqueued
    <2>2. fills' \subseteq Trade
        BY <1>1, <1>2 DEF TypeOK, BookTypeOK
    <2>3. seq \in Nat /\ seq' = seq + 1
        BY <1>1, <1>2 DEF TypeOK, BookTypeOK
    <2>4. seq' \in Nat
        BY <2>3
    <2> QED
        BY <1>0, <1>1, <1>4, <2>1, <2>2, <2>4 DEF TypeOK, BookTypeOK
<1>6. Matched' = Matched \cup {t} /\ events' \cup fills' = (events \cup fills) \cup {t}
    BY <1>0, <1>2 DEF Matched
<1>7. \A u \in Matched : ~(Involves(u, i) /\ Involves(u, r))
    BY <1>1, <1>2, NoneAssumption DEF PairsMatchOnce
<1>8. Involves(t, i) /\ Involves(t, r) /\ t \notin Matched
    BY <1>2, <1>7
<1>9. Pipeline'
    <2>1. \A p \in Orders : Untouched(p) => p # i /\ p # r
        BY <1>2 DEF Untouched
    <2>2. \A p \in Orders : Untouched(p) => Untouched(p)'
        BY <1>0, <1>2, <1>4, <1>6, <2>1 DEF Untouched
    <2> QED
        BY <1>0, <1>1, <2>2, PipelineStep
<1>10. BookShape'
    <2>1. book \subseteq Orders /\ i \notin book
        BY <1>1, <1>2 DEF BookShape, TypeOK, BookTypeOK
    <2>2. ASSUME NEW p \in Orders, rem'[p] > 0
          PROVE  p \in book' \/ p = incoming'
        BY <1>0, <1>1, <1>2, <1>3, <1>4, <2>2 DEF BookShape
    <2>3. ASSUME NEW p \in book'
          PROVE  rem'[p] > 0
        BY <1>1, <1>2, <1>3, <1>4, <2>1 DEF BookShape
    <2> QED
        BY <1>0, <1>2, <2>1, <2>2, <2>3, NoneAssumption DEF BookShape
<1>11. TradeShape'
    <2>1. IsFiniteSet(Matched')
        BY <1>1, <1>6, FS_AddElement DEF TradeShape
    <2> QED
        BY <1>0, <1>1, <1>2, <1>6, <2>1 DEF TradeShape
<1>12. PairsMatchOnce'
    <2>1. \A u \in Matched : ~(u.buy = t.buy /\ u.sell = t.sell)
        BY <1>7, <1>8 DEF Involves
    <2>2. \A u, v \in Matched' : u.buy = v.buy /\ u.sell = v.sell => u = v
        BY <1>1, <1>6, <2>1 DEF PairsMatchOnce
    <2>3. trades' \cap (events' \cup fills') = {} /\ events' \cap fills' = {}
        BY <1>0, <1>1, <1>2, <1>8 DEF PairsMatchOnce, Matched
    <2>4. ASSUME rem'[i] > 0, NEW u \in Matched', NEW p \in book'
          PROVE  ~(Involves(u, i) /\ Involves(u, p))
        <3>1. rem[r] = q /\ book' = book \ {r}
            BY <1>2, <1>3, <1>4, <2>4
        <3>2. p \in book /\ p # r /\ p # i /\ p \in Orders
            BY <1>1, <1>2, <3>1 DEF BookShape, TypeOK, BookTypeOK
        <3>3. CASE u = t
            BY <1>2, <3>2, <3>3
        <3>4. CASE u \in Matched
            BY <1>1, <1>2, <3>2, <3>4, NoneAssumption DEF PairsMatchOnce
        <3> QED
            BY <1>6, <3>3, <3>4
    <2> QED
        BY <1>0, <1>2, <2>2, <2>3, <2>4 DEF PairsMatchOnce
<1>13. EngineWithinOrder'
    <2>1. PICK U : U = (events \cup fills) \cup {t}
        OBVIOUS
    <2>2. ASSUME NEW p \in Orders
          PROVE  filled[p] + Volume(U, p) + rem'[p] <= attr[p].qty
        <3>1. /\ filled[p] \in Nat /\ rem[p] \in Nat /\ attr[p].qty \in Nat
              /\ Volume(events \cup fills, p) \in Nat
              /\ filled[p] + Volume(events \cup fills, p) + rem[p] <= attr[p].qty
            BY OrderNumbers
        <3>2. IsFiniteSet(events \cup fills) /\ t \notin events \cup fills /\ t.qty \in 1..MaxQty
            BY <1>2, <1>8, EngineVolumes DEF Matched
        <3>3. Volume(U, p) = IF Involves(t, p) THEN Volume(events \cup fills, p) + t.qty
                                               ELSE Volume(events \cup fills, p)
            BY <2>1, <3>2, VolumeAdd
        <3>4. CASE p = i \/ p = r
            <4>1. Volume(U, p) = Volume(events \cup fills, p) + q
                BY <1>2, <3>3, <3>4
            <4>2. rem'[p] = rem[p] - q
                BY <1>4, <3>4
            <4> QED
                BY <1>3, <3>1, <4>1, <4>2
        <3>5. CASE p # i /\ p # r
            <4>1. Volume(U, p) = Volume(events \cup fills, p) /\ rem'[p] = rem[p]
                BY <1>2, <1>4, <3>3, <3>5
            <4> QED
                BY <3>1, <4>1
        <3> QED
            BY <3>4, <3>5
    <2>3. events' \cup fills' = U
        BY <1>6, <2>1
    <2>4. \A p \in Orders : filled'[p] + Volume(events' \cup fills', p) + rem'[p] <= attr'[p].qty
        BY <1>0, <2>2, <2>3
    <2> QED
        BY <2>4 DEF EngineWithinOrder
<1>14. FillsMatchTrades' /\ StatusMatchesFill' /\ ReserveMatchesOrder'
    BY <1>0 DEF IInv, FillsMatchTrades, StatusMatchesFill, ReserveMatchesOrder
<1> QED
    BY <1>5, <1>9, <1>10, <1>11, <1>12, <1>13, <1>14 DEF IInv

\* What ExecuteTrade does to the rows of an event's two orders and to all others.
LEMMA SettleFacts ==
    ASSUME IInv, NEW t \in events, Settle(t), NEW p \in Orders
    PROVE  /\ Involves(t, p) =>
                 /\ filled'[p] = filled[p] + t.qty /\ filled'[p] <= attr[p].qty
                 /\ status[p] \in {"OPEN", "PARTIAL"}
                 /\ status'[p] = IF filled'[p] = attr[p].qty THEN "FILLED" ELSE "PARTIAL"
           /\ ~Involves(t, p) => filled'[p] = filled[p] /\ status'[p] = status[p]
           /\ t.qty \in Nat \ {0} /\ t \in Trade
<1>1. TypeOK /\ Pipeline /\ TradeShape
    BY DEF IInv
<1>2. t \in Trade /\ t.buy \in Orders /\ t.sell \in Orders
    BY <1>1 DEF TypeOK, Trade
<1>3. t.qty \in Nat \ {0}
    BY <1>1, ExchangeBounds DEF TradeShape, Matched
<1>4. t.buy # t.sell
    BY <1>1 DEF TradeShape, Matched, BUY, SELL
<1>5. /\ filled' = [filled EXCEPT ![t.buy] = @ + t.qty, ![t.sell] = @ + t.qty]
      /\ status' = [status EXCEPT ![t.buy] = StatusAfter(t.buy, t.qty),
                                  ![t.sell] = StatusAfter(t.sell, t.qty)]
      /\ ~IsTerminal(status[t.buy]) /\ ~IsTerminal(status[t.sell])
    BY DEF Settle, ExecuteTrade, CanExecute
<1>6. filled \in [Orders -> Nat] /\ status \in [Orders -> Statuses]
    BY <1>1 DEF TypeOK
<1>7. CASE ~Involves(t, p)
    BY <1>2, <1>3, <1>5, <1>6, <1>7 DEF Involves
<1>8. CASE Involves(t, p)
    <2>1. filled'[p] = filled[p] + t.qty /\ status'[p] = StatusAfter(p, t.qty) /\ ~IsTerminal(status[p])
        BY <1>2, <1>4, <1>5, <1>6, <1>8 DEF Involves
    <2>2. status[p] # "NEW"
        BY <1>1, <1>8 DEF Pipeline, Untouched, Matched
    <2>3. status[p] \in {"OPEN", "PARTIAL"}
        BY <1>6, <2>1, <2>2 DEF Statuses, IsTerminal
    <2>4. /\ filled[p] \in Nat /\ rem[p] \in Nat /\ attr[p].qty \in Nat
          /\ filled[p] + Volume(events \cup fills, p) + rem[p] <= attr[p].qty
        BY OrderNumbers
    <2>5. /\ Volume((events \cup fills) \ {t}, p) \in Nat
          /\ Volume(events \cup fills, p) = Volume((events \cup fills) \ {t}, p) + t.qty
        BY <1>8, EngineVolumes
    <2>6. filled[p] + t.qty <= attr[p].qty
        BY <1>3, <2>4, <2>5
    <2>7. status'[p] = IF filled'[p] = attr[p].qty THEN "FILLED" ELSE "PARTIAL"
        BY <1>3, <2>1, <2>3, <2>4, <2>6 DEF StatusAfter
    <2> QED
        BY <1>2, <1>3, <1>8, <2>1, <2>3, <2>6, <2>7
<1> QED
    BY <1>7, <1>8

\* A settlement moves a trade from the engine's side of the books to the database's.
LEMMA SettleInv ==
    ASSUME IInv, NEW t \in events, Settle(t)
    PROVE  IInv'
<1>0. /\ UNCHANGED <<attr, book, ahead, rem, incoming, fills, seq>>
      /\ UNCHANGED <<created, held, submitting, cancelling, chan, restarts>>
      /\ events' = events \ {t} /\ trades' = trades \cup {t}
    BY DEF Settle, ExecuteTrade, bookVars, requestVars
<1>1. TypeOK /\ Pipeline /\ TradeShape /\ PairsMatchOnce
    BY DEF IInv
<1>2. \A p \in Orders :
          /\ Involves(t, p) =>
                /\ filled'[p] = filled[p] + t.qty /\ filled'[p] <= attr[p].qty
                /\ status[p] \in {"OPEN", "PARTIAL"}
                /\ status'[p] = IF filled'[p] = attr[p].qty THEN "FILLED" ELSE "PARTIAL"
          /\ ~Involves(t, p) => filled'[p] = filled[p] /\ status'[p] = status[p]
          /\ t.qty \in Nat \ {0} /\ t \in Trade
    BY SettleFacts
<1>3. t \in Trade /\ t.qty \in 1..MaxQty
    BY <1>1 DEF TypeOK, TradeShape, Matched
<1>4. filled \in [Orders -> Nat] /\ status \in [Orders -> Statuses]
    BY <1>1 DEF TypeOK
<1>5. TypeOK'
    <2>1. filled' \in [Orders -> Nat]
        <3>1. \A p \in Orders : filled'[p] \in Nat
            BY <1>2, <1>4
        <3>2. filled' = [p \in Orders |-> filled'[p]]
            BY <1>4 DEF Settle, ExecuteTrade
        <3> QED
            BY <3>1, <3>2
    <2>2. status' \in [Orders -> Statuses]
        <3>1. \A p \in Orders : status'[p] \in Statuses
            BY <1>2, <1>4 DEF Statuses
        <3>2. status' = [p \in Orders |-> status'[p]]
            BY <1>4 DEF Settle, ExecuteTrade
        <3> QED
            BY <3>1, <3>2
    <2> QED
        BY <1>0, <1>1, <1>3, <2>1, <2>2 DEF TypeOK, BookTypeOK
<1>6. t \notin trades /\ t \notin fills
    BY <1>1 DEF PairsMatchOnce
<1>7. Matched' = Matched /\ events' \cup fills' = (events \cup fills) \ {t}
    BY <1>0, <1>6 DEF Matched
<1>8. Pipeline'
    <2>1. \A p \in Orders : Untouched(p) => Untouched(p)'
        BY <1>0, <1>2, <1>7 DEF Untouched, Matched
    <2>2. \A p \in Orders : status'[p] = "NEW" <=> status[p] = "NEW"
        BY <1>2
    <2> QED
        BY <1>0, <1>1, <2>1, <2>2, PipelineStep
<1>9. BookShape' /\ TradeShape'
    BY <1>0, <1>7 DEF IInv, BookShape, TradeShape
<1>10. PairsMatchOnce'
    BY <1>0, <1>1, <1>6, <1>7 DEF PairsMatchOnce
<1>11. EngineWithinOrder'
    <2>1. PICK U : U = (events \cup fills) \ {t}
        OBVIOUS
    <2>2. ASSUME NEW p \in Orders
          PROVE  filled'[p] + Volume(U, p) + rem[p] <= attr[p].qty
        <3>1. /\ filled[p] \in Nat /\ rem[p] \in Nat /\ attr[p].qty \in Nat
              /\ Volume(events \cup fills, p) \in Nat
              /\ filled[p] + Volume(events \cup fills, p) + rem[p] <= attr[p].qty
            BY OrderNumbers
        <3>2. /\ Volume(U, p) \in Nat
              /\ Volume(events \cup fills, p) =
                     IF Involves(t, p) THEN Volume(U, p) + t.qty ELSE Volume(U, p)
            BY <2>1, EngineVolumes
        <3>3. t.qty \in Nat /\ filled'[p] = IF Involves(t, p) THEN filled[p] + t.qty ELSE filled[p]
            BY <1>2
        <3> QED
            BY <3>1, <3>2, <3>3
    <2>3. events' \cup fills' = U
        BY <1>7, <2>1
    <2>4. \A p \in Orders : filled'[p] + Volume(events' \cup fills', p) + rem'[p] <= attr'[p].qty
        BY <1>0, <2>2, <2>3
    <2> QED
        BY <2>4 DEF EngineWithinOrder
<1>12. FillsMatchTrades'
    <2>1. PICK T : T = trades \cup {t}
        OBVIOUS
    <2>2. ASSUME NEW p \in Orders
          PROVE  filled'[p] = Volume(T, p)
        <3>1. filled[p] = Volume(trades, p)
            BY DEF IInv, FillsMatchTrades
        <3>2. Volume(T, p) = IF Involves(t, p) THEN Volume(trades, p) + t.qty ELSE Volume(trades, p)
            BY <1>3, <1>6, <2>1, EngineVolumes, VolumeAdd
        <3> QED
            BY <1>2, <3>1, <3>2
    <2> QED
        BY <1>0, <2>1, <2>2 DEF FillsMatchTrades
<1>13. StatusMatchesFill'
    <2>1. ASSUME NEW p \in Orders
          PROVE  /\ status'[p] = "OPEN" => filled'[p] = 0
                 /\ status'[p] = "PARTIAL" => filled'[p] > 0
                 /\ status'[p] = "FILLED" <=> filled'[p] = attr[p].qty /\ status'[p] # "NEW"
        <3>1. CASE Involves(t, p)
            BY <1>2, <1>4, <3>1
        <3>2. CASE ~Involves(t, p)
            BY <1>2, <3>2 DEF IInv, StatusMatchesFill
        <3> QED
            BY <3>1, <3>2
    <2> QED
        BY <1>0, <2>1 DEF StatusMatchesFill
<1>14. ReserveMatchesOrder'
    <2>1. \A p \in Orders : /\ status'[p] = "CANCELLED" <=> status[p] = "CANCELLED"
                            /\ status[p] = "CANCELLED" => filled'[p] = filled[p]
        BY <1>2
    <2> QED
        BY <1>0, <2>1 DEF IInv, ReserveMatchesOrder
<1> QED
    BY <1>5, <1>8, <1>9, <1>10, <1>11, <1>12, <1>13, <1>14 DEF IInv

\* The book of a new process is what the orders table leaves to fill.
LEMMA RestartInv ==
    ASSUME IInv, Restart
    PROVE  IInv'
<1>0. /\ UNCHANGED <<attr, status, filled, created, held, trades>>
      /\ book' = Rehydrated /\ incoming' = None /\ fills' = {} /\ seq' = 0
      /\ submitting' = {} /\ cancelling' = {} /\ chan' = <<>> /\ events' = {}
      /\ restarts < MaxRestarts /\ restarts' = restarts + 1
      /\ ahead' = {p \in Rehydrated \X Rehydrated : LoadedBefore(p[1], p[2])}
      /\ rem' = [o \in Orders |-> IF o \in Rehydrated THEN Remaining(o) ELSE 0]
    BY DEF Restart, dbVars
<1>1. TypeOK /\ Pipeline /\ TradeShape /\ PairsMatchOnce
    BY DEF IInv
<1>2. \A p \in Orders : /\ p \in Rehydrated => rem'[p] = attr[p].qty - filled[p] /\ rem'[p] > 0
                        /\ p \notin Rehydrated => rem'[p] = 0
                        /\ filled[p] \in Nat /\ attr[p].qty \in Nat
    BY <1>0, OrderNumbers DEF Rehydrated, Remaining
<1>3. Rehydrated \subseteq Orders /\ \A p \in Rehydrated : status[p] # "NEW"
    BY DEF Rehydrated, IsCancellable
<1>4. TypeOK'
    <2>1. rem' \in [Orders -> Nat]
        <3>1. \A p \in Orders : rem'[p] \in Nat
            BY <1>2
        <3> QED
            BY <1>0, <3>1
    <2>2. ahead' \subseteq Orders \X Orders
        BY <1>0, <1>3
    <2>3. restarts' \in 0..MaxRestarts
        BY <1>0, <1>1, ExchangeBounds DEF TypeOK
    <2>4. chan' \in Seq(Command)
        BY <1>0
    <2> QED
        BY <1>0, <1>1, <1>3, <2>1, <2>2, <2>3, <2>4 DEF TypeOK, BookTypeOK
<1>5. Matched' = trades /\ Matched' \subseteq Matched /\ events' \cup fills' = {}
    BY <1>0 DEF Matched
<1>6. Pipeline'
    <2>1. \A p \in Orders : status[p] = "NEW" => Untouched(p)'
        BY <1>0, <1>1, <1>2, <1>3, <1>5, NoneAssumption DEF Pipeline, Untouched
    <2>2. DOMAIN chan' = {}
        BY <1>0
    <2> QED
        BY <1>0, <1>1, <2>1, <2>2 DEF Pipeline
<1>7. BookShape'
    BY <1>0, <1>2, <1>3, NoneAssumption DEF BookShape
<1>8. TradeShape'
    <2>1. IsFiniteSet(Matched')
        BY <1>1, <1>5, FS_Subset DEF TradeShape
    <2> QED
        BY <1>0, <1>1, <1>5, <2>1 DEF TradeShape
<1>9. PairsMatchOnce'
    BY <1>0, <1>1, <1>5 DEF PairsMatchOnce
<1>10. EngineWithinOrder'
    <2>1. ASSUME NEW p \in Orders
          PROVE  filled[p] + Volume({}, p) + rem'[p] <= attr[p].qty
        <3>1. Volume({}, p) = 0
            BY VolumeNone
        <3>2. filled[p] <= attr[p].qty
            BY OrderNumbers
        <3> QED
            BY <1>2, <3>1, <3>2
    <2>2. \A p \in Orders : filled'[p] + Volume(events' \cup fills', p) + rem'[p] <= attr'[p].qty
        BY <1>0, <1>5, <2>1
    <2> QED
        BY <2>2 DEF EngineWithinOrder
<1>11. FillsMatchTrades' /\ StatusMatchesFill' /\ ReserveMatchesOrder'
    BY <1>0 DEF IInv, FillsMatchTrades, StatusMatchesFill, ReserveMatchesOrder
<1> QED
    BY <1>4, <1>6, <1>7, <1>8, <1>9, <1>10, <1>11 DEF IInv

-----------------------------------------------------------------------------
(* The invariant and what follows from it *)

\* Every step of the system, and stuttering, preserves the invariant.
LEMMA NextInv == IInv /\ [Next]_vars => IInv'
<1> SUFFICES ASSUME IInv, [Next]_vars PROVE IInv'
    OBVIOUS
<1>1. CASE \E o \in Orders, a \in Request : PlaceOrder(o, a)
    BY <1>1, PlaceOrderInv
<1>2. CASE \E o \in Orders : SubmitPlace(o) \/ CancelOrder(o) \/ SubmitCancel(o)
    BY <1>2, SubmitPlaceInv, CancelOrderInv, SubmitCancelInv
<1>3. CASE Worker
    BY <1>3, HandlePlaceInv, HandleCancelInv, MatchStepInv, PublishInv DEF Worker
<1>4. CASE \E t \in events : Settle(t) \/ SettleFails(t)
    BY <1>4, SettleInv, SettleFailsInv
<1>5. CASE Restart
    BY <1>5, RestartInv
<1>6. CASE UNCHANGED vars
    <2>1. /\ UNCHANGED <<attr, book, ahead, rem, incoming, fills, seq>>
          /\ UNCHANGED <<status, filled, created, held, trades>>
          /\ UNCHANGED <<submitting, cancelling, chan, events, restarts>>
        BY <1>6 DEF vars, bookVars, dbVars, requestVars
    <2>2. TypeOK'
        BY <2>1 DEF IInv, TypeOK, BookTypeOK
    <2>3. /\ BookShape' /\ TradeShape' /\ PairsMatchOnce' /\ EngineWithinOrder' /\ FillsMatchTrades'
          /\ \A p \in Orders : Untouched(p)' <=> Untouched(p)
        BY <2>1, Frame
    <2>4. Pipeline'
        BY <2>1, <2>3, PipelineStep DEF IInv
    <2>5. StatusMatchesFill' /\ ReserveMatchesOrder'
        BY <2>1 DEF IInv, StatusMatchesFill, ReserveMatchesOrder
    <2> QED
        BY <2>2, <2>3, <2>4, <2>5 DEF IInv
<1> QED
    BY <1>1, <1>2, <1>3, <1>4, <1>5, <1>6 DEF Next

\* The inductive invariant holds in every reachable state.
THEOREM InvariantHolds == Spec => []IInv
<1>1. Init => IInv
    BY InitInv
<1>2. IInv /\ [Next]_vars => IInv'
    BY NextInv
<1> QED
    BY <1>1, <1>2, PTL DEF Spec

\* Every variable keeps its type.
THEOREM TypeCorrect == Spec => []TypeOK
<1>1. IInv => TypeOK
    BY DEF IInv
<1> QED
    BY <1>1, InvariantHolds, PTL

\* Matches, cancels, lost commands, failed settlements and restarts never make the
\* database and the engine together count more of an order than its quantity.
THEOREM EngineStaysWithinOrders == Spec => []EngineWithinOrder
<1>1. IInv => EngineWithinOrder
    BY DEF IInv
<1> QED
    BY <1>1, InvariantHolds, PTL

\* No order is ever filled beyond its quantity, although applyOrderFill does not check it.
THEOREM OrdersAreNotOverfilled == Spec => []NoOverfill
<1>1. IInv => NoOverfill
    <2> SUFFICES ASSUME IInv, NEW p \in Orders PROVE filled[p] <= attr[p].qty
        BY DEF NoOverfill
    <2> QED
        BY OrderNumbers
<1> QED
    BY <1>1, InvariantHolds, PTL

\* orders.filled_quantity is always the total of the order's trades.
THEOREM FillsAreTrades == Spec => []FillsMatchTrades
<1>1. IInv => FillsMatchTrades
    BY DEF IInv
<1> QED
    BY <1>1, InvariantHolds, PTL

\* The status column always agrees with the filled quantity.
THEOREM StatusIsFill == Spec => []StatusMatchesFill
<1>1. IInv => StatusMatchesFill
    BY DEF IInv
<1> QED
    BY <1>1, InvariantHolds, PTL

\* The reserve held is always that of the order, or of its fills once cancelled.
THEOREM ReserveIsOrder == Spec => []ReserveMatchesOrder
<1>1. IInv => ReserveMatchesOrder
    BY DEF IInv
<1> QED
    BY <1>1, InvariantHolds, PTL

\* Idempotency keys of settlements never collide, in all processes together.
THEOREM SettlementKeysAreFresh == Spec => []KeysAreFresh
<1>1. IInv => KeysAreFresh
    BY DEF IInv, PairsMatchOnce, KeysAreFresh, KeyOf, Matched
<1> QED
    BY <1>1, InvariantHolds, PTL

\* Trades are always within the limits of both orders.
THEOREM TradesWithinLimits == Spec => []WithinLimits
<1>1. IInv => WithinLimits
    BY DEF IInv, TradeShape, WithinLimits, Matched
<1> QED
    BY <1>1, InvariantHolds, PTL

-----------------------------------------------------------------------------
(* The life of a row *)

\* One step of the rows: the body of OrderLifecycle.
RowStep ==
    \A o \in Orders :
        /\ filled[o] <= filled'[o]
        /\ IsTerminal(status[o]) => status'[o] = status[o] /\ filled'[o] = filled[o]
        /\ status[o] = "PARTIAL" => status'[o] # "OPEN"
        /\ status[o] # "NEW" => status'[o] # "NEW" /\ attr'[o] = attr[o]

\* Steps that do not write the orders table.
LEMMA RowsUntouched ==
    ASSUME IInv, UNCHANGED <<attr, status, filled>>
    PROVE  RowStep
<1>1. \A o \in Orders : filled[o] <= filled'[o]
    BY DEF IInv, TypeOK
<1> QED
    BY <1>1 DEF RowStep

\* PlaceOrder writes a row that did not exist.
LEMMA PlaceOrderRow ==
    ASSUME IInv, NEW o \in Orders, NEW a \in Request, PlaceOrder(o, a)
    PROVE  RowStep
<1>1. TypeOK /\ status[o] = "NEW" /\ filled' = filled
    BY DEF IInv, PlaceOrder
<1>2. \A p \in Orders \ {o} : status'[p] = status[p] /\ attr'[p] = attr[p]
    BY <1>1 DEF PlaceOrder, TypeOK, BookTypeOK
<1>3. \A p \in Orders : filled[p] <= filled'[p]
    BY <1>1 DEF TypeOK
<1> QED
    BY <1>1, <1>2, <1>3 DEF RowStep, IsTerminal

\* CancelOrder leaves terminal rows alone.
LEMMA CancelOrderRow ==
    ASSUME IInv, NEW o \in Orders, CancelOrder(o)
    PROVE  RowStep
<1>1. TypeOK /\ IsCancellable(status[o]) /\ filled' = filled /\ attr' = attr
    BY DEF IInv, CancelOrder
<1>2. status'[o] = "CANCELLED" /\ \A p \in Orders \ {o} : status'[p] = status[p]
    BY <1>1 DEF CancelOrder, TypeOK
<1>3. \A p \in Orders : filled[p] <= filled'[p]
    BY <1>1 DEF TypeOK
<1> QED
    BY <1>1, <1>2, <1>3 DEF RowStep, IsTerminal, IsCancellable

\* ExecuteTrade fills two rows that are not terminal.
LEMMA SettleRow ==
    ASSUME IInv, NEW t \in events, Settle(t)
    PROVE  RowStep
<1>1. attr' = attr
    BY DEF Settle
<1>2. ASSUME NEW p \in Orders
      PROVE  /\ filled[p] <= filled'[p]
             /\ IsTerminal(status[p]) => status'[p] = status[p] /\ filled'[p] = filled[p]
             /\ status[p] = "PARTIAL" => status'[p] # "OPEN"
             /\ status[p] # "NEW" => status'[p] # "NEW"
    <2>1. filled[p] \in Nat
        BY OrderNumbers
    <2>2. CASE Involves(t, p)
        BY <2>1, <2>2, SettleFacts DEF IsTerminal
    <2>3. CASE ~Involves(t, p)
        BY <2>1, <2>3, SettleFacts
    <2> QED
        BY <2>2, <2>3
<1> QED
    BY <1>1, <1>2 DEF RowStep

\* Rows move along the life of an order and terminal rows never change again.
THEOREM RowsFollowLifecycle == Spec => OrderLifecycle
<1>1. IInv /\ [Next]_vars => RowStep
    <2> SUFFICES ASSUME IInv, [Next]_vars PROVE RowStep
        OBVIOUS
    <2>1. CASE \E o \in Orders, a \in Request : PlaceOrder(o, a)
        BY <2>1, PlaceOrderRow
    <2>2. CASE \E o \in Orders : CancelOrder(o)
        BY <2>2, CancelOrderRow
    <2>3. CASE \E t \in events : Settle(t)
        BY <2>3, SettleRow
    <2>4. CASE \/ \E o \in Orders : SubmitPlace(o) \/ SubmitCancel(o)
               \/ Worker
               \/ \E t \in events : SettleFails(t)
               \/ Restart
               \/ UNCHANGED vars
        <3>1. UNCHANGED <<attr, status, filled>>
            BY <2>4 DEF SubmitPlace, SubmitCancel, Worker, HandlePlace, HandleCancel, MatchStep,
                        Publish, SettleFails, Restart, vars, dbVars
        <3> QED
            BY <3>1, RowsUntouched
    <2> QED
        BY <2>1, <2>2, <2>3, <2>4 DEF Next
<1>2. IInv /\ [Next]_vars => [RowStep]_vars
    BY <1>1
<1>3. OrderLifecycle <=> [][RowStep]_vars
    BY DEF OrderLifecycle, RowStep
<1> QED
    BY <1>2, <1>3, InvariantHolds, PTL DEF Spec

-----------------------------------------------------------------------------
(* Sandbox *)

\* What the engine has given or may still give to an order: matches in flight and remainder.
EngineHas(o) == Volume(events \cup fills, o) + rem[o]

RowsFor(p) == {m \in MarketRows : standsFor[m] = p}
BookedUnits(p) == {u \in RowsFor(p) \X (1..MaxQty) : u[2] <= attr[u[1]].qty}
Booked(p) == Cardinality(BookedUnits(p))

StateTypeOK ==
    /\ attr \in [Orders -> Attr] /\ \A o \in Orders : attr[o].qty <= MaxQty
    /\ status \in [Orders -> Statuses] /\ filled \in [Orders -> Nat]
    /\ book \subseteq Orders /\ rem \in [Orders -> Nat] /\ incoming \in Orders \cup {None}
    /\ fills \subseteq Trade /\ events \subseteq Trade /\ seq \in Nat
    /\ IsFiniteSet(fills) /\ IsFiniteSet(events)
    /\ \A t \in Matched : t.buy \in Orders /\ t.sell \in Orders /\ t.qty \in 1..MaxQty
    /\ submitting \subseteq UserOrders /\ chan \in Seq(Command)
    /\ restarts \in Nat
    /\ standsFor \in [MarketRows -> PartnerOrders \cup {None}]

\* The engine has not worked on the order.
Unplaced(o) ==
    /\ rem[o] = 0 /\ o \notin book /\ o # incoming
    /\ \A t \in events \cup fills : ~Involves(t, o)
    /\ \A m \in MarketRows : standsFor[m] # o

PlaceQueued(o) == \E i \in DOMAIN chan : IsPlaceOf(chan[i], o)

Fresh(o) == Unplaced(o) /\ (~ByHand(o) => filled[o] = 0)

\* What is not placed yet is nowhere.  The bot's orders have no row.
RowsInv ==
    /\ \A o \in Orders : attr[o].qty = 0 =>
           /\ Unplaced(o) /\ filled[o] = 0 /\ o \notin submitting /\ ~PlaceQueued(o)
           /\ \A t \in trades : ~Involves(t, o)
           /\ o \in MarketRows => standsFor[o] = None
    /\ \A o \in Orders \ PartnerOrders : status[o] = "NEW" <=> attr[o].qty = 0
    /\ \A o \in PartnerOrders : status[o] = "NEW"

\* A placement on its way has not reached the engine and is on its way once; the
\* house's rows are not placed.
QueueInv ==
    /\ \A o \in submitting : Fresh(o) /\ ~PlaceQueued(o)
    /\ \A o \in Orders : PlaceQueued(o) => Fresh(o) /\ o \notin MarketRows
    /\ \A i, j \in DOMAIN chan :
           chan[i].kind = "place" /\ chan[j].kind = "place" /\ chan[i].id = chan[j].id => i = j

EngineInv ==
    /\ \A o \in Orders : rem[o] <= attr[o].qty
    /\ \A o \in book : rem[o] > 0
    /\ incoming \notin book

\* The counter gives every match in flight a number of its own.
SeqInv ==
    /\ events \cap fills = {}
    /\ \A t \in events \cup fills : t.seq <= seq
    /\ \A t, u \in events \cup fills : t.seq = u.seq => t = u

SidesInv == \A t \in Matched : attr[t.buy].side = BUY /\ attr[t.sell].side = SELL

UserNumbers ==
    \A o \in UserOrders \cup MarketRows : ~ByHand(o) => filled[o] + EngineHas(o) <= attr[o].qty

HouseNumbers == \A p \in PartnerOrders : Booked(p) + EngineHas(p) <= attr[p].qty

\* Before the first restart a row of the house is that of one match, in flight or settled.
ByEngine(t) == t.seq \notin ManualKeys

OneShotInv ==
    restarts = 0 =>
        \A m \in MarketRows :
            /\ m \notin book /\ m # incoming /\ \A t \in fills : ~Involves(t, m)
            /\ ~ByHand(m) => filled[m] \in {0, attr[m].qty}
            /\ \A t \in events : Involves(t, m) =>
                   /\ t.qty = attr[m].qty
                   /\ ~ByHand(m) => filled[m] = 0
                   /\ \A u \in trades : Involves(u, m) => ~ByEngine(u)
                   /\ \A u \in events : Involves(u, m) => u = t
            /\ \A t, u \in trades :
                   Involves(t, m) /\ Involves(u, m) /\ ByEngine(t) /\ ByEngine(u) => t = u

SandboxInv ==
    /\ StateTypeOK /\ RowsInv /\ QueueInv /\ EngineInv /\ SeqInv /\ SidesInv
    /\ MatchesWithinLimits /\ UserNumbers /\ HouseNumbers /\ OneShotInv

-----------------------------------------------------------------------------
(* Quantities *)

\* What the engine has of an order, and what the house has booked, are numbers.
LEMMA Amounts ==
    ASSUME StateTypeOK
    PROVE  /\ IsFiniteSet(events \cup fills)
           /\ \A o \in Orders : /\ Volume(events \cup fills, o) \in Nat /\ EngineHas(o) \in Nat
                                /\ rem[o] \in Nat /\ filled[o] \in Nat /\ attr[o].qty \in Nat
<1>1. IsFiniteSet(events \cup fills)
    BY FS_Union DEF StateTypeOK
<1>2. \A o \in Orders : Volume(events \cup fills, o) \in Nat
    BY <1>1, UnitsFinite
<1>3. \A o \in Orders : rem[o] \in Nat /\ filled[o] \in Nat /\ attr[o].qty \in Nat
    BY DEF StateTypeOK, Attr
<1>4. ASSUME NEW o \in Orders
      PROVE  EngineHas(o) \in Nat
    <2>1. Volume(events \cup fills, o) \in Nat /\ rem[o] \in Nat
        BY <1>2, <1>3
    <2> QED
        BY <2>1 DEF EngineHas
<1> QED
    BY <1>1, <1>2, <1>3, <1>4

\* A match that leaves the engine's side takes its quantity with it.
LEMMA MatchLeaves ==
    ASSUME StateTypeOK, NEW t \in events \cup fills, NEW U, U = (events \cup fills) \ {t}
    PROVE  /\ IsFiniteSet(U) /\ t.qty \in 1..MaxQty
           /\ \A o \in Orders :
                 /\ Volume(U, o) \in Nat
                 /\ Volume(events \cup fills, o) =
                       IF Involves(t, o) THEN Volume(U, o) + t.qty ELSE Volume(U, o)
<1>1. t.qty \in 1..MaxQty /\ IsFiniteSet(events \cup fills)
    BY Amounts DEF StateTypeOK, Matched
<1>2. IsFiniteSet(U)
    BY <1>1, FS_RemoveElement
<1>3. \A o \in Orders : Volume(U, o) \in Nat
    BY <1>2, UnitsFinite
<1>4. ASSUME NEW o \in Orders
      PROVE  Volume(events \cup fills, o) =
                IF Involves(t, o) THEN Volume(U, o) + t.qty ELSE Volume(U, o)
    BY <1>1, VolumeRemove
<1> QED
    BY <1>1, <1>2, <1>3, <1>4

\* The rows of the house are finitely many, and so are their units.
LEMMA BookedNat ==
    ASSUME StateTypeOK, NEW p
    PROVE  IsFiniteSet(BookedUnits(p)) /\ Booked(p) \in Nat
<1>1. IsFiniteSet(RowsFor(p))
    BY ExchangeBounds, SandboxAssumption, FS_Subset DEF RowsFor
<1>2. IsFiniteSet(1..MaxQty)
    BY ExchangeBounds, FS_Interval
<1>3. IsFiniteSet(RowsFor(p) \X (1..MaxQty))
    BY <1>1, <1>2, FS_Product
<1>4. IsFiniteSet(BookedUnits(p))
    <2>1. BookedUnits(p) \subseteq RowsFor(p) \X (1..MaxQty)
        BY DEF BookedUnits
    <2> QED
        BY <1>3, <2>1, FS_Subset
<1> QED
    BY <1>4, FS_CardinalityType DEF Booked

\* An order that no row stands for has nothing booked.
LEMMA BookedNone ==
    ASSUME NEW p, \A m \in MarketRows : standsFor[m] # p
    PROVE  Booked(p) = 0
<1>1. BookedUnits(p) = {}
    BY DEF BookedUnits, RowsFor
<1> QED
    BY <1>1, FS_EmptySet DEF Booked

-----------------------------------------------------------------------------
(* Steps that leave a part of the state alone *)

\* The house's rows still fit the partner's orders when the engine has less of them.
LEMMA HouseStep ==
    ASSUME StateTypeOK, HouseNumbers, UNCHANGED <<attr, standsFor>>,
           \A o \in Orders : EngineHas(o)' \in Nat /\ EngineHas(o)' <= EngineHas(o)
    PROVE  HouseNumbers'
<1>1. PartnerOrders \subseteq Orders
    BY SandboxAssumption
<1>2. ASSUME NEW p \in PartnerOrders
      PROVE  Booked(p)' + EngineHas(p)' <= attr'[p].qty
    <2>1. Booked(p)' = Booked(p) /\ attr'[p] = attr[p]
        BY DEF Booked, BookedUnits, RowsFor
    <2>2. Booked(p) + EngineHas(p) <= attr[p].qty
        BY DEF HouseNumbers
    <2>3. Booked(p) \in Nat /\ EngineHas(p) \in Nat /\ attr[p].qty \in Nat
        BY <1>1, Amounts, BookedNat
    <2>4. EngineHas(p)' \in Nat /\ EngineHas(p)' <= EngineHas(p)
        BY <1>1
    <2> QED
        BY <2>1, <2>2, <2>3, <2>4
<1> QED
    BY <1>2 DEF HouseNumbers

\* The numbers still fit when the engine has less and the tables are the same.
LEMMA NumbersStep ==
    ASSUME StateTypeOK, UserNumbers, HouseNumbers, UNCHANGED <<attr, filled, trades, standsFor>>,
           \A o \in Orders : EngineHas(o)' \in Nat /\ EngineHas(o)' <= EngineHas(o)
    PROVE  UserNumbers' /\ HouseNumbers'
<1>1. UserOrders \cup MarketRows \subseteq Orders
    BY SandboxAssumption DEF UserOrders
<1>2. ASSUME NEW o \in UserOrders \cup MarketRows, ~ByHand(o)'
      PROVE  filled'[o] + EngineHas(o)' <= attr'[o].qty
    <2>1. ~ByHand(o) /\ filled'[o] = filled[o] /\ attr'[o] = attr[o]
        BY <1>2 DEF ByHand
    <2>2. filled[o] + EngineHas(o) <= attr[o].qty
        BY <2>1 DEF UserNumbers
    <2>3. filled[o] \in Nat /\ EngineHas(o) \in Nat /\ attr[o].qty \in Nat
        BY <1>1, Amounts
    <2>4. EngineHas(o)' \in Nat /\ EngineHas(o)' <= EngineHas(o)
        BY <1>1
    <2> QED
        BY <2>1, <2>2, <2>3, <2>4
<1>3. HouseNumbers'
    BY HouseStep
<1> QED
    BY <1>2, <1>3 DEF UserNumbers

\* The one-shot rows are safe from steps that take no row of the house into the engine.
LEMMA OneShotStep ==
    ASSUME OneShotInv, UNCHANGED <<filled, trades, restarts>>,
           \A m \in MarketRows : attr'[m] = attr[m],
           events' \subseteq events \cup fills,
           restarts = 0 => \A m \in MarketRows :
               m \notin book' /\ m # incoming' /\ \A t \in fills' : ~Involves(t, m)
    PROVE  OneShotInv'
<1> SUFFICES ASSUME restarts = 0, NEW m \in MarketRows
             PROVE  (/\ m \notin book /\ m # incoming /\ \A t \in fills : ~Involves(t, m)
                     /\ ~ByHand(m) => filled[m] \in {0, attr[m].qty}
                     /\ \A t \in events : Involves(t, m) =>
                            /\ t.qty = attr[m].qty
                            /\ ~ByHand(m) => filled[m] = 0
                            /\ \A u \in trades : Involves(u, m) => ~ByEngine(u)
                            /\ \A u \in events : Involves(u, m) => u = t
                     /\ \A t, u \in trades :
                            Involves(t, m) /\ Involves(u, m) /\ ByEngine(t) /\ ByEngine(u) => t = u)'
    BY DEF OneShotInv
<1>1. ByHand(m)' <=> ByHand(m)
    BY DEF ByHand
<1>2. \A t \in events' : Involves(t, m) => t \in events
    BY DEF OneShotInv
<1> QED
    BY <1>1, <1>2 DEF OneShotInv

\* Trades keep their sides and limits when none is new.
LEMMA TradesStep ==
    ASSUME SidesInv, MatchesWithinLimits, UNCHANGED attr, Matched' \subseteq Matched
    PROVE  SidesInv' /\ MatchesWithinLimits'
<1>1. trades' \cup events' \cup fills' \subseteq trades \cup events \cup fills
    BY DEF Matched
<1>2. SidesInv'
    BY DEF SidesInv
<1>3. MatchesWithinLimits'
    BY <1>1 DEF MatchesWithinLimits
<1> QED
    BY <1>2, <1>3

\* What is not placed stays nowhere as long as the engine does not touch it.
LEMMA RowsStep ==
    ASSUME RowsInv, UNCHANGED <<attr, filled, trades, standsFor>>, submitting' \subseteq submitting,
           \A o \in Orders : status'[o] = "NEW" <=> status[o] = "NEW",
           \A o \in Orders : attr[o].qty = 0 => Unplaced(o)' /\ ~PlaceQueued(o)'
    PROVE  RowsInv'
<1>1. PartnerOrders \subseteq Orders
    BY SandboxAssumption
<1> QED
    BY <1>1 DEF RowsInv

\* The queue holds what it held, or what is behind its head.
LEMMA QueueStep ==
    ASSUME StateTypeOK, QueueInv, submitting' \subseteq submitting,
           chan' = chan \/ (chan # <<>> /\ chan' = Tail(chan)),
           \A o \in Orders : Fresh(o) /\ (o \in submitting' \/ PlaceQueued(o)') => Fresh(o)'
    PROVE  QueueInv' /\ \A o \in Orders : PlaceQueued(o)' => PlaceQueued(o)
<1>1. chan \in Seq(Command) /\ submitting \subseteq Orders
    BY DEF StateTypeOK, UserOrders
<1>2. CASE chan' = chan
    <2>1. \A o \in Orders : PlaceQueued(o)' <=> PlaceQueued(o)
        BY <1>2 DEF PlaceQueued
    <2> QED
        BY <1>1, <1>2, <2>1 DEF QueueInv
<1>3. CASE chan # <<>> /\ chan' = Tail(chan)
    <2>1. /\ \A i \in DOMAIN chan' : i + 1 \in DOMAIN chan /\ chan'[i] = chan[i + 1]
          /\ \A i \in DOMAIN chan' : i \in Int
        BY <1>1, <1>3, TailElements
    <2>2. \A o \in Orders : PlaceQueued(o)' => PlaceQueued(o)
        BY <2>1 DEF PlaceQueued, IsPlaceOf
    <2>3. \A i, j \in DOMAIN chan' :
             chan'[i].kind = "place" /\ chan'[j].kind = "place" /\ chan'[i].id = chan'[j].id => i = j
        <3> SUFFICES ASSUME NEW i \in DOMAIN chan', NEW j \in DOMAIN chan',
                            chan'[i].kind = "place", chan'[j].kind = "place", chan'[i].id = chan'[j].id
                     PROVE  i = j
            OBVIOUS
        <3>1. i + 1 = j + 1
            BY <2>1 DEF QueueInv
        <3> QED
            BY <2>1, <3>1
    <2>4. /\ \A o \in submitting' : Fresh(o)' /\ ~PlaceQueued(o)'
          /\ \A o \in Orders : PlaceQueued(o)' => Fresh(o)' /\ o \notin MarketRows
        BY <1>1, <2>2 DEF QueueInv
    <2> QED
        BY <2>2, <2>3, <2>4 DEF QueueInv
<1> QED
    BY <1>2, <1>3

\* Steps that write neither the engine nor the fills.
LEMMA SameEngine ==
    ASSUME SandboxInv,
           UNCHANGED <<attr, book, rem, incoming, fills, events, seq, trades, filled, standsFor, restarts>>
    PROVE  /\ EngineInv' /\ SeqInv' /\ SidesInv' /\ MatchesWithinLimits'
           /\ UserNumbers' /\ HouseNumbers' /\ OneShotInv'
           /\ \A o \in Orders : /\ Unplaced(o)' <=> Unplaced(o)
                                /\ Fresh(o)' <=> Fresh(o)
<1>1. EngineInv' /\ SeqInv'
    BY DEF SandboxInv, EngineInv, SeqInv
<1>2. SidesInv' /\ MatchesWithinLimits'
    BY TradesStep DEF SandboxInv, Matched
<1>3. UserNumbers' /\ HouseNumbers'
    <2>1. \A o \in Orders : EngineHas(o)' = EngineHas(o)
        BY DEF EngineHas
    <2>2. \A o \in Orders : EngineHas(o) \in Nat
        BY Amounts DEF SandboxInv
    <2>3. \A o \in Orders : EngineHas(o)' \in Nat /\ EngineHas(o)' <= EngineHas(o)
        BY <2>1, <2>2
    <2> QED
        BY <2>3, NumbersStep DEF SandboxInv
<1>4. OneShotInv'
    BY OneShotStep DEF SandboxInv, OneShotInv
<1>5. \A o \in Orders : Unplaced(o)' <=> Unplaced(o)
    BY DEF Unplaced
<1>6. \A o \in Orders : ByHand(o)' <=> ByHand(o)
    BY DEF ByHand
<1> QED
    BY <1>1, <1>2, <1>3, <1>4, <1>5, <1>6 DEF Fresh

\* Writing the attributes of an order that was nowhere disturbs nothing else.
LEMMA NewOrder ==
    ASSUME SandboxInv, NEW o \in Orders, o \notin MarketRows, attr[o].qty = 0,
           NEW a \in Attr, a.qty \in 1..MaxQty, attr' = [attr EXCEPT ![o] = a],
           UNCHANGED <<book, rem, incoming, fills, events, seq, trades, filled, standsFor, restarts>>
    PROVE  /\ EngineInv' /\ SeqInv' /\ SidesInv' /\ MatchesWithinLimits'
           /\ UserNumbers' /\ HouseNumbers' /\ OneShotInv'
           /\ attr' \in [Orders -> Attr] /\ \A p \in Orders : attr'[p].qty <= MaxQty
           /\ \A p \in Orders : p # o => attr'[p] = attr[p]
           /\ attr'[o].qty # 0
           /\ \A p \in Orders : (Unplaced(p)' <=> Unplaced(p)) /\ (Fresh(p)' <=> Fresh(p))
<1>0. /\ attr \in [Orders -> Attr] /\ \A p \in Orders : attr[p].qty <= MaxQty
      /\ StateTypeOK
    BY DEF SandboxInv, StateTypeOK
<1>1. attr'[o] = a /\ attr' \in [Orders -> Attr] /\ \A p \in Orders : p # o => attr'[p] = attr[p]
    BY <1>0
<1>2. a.qty \in Nat \ {0} /\ a.qty <= MaxQty
    BY ExchangeBounds
<1>3. \A p \in Orders : attr'[p].qty <= MaxQty
    BY <1>0, <1>1, <1>2
<1>4. /\ Unplaced(o) /\ filled[o] = 0 /\ \A t \in trades : ~Involves(t, o)
    BY DEF SandboxInv, RowsInv
<1>5. \A t \in Matched : t.buy # o /\ t.sell # o /\ t.buy \in Orders /\ t.sell \in Orders
    BY <1>0, <1>4 DEF Unplaced, Matched, Involves, StateTypeOK
<1>6. EngineInv'
    <2>1. \A p \in Orders : rem[p] <= attr'[p].qty
        BY <1>0, <1>1, <1>2, <1>4 DEF SandboxInv, EngineInv, Unplaced
    <2> QED
        BY <2>1 DEF SandboxInv, EngineInv
<1>7. SeqInv'
    BY DEF SandboxInv, SeqInv
<1>8. Matched' = Matched
    BY DEF Matched
<1>9. SidesInv'
    BY <1>1, <1>5, <1>8 DEF SandboxInv, SidesInv
<1>10. MatchesWithinLimits'
    <2>1. \A t \in trades \cup events \cup fills : attr'[t.buy] = attr[t.buy] /\ attr'[t.sell] = attr[t.sell]
        BY <1>1, <1>5 DEF Matched
    <2> QED
        BY <2>1 DEF SandboxInv, MatchesWithinLimits
<1>11. \A p \in Orders : EngineHas(p)' = EngineHas(p) /\ EngineHas(p) \in Nat
    BY <1>0, Amounts DEF EngineHas
<1>12. EngineHas(o) = 0
    <2>1. Volume(events \cup fills, o) = 0
        BY <1>4, VolumeNone DEF Unplaced
    <2> QED
        BY <1>4, <2>1 DEF EngineHas, Unplaced
<1>13. \A p \in Orders : ByHand(p)' <=> ByHand(p)
    BY DEF ByHand
<1>14. UserNumbers'
    <2>1. ASSUME NEW p \in UserOrders \cup MarketRows, ~ByHand(p)
          PROVE  filled[p] + EngineHas(p) <= attr'[p].qty
        <3>1. p \in Orders
            BY SandboxAssumption DEF UserOrders
        <3>2. CASE p = o
            BY <1>1, <1>2, <1>4, <1>12, <3>2
        <3>3. CASE p # o
            BY <1>1, <2>1, <3>1, <3>3 DEF SandboxInv, UserNumbers
        <3> QED
            BY <3>2, <3>3
    <2>2. UserOrders \cup MarketRows \subseteq Orders
        BY SandboxAssumption DEF UserOrders
    <2> QED
        BY <1>11, <1>13, <2>1, <2>2 DEF UserNumbers
<1>15. HouseNumbers'
    <2>1. ASSUME NEW p \in PartnerOrders
          PROVE  Booked(p)' + EngineHas(p)' <= attr'[p].qty
        <3>1. p \in Orders
            BY SandboxAssumption
        <3>2. BookedUnits(p)' = BookedUnits(p)
            <4>1. \A m \in MarketRows : m \in Orders /\ attr'[m] = attr[m]
                BY <1>1, SandboxAssumption
            <4> QED
                BY <4>1 DEF BookedUnits, RowsFor
        <3>3. Booked(p)' = Booked(p)
            BY <3>2 DEF Booked
        <3>4. CASE p = o
            <4>1. Booked(p) = 0
                BY <1>4, <3>4, BookedNone DEF Unplaced
            <4> QED
                BY <1>1, <1>2, <1>11, <1>12, <3>1, <3>3, <3>4, <4>1
        <3>5. CASE p # o
            BY <1>1, <1>11, <3>1, <3>3, <3>5 DEF SandboxInv, HouseNumbers
        <3> QED
            BY <3>4, <3>5
    <2> QED
        BY <2>1 DEF HouseNumbers
<1>16. OneShotInv'
    <2>1. \A m \in MarketRows : attr'[m] = attr[m]
        BY <1>1, SandboxAssumption
    <2> QED
        BY <2>1, OneShotStep DEF SandboxInv, OneShotInv
<1>17. \A p \in Orders : Unplaced(p)' <=> Unplaced(p)
    BY DEF Unplaced
<1>18. \A p \in Orders : Fresh(p)' <=> Fresh(p)
    BY <1>13, <1>17 DEF Fresh
<1> QED
    BY <1>1, <1>2, <1>3, <1>6, <1>7, <1>9, <1>10, <1>14, <1>15, <1>16, <1>17, <1>18

-----------------------------------------------------------------------------
(* Clients and the bot *)

\* The transaction of PlaceOrder writes the row of an order that was nowhere.
LEMMA PlaceOrderSafe ==
    ASSUME SandboxInv, NEW o \in UserOrders, NEW a \in Request, PlaceOrder(o, a),
           UNCHANGED <<quoted, standsFor>>
    PROVE  SandboxInv'
<1>0. /\ UNCHANGED <<book, rem, incoming, fills, seq, filled, trades, chan, events, restarts>>
      /\ status[o] = "NEW" /\ attr' = [attr EXCEPT ![o] = a]
      /\ status' = [status EXCEPT ![o] = "OPEN"] /\ submitting' = submitting \cup {o}
    BY DEF PlaceOrder, bookVars
<1>1. StateTypeOK /\ RowsInv /\ QueueInv
    BY DEF SandboxInv
<1>2. o \in Orders /\ o \notin MarketRows /\ o \notin PartnerOrders
    BY DEF UserOrders
<1>3. attr[o].qty = 0
    BY <1>0, <1>1, <1>2 DEF RowsInv
<1>4. a \in Attr /\ a.qty \in 1..MaxQty
    BY RequestIsAttr DEF Request
<1>5. /\ EngineInv' /\ SeqInv' /\ SidesInv' /\ MatchesWithinLimits'
      /\ UserNumbers' /\ HouseNumbers' /\ OneShotInv'
    BY <1>0, <1>2, <1>3, <1>4, NewOrder
<1>6. /\ attr' \in [Orders -> Attr] /\ \A p \in Orders : attr'[p].qty <= MaxQty
      /\ \A p \in Orders : p # o => attr'[p] = attr[p]
      /\ attr'[o].qty # 0
      /\ \A p \in Orders : (Unplaced(p)' <=> Unplaced(p)) /\ (Fresh(p)' <=> Fresh(p))
    BY <1>0, <1>2, <1>3, <1>4, NewOrder
<1>7. \A p \in Orders : PlaceQueued(p)' <=> PlaceQueued(p)
    BY <1>0 DEF PlaceQueued
<1>8. status' \in [Orders -> Statuses] /\ status'[o] = "OPEN"
      /\ \A p \in Orders : p # o => status'[p] = status[p]
    BY <1>0, <1>1, <1>2 DEF StateTypeOK, Statuses
<1>9. StateTypeOK'
    <2>1. Matched' = Matched
        BY <1>0 DEF Matched
    <2> QED
        BY <1>0, <1>1, <1>6, <1>8, <2>1 DEF StateTypeOK
<1>10. RowsInv'
    <2>1. PartnerOrders \subseteq Orders
        BY SandboxAssumption
    <2> QED
        BY <1>0, <1>1, <1>2, <1>6, <1>7, <1>8, <2>1 DEF RowsInv
<1>11. QueueInv'
    <2>1. Fresh(o) /\ ~PlaceQueued(o)
        BY <1>1, <1>2, <1>3 DEF RowsInv, Fresh
    <2>2. submitting \subseteq Orders
        BY <1>1 DEF StateTypeOK, UserOrders
    <2> QED
        BY <1>0, <1>1, <1>2, <1>6, <1>7, <2>1, <2>2 DEF QueueInv
<1> QED
    BY <1>5, <1>9, <1>10, <1>11 DEF SandboxInv

\* A command that enters the channel: at most one more placement, of its own order.
LEMMA QueueGrows ==
    ASSUME StateTypeOK, QueueInv, NEW c \in Command, Submit(c),
           c.kind = "place" => Fresh(c.id)' /\ c.id \notin MarketRows
                               /\ c.id \notin submitting' /\ ~PlaceQueued(c.id),
           submitting' \subseteq submitting,
           \A o \in Orders : Fresh(o) => Fresh(o)'
    PROVE  /\ QueueInv' /\ chan' \in Seq(Command)
           /\ \A o \in Orders : PlaceQueued(o)' => PlaceQueued(o) \/ IsPlaceOf(c, o)
<1>1. chan \in Seq(Command) /\ submitting \subseteq Orders
    BY DEF StateTypeOK, UserOrders
<1>2. /\ chan' \in Seq(Command)
      /\ \/ chan' = chan
         \/ /\ DOMAIN chan' = DOMAIN chan \cup {Len(chan) + 1}
            /\ Len(chan) + 1 \notin DOMAIN chan
            /\ chan'[Len(chan) + 1] = c
            /\ \A i \in DOMAIN chan : chan'[i] = chan[i]
    BY <1>1, SubmitElements
<1>3. c.id \in Orders
    BY DEF Command
<1>4. CASE chan' = chan
    <2>1. \A o \in Orders : PlaceQueued(o)' <=> PlaceQueued(o)
        BY <1>4 DEF PlaceQueued
    <2> QED
        BY <1>1, <1>2, <1>4, <2>1 DEF QueueInv
<1>5. CASE chan' # chan
    <2>1. PICK n : n = Len(chan) + 1
        OBVIOUS
    <2>2. /\ DOMAIN chan' = DOMAIN chan \cup {n} /\ n \notin DOMAIN chan
          /\ chan'[n] = c /\ \A i \in DOMAIN chan : chan'[i] = chan[i]
        BY <1>2, <1>5, <2>1
    <2>3. \A o \in Orders : PlaceQueued(o)' => PlaceQueued(o) \/ IsPlaceOf(c, o)
        BY <2>2 DEF PlaceQueued
    <2>4. \A o \in submitting' : Fresh(o)' /\ ~PlaceQueued(o)'
        BY <1>1, <1>3, <2>3 DEF QueueInv, IsPlaceOf
    <2>5. \A o \in Orders : PlaceQueued(o)' => Fresh(o)' /\ o \notin MarketRows
        BY <2>3 DEF QueueInv, IsPlaceOf
    <2>6. \A i \in DOMAIN chan : c.kind = "place" /\ chan[i].kind = "place" => chan[i].id # c.id
        BY DEF PlaceQueued, IsPlaceOf
    <2>7. \A i, j \in DOMAIN chan' :
             chan'[i].kind = "place" /\ chan'[j].kind = "place" /\ chan'[i].id = chan'[j].id => i = j
        BY <2>2, <2>6 DEF QueueInv
    <2> QED
        BY <1>2, <2>3, <2>4, <2>5, <2>7 DEF QueueInv
<1> QED
    BY <1>4, <1>5

\* A submission moves what was ready to be submitted into the channel, or loses it.
LEMMA SubmitSafe ==
    ASSUME SandboxInv, NEW c \in Command, Submit(c), submitting' \subseteq submitting,
           c.kind = "place" => c.id \in submitting /\ c.id \notin submitting',
           UNCHANGED <<attr, book, rem, incoming, fills, events, seq, trades, filled, standsFor, restarts>>,
           UNCHANGED status
    PROVE  SandboxInv'
<1>1. StateTypeOK /\ RowsInv /\ QueueInv
    BY DEF SandboxInv
<1>2. /\ EngineInv' /\ SeqInv' /\ SidesInv' /\ MatchesWithinLimits'
      /\ UserNumbers' /\ HouseNumbers' /\ OneShotInv'
      /\ \A o \in Orders : (Unplaced(o)' <=> Unplaced(o)) /\ (Fresh(o)' <=> Fresh(o))
    BY SameEngine
<1>3. c.kind = "place" => Fresh(c.id)' /\ c.id \notin MarketRows /\ ~PlaceQueued(c.id) /\ attr[c.id].qty # 0
    <2>1. c.id \in Orders /\ submitting \subseteq UserOrders
        BY <1>1 DEF Command, StateTypeOK
    <2>2. Fresh(c.id)' <=> Fresh(c.id)
        BY <1>2, <2>1
    <2> QED
        BY <1>1, <2>1, <2>2 DEF QueueInv, RowsInv, UserOrders
<1>4. /\ QueueInv' /\ chan' \in Seq(Command)
      /\ \A o \in Orders : PlaceQueued(o)' => PlaceQueued(o) \/ IsPlaceOf(c, o)
    BY <1>1, <1>2, <1>3, QueueGrows
<1>5. StateTypeOK'
    <2>1. Matched' = Matched
        BY DEF Matched
    <2> QED
        BY <1>1, <1>4, <2>1 DEF StateTypeOK
<1>6. RowsInv'
    <2>1. \A o \in Orders : attr[o].qty = 0 => Unplaced(o)' /\ ~PlaceQueued(o)'
        BY <1>1, <1>2, <1>3, <1>4 DEF RowsInv, IsPlaceOf
    <2> QED
        BY <1>1, <2>1, RowsStep
<1> QED
    BY <1>2, <1>4, <1>5, <1>6 DEF SandboxInv

\* Submissions of users and the bot's cancel commands.
LEMMA SubmissionsSafe ==
    ASSUME SandboxInv, NEW o \in Orders,
           \/ SubmitPlace(o) /\ UNCHANGED <<quoted, standsFor>>
           \/ SubmitCancel(o) /\ UNCHANGED <<quoted, standsFor>>
           \/ PartnerCancels(o)
    PROVE  SandboxInv'
<1>1. UNCHANGED <<attr, book, rem, incoming, fills, events, seq, trades, filled, standsFor, restarts, status>>
    BY DEF SubmitPlace, SubmitCancel, PartnerCancels, bookVars, dbVars
<1>2. CASE SubmitPlace(o)
    <2>1. PICK c : c = [kind |-> "place", id |-> o]
        OBVIOUS
    <2>2. c \in Command /\ c.id = o
        BY <2>1 DEF Command
    <2>3. Submit(c) /\ o \in submitting /\ submitting' = submitting \ {o}
        BY <1>2, <2>1 DEF SubmitPlace
    <2> QED
        BY <1>1, <2>2, <2>3, SubmitSafe
<1>3. CASE SubmitCancel(o) \/ PartnerCancels(o)
    <2>1. PICK c : c = [kind |-> "cancel", id |-> o]
        OBVIOUS
    <2>2. c \in Command /\ c.kind = "cancel"
        BY <2>1 DEF Command
    <2>3. Submit(c) /\ submitting' = submitting
        BY <1>3, <2>1 DEF SubmitCancel, PartnerCancels, requestVars
    <2> QED
        BY <1>1, <2>2, <2>3, SubmitSafe
<1> QED
    BY <1>2, <1>3

\* CancelOrder changes the status of a row that exists.
LEMMA CancelOrderSafe ==
    ASSUME SandboxInv, NEW o \in UserOrders, CancelOrder(o), UNCHANGED <<quoted, standsFor>>
    PROVE  SandboxInv'
<1>0. /\ UNCHANGED <<attr, book, rem, incoming, fills, events, seq, trades, filled, standsFor, restarts>>
      /\ UNCHANGED <<submitting, chan>>
      /\ IsCancellable(status[o]) /\ status' = [status EXCEPT ![o] = "CANCELLED"]
    BY DEF CancelOrder, bookVars
<1>1. StateTypeOK /\ RowsInv /\ QueueInv /\ o \in Orders
    BY DEF SandboxInv, UserOrders
<1>2. /\ EngineInv' /\ SeqInv' /\ SidesInv' /\ MatchesWithinLimits'
      /\ UserNumbers' /\ HouseNumbers' /\ OneShotInv'
      /\ \A p \in Orders : (Unplaced(p)' <=> Unplaced(p)) /\ (Fresh(p)' <=> Fresh(p))
    BY <1>0, SameEngine
<1>3. /\ status' \in [Orders -> Statuses]
      /\ \A p \in Orders : status'[p] = "NEW" <=> status[p] = "NEW"
    BY <1>0, <1>1 DEF StateTypeOK, Statuses, IsCancellable
<1>4. StateTypeOK'
    <2>1. Matched' = Matched
        BY <1>0 DEF Matched
    <2> QED
        BY <1>0, <1>1, <1>3, <2>1 DEF StateTypeOK
<1>5. QueueInv' /\ \A p \in Orders : PlaceQueued(p)' => PlaceQueued(p)
    BY <1>0, <1>1, <1>2, QueueStep
<1>6. RowsInv'
    <2>1. \A p \in Orders : attr[p].qty = 0 => Unplaced(p)' /\ ~PlaceQueued(p)'
        BY <1>1, <1>2, <1>5 DEF RowsInv
    <2> QED
        BY <1>0, <1>1, <1>3, <2>1, RowsStep
<1> QED
    BY <1>2, <1>4, <1>5, <1>6 DEF SandboxInv

\* A new order of the bot goes to the engine without a row.
LEMMA PartnerPlacesSafe ==
    ASSUME SandboxInv, NEW o \in PartnerOrders, NEW a \in Levels[o], PartnerPlaces(o, a)
    PROVE  SandboxInv'
<1>0. /\ UNCHANGED <<book, rem, incoming, fills, seq, filled, trades, events, restarts, standsFor>>
      /\ UNCHANGED <<status, submitting>>
      /\ attr[o] = NoAttr /\ attr' = [attr EXCEPT ![o] = a]
      /\ Submit([kind |-> "place", id |-> o])
    BY DEF PartnerPlaces, bookVars, dbVars, requestVars
<1>1. StateTypeOK /\ RowsInv /\ QueueInv
    BY DEF SandboxInv
<1>2. o \in Orders /\ o \notin MarketRows /\ a \in Request /\ o \notin UserOrders
    BY SandboxAssumption DEF UserOrders
<1>3. attr[o].qty = 0
    BY <1>0 DEF NoAttr
<1>4. a \in Attr /\ a.qty \in 1..MaxQty
    BY <1>2, RequestIsAttr DEF Request
<1>5. /\ EngineInv' /\ SeqInv' /\ SidesInv' /\ MatchesWithinLimits'
      /\ UserNumbers' /\ HouseNumbers' /\ OneShotInv'
    BY <1>0, <1>2, <1>3, <1>4, NewOrder
<1>6. /\ attr' \in [Orders -> Attr] /\ \A p \in Orders : attr'[p].qty <= MaxQty
      /\ \A p \in Orders : p # o => attr'[p] = attr[p]
      /\ attr'[o].qty # 0
      /\ \A p \in Orders : (Unplaced(p)' <=> Unplaced(p)) /\ (Fresh(p)' <=> Fresh(p))
    BY <1>0, <1>2, <1>3, <1>4, NewOrder
<1>7. PICK c : c = [kind |-> "place", id |-> o]
    OBVIOUS
<1>8. c \in Command /\ c.id = o /\ Submit(c)
    BY <1>0, <1>2, <1>7 DEF Command
<1>9. Fresh(o)' /\ ~PlaceQueued(o) /\ o \notin submitting'
    <2>1. Fresh(o) /\ ~PlaceQueued(o) /\ o \notin submitting
        BY <1>1, <1>2, <1>3 DEF RowsInv, Fresh
    <2> QED
        BY <1>0, <1>2, <1>6, <2>1
<1>10. /\ QueueInv' /\ chan' \in Seq(Command)
       /\ \A p \in Orders : PlaceQueued(p)' => PlaceQueued(p) \/ IsPlaceOf(c, p)
    BY <1>0, <1>1, <1>2, <1>6, <1>8, <1>9, QueueGrows
<1>11. StateTypeOK'
    <2>1. Matched' = Matched
        BY <1>0 DEF Matched
    <2> QED
        BY <1>0, <1>1, <1>6, <1>10, <2>1 DEF StateTypeOK
<1>12. RowsInv'
    <2>1. PartnerOrders \subseteq Orders
        BY SandboxAssumption
    <2>2. \A p \in Orders : p # o => (PlaceQueued(p)' => PlaceQueued(p))
        BY <1>8, <1>10 DEF IsPlaceOf
    <2> QED
        BY <1>0, <1>1, <1>2, <1>6, <2>1, <2>2 DEF RowsInv
<1> QED
    BY <1>5, <1>10, <1>11, <1>12 DEF SandboxInv

-----------------------------------------------------------------------------
(* The worker *)

\* The worker takes a fresh order into the engine, with its whole quantity.
LEMMA HandlePlaceSafe ==
    ASSUME SandboxInv, HandlePlace, UNCHANGED <<quoted, standsFor>>
    PROVE  SandboxInv'
<1>0. /\ UNCHANGED <<attr, book, fills, seq, status, filled, trades, submitting, events, restarts, standsFor>>
      /\ chan # <<>> /\ Head(chan).kind = "place" /\ chan' = Tail(chan) /\ incoming = None
    BY DEF HandlePlace, BeginMatch, dbVars, requestVars
<1>1. StateTypeOK /\ RowsInv /\ QueueInv /\ EngineInv /\ chan \in Seq(Command)
    BY DEF SandboxInv, StateTypeOK
<1>2. /\ chan' \in Seq(Command)
      /\ 1 \in DOMAIN chan /\ Head(chan) = chan[1] /\ chan[1] \in Command
      /\ \A i \in DOMAIN chan' : i + 1 \in DOMAIN chan /\ i # 0 /\ chan'[i] = chan[i + 1]
      /\ \A i \in DOMAIN chan' : i \in Int
    BY <1>0, <1>1, TailElements
<1>3. PICK o \in Orders : /\ chan[1].kind = "place" /\ chan[1].id = o
                          /\ incoming' = o /\ rem' = [rem EXCEPT ![o] = attr[o].qty]
    BY <1>0, <1>2 DEF Command, HandlePlace, BeginMatch
<1>4. PlaceQueued(o)
    BY <1>2, <1>3 DEF PlaceQueued, IsPlaceOf
<1>5. Fresh(o) /\ Unplaced(o) /\ o \notin MarketRows /\ o \notin submitting /\ attr[o].qty # 0
    BY <1>1, <1>4 DEF QueueInv, RowsInv, Fresh
<1>6. ~PlaceQueued(o)'
    <2> SUFFICES ASSUME NEW i \in DOMAIN chan', IsPlaceOf(chan'[i], o) PROVE FALSE
        BY DEF PlaceQueued
    <2>1. i + 1 \in DOMAIN chan /\ chan[i + 1].kind = "place" /\ chan[i + 1].id = o
        BY <1>2 DEF IsPlaceOf
    <2>2. i + 1 = 1
        BY <1>1, <1>2, <1>3, <2>1 DEF QueueInv
    <2> QED
        BY <1>2, <2>2
<1>7. /\ rem \in [Orders -> Nat] /\ attr[o].qty \in Nat
      /\ rem'[o] = attr[o].qty /\ \A p \in Orders : p # o => rem'[p] = rem[p]
      /\ rem' \in [Orders -> Nat]
    BY <1>1, <1>3 DEF StateTypeOK, Attr
<1>8. \A p \in Orders : p # o => (Unplaced(p) => Unplaced(p)')
    BY <1>0, <1>3, <1>7 DEF Unplaced
<1>9. \A p \in Orders : ByHand(p)' <=> ByHand(p)
    BY <1>0 DEF ByHand
<1>10. Matched' = Matched /\ events' \cup fills' = events \cup fills
    BY <1>0 DEF Matched
<1>11. StateTypeOK'
    BY <1>0, <1>1, <1>2, <1>3, <1>7, <1>10 DEF StateTypeOK
<1>12. QueueInv' /\ \A p \in Orders : PlaceQueued(p)' => PlaceQueued(p)
    <2>1. \A p \in Orders : Fresh(p) /\ (p \in submitting' \/ PlaceQueued(p)') => Fresh(p)'
        BY <1>0, <1>5, <1>6, <1>8, <1>9 DEF Fresh
    <2> QED
        BY <1>0, <1>1, <2>1, QueueStep
<1>13. RowsInv'
    <2>1. \A p \in Orders : attr[p].qty = 0 => Unplaced(p)' /\ ~PlaceQueued(p)'
        BY <1>1, <1>5, <1>8, <1>12 DEF RowsInv
    <2> QED
        BY <1>0, <1>1, <2>1, RowsStep
<1>14. EngineInv'
    <2>1. \A p \in Orders : attr[p].qty \in Nat
        BY <1>1 DEF StateTypeOK, Attr
    <2>2. \A p \in Orders : rem'[p] <= attr[p].qty
        BY <1>1, <1>7, <2>1 DEF EngineInv
    <2>3. book \subseteq Orders /\ o \notin book
        BY <1>1, <1>5 DEF StateTypeOK, Unplaced
    <2> QED
        BY <1>0, <1>1, <1>3, <1>7, <2>2, <2>3 DEF EngineInv
<1>15. SeqInv' /\ SidesInv' /\ MatchesWithinLimits'
    <2>1. SeqInv'
        BY <1>0 DEF SandboxInv, SeqInv
    <2> QED
        BY <1>0, <1>10, <2>1, TradesStep DEF SandboxInv
<1>16. /\ EngineHas(o)' = attr[o].qty
       /\ \A p \in Orders : p # o => EngineHas(p)' = EngineHas(p)
    <2>1. Volume(events \cup fills, o) = 0
        BY <1>5, VolumeNone DEF Unplaced
    <2> QED
        BY <1>0, <1>7, <2>1 DEF EngineHas
<1>17. UserNumbers'
    <2>1. ASSUME NEW p \in UserOrders \cup MarketRows, ~ByHand(p)
          PROVE  filled[p] + EngineHas(p)' <= attr[p].qty
        <3>1. p \in Orders
            BY SandboxAssumption DEF UserOrders
        <3>2. CASE p = o
            BY <1>5, <1>7, <1>16, <2>1, <3>2 DEF Fresh
        <3>3. CASE p # o
            BY <1>16, <2>1, <3>1, <3>3 DEF SandboxInv, UserNumbers
        <3> QED
            BY <3>2, <3>3
    <2>2. UserOrders \cup MarketRows \subseteq Orders
        BY SandboxAssumption DEF UserOrders
    <2> QED
        BY <1>0, <1>9, <2>1, <2>2 DEF UserNumbers
<1>18. HouseNumbers'
    <2>1. ASSUME NEW p \in PartnerOrders
          PROVE  Booked(p)' + EngineHas(p)' <= attr[p].qty
        <3>1. p \in Orders
            BY SandboxAssumption
        <3>2. Booked(p)' = Booked(p)
            BY <1>0 DEF Booked, BookedUnits, RowsFor
        <3>3. CASE p = o
            <4>1. Booked(p) = 0
                BY <1>5, <3>3, BookedNone DEF Unplaced
            <4> QED
                BY <1>7, <1>16, <3>2, <3>3, <4>1
        <3>4. CASE p # o
            BY <1>16, <3>1, <3>2, <3>4 DEF SandboxInv, HouseNumbers
        <3> QED
            BY <3>3, <3>4
    <2> QED
        BY <1>0, <2>1 DEF HouseNumbers
<1>19. OneShotInv'
    BY <1>0, <1>3, <1>5, OneShotStep DEF SandboxInv, OneShotInv
<1> QED
    BY <1>11, <1>12, <1>13, <1>14, <1>15, <1>17, <1>18, <1>19 DEF SandboxInv

\* Removing a resting order only takes away.
LEMMA HandleCancelSafe ==
    ASSUME SandboxInv, HandleCancel, UNCHANGED <<quoted, standsFor>>
    PROVE  SandboxInv'
<1>0. /\ UNCHANGED <<attr, incoming, fills, seq, status, filled, trades, submitting, events, restarts, standsFor>>
      /\ chan # <<>> /\ chan' = Tail(chan) /\ incoming = None
    BY DEF HandleCancel, CancelResting, dbVars, requestVars
<1>1. StateTypeOK /\ RowsInv /\ QueueInv /\ EngineInv /\ chan \in Seq(Command)
    BY DEF SandboxInv, StateTypeOK
<1>2. chan' \in Seq(Command) /\ Head(chan) \in Command
    BY <1>0, <1>1, TailElements
<1>3. PICK o \in Orders : book' = book \ {o} /\ rem' = [rem EXCEPT ![o] = 0]
    BY <1>2 DEF HandleCancel, CancelResting, Command
<1>4. /\ rem'[o] = 0 /\ \A p \in Orders : p # o => rem'[p] = rem[p]
      /\ rem' \in [Orders -> Nat] /\ \A p \in Orders : rem[p] \in Nat
    BY <1>1, <1>3 DEF StateTypeOK
<1>5. \A p \in Orders : Unplaced(p) => Unplaced(p)'
    BY <1>0, <1>3, <1>4 DEF Unplaced
<1>6. \A p \in Orders : Fresh(p) => Fresh(p)'
    <2>1. \A p \in Orders : ByHand(p)' <=> ByHand(p)
        BY <1>0 DEF ByHand
    <2> QED
        BY <1>0, <1>5, <2>1 DEF Fresh
<1>7. Matched' = Matched
    BY <1>0 DEF Matched
<1>8. StateTypeOK'
    BY <1>0, <1>1, <1>2, <1>3, <1>4, <1>7 DEF StateTypeOK
<1>9. QueueInv' /\ \A p \in Orders : PlaceQueued(p)' => PlaceQueued(p)
    BY <1>0, <1>1, <1>6, QueueStep
<1>10. RowsInv'
    <2>1. \A p \in Orders : attr[p].qty = 0 => Unplaced(p)' /\ ~PlaceQueued(p)'
        BY <1>1, <1>5, <1>9 DEF RowsInv
    <2> QED
        BY <1>0, <1>1, <2>1, RowsStep
<1>11. EngineInv'
    <2>1. \A p \in Orders : attr[p].qty \in Nat
        BY <1>1 DEF StateTypeOK, Attr
    <2>2. \A p \in Orders : rem'[p] <= attr[p].qty
        BY <1>1, <1>4, <2>1 DEF EngineInv
    <2>3. book \subseteq Orders
        BY <1>1 DEF StateTypeOK
    <2> QED
        BY <1>0, <1>1, <1>3, <1>4, <2>2, <2>3 DEF EngineInv
<1>12. SeqInv' /\ SidesInv' /\ MatchesWithinLimits'
    <2>1. SeqInv'
        BY <1>0 DEF SandboxInv, SeqInv
    <2> QED
        BY <1>0, <1>7, <2>1, TradesStep DEF SandboxInv
<1>13. UserNumbers' /\ HouseNumbers'
    <2>1. ASSUME NEW p \in Orders
          PROVE  EngineHas(p)' \in Nat /\ EngineHas(p)' <= EngineHas(p)
        <3>1. Volume(events \cup fills, p) \in Nat
            BY <1>1, Amounts
        <3>2. rem'[p] \in Nat /\ rem'[p] <= rem[p] /\ rem[p] \in Nat
            BY <1>4
        <3> QED
            BY <1>0, <3>1, <3>2 DEF EngineHas
    <2> QED
        BY <1>0, <1>1, <2>1, NumbersStep DEF SandboxInv
<1>14. OneShotInv'
    BY <1>0, <1>3, OneShotStep DEF SandboxInv, OneShotInv
<1> QED
    BY <1>8, <1>9, <1>10, <1>11, <1>12, <1>13, <1>14 DEF SandboxInv

\* What rests of the incoming order enters the book; its trades change hands.
LEMMA PublishSafe ==
    ASSUME SandboxInv, Publish, UNCHANGED <<quoted, standsFor>>
    PROVE  SandboxInv'
<1>0. /\ UNCHANGED <<attr, rem, seq, status, filled, trades, submitting, chan, restarts, standsFor>>
      /\ incoming \in Orders /\ incoming' = None /\ fills' = {} /\ events' = events \cup fills
      /\ \/ rem[incoming] > 0 /\ book' = book \cup {incoming}
         \/ rem[incoming] = 0 /\ book' = book
    BY DEF Publish, FinishMatch, dbVars, requestVars, SandboxInv, StateTypeOK
<1>1. StateTypeOK /\ RowsInv /\ QueueInv /\ EngineInv
    BY DEF SandboxInv
<1>2. Matched' = Matched /\ events' \cup fills' = events \cup fills
    BY <1>0 DEF Matched
<1>3. \A p \in Orders : Unplaced(p) => Unplaced(p)'
    BY <1>0, <1>2, NoneAssumption DEF Unplaced
<1>4. \A p \in Orders : Fresh(p) => Fresh(p)'
    <2>1. \A p \in Orders : ByHand(p)' <=> ByHand(p)
        BY <1>0 DEF ByHand
    <2> QED
        BY <1>0, <1>3, <2>1 DEF Fresh
<1>5. StateTypeOK'
    <2>1. IsFiniteSet(events') /\ IsFiniteSet(fills')
        BY <1>0, <1>1, Amounts, FS_EmptySet
    <2> QED
        BY <1>0, <1>1, <1>2, <2>1 DEF StateTypeOK
<1>6. QueueInv' /\ \A p \in Orders : PlaceQueued(p)' => PlaceQueued(p)
    BY <1>0, <1>1, <1>4, QueueStep
<1>7. RowsInv'
    <2>1. \A p \in Orders : attr[p].qty = 0 => Unplaced(p)' /\ ~PlaceQueued(p)'
        BY <1>1, <1>3, <1>6 DEF RowsInv
    <2> QED
        BY <1>0, <1>1, <2>1, RowsStep
<1>8. EngineInv'
    BY <1>0, <1>1, NoneAssumption DEF EngineInv, StateTypeOK
<1>9. SeqInv' /\ SidesInv' /\ MatchesWithinLimits'
    <2>1. SeqInv'
        BY <1>0, <1>2 DEF SandboxInv, SeqInv
    <2> QED
        BY <1>0, <1>2, <2>1, TradesStep DEF SandboxInv
<1>10. UserNumbers' /\ HouseNumbers'
    <2>1. \A p \in Orders : EngineHas(p)' = EngineHas(p)
        BY <1>0, <1>2 DEF EngineHas
    <2>2. \A p \in Orders : EngineHas(p) \in Nat
        BY <1>1, Amounts
    <2>3. \A p \in Orders : EngineHas(p)' \in Nat /\ EngineHas(p)' <= EngineHas(p)
        BY <2>1, <2>2
    <2> QED
        BY <1>0, <1>1, <2>3, NumbersStep DEF SandboxInv
<1>11. OneShotInv'
    <2>1. None \notin MarketRows
        BY SandboxAssumption, NoneAssumption
    <2>2. restarts = 0 => \A m \in MarketRows :
              m \notin book' /\ m # incoming' /\ \A t \in fills' : ~Involves(t, m)
        BY <1>0, <2>1 DEF SandboxInv, OneShotInv
    <2> QED
        BY <1>0, <2>2, OneShotStep DEF SandboxInv
<1> QED
    BY <1>5, <1>6, <1>7, <1>8, <1>9, <1>10, <1>11 DEF SandboxInv

\* A match takes its quantity from the remainders of two orders that are in the engine.
LEMMA MatchStepSafe ==
    ASSUME SandboxInv, MatchStep, UNCHANGED <<quoted, standsFor>>
    PROVE  SandboxInv'
<1>0. UNCHANGED <<attr, incoming, status, filled, trades, submitting, chan, events, restarts, standsFor>>
    BY DEF MatchStep, MatchOne, dbVars, requestVars
<1>1. StateTypeOK /\ RowsInv /\ QueueInv /\ EngineInv /\ SeqInv
    BY DEF SandboxInv
<1>2. MatchReady
    <2>1. ASSUME NEW o \in book
          PROVE  rem[o] > 0 /\ rem[o] <= MaxQty
        <3>1. o \in Orders /\ rem[o] \in Nat /\ attr[o].qty \in Nat /\ attr[o].qty <= MaxQty
            BY <1>1, Amounts DEF StateTypeOK
        <3> QED
            BY <1>1, <3>1, ExchangeBounds DEF EngineInv
    <2> QED
        BY <1>1, <2>1 DEF MatchReady, StateTypeOK, EngineInv
<1>3. PICK i \in Orders, r \in book, q \in 1..MaxQty, t \in Trade : MatchOf(i, r, q, t)
    BY <1>2, MatchFacts
<1>4. /\ incoming = i /\ i # r /\ r \in Orders /\ rem[i] > 0 /\ rem[r] > 0
      /\ q <= rem[i] /\ q <= rem[r]
      /\ t.qty = q /\ t.seq = seq + 1 /\ \A p \in Orders : Involves(t, p) <=> p = i \/ p = r
      /\ attr[t.buy].side = BUY /\ attr[t.sell].side = SELL
      /\ attr[t.sell].price <= t.price /\ t.price <= attr[t.buy].price
      /\ fills' = fills \cup {t} /\ seq' = seq + 1
      /\ rem' = [rem EXCEPT ![i] = @ - q, ![r] = @ - q]
      /\ \/ rem[r] = q /\ book' = book \ {r}
         \/ rem[r] # q /\ book' = book
    BY <1>3 DEF MatchOf
<1>5. q \in Nat \ {0} /\ rem \in [Orders -> Nat] /\ rem[i] \in Nat /\ rem[r] \in Nat
    BY <1>1, <1>4, ExchangeBounds DEF StateTypeOK
<1>6. /\ rem'[i] = rem[i] - q /\ rem'[r] = rem[r] - q
      /\ \A p \in Orders : p # i /\ p # r => rem'[p] = rem[p]
      /\ rem' \in [Orders -> Nat]
    BY <1>4, <1>5
<1>7. Matched' = Matched \cup {t} /\ events' \cup fills' = (events \cup fills) \cup {t}
    BY <1>0, <1>4 DEF Matched
<1>8. seq \in Nat /\ \A u \in events \cup fills : u.seq # t.seq /\ u.seq \in Nat /\ u.seq <= seq
    <2>1. seq \in Nat /\ events \cup fills \subseteq Trade
        BY <1>1 DEF StateTypeOK
    <2>2. \A u \in events \cup fills : u.seq <= seq
        BY <1>1 DEF SeqInv
    <2>3. \A u \in Trade : u.seq \in Nat
        BY DEF Trade
    <2>4. t.seq = seq + 1
        BY <1>4
    <2> QED
        BY <2>1, <2>2, <2>3, <2>4
<1>9. t \notin events \cup fills
    BY <1>8
<1>10. \A p \in Orders : Unplaced(p) => Unplaced(p)'
    <2>1. \A p \in Orders : Unplaced(p) => p # i /\ p # r
        BY <1>4 DEF Unplaced
    <2> QED
        BY <1>0, <1>4, <1>6, <1>7, <2>1 DEF Unplaced
<1>11. \A p \in Orders : Fresh(p) => Fresh(p)'
    <2>1. \A p \in Orders : ByHand(p)' <=> ByHand(p)
        BY <1>0 DEF ByHand
    <2> QED
        BY <1>0, <1>10, <2>1 DEF Fresh
<1>12. StateTypeOK'
    <2>1. IsFiniteSet(fills')
        BY <1>1, <1>4, FS_AddElement DEF StateTypeOK
    <2>2. seq' \in Nat
        BY <1>4, <1>8
    <2>3. t.buy \in Orders /\ t.sell \in Orders /\ t.qty \in 1..MaxQty
        BY <1>4 DEF Trade
    <2>4. \A u \in Matched' : u.buy \in Orders /\ u.sell \in Orders /\ u.qty \in 1..MaxQty
        BY <1>1, <1>7, <2>3 DEF StateTypeOK
    <2>5. book' \subseteq Orders /\ fills' \subseteq Trade
        BY <1>1, <1>4 DEF StateTypeOK
    <2> QED
        BY <1>0, <1>1, <1>6, <2>1, <2>2, <2>4, <2>5 DEF StateTypeOK
<1>13. QueueInv' /\ \A p \in Orders : PlaceQueued(p)' => PlaceQueued(p)
    BY <1>0, <1>1, <1>11, QueueStep
<1>14. RowsInv'
    <2>1. \A p \in Orders : attr[p].qty = 0 => Unplaced(p)' /\ ~PlaceQueued(p)'
        BY <1>1, <1>10, <1>13 DEF RowsInv
    <2> QED
        BY <1>0, <1>1, <2>1, RowsStep
<1>15. EngineInv'
    <2>1. ASSUME NEW p \in Orders
          PROVE  rem'[p] <= attr[p].qty
        <3>1. rem[p] \in Nat /\ attr[p].qty \in Nat /\ rem[p] <= attr[p].qty
            BY <1>1, Amounts DEF EngineInv
        <3>2. rem'[p] = rem[p] \/ rem'[p] = rem[p] - q
            BY <1>6
        <3> QED
            BY <1>5, <3>1, <3>2
    <2>2. ASSUME NEW p \in book'
          PROVE  rem'[p] > 0
        <3>1. p \in book /\ p # i /\ p \in Orders
            BY <1>1, <1>4 DEF EngineInv, StateTypeOK
        <3>2. CASE p = r
            BY <1>4, <1>5, <1>6, <3>2
        <3>3. CASE p # r
            BY <1>1, <1>6, <3>1, <3>3 DEF EngineInv
        <3> QED
            BY <3>2, <3>3
    <2> QED
        BY <1>0, <1>1, <1>4, <2>1, <2>2 DEF EngineInv
<1>16. SeqInv'
    <2>1. events' \cap fills' = {}
        BY <1>0, <1>1, <1>4, <1>9 DEF SeqInv
    <2>2. \A u \in events' \cup fills' : u.seq <= seq'
        BY <1>4, <1>7, <1>8
    <2>3. \A u, v \in events' \cup fills' : u.seq = v.seq => u = v
        BY <1>1, <1>7, <1>8 DEF SeqInv
    <2> QED
        BY <2>1, <2>2, <2>3 DEF SeqInv
<1>17. SidesInv'
    BY <1>0, <1>4, <1>7 DEF SandboxInv, SidesInv
<1>18. MatchesWithinLimits'
    <2>1. trades' \cup events' \cup fills' = (trades \cup events \cup fills) \cup {t}
        BY <1>7 DEF Matched
    <2> QED
        BY <1>0, <1>4, <2>1 DEF SandboxInv, MatchesWithinLimits
<1>19. UserNumbers' /\ HouseNumbers'
    <2>1. PICK U : U = (events \cup fills) \cup {t}
        OBVIOUS
    <2>2. ASSUME NEW p \in Orders
          PROVE  Volume(U, p) + rem'[p] = EngineHas(p) /\ EngineHas(p) \in Nat
        <3>1. /\ rem[p] \in Nat /\ Volume(events \cup fills, p) \in Nat /\ EngineHas(p) \in Nat
              /\ IsFiniteSet(events \cup fills)
            BY <1>1, Amounts
        <3>2. Volume(U, p) = IF Involves(t, p) THEN Volume(events \cup fills, p) + t.qty
                                               ELSE Volume(events \cup fills, p)
            BY <1>4, <1>9, <2>1, <3>1, VolumeAdd
        <3>3. CASE p = i \/ p = r
            <4>1. Volume(U, p) = Volume(events \cup fills, p) + q /\ rem'[p] = rem[p] - q
                BY <1>4, <1>6, <3>2, <3>3
            <4> QED
                BY <1>5, <3>1, <4>1 DEF EngineHas
        <3>4. CASE p # i /\ p # r
            BY <1>4, <1>6, <3>1, <3>2, <3>4 DEF EngineHas
        <3> QED
            BY <3>3, <3>4
    <2>3. events' \cup fills' = U
        BY <1>7, <2>1
    <2>4. \A p \in Orders : EngineHas(p)' = EngineHas(p)
        BY <2>2, <2>3 DEF EngineHas
    <2>5. \A p \in Orders : EngineHas(p)' \in Nat /\ EngineHas(p)' <= EngineHas(p)
        BY <2>2, <2>4
    <2> QED
        BY <1>0, <1>1, <2>5, NumbersStep DEF SandboxInv
<1>20. OneShotInv'
    <2>1. ASSUME restarts = 0, NEW m \in MarketRows
          PROVE  m \notin book' /\ m # incoming' /\ \A u \in fills' : ~Involves(u, m)
        <3>1. m \in Orders /\ m \notin book /\ m # incoming /\ \A u \in fills : ~Involves(u, m)
            BY <2>1, SandboxAssumption DEF SandboxInv, OneShotInv
        <3>2. m # i /\ m # r
            BY <1>4, <3>1
        <3> QED
            BY <1>0, <1>4, <3>1, <3>2
    <2> QED
        BY <1>0, <2>1, OneShotStep DEF SandboxInv
<1> QED
    BY <1>12, <1>13, <1>14, <1>15, <1>16, <1>17, <1>18, <1>19, <1>20 DEF SandboxInv

-----------------------------------------------------------------------------
(* Settlement *)

\* An event that is lost, or ignored, is only missing afterwards.
LEMMA EventGone ==
    ASSUME SandboxInv, NEW t \in events, IgnoreMatch(t) \/ LoseMatch(t)
    PROVE  SandboxInv'
<1>0. /\ UNCHANGED <<attr, book, rem, incoming, fills, seq, status, filled, trades, submitting, chan>>
      /\ UNCHANGED <<restarts, standsFor>>
      /\ events' = events \ {t}
    BY DEF IgnoreMatch, LoseMatch, SettleFails, bookVars, dbVars, requestVars
<1>1. StateTypeOK /\ RowsInv /\ QueueInv /\ EngineInv /\ SeqInv
    BY DEF SandboxInv
<1>2. Matched' \subseteq Matched /\ events' \cup fills' = (events \cup fills) \ {t}
    BY <1>0, <1>1 DEF Matched, SeqInv
<1>3. \A p \in Orders : Unplaced(p) => Unplaced(p)'
    BY <1>0, <1>2 DEF Unplaced
<1>4. \A p \in Orders : Fresh(p) => Fresh(p)'
    <2>1. \A p \in Orders : ByHand(p)' <=> ByHand(p)
        BY <1>0 DEF ByHand
    <2> QED
        BY <1>0, <1>3, <2>1 DEF Fresh
<1>5. StateTypeOK'
    <2>1. IsFiniteSet(events')
        BY <1>0, <1>1, FS_RemoveElement DEF StateTypeOK
    <2> QED
        BY <1>0, <1>1, <1>2, <2>1 DEF StateTypeOK
<1>6. QueueInv' /\ \A p \in Orders : PlaceQueued(p)' => PlaceQueued(p)
    BY <1>0, <1>1, <1>4, QueueStep
<1>7. RowsInv'
    <2>1. \A p \in Orders : attr[p].qty = 0 => Unplaced(p)' /\ ~PlaceQueued(p)'
        BY <1>1, <1>3, <1>6 DEF RowsInv
    <2> QED
        BY <1>0, <1>1, <2>1, RowsStep
<1>8. EngineInv' /\ SeqInv'
    BY <1>0, <1>1, <1>2 DEF EngineInv, SeqInv
<1>9. SidesInv' /\ MatchesWithinLimits'
    BY <1>0, <1>2, TradesStep DEF SandboxInv
<1>10. UserNumbers' /\ HouseNumbers'
    <2>1. PICK U : U = (events \cup fills) \ {t}
        OBVIOUS
    <2>2. ASSUME NEW p \in Orders
          PROVE  Volume(U, p) + rem[p] \in Nat /\ Volume(U, p) + rem[p] <= EngineHas(p)
        <3>1. rem[p] \in Nat /\ Volume(events \cup fills, p) \in Nat
            BY <1>1, Amounts
        <3>2. /\ Volume(U, p) \in Nat /\ t.qty \in 1..MaxQty
              /\ Volume(events \cup fills, p) =
                     IF Involves(t, p) THEN Volume(U, p) + t.qty ELSE Volume(U, p)
            BY <1>1, <2>1, MatchLeaves
        <3>3. Volume(U, p) <= Volume(events \cup fills, p)
            BY <3>1, <3>2, ExchangeBounds
        <3> QED
            BY <3>1, <3>2, <3>3 DEF EngineHas
    <2>3. events' \cup fills' = U
        BY <1>2, <2>1
    <2>4. \A p \in Orders : EngineHas(p)' = Volume(U, p) + rem[p]
        BY <1>0, <2>3 DEF EngineHas
    <2>5. \A p \in Orders : EngineHas(p)' \in Nat /\ EngineHas(p)' <= EngineHas(p)
        BY <2>2, <2>4
    <2> QED
        BY <1>0, <1>1, <2>5, NumbersStep DEF SandboxInv
<1>11. OneShotInv'
    BY <1>0, OneShotStep DEF SandboxInv, OneShotInv
<1> QED
    BY <1>5, <1>6, <1>7, <1>8, <1>9, <1>10, <1>11 DEF SandboxInv

\* The event t becomes n, in which row m has the place of the partner's order p.
RewriteOf(t, m, n, p) ==
    /\ n \in Trade /\ n.qty = t.qty /\ n.price = t.price /\ n.seq = t.seq
    /\ p \in PartnerOrders /\ Involves(t, p)
    /\ \A o \in Orders : Involves(n, o) <=> o = m \/ (Involves(t, o) /\ o # p)
    /\ \A o \in PartnerOrders : Involves(t, o) => o = p
    /\ \/ p = t.buy /\ n.buy = m /\ n.sell = t.sell
       \/ p = t.sell /\ n.sell = m /\ n.buy = t.buy

\* The row and the event that persistMarketOrder makes.
LEMMA PersistFacts ==
    ASSUME SandboxInv, NEW t \in events, NEW m \in MarketRows, PersistMarketOrder(t, m)
    PROVE  /\ RewriteOf(t, m, Rewritten(t, m), PartnerOf(t))
           /\ MarketOrder(t) \in Attr /\ MarketOrder(t).qty = t.qty /\ MarketOrder(t).price = t.price
           /\ MarketOrder(t).side = attr[PartnerOf(t)].side
<1>1. /\ t \in Trade /\ t.buy \in Orders /\ t.sell \in Orders /\ t.price \in Nat /\ t.qty \in Nat
      /\ t.seq \in Nat /\ attr \in [Orders -> Attr]
    BY DEF SandboxInv, StateTypeOK, Trade
<1>2. isPartner(t.buy) # isPartner(t.sell)
    BY DEF PersistMarketOrder
<1>3. m \in Orders /\ m \notin PartnerOrders /\ PartnerOrders \subseteq Orders
    BY SandboxAssumption
<1>4. t = [buy |-> t.buy, sell |-> t.sell, price |-> t.price, qty |-> t.qty, seq |-> t.seq]
    BY <1>1 DEF Trade
<1>5. PartnerOf(t) \in PartnerOrders
    BY <1>2 DEF PartnerOf, isPartner
<1>6. /\ MarketOrder(t) \in Attr /\ MarketOrder(t).qty = t.qty /\ MarketOrder(t).price = t.price
      /\ MarketOrder(t).side = attr[PartnerOf(t)].side
    <2>1. attr[PartnerOf(t)].side \in Sides
        BY <1>1, <1>3, <1>5 DEF Attr
    <2> QED
        BY <1>1, <2>1 DEF MarketOrder, Attr
<1>7. CASE isPartner(t.buy)
    <2>1. PICK n : n = [t EXCEPT !.buy = m]
        OBVIOUS
    <2>2. n \in Trade /\ n.qty = t.qty /\ n.price = t.price /\ n.seq = t.seq /\ n.buy = m /\ n.sell = t.sell
        BY <1>1, <1>3, <2>1 DEF Trade
    <2>3. Rewritten(t, m) = n /\ PartnerOf(t) = t.buy /\ t.sell \notin PartnerOrders /\ t.buy \in PartnerOrders
        BY <1>2, <1>7, <2>1 DEF Rewritten, PartnerOf, isPartner
    <2>4. RewriteOf(t, m, n, t.buy)
        BY <2>2, <2>3 DEF RewriteOf, Involves
    <2> QED
        BY <1>6, <2>3, <2>4
<1>8. CASE ~isPartner(t.buy)
    <2>1. PICK n : n = [t EXCEPT !.sell = m]
        OBVIOUS
    <2>2. n \in Trade /\ n.qty = t.qty /\ n.price = t.price /\ n.seq = t.seq /\ n.sell = m /\ n.buy = t.buy
        BY <1>1, <1>3, <2>1 DEF Trade
    <2>3. Rewritten(t, m) = n /\ PartnerOf(t) = t.sell /\ t.buy \notin PartnerOrders /\ t.sell \in PartnerOrders
        BY <1>2, <1>8, <2>1 DEF Rewritten, PartnerOf, isPartner
    <2>4. RewriteOf(t, m, n, t.sell)
        BY <2>2, <2>3 DEF RewriteOf, Involves
    <2> QED
        BY <1>6, <2>3, <2>4
<1> QED
    BY <1>7, <1>8

\* A new row of the house adds its quantity to what is booked for its partner order.
LEMMA BookedAdd ==
    ASSUME StateTypeOK, NEW m \in MarketRows, standsFor[m] = None, NEW p \in PartnerOrders,
           standsFor' = [standsFor EXCEPT ![m] = p],
           NEW a, a.qty \in 1..MaxQty, attr' = [attr EXCEPT ![m] = a]
    PROVE  /\ Booked(p)' = Booked(p) + a.qty
           /\ \A o \in PartnerOrders : o # p => Booked(o)' = Booked(o)
<1>1. m \in Orders /\ MarketRows \subseteq Orders /\ None \notin PartnerOrders
    BY SandboxAssumption, NoneAssumption
<1>2. /\ standsFor'[m] = p /\ \A x \in MarketRows : x # m => standsFor'[x] = standsFor[x]
      /\ attr'[m] = a /\ \A x \in MarketRows : x # m => attr'[x] = attr[x]
    BY <1>1 DEF StateTypeOK
<1>3. \A o \in PartnerOrders : o # p => Booked(o)' = Booked(o)
    <2>1. ASSUME NEW o \in PartnerOrders, o # p
          PROVE  BookedUnits(o)' = BookedUnits(o)
        <3>1. RowsFor(o)' = RowsFor(o) /\ m \notin RowsFor(o)
            BY <1>1, <1>2, <2>1 DEF RowsFor
        <3>2. \A x \in RowsFor(o) : attr'[x] = attr[x]
            BY <1>2, <3>1 DEF RowsFor
        <3> QED
            BY <3>1, <3>2 DEF BookedUnits
    <2> QED
        BY <2>1 DEF Booked
<1> DEFINE T == {m} \X (1..a.qty)
<1>4. BookedUnits(p)' = BookedUnits(p) \cup T
    <2>1. RowsFor(p)' = RowsFor(p) \cup {m} /\ m \notin RowsFor(p)
        BY <1>1, <1>2 DEF RowsFor
    <2>2. 1..a.qty \subseteq 1..MaxQty /\ \A n \in 1..MaxQty : n <= a.qty <=> n \in 1..a.qty
        BY ExchangeBounds
    <2>3. \A x \in RowsFor(p) : attr'[x] = attr[x]
        BY <1>2, <2>1 DEF RowsFor
    <2>4. BookedUnits(p)' = {u \in (RowsFor(p) \cup {m}) \X (1..MaxQty) : u[2] <= attr'[u[1]].qty}
        BY <2>1 DEF BookedUnits
    <2>5. {u \in (RowsFor(p) \cup {m}) \X (1..MaxQty) : u[2] <= attr'[u[1]].qty}
             = {u \in RowsFor(p) \X (1..MaxQty) : u[2] <= attr'[u[1]].qty}
                 \cup {u \in {m} \X (1..MaxQty) : u[2] <= attr'[u[1]].qty}
        OBVIOUS
    <2>6. {u \in RowsFor(p) \X (1..MaxQty) : u[2] <= attr'[u[1]].qty} = BookedUnits(p)
        BY <2>3 DEF BookedUnits
    <2>7. {u \in {m} \X (1..MaxQty) : u[2] <= attr'[u[1]].qty} = T
        BY <1>2, <2>2
    <2> QED
        BY <2>4, <2>5, <2>6, <2>7
<1>5. BookedUnits(p) \cap T = {}
    BY <1>1 DEF BookedUnits, RowsFor
<1>6. IsFiniteSet(T) /\ Cardinality(T) = a.qty
    <2>1. IsFiniteSet(1..a.qty) /\ Cardinality(1..a.qty) = a.qty /\ a.qty \in Nat
        <3>1. PICK n \in 1..MaxQty : n = a.qty
            OBVIOUS
        <3>2. n \in Int /\ n >= 1 /\ n \in Nat
            BY ExchangeBounds
        <3>3. IsFiniteSet(1..n) /\ Cardinality(1..n) = n
            BY <3>2, FS_Interval
        <3> QED
            BY <3>1, <3>2, <3>3
    <2>2. IsFiniteSet({m}) /\ Cardinality({m}) = 1
        BY FS_Singleton
    <2> DEFINE A == {m}
               B == 1..a.qty
    <2>3. IsFiniteSet(A) /\ IsFiniteSet(B) /\ Cardinality(A) = 1 /\ Cardinality(B) = a.qty
        BY <2>1, <2>2
    <2>4. IsFiniteSet(A \X B) /\ Cardinality(A \X B) = Cardinality(A) * Cardinality(B)
        <3> HIDE DEF A, B
        <3> QED BY <2>3, FS_Product
    <2>5. T = A \X B
        OBVIOUS
    <2> HIDE DEF A, B, T
    <2> QED
        BY <2>1, <2>3, <2>4, <2>5
<1>7. IsFiniteSet(BookedUnits(p)) /\ Booked(p) \in Nat
    BY BookedNat
<1>8. Cardinality(BookedUnits(p) \cup T) = Booked(p) + a.qty
    <2> HIDE DEF T
    <2>1. Cardinality(BookedUnits(p) \cup T)
             = Cardinality(BookedUnits(p)) + Cardinality(T) - Cardinality(BookedUnits(p) \cap T)
        BY <1>6, <1>7, FS_Union
    <2>2. Cardinality(BookedUnits(p) \cap T) = 0
        BY <1>5, FS_EmptySet
    <2>3. a.qty \in Nat /\ Booked(p) = Cardinality(BookedUnits(p))
        BY ExchangeBounds DEF Booked
    <2> QED
        BY <1>6, <1>7, <2>1, <2>2, <2>3
<1>9. Booked(p)' = Cardinality(BookedUnits(p)')
    BY DEF Booked
<1> QED
    BY <1>3, <1>4, <1>8, <1>9

\* The transaction of persistMarketOrder moves a match from the partner's order to a
\* new row of the house.
LEMMA PersistSafe ==
    ASSUME SandboxInv, NEW t \in events, NEW m \in MarketRows, PersistMarketOrder(t, m)
    PROVE  SandboxInv'
<1>0. /\ UNCHANGED <<book, rem, incoming, fills, seq, filled, trades, submitting, chan, restarts>>
      /\ status[m] = "NEW" /\ status' = [status EXCEPT ![m] = "OPEN"]
      /\ attr' = [attr EXCEPT ![m] = MarketOrder(t)]
      /\ standsFor' = [standsFor EXCEPT ![m] = PartnerOf(t)]
      /\ events' = (events \ {t}) \cup {Rewritten(t, m)}
    BY DEF PersistMarketOrder, bookVars, requestVars
<1>1. StateTypeOK /\ RowsInv /\ QueueInv /\ EngineInv /\ SeqInv
    BY DEF SandboxInv
<1>2. PICK n, p, a : n = Rewritten(t, m) /\ p = PartnerOf(t) /\ a = MarketOrder(t)
    OBVIOUS
<1>3. /\ RewriteOf(t, m, n, p) /\ a \in Attr /\ a.qty = t.qty /\ a.price = t.price /\ a.side = attr[p].side
    BY <1>2, PersistFacts
<1>4. /\ n \in Trade /\ n.qty = t.qty /\ n.price = t.price /\ n.seq = t.seq
      /\ p \in PartnerOrders /\ Involves(t, p)
      /\ \A o \in Orders : Involves(n, o) <=> o = m \/ (Involves(t, o) /\ o # p)
      /\ \A o \in PartnerOrders : Involves(t, o) => o = p
      /\ \/ p = t.buy /\ n.buy = m /\ n.sell = t.sell
         \/ p = t.sell /\ n.sell = m /\ n.buy = t.buy
    BY <1>3 DEF RewriteOf
<1>5. m \in Orders /\ m \notin PartnerOrders /\ PartnerOrders \subseteq Orders /\ MarketRows \subseteq Orders
    BY SandboxAssumption
<1>6. /\ attr[m].qty = 0 /\ Unplaced(m) /\ filled[m] = 0 /\ m \notin submitting /\ ~PlaceQueued(m)
      /\ standsFor[m] = None /\ \A u \in trades : ~Involves(u, m)
    BY <1>0, <1>1, <1>5 DEF RowsInv
<1>7. \A u \in Matched : u.buy # m /\ u.sell # m /\ u.buy \in Orders /\ u.sell \in Orders
    BY <1>1, <1>6 DEF Unplaced, Matched, Involves, StateTypeOK
<1>8. t \in Matched /\ t \in Trade /\ t.qty \in 1..MaxQty /\ t.qty \in Nat \ {0} /\ t \notin fills
    BY <1>1, ExchangeBounds DEF Matched, StateTypeOK, SeqInv
<1>9. /\ attr' \in [Orders -> Attr] /\ attr'[m] = a /\ \A o \in Orders : o # m => attr'[o] = attr[o]
      /\ status' \in [Orders -> Statuses] /\ status'[m] = "OPEN"
      /\ \A o \in Orders : o # m => status'[o] = status[o]
    BY <1>0, <1>1, <1>2, <1>3, <1>5 DEF StateTypeOK, Statuses
<1>10. /\ standsFor' \in [MarketRows -> PartnerOrders \cup {None}]
       /\ standsFor'[m] = p /\ \A x \in MarketRows : x # m => standsFor'[x] = standsFor[x]
    BY <1>0, <1>1, <1>2, <1>4 DEF StateTypeOK
<1>11. /\ events' \cup fills' = ((events \cup fills) \ {t}) \cup {n}
       /\ events' = (events \ {t}) \cup {n}
       /\ Matched' \subseteq Matched \cup {n}
    BY <1>0, <1>2, <1>8 DEF Matched
<1>12. n \notin (events \cup fills) /\ \A u \in events \cup fills : u.seq = n.seq => u = t
    <2>1. Involves(n, m)
        BY <1>4, <1>5
    <2> QED
        BY <1>1, <1>4, <1>6, <2>1 DEF SeqInv, Unplaced
<1>13. \A o \in Orders : Unplaced(o) /\ o # m => Unplaced(o)'
    <2>1. \A o \in Orders : Unplaced(o) => o # p /\ ~Involves(t, o)
        BY <1>4 DEF Unplaced
    <2> QED
        BY <1>0, <1>4, <1>10, <1>11, <2>1 DEF Unplaced
<1>14. \A o \in Orders : ByHand(o)' <=> ByHand(o)
    BY <1>0 DEF ByHand
<1>15. StateTypeOK'
    <2>1. IsFiniteSet(events')
        <3>1. IsFiniteSet(events \ {t})
            BY <1>1, FS_RemoveElement DEF StateTypeOK
        <3> QED
            BY <1>11, <3>1, FS_AddElement
    <2>2. events' \subseteq Trade
        BY <1>1, <1>4, <1>11 DEF StateTypeOK
    <2>3. \A u \in Matched' : u.buy \in Orders /\ u.sell \in Orders /\ u.qty \in 1..MaxQty
        <3>1. n.buy \in Orders /\ n.sell \in Orders /\ n.qty \in 1..MaxQty
            BY <1>4, <1>8 DEF Trade
        <3> QED
            BY <1>1, <1>11, <3>1 DEF StateTypeOK
    <2>4. \A o \in Orders : attr'[o].qty <= MaxQty
        <3>1. a.qty <= MaxQty
            BY <1>3, <1>8, ExchangeBounds
        <3>2. \A o \in Orders : attr[o].qty <= MaxQty
            BY <1>1 DEF StateTypeOK
        <3> QED
            BY <1>9, <3>1, <3>2
    <2> QED
        BY <1>0, <1>1, <1>9, <1>10, <2>1, <2>2, <2>3, <2>4 DEF StateTypeOK
<1>16. \A o \in Orders : PlaceQueued(o)' <=> PlaceQueued(o)
    BY <1>0 DEF PlaceQueued
<1>17. QueueInv'
    <2>1. \A o \in Orders : Fresh(o) /\ (o \in submitting' \/ PlaceQueued(o)') => Fresh(o)'
        BY <1>0, <1>6, <1>13, <1>14, <1>16 DEF Fresh
    <2> QED
        BY <1>0, <1>1, <2>1, QueueStep
<1>18. RowsInv'
    <2>1. attr'[m].qty # 0
        BY <1>3, <1>8, <1>9
    <2>2. ASSUME NEW o \in Orders, attr'[o].qty = 0
          PROVE  /\ Unplaced(o)' /\ filled'[o] = 0 /\ o \notin submitting' /\ ~PlaceQueued(o)'
                 /\ \A u \in trades' : ~Involves(u, o)
                 /\ o \in MarketRows => standsFor'[o] = None
        <3>1. o # m /\ attr[o].qty = 0
            BY <1>9, <2>1, <2>2
        <3>2. /\ Unplaced(o) /\ filled[o] = 0 /\ o \notin submitting /\ ~PlaceQueued(o)
              /\ \A u \in trades : ~Involves(u, o)
              /\ o \in MarketRows => standsFor[o] = None
            BY <1>1, <3>1 DEF RowsInv
        <3> QED
            BY <1>0, <1>10, <1>13, <1>16, <3>1, <3>2
    <2>3. \A o \in Orders \ PartnerOrders : status'[o] = "NEW" <=> attr'[o].qty = 0
        BY <1>1, <1>9, <2>1 DEF RowsInv
    <2>4. \A o \in PartnerOrders : status'[o] = "NEW"
        BY <1>1, <1>5, <1>9 DEF RowsInv
    <2> QED
        BY <2>2, <2>3, <2>4 DEF RowsInv
<1>19. EngineInv'
    <2>1. \A o \in Orders : rem[o] <= attr'[o].qty
        BY <1>1, <1>3, <1>6, <1>8, <1>9 DEF EngineInv, Unplaced
    <2> QED
        BY <1>0, <1>1, <2>1 DEF EngineInv
<1>20. SeqInv'
    <2>1. events' \cap fills' = {}
        BY <1>0, <1>1, <1>11, <1>12 DEF SeqInv
    <2>2. \A u \in events' \cup fills' : u.seq <= seq'
        BY <1>0, <1>1, <1>4, <1>11 DEF SeqInv
    <2>3. \A u, v \in events' \cup fills' : u.seq = v.seq => u = v
        BY <1>1, <1>11, <1>12 DEF SeqInv
    <2> QED
        BY <2>1, <2>2, <2>3 DEF SeqInv
<1>21. \A u \in Matched : attr'[u.buy] = attr[u.buy] /\ attr'[u.sell] = attr[u.sell]
    BY <1>7, <1>9
<1>22. SidesInv'
    <2>1. attr[t.buy].side = BUY /\ attr[t.sell].side = SELL
        BY <1>8 DEF SandboxInv, SidesInv
    <2>2. attr'[n.buy].side = BUY /\ attr'[n.sell].side = SELL
        BY <1>3, <1>4, <1>8, <1>9, <1>21, <2>1
    <2> QED
        BY <1>11, <1>21, <2>2 DEF SandboxInv, SidesInv
<1>23. MatchesWithinLimits'
    <2>1. ASSUME n.seq \notin ManualKeys
          PROVE  attr'[n.sell].price <= n.price /\ n.price <= attr'[n.buy].price
        <3>1. attr[t.sell].price <= t.price /\ t.price <= attr[t.buy].price
            BY <1>4, <1>8, <2>1 DEF SandboxInv, MatchesWithinLimits, Matched
        <3>2. t.price \in Nat
            BY <1>8 DEF Trade
        <3> QED
            BY <1>3, <1>4, <1>8, <1>9, <1>21, <3>1, <3>2
    <2>2. trades' \cup events' \cup fills' \subseteq Matched \cup {n} /\ Matched = trades \cup events \cup fills
        BY <1>11 DEF Matched
    <2> QED
        BY <1>21, <2>1, <2>2 DEF SandboxInv, MatchesWithinLimits
<1>24. \A o \in Orders : /\ EngineHas(o)' \in Nat
                         /\ o = p => EngineHas(o)' + t.qty = EngineHas(o)
                         /\ o = m => EngineHas(o)' = t.qty
                         /\ o # p /\ o # m => EngineHas(o)' = EngineHas(o)
    <2>1. PICK U : U = (events \cup fills) \ {t}
        OBVIOUS
    <2>2. PICK W : W = U \cup {n}
        OBVIOUS
    <2>3. events' \cup fills' = W
        BY <1>11, <2>1, <2>2
    <2>4. ASSUME NEW o \in Orders
          PROVE  /\ EngineHas(o)' \in Nat
                 /\ o = p => EngineHas(o)' + t.qty = EngineHas(o)
                 /\ o = m => EngineHas(o)' = t.qty
                 /\ o # p /\ o # m => EngineHas(o)' = EngineHas(o)
        <3>1. rem[o] \in Nat /\ Volume(events \cup fills, o) \in Nat
            BY <1>1, Amounts
        <3>2. /\ IsFiniteSet(U) /\ Volume(U, o) \in Nat
              /\ Volume(events \cup fills, o) =
                     IF Involves(t, o) THEN Volume(U, o) + t.qty ELSE Volume(U, o)
            BY <1>1, <2>1, MatchLeaves
        <3>3. Volume(W, o) = IF Involves(n, o) THEN Volume(U, o) + t.qty ELSE Volume(U, o)
            <4>1. n \notin U /\ n.qty \in 1..MaxQty
                BY <1>4, <1>8, <1>12, <2>1
            <4> QED
                BY <1>4, <2>2, <3>2, <4>1, VolumeAdd
        <3>4. EngineHas(o)' = Volume(W, o) + rem[o]
            BY <1>0, <2>3 DEF EngineHas
        <3>5. EngineHas(o) = Volume(events \cup fills, o) + rem[o]
            BY DEF EngineHas
        <3>6. o = m => rem[o] = 0 /\ ~Involves(t, o)
            BY <1>6 DEF Unplaced
        <3>7. p # m /\ (o = p => ~Involves(n, o))
            BY <1>4, <1>5
        <3>8. CASE o = m
            <4>1. Involves(n, o) /\ ~Involves(t, o) /\ o # p
                BY <1>4, <3>6, <3>7, <3>8
            <4>2. Volume(events \cup fills, o) = 0
                BY <1>6, <3>8, VolumeNone DEF Unplaced
            <4> QED
                BY <1>8, <3>2, <3>3, <3>4, <3>6, <3>8, <4>1, <4>2
        <3>9. CASE o = p
            BY <1>4, <1>8, <3>1, <3>2, <3>3, <3>4, <3>5, <3>7, <3>9
        <3>10. CASE o # p /\ o # m
            <4>1. Involves(n, o) <=> Involves(t, o)
                BY <1>4, <3>10
            <4> QED
                BY <1>8, <3>1, <3>2, <3>3, <3>4, <3>5, <3>10, <4>1
        <3> QED
            BY <3>8, <3>9, <3>10
    <2> QED
        BY <2>4
<1>25. UserNumbers'
    <2>1. ASSUME NEW o \in UserOrders \cup MarketRows, ~ByHand(o)
          PROVE  filled[o] + EngineHas(o)' <= attr'[o].qty
        <3>1. o \in Orders /\ o # p
            BY <1>4, SandboxAssumption DEF UserOrders
        <3>2. CASE o = m
            BY <1>3, <1>6, <1>8, <1>9, <1>24, <3>1, <3>2
        <3>3. CASE o # m
            BY <1>9, <1>24, <2>1, <3>1, <3>3 DEF SandboxInv, UserNumbers
        <3> QED
            BY <3>2, <3>3
    <2>2. UserOrders \cup MarketRows \subseteq Orders
        BY SandboxAssumption DEF UserOrders
    <2> QED
        BY <1>0, <1>14, <2>1, <2>2 DEF UserNumbers
<1>26. HouseNumbers'
    <2>1. /\ Booked(p)' = Booked(p) + a.qty
          /\ \A o \in PartnerOrders : o # p => Booked(o)' = Booked(o)
        BY <1>0, <1>1, <1>2, <1>3, <1>4, <1>6, <1>8, BookedAdd
    <2>2. ASSUME NEW o \in PartnerOrders
          PROVE  Booked(o)' + EngineHas(o)' <= attr'[o].qty
        <3>1. /\ o \in Orders /\ o # m /\ attr'[o] = attr[o] /\ attr[o].qty \in Nat
              /\ Booked(o) \in Nat /\ EngineHas(o) \in Nat /\ EngineHas(o)' \in Nat
            BY <1>1, <1>5, <1>9, <1>24, Amounts, BookedNat
        <3>2. Booked(o) + EngineHas(o) <= attr[o].qty
            BY DEF SandboxInv, HouseNumbers
        <3>3. CASE o = p
            BY <1>3, <1>8, <1>24, <2>1, <3>1, <3>2, <3>3
        <3>4. CASE o # p
            BY <1>24, <2>1, <3>1, <3>2, <3>4
        <3> QED
            BY <3>3, <3>4
    <2> QED
        BY <2>2 DEF HouseNumbers
<1>27. OneShotInv'
    <2> SUFFICES ASSUME restarts = 0, NEW x \in MarketRows
                 PROVE  (/\ x \notin book /\ x # incoming /\ \A u \in fills : ~Involves(u, x)
                         /\ ~ByHand(x) => filled[x] \in {0, attr[x].qty}
                         /\ \A u \in events : Involves(u, x) =>
                                /\ u.qty = attr[x].qty
                                /\ ~ByHand(x) => filled[x] = 0
                                /\ \A v \in trades : Involves(v, x) => ~ByEngine(v)
                                /\ \A v \in events : Involves(v, x) => v = u
                         /\ \A u, v \in trades :
                                Involves(u, x) /\ Involves(v, x) /\ ByEngine(u) /\ ByEngine(v) => u = v)'
        BY <1>0 DEF OneShotInv
    <2>1. /\ x \notin book /\ x # incoming /\ \A u \in fills : ~Involves(u, x)
          /\ ~ByHand(x) => filled[x] \in {0, attr[x].qty}
          /\ \A u \in events : Involves(u, x) =>
                /\ u.qty = attr[x].qty
                /\ ~ByHand(x) => filled[x] = 0
                /\ \A v \in trades : Involves(v, x) => ~ByEngine(v)
                /\ \A v \in events : Involves(v, x) => v = u
          /\ \A u, v \in trades :
                Involves(u, x) /\ Involves(v, x) /\ ByEngine(u) /\ ByEngine(v) => u = v
        BY DEF SandboxInv, OneShotInv
    <2>2. x \in Orders /\ x # p /\ (ByHand(x)' <=> ByHand(x))
        BY <1>4, <1>5, <1>14, SandboxAssumption
    <2>3. CASE x = m
        <3>1. /\ \A u \in events' : Involves(u, x) => u = n
              /\ n.qty = attr'[x].qty /\ filled'[x] = 0 /\ \A v \in trades' : ~Involves(v, x)
            BY <1>0, <1>3, <1>4, <1>6, <1>9, <1>11, <2>3 DEF Unplaced
        <3> QED
            BY <1>0, <2>1, <2>2, <2>3, <3>1
    <2>4. CASE x # m
        <3>1. attr'[x] = attr[x] /\ (Involves(n, x) <=> Involves(t, x))
            BY <1>4, <1>9, <2>2, <2>4
        <3>2. ASSUME NEW u \in events', Involves(u, x)
              PROVE  /\ u.qty = attr[x].qty
                     /\ ~ByHand(x) => filled[x] = 0
                     /\ \A v \in trades : Involves(v, x) => ~ByEngine(v)
                     /\ \A v \in events' : Involves(v, x) => v = u
            <4>1. CASE Involves(t, x)
                <5>1. \A v \in events' : Involves(v, x) => v = n
                    BY <1>11, <2>1, <4>1
                <5> QED
                    BY <1>4, <2>1, <3>2, <4>1, <5>1
            <4>2. CASE ~Involves(t, x)
                <5>1. \A v \in events' : Involves(v, x) => v \in events
                    BY <1>11, <3>1, <4>2
                <5> QED
                    BY <2>1, <3>2, <5>1
            <4> QED
                BY <4>1, <4>2
        <3> QED
            BY <1>0, <2>1, <2>2, <3>1, <3>2
    <2> QED
        BY <2>3, <2>4
<1> QED
    BY <1>15, <1>17, <1>18, <1>19, <1>20, <1>22, <1>23, <1>25, <1>26, <1>27 DEF SandboxInv

\* What ExecuteTrade does to the rows of a trade's two orders and to all others.
LEMMA ExecuteFacts ==
    ASSUME SandboxInv, NEW t, t.buy \in Orders, t.sell \in Orders, t.qty \in 1..MaxQty, ExecuteTrade(t)
    PROVE  /\ filled' \in [Orders -> Nat] /\ status' \in [Orders -> Statuses]
           /\ \A o \in Orders : Involves(t, o) =>
                 filled'[o] = filled[o] + t.qty /\ attr[o].qty # 0 /\ o \notin PartnerOrders
           /\ \A o \in Orders : ~Involves(t, o) => filled'[o] = filled[o]
           /\ \A o \in Orders : status'[o] = "NEW" <=> status[o] = "NEW"
           /\ attr[t.buy].side = BUY /\ attr[t.sell].side = SELL /\ trades' = trades \cup {t}
<1>1. /\ filled \in [Orders -> Nat] /\ status \in [Orders -> Statuses] /\ RowsInv
    BY DEF SandboxInv, StateTypeOK
<1>2. /\ filled' = [filled EXCEPT ![t.buy] = @ + t.qty, ![t.sell] = @ + t.qty]
      /\ status' = [status EXCEPT ![t.buy] = StatusAfter(t.buy, t.qty),
                                  ![t.sell] = StatusAfter(t.sell, t.qty)]
      /\ status[t.buy] # "NEW" /\ status[t.sell] # "NEW" /\ trades' = trades \cup {t}
      /\ attr[t.buy].side = BUY /\ attr[t.sell].side = SELL
    BY DEF ExecuteTrade, CanExecute
<1>3. t.buy # t.sell /\ t.qty \in Nat
    BY <1>2, ExchangeBounds DEF BUY, SELL
<1>4. filled' \in [Orders -> Nat]
    BY <1>1, <1>2, <1>3
<1>5. \A o \in Orders : Involves(t, o) => filled'[o] = filled[o] + t.qty
    BY <1>1, <1>2, <1>3 DEF Involves
<1>6. \A o \in Orders : ~Involves(t, o) => filled'[o] = filled[o]
    BY <1>1, <1>2, <1>3 DEF Involves
<1>7. \A o \in Orders : Involves(t, o) => attr[o].qty # 0 /\ o \notin PartnerOrders
    BY <1>1, <1>2 DEF Involves, RowsInv
<1>8. \A o \in {t.buy, t.sell} : StatusAfter(o, t.qty) \in Statuses /\ StatusAfter(o, t.qty) # "NEW"
    BY <1>1, <1>2 DEF StatusAfter, Statuses
<1>9. status' \in [Orders -> Statuses] /\ \A o \in Orders : status'[o] = "NEW" <=> status[o] = "NEW"
    BY <1>1, <1>2, <1>8
<1> QED
    BY <1>2, <1>4, <1>5, <1>6, <1>7, <1>9

\* A trade is executed for an event, or for a caller of POST /trades.
Executes(t) ==
    \/ t \in events /\ events' = events \ {t}
    \/ t.seq \in ManualKeys /\ events' = events

\* A trade, of the engine or by hand, whose rows exist; the engine does not notice.
LEMMA ExecuteRest ==
    ASSUME SandboxInv, NEW t, t.buy \in Orders, t.sell \in Orders, t.qty \in 1..MaxQty,
           ExecuteTrade(t), Executes(t),
           UNCHANGED <<attr, book, rem, incoming, fills, seq, submitting, chan, restarts, standsFor>>
    PROVE  /\ StateTypeOK' /\ RowsInv' /\ QueueInv' /\ EngineInv' /\ SeqInv' /\ SidesInv'
           /\ MatchesWithinLimits' /\ OneShotInv'
<1>1. StateTypeOK /\ RowsInv /\ QueueInv /\ EngineInv /\ SeqInv /\ MarketRows \subseteq Orders
    BY SandboxAssumption DEF SandboxInv
<1>2. /\ filled' \in [Orders -> Nat] /\ status' \in [Orders -> Statuses]
      /\ \A o \in Orders : Involves(t, o) =>
            filled'[o] = filled[o] + t.qty /\ attr[o].qty # 0 /\ o \notin PartnerOrders
      /\ \A o \in Orders : ~Involves(t, o) => filled'[o] = filled[o]
      /\ \A o \in Orders : status'[o] = "NEW" <=> status[o] = "NEW"
      /\ attr[t.buy].side = BUY /\ attr[t.sell].side = SELL /\ trades' = trades \cup {t}
    BY ExecuteFacts
<1>3. events' \subseteq events
    BY DEF Executes
<1>4. Matched' \subseteq Matched \cup {t}
    BY <1>2, <1>3 DEF Matched
<1>5. \A o \in Orders : ByHand(o) => ByHand(o)'
    BY <1>2 DEF ByHand
<1>6. \A o \in Orders : Unplaced(o) => Unplaced(o)'
    BY <1>3 DEF Unplaced
<1>7. \A o \in Orders : Fresh(o) => Fresh(o)'
    <2> SUFFICES ASSUME NEW o \in Orders, Fresh(o), ~ByHand(o)' PROVE filled'[o] = 0
        BY <1>6 DEF Fresh
    <2>1. filled[o] = 0 /\ Unplaced(o)
        BY <1>5 DEF Fresh
    <2>2. ~Involves(t, o)
        BY <1>2, <2>1 DEF Executes, Unplaced, ByHand
    <2> QED
        BY <1>2, <2>1, <2>2
<1>8. StateTypeOK'
    <2>1. IsFiniteSet(events')
        BY <1>1, <1>3, FS_Subset DEF StateTypeOK
    <2>2. \A u \in Matched' : u.buy \in Orders /\ u.sell \in Orders /\ u.qty \in 1..MaxQty
        BY <1>1, <1>4 DEF StateTypeOK
    <2> QED
        BY <1>1, <1>2, <1>3, <2>1, <2>2 DEF StateTypeOK
<1>9. QueueInv' /\ \A o \in Orders : PlaceQueued(o)' => PlaceQueued(o)
    BY <1>1, <1>7, QueueStep
<1>10. RowsInv'
    <2>1. ASSUME NEW o \in Orders, attr[o].qty = 0
          PROVE  /\ Unplaced(o)' /\ filled'[o] = 0 /\ o \notin submitting' /\ ~PlaceQueued(o)'
                 /\ \A u \in trades' : ~Involves(u, o)
                 /\ o \in MarketRows => standsFor'[o] = None
        BY <1>1, <1>2, <1>6, <1>9, <2>1 DEF RowsInv
    <2>2. PartnerOrders \subseteq Orders
        BY SandboxAssumption
    <2> QED
        BY <1>1, <1>2, <2>1, <2>2 DEF RowsInv
<1>11. EngineInv' /\ SeqInv'
    BY <1>1, <1>3 DEF EngineInv, SeqInv
<1>12. SidesInv'
    BY <1>2, <1>4 DEF SandboxInv, SidesInv
<1>13. MatchesWithinLimits'
    <2>1. trades' \cup events' \cup fills' \subseteq (trades \cup events \cup fills) \cup {t}
        BY <1>2, <1>3
    <2>2. t \in trades \cup events \cup fills \/ t.seq \in ManualKeys
        BY DEF Executes
    <2> QED
        BY <2>1, <2>2 DEF SandboxInv, MatchesWithinLimits
<1>14. OneShotInv'
    <2> SUFFICES ASSUME restarts = 0, NEW m \in MarketRows
                 PROVE  (/\ m \notin book /\ m # incoming /\ \A u \in fills : ~Involves(u, m)
                         /\ ~ByHand(m) => filled[m] \in {0, attr[m].qty}
                         /\ \A u \in events : Involves(u, m) =>
                                /\ u.qty = attr[m].qty
                                /\ ~ByHand(m) => filled[m] = 0
                                /\ \A v \in trades : Involves(v, m) => ~ByEngine(v)
                                /\ \A v \in events : Involves(v, m) => v = u
                         /\ \A u, v \in trades :
                                Involves(u, m) /\ Involves(v, m) /\ ByEngine(u) /\ ByEngine(v) => u = v)'
        BY DEF OneShotInv
    <2>1. /\ m \notin book /\ m # incoming /\ \A u \in fills : ~Involves(u, m)
          /\ ~ByHand(m) => filled[m] \in {0, attr[m].qty}
          /\ \A u \in events : Involves(u, m) =>
                /\ u.qty = attr[m].qty
                /\ ~ByHand(m) => filled[m] = 0
                /\ \A v \in trades : Involves(v, m) => ~ByEngine(v)
                /\ \A v \in events : Involves(v, m) => v = u
          /\ \A u, v \in trades :
                Involves(u, m) /\ Involves(v, m) /\ ByEngine(u) /\ ByEngine(v) => u = v
        BY DEF SandboxInv, OneShotInv
    <2>2. m \in Orders /\ (ByHand(m) => ByHand(m)')
        BY <1>1, <1>5
    <2>3. CASE ~Involves(t, m)
        <3>1. /\ filled'[m] = filled[m] /\ \A u \in trades' : Involves(u, m) => u \in trades
            BY <1>2, <2>2, <2>3
        <3> QED
            BY <1>3, <2>1, <2>2, <3>1
    <2>4. CASE Involves(t, m) /\ t.seq \in ManualKeys
        <3>1. ByHand(m)' /\ ~ByEngine(t)
            BY <1>2, <2>4 DEF ByHand, ByEngine
        <3>2. \A u \in trades' : Involves(u, m) /\ ByEngine(u) => u \in trades
            BY <1>2, <3>1
        <3> QED
            BY <1>3, <2>1, <3>1, <3>2
    <2>5. CASE Involves(t, m) /\ t \in events /\ events' = events \ {t}
        <3>1. \A u \in events' : ~Involves(u, m)
            BY <2>1, <2>5
        <3>2. ~ByHand(m)' => filled'[m] = attr[m].qty
            <4>1. ~ByHand(m)' => filled[m] = 0
                BY <2>1, <2>2, <2>5
            <4>2. t.qty = attr[m].qty /\ t.qty \in Nat /\ filled'[m] = filled[m] + t.qty
                BY <1>2, <2>1, <2>2, <2>5, ExchangeBounds
            <4> QED
                BY <4>1, <4>2
        <3>3. \A u \in trades' : Involves(u, m) /\ ByEngine(u) => u = t
            BY <1>2, <2>1, <2>5
        <3> QED
            BY <2>1, <3>1, <3>2, <3>3
    <2> QED
        BY <2>3, <2>4, <2>5 DEF Executes
<1> QED
    BY <1>8, <1>9, <1>10, <1>11, <1>12, <1>13, <1>14

\* A settlement moves its quantity from the engine's side to the rows.
LEMMA SettleSafe ==
    ASSUME SandboxInv, NEW t \in events, SettleMatch(t)
    PROVE  SandboxInv'
<1>0. /\ UNCHANGED <<attr, book, rem, incoming, fills, seq, submitting, chan, restarts, standsFor>>
      /\ events' = events \ {t} /\ ExecuteTrade(t)
    BY DEF SettleMatch, Settle, bookVars, requestVars
<1>1. StateTypeOK /\ SeqInv
    BY DEF SandboxInv
<1>2. t.buy \in Orders /\ t.sell \in Orders /\ t.qty \in 1..MaxQty /\ t.qty \in Nat /\ t \notin fills
    BY <1>1, ExchangeBounds DEF StateTypeOK, Matched, SeqInv
<1>3. /\ \A o \in Orders : Involves(t, o) => filled'[o] = filled[o] + t.qty
      /\ \A o \in Orders : ~Involves(t, o) => filled'[o] = filled[o]
      /\ trades' = trades \cup {t}
    BY <1>0, <1>2, ExecuteFacts
<1>4. /\ StateTypeOK' /\ RowsInv' /\ QueueInv' /\ EngineInv' /\ SeqInv' /\ SidesInv'
      /\ MatchesWithinLimits' /\ OneShotInv'
    BY <1>0, <1>2, ExecuteRest DEF Executes
<1>5. PICK U : U = (events \cup fills) \ {t}
    OBVIOUS
<1>6. events' \cup fills' = U
    BY <1>0, <1>2, <1>5
<1>7. ASSUME NEW o \in Orders
      PROVE  /\ EngineHas(o)' \in Nat /\ EngineHas(o)' <= EngineHas(o)
             /\ filled'[o] + EngineHas(o)' = filled[o] + EngineHas(o)
    <2>1. rem[o] \in Nat /\ filled[o] \in Nat
        BY <1>1, Amounts
    <2>2. /\ Volume(U, o) \in Nat
          /\ Volume(events \cup fills, o) =
                 IF Involves(t, o) THEN Volume(U, o) + t.qty ELSE Volume(U, o)
        BY <1>1, <1>5, MatchLeaves
    <2>3. EngineHas(o)' = Volume(U, o) + rem[o] /\ EngineHas(o) = Volume(events \cup fills, o) + rem[o]
        BY <1>0, <1>6 DEF EngineHas
    <2>4. filled'[o] = IF Involves(t, o) THEN filled[o] + t.qty ELSE filled[o]
        BY <1>3
    <2> QED
        BY <1>2, <2>1, <2>2, <2>3, <2>4
<1>8. HouseNumbers'
    BY <1>0, <1>1, <1>7, HouseStep DEF SandboxInv
<1>9. UserNumbers'
    <2>1. ASSUME NEW o \in UserOrders \cup MarketRows, ~ByHand(o)'
          PROVE  filled'[o] + EngineHas(o)' <= attr'[o].qty
        <3>1. o \in Orders
            BY SandboxAssumption DEF UserOrders
        <3>2. ~ByHand(o)
            BY <1>3, <2>1 DEF ByHand
        <3>3. filled[o] + EngineHas(o) <= attr[o].qty
            BY <3>2 DEF SandboxInv, UserNumbers
        <3> QED
            BY <1>0, <1>7, <3>1, <3>3
    <2> QED
        BY <2>1 DEF UserNumbers
<1> QED
    BY <1>4, <1>8, <1>9 DEF SandboxInv

\* A manual trade takes its two orders out of what the engine can vouch for.
LEMMA ManualTradeSafe ==
    ASSUME SandboxInv, NEW t \in ManualRequest, ManualTrade(t), UNCHANGED <<quoted, standsFor>>
    PROVE  SandboxInv'
<1>0. /\ UNCHANGED <<attr, book, rem, incoming, fills, seq, submitting, chan, restarts, standsFor, events>>
      /\ ExecuteTrade(t)
    BY DEF ManualTrade, bookVars, requestVars
<1>1. StateTypeOK
    BY DEF SandboxInv
<1>2. t.buy \in Orders /\ t.sell \in Orders /\ t.qty \in 1..MaxQty /\ t.seq \in ManualKeys
    BY DEF ManualRequest
<1>3. /\ \A o \in Orders : ~Involves(t, o) => filled'[o] = filled[o]
      /\ trades' = trades \cup {t}
    BY <1>0, <1>2, ExecuteFacts
<1>4. /\ StateTypeOK' /\ RowsInv' /\ QueueInv' /\ EngineInv' /\ SeqInv' /\ SidesInv'
      /\ MatchesWithinLimits' /\ OneShotInv'
    BY <1>0, <1>2, ExecuteRest DEF Executes
<1>5. \A o \in Orders : EngineHas(o)' = EngineHas(o)
    BY <1>0 DEF EngineHas
<1>6. HouseNumbers'
    <2>1. \A o \in Orders : EngineHas(o) \in Nat
        BY <1>1, Amounts
    <2>2. \A o \in Orders : EngineHas(o)' \in Nat /\ EngineHas(o)' <= EngineHas(o)
        BY <1>5, <2>1
    <2> QED
        BY <1>0, <1>1, <2>2, HouseStep DEF SandboxInv
<1>7. UserNumbers'
    <2>1. ASSUME NEW o \in UserOrders \cup MarketRows, ~ByHand(o)'
          PROVE  filled'[o] + EngineHas(o)' <= attr'[o].qty
        <3>1. o \in Orders
            BY SandboxAssumption DEF UserOrders
        <3>2. ~ByHand(o) /\ ~Involves(t, o)
            BY <1>2, <1>3, <2>1 DEF ByHand
        <3>3. filled[o] + EngineHas(o) <= attr[o].qty
            BY <3>2 DEF SandboxInv, UserNumbers
        <3> QED
            BY <1>0, <1>3, <1>5, <3>1, <3>2, <3>3
    <2> QED
        BY <2>1 DEF UserNumbers
<1> QED
    BY <1>4, <1>6, <1>7 DEF SandboxInv

-----------------------------------------------------------------------------
(* The process *)

\* A new process loads what the rows leave to fill; the bot's orders are gone.
LEMMA SandboxRestartSafe ==
    ASSUME SandboxInv, SandboxRestart
    PROVE  SandboxInv'
<1>0. /\ UNCHANGED <<attr, status, filled, trades, standsFor>>
      /\ book' = Rehydrated /\ incoming' = None /\ fills' = {} /\ seq' = 0
      /\ submitting' = {} /\ chan' = <<>> /\ events' = {} /\ restarts' = restarts + 1
      /\ rem' = [o \in Orders |-> IF o \in Rehydrated THEN Remaining(o) ELSE 0]
    BY DEF SandboxRestart, Restart, dbVars
<1>1. StateTypeOK /\ RowsInv /\ SidesInv /\ MatchesWithinLimits
    BY DEF SandboxInv
<1>2. \A o \in Orders : attr[o].qty \in Nat /\ filled[o] \in Nat /\ EngineHas(o) \in Nat
    BY <1>1, Amounts
<1>3. \A o \in Orders : /\ o \in Rehydrated => rem'[o] = attr[o].qty - filled[o] /\ rem'[o] > 0
                        /\ o \notin Rehydrated => rem'[o] = 0
    BY <1>0 DEF Rehydrated, Remaining
<1>4. \A o \in Orders : rem'[o] \in Nat /\ rem'[o] <= attr[o].qty
    BY <1>2, <1>3
<1>5. /\ Rehydrated \subseteq Orders
      /\ \A o \in Rehydrated : status[o] # "NEW" /\ o \notin PartnerOrders
    BY <1>1 DEF Rehydrated, IsCancellable, RowsInv
<1>6. Matched' \subseteq Matched /\ events' \cup fills' = {}
    BY <1>0 DEF Matched
<1>7. StateTypeOK'
    <2>1. rem' \in [Orders -> Nat]
        BY <1>0, <1>4
    <2>2. restarts' \in Nat
        BY <1>0, <1>1 DEF StateTypeOK
    <2>3. IsFiniteSet(events') /\ IsFiniteSet(fills')
        BY <1>0, FS_EmptySet
    <2>4. chan' \in Seq(Command)
        BY <1>0
    <2> QED
        BY <1>0, <1>1, <1>5, <1>6, <2>1, <2>2, <2>3, <2>4 DEF StateTypeOK
<1>8. DOMAIN chan' = {}
    BY <1>0
<1>9. QueueInv'
    BY <1>0, <1>8 DEF QueueInv, PlaceQueued
<1>10. RowsInv'
    <2>1. ASSUME NEW o \in Orders, attr[o].qty = 0
          PROVE  Unplaced(o)' /\ ~PlaceQueued(o)'
        <3>1. o \notin Rehydrated
            BY <1>2, <1>3, <2>1
        <3>2. \A m \in MarketRows : standsFor[m] # o
            BY <1>1, <2>1 DEF RowsInv, Unplaced
        <3> QED
            BY <1>0, <1>3, <1>6, <1>8, <3>1, <3>2, NoneAssumption DEF Unplaced, PlaceQueued
    <2> QED
        BY <1>0, <1>1, <2>1, RowsStep
<1>11. EngineInv' /\ SeqInv'
    <2>1. EngineInv'
        BY <1>0, <1>3, <1>4, <1>5, NoneAssumption DEF EngineInv
    <2> QED
        BY <1>6, <2>1 DEF SeqInv
<1>12. SidesInv' /\ MatchesWithinLimits'
    BY <1>0, <1>1, <1>6, TradesStep
<1>13. \A o \in Orders : EngineHas(o)' = rem'[o]
    <2>1. \A o \in Orders : Volume({}, o) = 0
        BY VolumeNone
    <2>2. ASSUME NEW o \in Orders
          PROVE  EngineHas(o)' = rem'[o]
        <3>1. EngineHas(o)' = Volume(events' \cup fills', o) + rem'[o]
            BY DEF EngineHas
        <3>2. Volume(events' \cup fills', o) = 0 /\ rem'[o] \in Nat
            BY <1>4, <1>6, <2>1
        <3> QED
            BY <3>1, <3>2
    <2> QED
        BY <2>2
<1>14. UserNumbers'
    <2>1. ASSUME NEW o \in UserOrders \cup MarketRows, ~ByHand(o)'
          PROVE  filled'[o] + EngineHas(o)' <= attr'[o].qty
        <3>1. o \in Orders /\ ~ByHand(o)
            BY <1>0, <2>1, SandboxAssumption DEF UserOrders, ByHand
        <3>2. filled[o] + EngineHas(o) <= attr[o].qty
            BY <3>1 DEF SandboxInv, UserNumbers
        <3> QED
            BY <1>0, <1>2, <1>3, <1>13, <3>1, <3>2
    <2> QED
        BY <2>1 DEF UserNumbers
<1>15. HouseNumbers'
    <2>2. ASSUME NEW p \in PartnerOrders
          PROVE  Booked(p)' + EngineHas(p)' <= attr'[p].qty
        <3>1. p \in Orders /\ p \notin Rehydrated
            BY <1>5, SandboxAssumption
        <3>2. EngineHas(p)' = 0 /\ Booked(p)' = Booked(p)
            BY <1>0, <1>3, <1>13, <3>1 DEF Booked, BookedUnits, RowsFor
        <3>3. Booked(p) + EngineHas(p) <= attr[p].qty /\ Booked(p) \in Nat
            BY <1>1, BookedNat DEF SandboxInv, HouseNumbers
        <3> QED
            BY <1>0, <1>2, <3>1, <3>2, <3>3
    <2> QED
        BY <2>2 DEF HouseNumbers
<1>16. OneShotInv'
    <2>1. restarts' # 0
        BY <1>0, <1>1 DEF StateTypeOK
    <2> QED
        BY <2>1 DEF OneShotInv
<1> QED
    BY <1>7, <1>9, <1>10, <1>11, <1>12, <1>14, <1>15, <1>16 DEF SandboxInv

-----------------------------------------------------------------------------
(* The invariant and what follows from it *)

\* Nothing is placed, matched or booked when the first process starts.
LEMMA SandboxInitInv == SandboxInit => SandboxInv
<1> SUFFICES ASSUME SandboxInit PROVE SandboxInv
    OBVIOUS
<1>0. /\ book = {} /\ rem = [o \in Orders |-> 0] /\ incoming = None /\ fills = {} /\ seq = 0
      /\ attr = [o \in Orders |-> NoAttr] /\ status = [o \in Orders |-> "NEW"]
      /\ filled = [o \in Orders |-> 0]
      /\ trades = {} /\ submitting = {} /\ chan = <<>> /\ events = {} /\ restarts = 0
      /\ standsFor = [m \in MarketRows |-> None]
    BY DEF SandboxInit, Init, BookInit
<1>1. Matched = {} /\ events \cup fills = {} /\ DOMAIN chan = {}
    BY <1>0 DEF Matched
<1>2. \A o \in Orders : attr[o].qty = 0 /\ attr[o] \in Attr
    BY <1>0 DEF NoAttr, Attr, Sides
<1>3. StateTypeOK
    <2>1. IsFiniteSet(fills) /\ IsFiniteSet(events)
        BY <1>0, FS_EmptySet
    <2>2. attr \in [Orders -> Attr] /\ \A o \in Orders : attr[o].qty <= MaxQty
        BY <1>0, <1>2, ExchangeBounds
    <2>3. chan \in Seq(Command)
        BY <1>0
    <2> QED
        BY <1>0, <1>1, <2>1, <2>2, <2>3 DEF StateTypeOK, Statuses
<1>4. \A o \in Orders : Unplaced(o) /\ ~PlaceQueued(o)
    BY <1>0, <1>1, NoneAssumption DEF Unplaced, PlaceQueued
<1>5. RowsInv
    <2>1. PartnerOrders \subseteq Orders
        BY SandboxAssumption
    <2> QED
        BY <1>0, <1>2, <1>4, <2>1 DEF RowsInv
<1>6. QueueInv
    BY <1>0, <1>1, <1>4 DEF QueueInv
<1>7. EngineInv /\ SeqInv /\ SidesInv /\ MatchesWithinLimits
    BY <1>0, <1>1, <1>2 DEF EngineInv, SeqInv, SidesInv, MatchesWithinLimits
<1>8. \A o \in Orders : EngineHas(o) = 0
    <2>1. \A o \in Orders : Volume(events \cup fills, o) = 0
        BY <1>1, VolumeNone
    <2> QED
        BY <1>0, <2>1 DEF EngineHas
<1>9. UserNumbers
    BY <1>0, <1>2, <1>8, SandboxAssumption DEF UserNumbers, UserOrders
<1>10. HouseNumbers
    <2>1. \A p \in PartnerOrders : Booked(p) = 0
        BY <1>0, BookedNone, SandboxAssumption, NoneAssumption
    <2> QED
        BY <1>2, <1>8, <2>1, SandboxAssumption DEF HouseNumbers
<1>11. OneShotInv
    BY <1>0, SandboxAssumption, NoneAssumption DEF OneShotInv
<1> QED
    BY <1>3, <1>5, <1>6, <1>7, <1>9, <1>10, <1>11 DEF SandboxInv

\* Every step of the sandbox, and stuttering, preserves the invariant.
LEMMA SandboxNextInv == SandboxInv /\ [SandboxNext]_sandboxVars => SandboxInv'
<1> SUFFICES ASSUME SandboxInv, [SandboxNext]_sandboxVars PROVE SandboxInv'
    OBVIOUS
<1>1. CASE \E o \in UserOrders : User(o)
    <2>1. PICK o \in UserOrders : User(o)
        BY <1>1
    <2>2. o \in Orders /\ UNCHANGED <<quoted, standsFor>>
        BY <2>1 DEF User, UserOrders
    <2>3. CASE \E a \in Request : PlaceOrder(o, a)
        BY <2>2, <2>3, PlaceOrderSafe
    <2>4. CASE SubmitPlace(o) \/ SubmitCancel(o)
        BY <2>2, <2>4, SubmissionsSafe
    <2>5. CASE CancelOrder(o)
        BY <2>2, <2>5, CancelOrderSafe
    <2> QED
        BY <2>1, <2>3, <2>4, <2>5 DEF User
<1>2. CASE \E o \in PartnerOrders : PartnerCancels(o) \/ \E a \in Levels[o] : PartnerPlaces(o, a)
    BY <1>2, PartnerPlacesSafe, SubmissionsSafe, SandboxAssumption
<1>3. CASE EngineStep
    BY <1>3, HandlePlaceSafe, HandleCancelSafe, MatchStepSafe, PublishSafe DEF EngineStep, Worker
<1>4. CASE \E t \in events : OnTradeMatched(t)
    BY <1>4, EventGone, SettleSafe, PersistSafe DEF OnTradeMatched
<1>5. CASE Trader
    BY <1>5, ManualTradeSafe DEF Trader
<1>6. CASE SandboxRestart
    BY <1>6, SandboxRestartSafe
<1>7. CASE UNCHANGED sandboxVars
    <2>1. /\ UNCHANGED <<attr, book, rem, incoming, fills, events, seq, trades, filled, standsFor, restarts>>
          /\ UNCHANGED <<status, submitting, chan>>
        BY <1>7 DEF sandboxVars, vars, bookVars, dbVars, requestVars
    <2>2. /\ EngineInv' /\ SeqInv' /\ SidesInv' /\ MatchesWithinLimits'
          /\ UserNumbers' /\ HouseNumbers' /\ OneShotInv'
          /\ \A o \in Orders : (Unplaced(o)' <=> Unplaced(o)) /\ (Fresh(o)' <=> Fresh(o))
        BY <2>1, SameEngine
    <2>3. StateTypeOK'
        <3>1. Matched' = Matched
            BY <2>1 DEF Matched
        <3> QED
            BY <2>1, <3>1 DEF SandboxInv, StateTypeOK
    <2>4. QueueInv' /\ \A o \in Orders : PlaceQueued(o)' => PlaceQueued(o)
        BY <2>1, <2>2, QueueStep DEF SandboxInv
    <2>5. RowsInv'
        <3>1. \A o \in Orders : attr[o].qty = 0 => Unplaced(o)' /\ ~PlaceQueued(o)'
            BY <2>2, <2>4 DEF SandboxInv, RowsInv
        <3> QED
            BY <2>1, <3>1, RowsStep DEF SandboxInv
    <2> QED
        BY <2>2, <2>3, <2>4, <2>5 DEF SandboxInv
<1> QED
    BY <1>1, <1>2, <1>3, <1>4, <1>5, <1>6, <1>7 DEF SandboxNext

\* The inductive invariant holds in every reachable state.
THEOREM SandboxInvariantHolds == SandboxSpec => []SandboxInv
<1>1. SandboxInit => SandboxInv
    BY SandboxInitInv
<1>2. SandboxInv /\ [SandboxNext]_sandboxVars => SandboxInv'
    BY SandboxNextInv
<1> QED
    BY <1>1, <1>2, PTL DEF SandboxSpec

\* A match, the house's included, is always within the limits of both of its orders.
THEOREM MatchesStayWithinLimits == SandboxSpec => []MatchesWithinLimits
<1>1. SandboxInv => MatchesWithinLimits
    BY DEF SandboxInv
<1> QED
    BY <1>1, SandboxInvariantHolds, PTL

\* An order or a row of the house that no manual trade has touched is never given
\* more than its quantity, although ExecuteTrade does not compare quantities.
THEOREM OnlyManualTradesOverfill == SandboxSpec => []OverfillNeedsManualTrade
<1>1. SandboxInv => OverfillNeedsManualTrade
    <2> SUFFICES ASSUME SandboxInv, NEW o \in UserOrders \cup MarketRows, ~ByHand(o)
                 PROVE  filled[o] + Volume(events \cup fills, o) + rem[o] <= attr[o].qty
        BY DEF OverfillNeedsManualTrade
    <2>1. o \in Orders
        BY SandboxAssumption DEF UserOrders
    <2>2. filled[o] \in Nat /\ Volume(events \cup fills, o) \in Nat /\ rem[o] \in Nat
        BY <2>1, Amounts DEF SandboxInv
    <2>3. filled[o] + EngineHas(o) <= attr[o].qty
        BY DEF SandboxInv, UserNumbers
    <2> QED
        BY <2>2, <2>3 DEF EngineHas
<1> QED
    BY <1>1, SandboxInvariantHolds, PTL

\* The house never owes more of a partner order than the partner has shown.
THEOREM HouseStaysWithinPartner == SandboxSpec => []HouseWithinPartner
<1>1. SandboxInv => HouseWithinPartner
    <2> SUFFICES ASSUME SandboxInv, NEW p \in PartnerOrders
                 PROVE  Cardinality({u \in {m \in MarketRows : standsFor[m] = p} \X (1..MaxQty) :
                                         u[2] <= attr[u[1]].qty})
                            + Volume(events \cup fills, p) + rem[p] <= attr[p].qty
        BY DEF HouseWithinPartner
    <2>1. p \in Orders
        BY SandboxAssumption
    <2>2. Booked(p) \in Nat /\ Volume(events \cup fills, p) \in Nat /\ rem[p] \in Nat
        BY <2>1, Amounts, BookedNat DEF SandboxInv
    <2>3. Booked(p) + EngineHas(p) <= attr[p].qty
        BY DEF SandboxInv, HouseNumbers
    <2>4. Booked(p) + Volume(events \cup fills, p) + rem[p] <= attr[p].qty
        BY <2>2, <2>3 DEF EngineHas
    <2> QED
        BY <2>4 DEF Booked, BookedUnits, RowsFor
<1> QED
    BY <1>1, SandboxInvariantHolds, PTL

\* Before the first restart a row of the house takes part in one match and is filled
\* by it completely or not at all.
THEOREM HouseRowsServeOnce == SandboxSpec => []HouseRowsAreOneShot
<1>1. SandboxInv => HouseRowsAreOneShot
    <2> SUFFICES ASSUME SandboxInv, restarts = 0, NEW m \in MarketRows
                 PROVE  /\ m \notin book
                        /\ ~ByHand(m) => filled[m] \in {0, attr[m].qty}
                        /\ Cardinality({t \in trades : Involves(t, m) /\ t.seq \notin ManualKeys}) <= 1
        BY DEF HouseRowsAreOneShot
    <2>1. m \notin book /\ (~ByHand(m) => filled[m] \in {0, attr[m].qty})
        BY DEF SandboxInv, OneShotInv
    <2> DEFINE T == {t \in trades : Involves(t, m) /\ t.seq \notin ManualKeys}
    <2>2. \A t, u \in T : t = u
        BY DEF SandboxInv, OneShotInv, ByEngine
    <2>3. Cardinality(T) <= 1
        <3>1. CASE T = {}
            BY <3>1, FS_EmptySet
        <3>2. CASE T # {}
            <4>1. PICK t : T = {t}
                BY <2>2, <3>2
            <4> HIDE DEF T
            <4>2. Cardinality({t}) = 1
                BY FS_Singleton
            <4> QED
                BY <4>1, <4>2
        <3> QED
            BY <3>1, <3>2
    <2> QED
        BY <2>1, <2>3
<1> QED
    BY <1>1, SandboxInvariantHolds, PTL
=============================================================================
