------------------------- MODULE MarketDataProofs --------------------------
(***************************************************************************)
(* Proofs about MarketData, for any orders, prices, quantities and length  *)
(* of the recent trades: every trade is shown once, and handlers that keep *)
(* the order of the events keep the view equal to the book.                *)
(***************************************************************************)
EXTENDS MarketData, FiniteSetTheorems, WellFoundedInduction, TLAPS

-----------------------------------------------------------------------------
(* The book *)

\* Orders in the book and the order at work have been asked for, and only those
\* in the book have something left for sure.
OrdersInv ==
    /\ BookTypeOK /\ IsFiniteSet(book)
    /\ \A o \in book : attr[o] \in Request /\ rem[o] \in 1..MaxQty
    /\ incoming # None => incoming \notin book /\ attr[incoming] \in Request /\ rem[incoming] <= MaxQty

\* ahead orders each side of the book, better prices first.
PriorityInv ==
    /\ \A a, b \in Orders : <<a, b>> \in ahead =>
           /\ a \in book /\ b \in book /\ a # b
           /\ attr[a].side = attr[b].side /\ KeepsPlace(a, attr[b])
    /\ \A a, b \in book : a # b /\ attr[a].side = attr[b].side => <<a, b>> \in ahead \/ <<b, a>> \in ahead
    /\ \A a, b, c \in Orders : <<a, b>> \in ahead /\ <<b, c>> \in ahead => <<a, c>> \in ahead

\* Unless orders were loaded the sides do not meet, and the order at work trades at
\* prices at which its own side has nothing.
SidesApart ==
    ~loaded =>
        /\ \A a, b \in book : attr[a].side = BUY /\ attr[b].side = SELL => attr[a].price < attr[b].price
        /\ \A t \in fills, o \in book : attr[o].side = attr[incoming].side => attr[o].price # t.price

\* The trades of a call of Match have the last numbers of the counter.
FillsInv ==
    /\ IsFiniteSet(fills) /\ Cardinality(fills) <= seq
    /\ incoming = None => fills = {}
    /\ \A t \in fills : /\ t.price \in Prices /\ t.qty \in 1..MaxQty
                        /\ t.seq > seq - Cardinality(fills) /\ t.seq <= seq
    /\ \A t, u \in fills : t.seq = u.seq => t = u
    /\ \A k \in Nat : seq - Cardinality(fills) < k /\ k <= seq => \E t \in fills : t.seq = k

-----------------------------------------------------------------------------
(* Events and the view *)

TradeEvents == [kind : {"trade"}, at : Nat, price : Prices, qty : Nat]
OrderEvents == [kind : {"rested", "cancelled"}, at : Nat, side : Sides, price : Prices, qty : Nat]
Levels == [price : Prices, qty : Nat]

ViewTypeOK ==
    /\ bids \in Seq(Levels) /\ asks \in Seq(Levels) /\ recent \in Seq(TradeEvents)
    /\ pending \subseteq TradeEvents \cup OrderEvents /\ IsFiniteSet(pending)
    /\ sent \in Nat /\ inOrder \in BOOLEAN /\ loaded \in BOOLEAN

OneLevelPerPrice(levels) == \A i, j \in DOMAIN levels : levels[i].price = levels[j].price => i = j

\* An event has a number of its own, and is pending or shown, not both.
EventsInv ==
    /\ \A e \in pending : e.at >= 1 /\ e.at <= sent
    /\ \A i \in DOMAIN recent : recent[i].at <= sent
    /\ \A e, f \in pending : e.at = f.at => e = f
    /\ \A e \in pending, i \in DOMAIN recent : e.at # recent[i].at
    /\ \A i, j \in DOMAIN recent : recent[i].at = recent[j].at => i = j

PendingTrades == {e \in pending : e.kind = "trade"}

\* Every trade of the counter is one of Match at work, on its way, shown, or pushed out.
TradesInv ==
    /\ Cardinality(fills) + Cardinality(PendingTrades) <= seq
    /\ Len(recent) = Lesser(MaxRecent, seq - Cardinality(fills) - Cardinality(PendingTrades))

-----------------------------------------------------------------------------
(* Units of quantity of a set of orders or trades *)

Units(S, w) == {u \in S \X (1..MaxQty) : u[2] <= w[u[1]]}
NumUnits(S, w) == Cardinality(Units(S, w))

TradedQty == [t \in Trade |-> t.qty]

AtPrice(F, p) == {t \in F : t.price = p}

-----------------------------------------------------------------------------
(* The history of the book: T[k][s][p] is what rested after the k-th event *)

Histories == [Nat -> [Sides -> [Prices -> Nat]]]

SameBut(T, k, s, p) == \A z \in Sides, x \in Prices : z # s \/ x # p => T[k][z][x] = T[k - 1][z][x]

Deducts(T, k, s, p, q) == T[k - 1][s][p] = T[k][s][p] + q /\ SameBut(T, k, s, p)

\* What an event says of the book before and after it.
TellsChange(T, e) ==
    /\ e.kind = "rested" =>
           T[e.at][e.side][e.price] = T[e.at - 1][e.side][e.price] + e.qty /\ SameBut(T, e.at, e.side, e.price)
    /\ e.kind = "cancelled" => Deducts(T, e.at, e.side, e.price, e.qty)
    /\ e.kind = "trade" => \E s \in Sides :
           Deducts(T, e.at, s, e.price, e.qty) /\ T[e.at - 1][Opposite(s)][e.price] = 0

ShowsAt(T, d) == \A p \in Prices : Shown(bids, p) = T[d][BUY][p] /\ Shown(asks, p) = T[d][SELL][p]

\* Units that Match at work has taken from the other side and not reported yet.
Taken(s, p) ==
    IF incoming # None /\ s = Opposite(attr[incoming].side)
    THEN NumUnits(AtPrice(fills, p), TradedQty) ELSE 0

\* The handlers have come to the d-th event, the view shows the book as it was then,
\* and the events that are pending lead from there to the book as it is.
IsHistory(T, d) ==
    /\ d <= sent
    /\ \A k \in Nat : d < k /\ k <= sent <=> \E e \in pending : e.at = k
    /\ \A e \in pending : TellsChange(T, e)
    /\ ShowsAt(T, d)
    /\ \A s \in Sides, p \in Prices : T[sent][s][p] = SideTotal(s, p) + Taken(s, p)

HistoryInv ==
    inOrder /\ ~loaded => \E T \in Histories, d \in Nat : IsHistory(T, d)

-----------------------------------------------------------------------------
(* Counting units *)

\* The size of an interval.
LEMMA UpToFinite ==
    ASSUME NEW n \in Nat
    PROVE  IsFiniteSet(1..n) /\ Cardinality(1..n) = n
BY FS_Interval

\* The units of finitely many orders or trades are finitely many.
LEMMA UnitsFinite ==
    ASSUME NEW S, IsFiniteSet(S), NEW w
    PROVE  IsFiniteSet(Units(S, w)) /\ NumUnits(S, w) \in Nat
<1>1. IsFiniteSet(1..MaxQty)
    BY FS_Interval, BookBounds
<1>2. IsFiniteSet(S \X (1..MaxQty))
    BY <1>1, FS_Product
<1>3. Units(S, w) \in SUBSET (S \X (1..MaxQty))
    BY DEF Units
<1> QED
    BY <1>2, <1>3, FS_Subset, FS_CardinalityType DEF NumUnits

\* One more order or trade adds its quantity.
LEMMA UnitsAdd ==
    ASSUME NEW S, IsFiniteSet(S), NEW x, x \notin S, NEW w, w[x] \in 0..MaxQty
    PROVE  NumUnits(S \cup {x}, w) = NumUnits(S, w) + w[x]
<1> DEFINE B == {x} \X (1..w[x])
<1>1. w[x] \in Nat /\ w[x] <= MaxQty /\ MaxQty \in Nat
    BY BookBounds
<1>2. IsFiniteSet(1..w[x]) /\ Cardinality(1..w[x]) = w[x]
    BY <1>1, UpToFinite
<1>3. IsFiniteSet({x}) /\ Cardinality({x}) = 1
    BY FS_Singleton
<1>4. IsFiniteSet(B) /\ Cardinality(B) = w[x]
  <2>1. IsFiniteSet(B) /\ Cardinality(B) = Cardinality({x}) * Cardinality(1..w[x])
    BY <1>2, <1>3, FS_Product, Zenon
  <2>2. \A n \in Nat : 1 * n = n
    OBVIOUS
  <2> QED
    BY <1>1, <1>2, <1>3, <2>1, <2>2
<1>5. Units(S \cup {x}, w) = Units(S, w) \cup B
  <2>1. Units(S \cup {x}, w) \subseteq Units(S, w) \cup B
    BY <1>1 DEF Units
  <2>2. Units(S, w) \cup B \subseteq Units(S \cup {x}, w)
    BY <1>1 DEF Units
  <2> QED
    BY <2>1, <2>2
<1>6. Units(S, w) \cap B = {}
    BY DEF Units
<1>7. Cardinality(Units(S, w) \cup B)
          = Cardinality(Units(S, w)) + Cardinality(B) - Cardinality(Units(S, w) \cap B)
  <2>1. IsFiniteSet(Units(S, w))
    BY UnitsFinite
  <2> HIDE DEF B
  <2> QED
    BY <1>4, <2>1, FS_Union, Zenon
<1> HIDE DEF B
<1> QED
  <2>1. Cardinality(Units(S, w)) \in Nat
    BY UnitsFinite DEF NumUnits
  <2>2. Cardinality(Units(S, w) \cap B) = 0
    BY <1>6, FS_EmptySet
  <2>3. NumUnits(S \cup {x}, w) = Cardinality(Units(S, w) \cup B)
    BY <1>5, Zenon DEF NumUnits
  <2>4. NumUnits(S, w) = Cardinality(Units(S, w))
    BY Zenon DEF NumUnits
  <2> QED
    BY <1>1, <1>4, <1>7, <2>1, <2>2, <2>3, <2>4

\* Only the quantities of the members count.
LEMMA UnitsSame ==
    ASSUME NEW S, NEW w, NEW v, \A x \in S : w[x] = v[x]
    PROVE  NumUnits(S, w) = NumUnits(S, v)
<1>1. Units(S, w) = Units(S, v)
    BY DEF Units
<1> QED
    BY <1>1 DEF NumUnits

\* With and without one of the members.
LEMMA UnitsShare ==
    ASSUME NEW S, IsFiniteSet(S), NEW x, NEW w, x \in S => w[x] \in 0..MaxQty
    PROVE  /\ NumUnits(S \ {x}, w) \in Nat
           /\ x \in S => NumUnits(S, w) = NumUnits(S \ {x}, w) + w[x]
           /\ x \notin S => NumUnits(S, w) = NumUnits(S \ {x}, w)
<1>1. IsFiniteSet(S \ {x})
    BY FS_RemoveElement
<1>2. NumUnits(S \ {x}, w) \in Nat
    BY <1>1, UnitsFinite
<1>3. CASE x \in S
  <2>1. NumUnits((S \ {x}) \cup {x}, w) = NumUnits(S \ {x}, w) + w[x]
    BY <1>1, <1>3, UnitsAdd
  <2>2. (S \ {x}) \cup {x} = S
    BY <1>3
  <2> QED
    BY <1>2, <1>3, <2>1, <2>2
<1>4. CASE x \notin S
  <2>1. S \ {x} = S
    BY <1>4
  <2> QED
    BY <1>2, <1>4, <2>1
<1> QED
    BY <1>3, <1>4

-----------------------------------------------------------------------------
(* What rests at a price *)

At(s, p) == {o \in OnSide(s) : attr[o].price = p}

\* The part of one order in it.
Share(o, s, p) == IF o \in At(s, p) THEN rem[o] ELSE 0

\* SideTotal counts the units of the orders at the price.
LEMMA SideIsUnits == \A s, p : SideTotal(s, p) = NumUnits(At(s, p), rem)
<1> SUFFICES ASSUME NEW s, NEW p
             PROVE  {u \in OnSide(s) \X (1..MaxQty) : attr[u[1]].price = p /\ u[2] <= rem[u[1]]}
                    = Units(At(s, p), rem)
    BY DEF SideTotal, NumUnits
<1> QED
    BY DEF Units, At

\* A step that changes one order at most changes what rests by what that order has.
LEMMA OneOrderChanges ==
    ASSUME NEW o, OrdersInv, OrdersInv', book' \ {o} = book \ {o},
           \A x \in book \ {o} : attr'[x] = attr[x] /\ rem'[x] = rem[x],
           NEW s, NEW p
    PROVE  \E n \in Nat : SideTotal(s, p) = n + Share(o, s, p) /\ SideTotal(s, p)' = n + Share(o, s, p)'
<1> DEFINE A == At(s, p)  B == At(s, p)'
<1>1. IsFiniteSet(A) /\ IsFiniteSet(B)
  <2>1. A \subseteq book /\ B \subseteq book'
    BY DEF At, OnSide
  <2> QED
    BY <2>1, FS_Subset DEF OrdersInv
<1>2. A \ {o} = B \ {o}
    BY DEF At, OnSide
<1>3. \A x \in A \ {o} : rem[x] = rem'[x]
    BY DEF At, OnSide
<1>4. NumUnits(A \ {o}, rem) = NumUnits(B \ {o}, rem')
    BY <1>2, <1>3, UnitsSame
<1>5. (o \in A => rem[o] \in 0..MaxQty) /\ (o \in B => rem'[o] \in 0..MaxQty)
    BY BookBounds DEF At, OnSide, OrdersInv
<1>6. /\ NumUnits(A \ {o}, rem) \in Nat
      /\ o \in A => NumUnits(A, rem) = NumUnits(A \ {o}, rem) + rem[o]
      /\ o \notin A => NumUnits(A, rem) = NumUnits(A \ {o}, rem)
  <2>1. IsFiniteSet(A) /\ (o \in A => rem[o] \in 0..MaxQty)
    BY <1>1, <1>5
  <2> HIDE DEF A
  <2> QED
    BY <2>1, UnitsShare, Zenon
<1>7. /\ o \in B => NumUnits(B, rem') = NumUnits(B \ {o}, rem') + rem'[o]
      /\ o \notin B => NumUnits(B, rem') = NumUnits(B \ {o}, rem')
  <2>1. IsFiniteSet(B) /\ (o \in B => rem'[o] \in 0..MaxQty)
    BY <1>1, <1>5
  <2>2. PICK w : w = rem'
    OBVIOUS
  <2>3. PICK C : C = B
    OBVIOUS
  <2>4. IsFiniteSet(C) /\ (o \in C => w[o] \in 0..MaxQty)
    BY <2>1, <2>2, <2>3, Zenon
  <2>5. /\ NumUnits(C \ {o}, w) \in Nat
        /\ o \in C => NumUnits(C, w) = NumUnits(C \ {o}, w) + w[o]
        /\ o \notin C => NumUnits(C, w) = NumUnits(C \ {o}, w)
    BY <2>4, UnitsShare, Zenon
  <2> QED
    BY <2>2, <2>3, <2>5, Zenon
<1>8. SideTotal(s, p) = NumUnits(A, rem)
    BY SideIsUnits
<1>9. SideTotal(s, p)' = NumUnits(B, rem')
  <2>1. {u \in OnSide(s)' \X (1..MaxQty) : attr'[u[1]].price = p /\ u[2] <= rem'[u[1]]} = Units(B, rem')
    BY DEF Units, At
  <2> QED
    BY <2>1 DEF SideTotal, NumUnits
<1> QED
    BY <1>4, <1>6, <1>7, <1>8, <1>9 DEF Share

-----------------------------------------------------------------------------
(* Levels of the view *)

\* The places of a sequence.
LEMMA DomainFacts ==
    ASSUME NEW S, NEW q \in Seq(S)
    PROVE  /\ \A j : j \in DOMAIN q <=> j \in Nat /\ 1 <= j /\ j <= Len(q)
           /\ \A j \in DOMAIN q : q[j] \in S
           /\ Len(q) \in Nat
OBVIOUS

\* RemoveAt moves what follows one place to the front.
LEMMA RemoveAtFacts ==
    ASSUME NEW S, NEW q \in Seq(S), NEW i \in DOMAIN q
    PROVE  /\ RemoveAt(q, i) \in Seq(S)
           /\ \A j \in DOMAIN RemoveAt(q, i) :
                 \E k \in DOMAIN q : k # i /\ RemoveAt(q, i)[j] = q[k] /\ k = IF j < i THEN j ELSE j + 1
           /\ \A k \in DOMAIN q : k # i => \E j \in DOMAIN RemoveAt(q, i) : RemoveAt(q, i)[j] = q[k]
<1> DEFINE a == SubSeq(q, 1, i - 1)  b == SubSeq(q, i + 1, Len(q))  r == RemoveAt(q, i)
<1>1. i \in Nat /\ 1 <= i /\ i <= Len(q) /\ Len(q) \in Nat
    BY DomainFacts
<1>2. a \in Seq(S) /\ Len(a) = i - 1 /\ \A j \in 1..(i - 1) : a[j] = q[j]
    BY <1>1
<1>3. b \in Seq(S) /\ Len(b) = Len(q) - i /\ \A j \in 1..(Len(q) - i) : b[j] = q[i + j]
    BY <1>1
<1> HIDE DEF a, b
<1>4. r = a \o b
    BY DEF RemoveAt, a, b
<1> HIDE DEF r
<1>5. r \in Seq(S) /\ Len(r) = Len(q) - 1
    BY <1>1, <1>2, <1>3, <1>4
<1>6. ASSUME NEW j \in Nat, 1 <= j, j < i
      PROVE  j \in DOMAIN r /\ r[j] = q[j]
    BY <1>1, <1>2, <1>3, <1>4, <1>5, <1>6
<1>7. ASSUME NEW j \in Nat, i <= j, j < Len(q)
      PROVE  j \in DOMAIN r /\ r[j] = q[j + 1]
  <2>1. Len(a) = i - 1
    BY <1>2
  <2>2. \A m \in Nat, l \in Nat, n \in Nat : m >= 1 /\ m <= n /\ n < l =>
           \E k \in Nat : m + k = n + 1 /\ 1 <= k /\ k <= l - m /\ (m - 1) + k = n
    <3> SUFFICES ASSUME NEW m \in Nat, NEW l \in Nat, NEW n \in Nat, m >= 1, m <= n, n < l
                 PROVE  \E k \in Nat : m + k = n + 1 /\ 1 <= k /\ k <= l - m /\ (m - 1) + k = n
      OBVIOUS
    <3>1. /\ n + 1 - m \in Nat /\ m + (n + 1 - m) = n + 1
          /\ 1 <= n + 1 - m /\ n + 1 - m <= l - m /\ (m - 1) + (n + 1 - m) = n
      OBVIOUS
    <3> QED
      BY <3>1
  <2>3. PICK k \in Nat : i + k = j + 1 /\ 1 <= k /\ k <= Len(q) - i /\ (i - 1) + k = j
    BY <1>1, <1>7, <2>2
  <2>4. Len(a) + k = j
    BY <2>1, <2>3, Zenon
  <2>5. k \in 1..(Len(q) - i)
    BY <1>1, <2>3
  <2>6. r[j] = b[k]
    <3>1. k \in 1..Len(b)
      BY <1>3, <2>5
    <3>2. (a \o b)[Len(a) + k] = b[k]
      BY <1>2, <1>3, <3>1
    <3> QED
      BY <1>4, <2>4, <3>2
  <2>7. b[k] = q[j + 1]
    BY <1>3, <2>3, <2>5
  <2>8. j \in DOMAIN r
    BY <1>1, <1>5, <1>7
  <2> QED
    BY <2>6, <2>7, <2>8, Zenon
<1>8. ASSUME NEW j \in DOMAIN r
      PROVE  \E k \in DOMAIN q : k # i /\ r[j] = q[k] /\ k = IF j < i THEN j ELSE j + 1
  <2>1. j \in Nat /\ 1 <= j /\ j < Len(q)
    BY <1>1, <1>5
  <2>2. CASE j < i
    BY <1>1, <1>6, <2>1, <2>2
  <2>3. CASE i <= j
    BY <1>1, <1>7, <2>1, <2>3
  <2> QED
    BY <1>1, <2>1, <2>2, <2>3
<1>9. ASSUME NEW k \in DOMAIN q, k # i
      PROVE  \E j \in DOMAIN r : r[j] = q[k]
  <2>1. k \in Nat /\ 1 <= k /\ k <= Len(q)
    BY DomainFacts
  <2>2. CASE k < i
    BY <1>6, <2>1, <2>2
  <2>3. CASE i < k
    <3>1. PICK j \in Nat : j + 1 = k
      BY <1>1, <2>1, <2>3
    <3>2. i <= j /\ j < Len(q)
      BY <1>1, <2>1, <2>3, <3>1
    <3> QED
      BY <1>7, <3>1, <3>2
  <2> QED
    BY <1>1, <1>9, <2>1, <2>2, <2>3
<1> QED
    BY <1>5, <1>8, <1>9 DEF r

\* The level of a price is the one with that price.
LEMMA ShownIs ==
    ASSUME NEW L \in Seq(Levels), OneLevelPerPrice(L)
    PROVE  /\ \A i \in DOMAIN L : LevelAt(L, L[i].price) = i /\ Shown(L, L[i].price) = L[i].qty
           /\ \A p : ~HasLevel(L, p) => Shown(L, p) = 0
           /\ \A p : HasLevel(L, p) => LevelAt(L, p) \in DOMAIN L /\ L[LevelAt(L, p)].price = p
           /\ \A p : Shown(L, p) \in Nat
<1>1. \A p : HasLevel(L, p) => LevelAt(L, p) \in DOMAIN L /\ L[LevelAt(L, p)].price = p
    BY DEF HasLevel, LevelAt
<1>2. \A i \in DOMAIN L : HasLevel(L, L[i].price)
    BY DEF HasLevel
<1>3. \A i \in DOMAIN L : LevelAt(L, L[i].price) = i
    BY <1>1, <1>2 DEF OneLevelPerPrice
<1>4. \A i \in DOMAIN L : Shown(L, L[i].price) = L[i].qty
    BY <1>2, <1>3 DEF Shown
<1>5. \A i \in DOMAIN L : L[i].qty \in Nat
  <2>1. \A i \in DOMAIN L : L[i] \in Levels
    BY DomainFacts
  <2> QED
    BY <2>1 DEF Levels
<1>6. \A p : Shown(L, p) \in Nat
    BY <1>1, <1>5 DEF Shown
<1> QED
    BY <1>1, <1>3, <1>4, <1>6 DEF Shown

\* Both lists have the same levels at other prices than p.
SameLevelsBut(L, M, p) ==
    /\ \A j \in DOMAIN M : M[j].price # p => \E k \in DOMAIN L : L[k] = M[j]
    /\ \A k \in DOMAIN L : L[k].price # p => \E j \in DOMAIN M : M[j] = L[k]

\* Then they show the same there.
LEMMA ShownChanges ==
    ASSUME NEW L \in Seq(Levels), OneLevelPerPrice(L), NEW M \in Seq(Levels), OneLevelPerPrice(M), NEW p,
           SameLevelsBut(L, M, p)
    PROVE  \A x : x # p => Shown(M, x) = Shown(L, x)
<1> SUFFICES ASSUME NEW x, x # p PROVE Shown(M, x) = Shown(L, x)
    OBVIOUS
<1>1. CASE HasLevel(L, x)
  <2>1. PICK k \in DOMAIN L : L[k].price = x
    BY <1>1 DEF HasLevel
  <2>2. PICK j \in DOMAIN M : M[j] = L[k]
    BY <2>1 DEF SameLevelsBut
  <2>3. Shown(L, L[k].price) = L[k].qty /\ Shown(M, M[j].price) = M[j].qty
    BY ShownIs
  <2> QED
    BY <2>1, <2>2, <2>3
<1>2. CASE ~HasLevel(L, x)
  <2>1. ~HasLevel(M, x)
    BY <1>2 DEF HasLevel, SameLevelsBut
  <2> QED
    BY <1>2, <2>1 DEF Shown
<1> QED
    BY <1>1, <1>2

\* A list of levels and what becomes of it when the quantity at one price is replaced.
ShowsInstead(L, M, p, q) ==
    /\ M \in Seq(Levels) /\ OneLevelPerPrice(M)
    /\ Shown(M, p) = q
    /\ \A x : x # p => Shown(M, x) = Shown(L, x)

\* Replacing the quantity of a level.
LEMMA SetLevel ==
    ASSUME NEW L \in Seq(Levels), OneLevelPerPrice(L), NEW i \in DOMAIN L, NEW q \in Nat
    PROVE  ShowsInstead(L, [L EXCEPT ![i].qty = q], L[i].price, q)
<1> DEFINE M == [L EXCEPT ![i].qty = q]
<1>1. L[i] \in Levels
    BY DomainFacts
<1>2. [L[i] EXCEPT !.qty = q] \in Levels
    BY <1>1 DEF Levels
<1>3. M \in Seq(Levels)
    BY <1>2
<1>4. DOMAIN M = DOMAIN L /\ M[i].price = L[i].price /\ M[i].qty = q
    BY <1>1 DEF Levels
<1>5. \A j \in DOMAIN L : j # i => M[j] = L[j]
    OBVIOUS
<1> HIDE DEF M
<1>6. OneLevelPerPrice(M)
    BY <1>4, <1>5 DEF OneLevelPerPrice
<1>7. Shown(M, L[i].price) = q
    BY <1>3, <1>4, <1>6, ShownIs
<1>8. \A x : x # L[i].price => Shown(M, x) = Shown(L, x)
  <2>1. \A j \in DOMAIN M : M[j].price # L[i].price => j # i /\ j \in DOMAIN L /\ L[j] = M[j]
    BY <1>4, <1>5
  <2>2. \A j \in DOMAIN L : L[j].price # L[i].price => j # i /\ j \in DOMAIN M /\ M[j] = L[j]
    BY <1>4, <1>5
  <2>3. SameLevelsBut(L, M, L[i].price)
    BY <2>1, <2>2 DEF SameLevelsBut
  <2>4. M \in Seq(Levels) /\ OneLevelPerPrice(M)
    BY <1>3, <1>6
  <2> QED
    BY <2>3, <2>4, ShownChanges
<1> QED
    BY <1>3, <1>6, <1>7, <1>8 DEF ShowsInstead, M

\* A new level.
LEMMA NewLevel ==
    ASSUME NEW L \in Seq(Levels), OneLevelPerPrice(L), NEW p \in Prices, ~HasLevel(L, p), NEW q \in Nat
    PROVE  ShowsInstead(L, Append(L, [price |-> p, qty |-> q]), p, q)
<1> DEFINE e == [price |-> p, qty |-> q]  M == Append(L, e)  n == Len(L)
<1>1. e \in Levels /\ e.price = p /\ e.qty = q
    BY DEF Levels
<1> HIDE DEF e
<1>2. /\ M \in Seq(Levels) /\ Len(M) = n + 1 /\ n \in Nat
      /\ M[n + 1] = e /\ \A j \in DOMAIN L : j \in DOMAIN M /\ M[j] = L[j]
    BY <1>1
<1>3. n + 1 \in DOMAIN M /\ \A j \in DOMAIN M : j = n + 1 \/ j \in DOMAIN L
    BY <1>2, DomainFacts
<1> HIDE DEF M
<1>4. OneLevelPerPrice(M)
    BY <1>1, <1>2, <1>3 DEF OneLevelPerPrice, HasLevel
<1>5. Shown(M, p) = q
    BY <1>1, <1>2, <1>3, <1>4, ShownIs
<1>6. \A x : x # p => Shown(M, x) = Shown(L, x)
  <2>1. \A j \in DOMAIN M : M[j].price # p => j \in DOMAIN L /\ L[j] = M[j]
    BY <1>1, <1>2, <1>3
  <2>2. \A j \in DOMAIN L : L[j].price # p => j \in DOMAIN M /\ M[j] = L[j]
    BY <1>2
  <2>3. SameLevelsBut(L, M, p)
    BY <2>1, <2>2 DEF SameLevelsBut
  <2>4. M \in Seq(Levels) /\ OneLevelPerPrice(M)
    BY <1>2, <1>4
  <2> QED
    BY <2>3, <2>4, ShownChanges
<1> QED
    BY <1>2, <1>4, <1>5, <1>6 DEF ShowsInstead, M, e

\* A level less.
LEMMA DropLevel ==
    ASSUME NEW L \in Seq(Levels), OneLevelPerPrice(L), NEW i \in DOMAIN L
    PROVE  ShowsInstead(L, RemoveAt(L, i), L[i].price, 0)
<1> DEFINE M == RemoveAt(L, i)
<1>1. /\ M \in Seq(Levels)
      /\ \A j \in DOMAIN M : \E k \in DOMAIN L : k # i /\ M[j] = L[k] /\ k = IF j < i THEN j ELSE j + 1
      /\ \A k \in DOMAIN L : k # i => \E j \in DOMAIN M : M[j] = L[k]
    BY RemoveAtFacts
<1> HIDE DEF M
<1>2. i \in Nat /\ \A j \in DOMAIN M : j \in Nat
    BY <1>1, DomainFacts
<1>3. OneLevelPerPrice(M)
  <2> SUFFICES ASSUME NEW a \in DOMAIN M, NEW b \in DOMAIN M, M[a].price = M[b].price PROVE a = b
    BY DEF OneLevelPerPrice
  <2>1. PICK k \in DOMAIN L : M[a] = L[k] /\ k = IF a < i THEN a ELSE a + 1
    BY <1>1
  <2>2. PICK m \in DOMAIN L : M[b] = L[m] /\ m = IF b < i THEN b ELSE b + 1
    BY <1>1
  <2>3. k = m
    BY <2>1, <2>2 DEF OneLevelPerPrice
  <2> QED
    BY <1>2, <2>1, <2>2, <2>3
<1>4. ~HasLevel(M, L[i].price)
    BY <1>1 DEF HasLevel, OneLevelPerPrice
<1>5. Shown(M, L[i].price) = 0
    BY <1>4 DEF Shown
<1>6. \A x : x # L[i].price => Shown(M, x) = Shown(L, x)
  <2>1. \A j \in DOMAIN M : \E k \in DOMAIN L : L[k] = M[j]
    BY <1>1
  <2>2. \A k \in DOMAIN L : L[k].price # L[i].price => \E j \in DOMAIN M : M[j] = L[k]
    BY <1>1
  <2>3. SameLevelsBut(L, M, L[i].price)
    BY <2>1, <2>2 DEF SameLevelsBut
  <2>4. M \in Seq(Levels) /\ OneLevelPerPrice(M)
    BY <1>1, <1>3
  <2> QED
    BY <2>3, <2>4, ShownChanges
<1> QED
    BY <1>1, <1>3, <1>5, <1>6 DEF ShowsInstead, M

\* addLevel adds to what is shown at a price.
LEMMA AddShows ==
    ASSUME NEW L \in Seq(Levels), OneLevelPerPrice(L), NEW p \in Prices, NEW q \in Nat
    PROVE  ShowsInstead(L, addLevel(L, p, q), p, Shown(L, p) + q)
<1>1. CASE ~HasLevel(L, p)
  <2>1. Shown(L, p) + q = q
    BY <1>1 DEF Shown
  <2>2. addLevel(L, p, q) = Append(L, [price |-> p, qty |-> q])
    BY <1>1 DEF addLevel
  <2> QED
    BY <1>1, <2>1, <2>2, NewLevel
<1>2. CASE HasLevel(L, p)
  <2> DEFINE i == LevelAt(L, p)
  <2>1. i \in DOMAIN L /\ L[i].price = p
    BY <1>2, ShownIs
  <2>2. L[i].qty = Shown(L, p) /\ Shown(L, p) \in Nat
    BY <2>1, ShownIs
  <2>3. addLevel(L, p, q) = [L EXCEPT ![i].qty = L[i].qty + q]
    BY <1>2 DEF addLevel
  <2> HIDE DEF i
  <2>4. ShowsInstead(L, [L EXCEPT ![i].qty = L[i].qty + q], L[i].price, L[i].qty + q)
    <3>1. L[i].qty + q \in Nat /\ i \in DOMAIN L
      BY <2>1, <2>2
    <3> QED
      BY <3>1, SetLevel, Zenon
  <2> QED
    BY <2>1, <2>2, <2>3, <2>4
<1> QED
    BY <1>1, <1>2

\* deductLevel takes from what is shown at a price as much as there is.
LEMMA DeductShows ==
    ASSUME NEW L \in Seq(Levels), OneLevelPerPrice(L), NEW p, NEW q \in Nat
    PROVE  ShowsInstead(L, deductLevel(L, p, q), p, IF Shown(L, p) > q THEN Shown(L, p) - q ELSE 0)
<1>1. CASE ~HasLevel(L, p)
  <2>1. Shown(L, p) = 0
    BY <1>1 DEF Shown
  <2>2. deductLevel(L, p, q) = L
    BY <1>1 DEF deductLevel
  <2> QED
    BY <2>1, <2>2 DEF ShowsInstead
<1>2. CASE HasLevel(L, p)
  <2> DEFINE i == LevelAt(L, p)
  <2>1. i \in DOMAIN L /\ L[i].price = p
    BY <1>2, ShownIs
  <2>2. L[i].qty = Shown(L, p) /\ Shown(L, p) \in Nat
    BY <2>1, ShownIs
  <2>3. deductLevel(L, p, q) = IF L[i].qty > q THEN [L EXCEPT ![i].qty = L[i].qty - q] ELSE RemoveAt(L, i)
    BY <1>2 DEF deductLevel
  <2> HIDE DEF i
  <2>4. CASE L[i].qty > q
    <3>1. L[i].qty - q \in Nat
      BY <2>2, <2>4
    <3>2. ShowsInstead(L, [L EXCEPT ![i].qty = L[i].qty - q], L[i].price, L[i].qty - q)
      BY <2>1, <3>1, SetLevel
    <3> QED
      BY <2>1, <2>2, <2>3, <2>4, <3>2
  <2>5. CASE ~(L[i].qty > q)
    <3>1. ShowsInstead(L, RemoveAt(L, i), L[i].price, 0)
      BY <2>1, DropLevel
    <3> QED
      BY <2>1, <2>2, <2>3, <2>5, <3>1
  <2> QED
    BY <2>4, <2>5
<1> QED
    BY <1>1, <1>2

-----------------------------------------------------------------------------
(* Steps of the book *)

\* An order nobody has sent is neither in the book nor at work.
LEMMA UnknownOrder ==
    ASSUME OrdersInv, NEW o \in Orders, attr[o] = NoAttr
    PROVE  o \notin book /\ o # incoming
<1>1. NoAttr \notin Request
    BY BookBounds DEF NoAttr, Request
<1> QED
    BY <1>1, NoneAssumption DEF OrdersInv

\* The attributes of a request.
LEMMA RequestFacts ==
    ASSUME NEW a \in Request
    PROVE  /\ a \in Attr /\ a.side \in Sides /\ a.price \in Prices /\ a.price \in Nat
           /\ a.qty \in 1..MaxQty /\ a.qty \in Nat
<1>1. /\ a.side \in Sides /\ a.price \in Prices /\ a.qty \in 1..MaxQty
      /\ a = [side |-> a.side, price |-> a.price, qty |-> a.qty]
    BY DEF Request
<1>2. a.price \in Nat /\ a.qty \in Nat
    BY <1>1, BookBounds
<1> QED
    BY <1>1, <1>2 DEF Attr

\* Adding an order behind those that keep their place keeps each side ordered.
LEMMA QueuedKeepsPriority ==
    ASSUME OrdersInv, PriorityInv, NEW o \in Orders, o \notin book, NEW a \in Attr,
           book' = book \cup {o}, ahead' = Queued(o, a),
           attr' \in [Orders -> Attr], attr'[o] = a, \A x \in book : attr'[x] = attr[x]
    PROVE  PriorityInv'
<1>1. \A x \in Orders : attr[x].price \in Nat /\ attr[x].side \in Sides
    BY DEF OrdersInv, BookTypeOK, Attr
<1>2. a.price \in Nat /\ a.side \in Sides
    BY DEF Attr
<1>3. \A x, y \in Orders : <<x, y>> \in ahead' <=>
         \/ <<x, y>> \in ahead
         \/ y = o /\ x \in book /\ attr[x].side = a.side /\ KeepsPlace(x, a)
         \/ x = o /\ y \in book /\ attr[y].side = a.side /\ ~KeepsPlace(y, a)
    BY DEF Queued, OnSide
<1>4. \A x, y \in Orders : <<x, y>> \in ahead => x \in book /\ y \in book /\ x # o /\ y # o
    BY DEF PriorityInv
<1>5. \A x \in book : x \in Orders /\ x # o
    BY DEF OrdersInv, BookTypeOK
<1>6. ASSUME NEW x \in Orders, NEW y \in Orders, <<x, y>> \in ahead'
      PROVE  /\ x \in book' /\ y \in book' /\ x # y
             /\ attr'[x].side = attr'[y].side /\ KeepsPlace(x, attr[y])'
  <2>1. CASE <<x, y>> \in ahead
    BY <1>4, <2>1 DEF PriorityInv, KeepsPlace
  <2>2. CASE y = o /\ x \in book /\ attr[x].side = a.side /\ KeepsPlace(x, a)
    BY <1>5, <2>2 DEF KeepsPlace
  <2>3. CASE x = o /\ y \in book /\ attr[y].side = a.side /\ ~KeepsPlace(y, a)
    BY <1>1, <1>2, <1>5, <2>3 DEF KeepsPlace
  <2> QED
    BY <1>3, <1>6, <2>1, <2>2, <2>3
<1>7. ASSUME NEW x \in book', NEW y \in book', x # y, attr'[x].side = attr'[y].side
      PROVE  <<x, y>> \in ahead' \/ <<y, x>> \in ahead'
  <2>1. CASE x # o /\ y # o
    BY <1>3, <1>5, <1>7, <2>1 DEF PriorityInv
  <2>2. CASE x = o
    BY <1>3, <1>5, <1>7, <2>2
  <2>3. CASE y = o
    BY <1>3, <1>5, <1>7, <2>3
  <2> QED
    BY <2>1, <2>2, <2>3
<1>8. ASSUME NEW x \in Orders, NEW y \in Orders, NEW z \in Orders,
             <<x, y>> \in ahead', <<y, z>> \in ahead'
      PROVE  <<x, z>> \in ahead'
  <2>1. CASE <<x, y>> \in ahead /\ <<y, z>> \in ahead
    BY <1>3, <2>1 DEF PriorityInv
  <2>2. CASE <<x, y>> \in ahead /\ z = o
    <3>1. y \in book /\ attr[y].side = a.side /\ KeepsPlace(y, a) /\ x \in book
      BY <1>3, <1>4, <1>5, <1>8, <2>2
    <3>2. attr[x].side = attr[y].side /\ KeepsPlace(x, attr[y])
      BY <2>2 DEF PriorityInv
    <3>3. KeepsPlace(x, a)
      BY <1>1, <1>2, <3>1, <3>2 DEF KeepsPlace
    <3> QED
      BY <1>3, <2>2, <3>1, <3>2, <3>3
  <2>3. CASE x = o /\ <<y, z>> \in ahead
    <3>1. y \in book /\ attr[y].side = a.side /\ ~KeepsPlace(y, a) /\ z \in book
      BY <1>3, <1>4, <1>5, <1>8, <2>3
    <3>2. attr[y].side = attr[z].side /\ KeepsPlace(y, attr[z])
      BY <2>3 DEF PriorityInv
    <3>3. ~KeepsPlace(z, a)
      BY <1>1, <1>2, <3>1, <3>2 DEF KeepsPlace
    <3> QED
      BY <1>3, <2>3, <3>1, <3>2, <3>3
  <2>4. CASE y = o
    <3>1. /\ x \in book /\ attr[x].side = a.side /\ KeepsPlace(x, a)
          /\ z \in book /\ attr[z].side = a.side /\ ~KeepsPlace(z, a)
      BY <1>3, <1>4, <1>5, <1>8, <2>4
    <3>2. x # z
      BY <3>1
    <3>3. <<x, z>> \in ahead \/ <<z, x>> \in ahead
      BY <3>1, <3>2 DEF PriorityInv
    <3>4. <<z, x>> \in ahead => KeepsPlace(z, attr[x])
      BY <1>5, <3>1 DEF PriorityInv
    <3>5. ~KeepsPlace(z, attr[x])
      BY <1>1, <1>2, <3>1 DEF KeepsPlace
    <3> QED
      BY <1>3, <3>3, <3>4, <3>5
  <2> QED
    BY <1>3, <1>4, <1>5, <1>8, <2>1, <2>2, <2>3, <2>4
<1> QED
    BY <1>6, <1>7, <1>8 DEF PriorityInv

\* Taking an order out keeps each side ordered.
LEMMA UnqueuedKeepsPriority ==
    ASSUME OrdersInv, PriorityInv, NEW o, book' = book \ {o}, ahead' = Unqueued(o), UNCHANGED attr
    PROVE  PriorityInv'
<1>1. \A x, y : <<x, y>> \in ahead' <=> <<x, y>> \in ahead /\ x # o /\ y # o
    BY DEF Unqueued
<1>2. \A x \in book : x \in Orders
    BY DEF OrdersInv, BookTypeOK
<1> QED
    BY <1>1, <1>2 DEF PriorityInv, KeepsPlace

\* Nothing changes for the orders of the book.
LEMMA SameBookKeepsPriority ==
    ASSUME OrdersInv, PriorityInv, UNCHANGED <<book, ahead>>, \A x \in book : attr'[x] = attr[x]
    PROVE  PriorityInv'
<1>1. \A x \in book : x \in Orders
    BY DEF OrdersInv, BookTypeOK
<1> QED
    BY <1>1 DEF PriorityInv, KeepsPlace

\* A set of numbers has a least one.
LEMMA LeastNumber ==
    ASSUME NEW S, S \subseteq Nat, S # {}
    PROVE  \E x \in S : \A y \in S : x <= y
<1> DEFINE Less == OpToRel(<, Nat)
<1>1. IsWellFoundedOn(Less, Nat)
    BY NatLessThanWellFounded
<1>2. PICK x \in S : \A y \in S : <<y, x>> \notin Less
  <2> HIDE DEF Less
  <2> QED
    BY <1>1, WFMin
<1>3. \A y \in S : ~(y < x)
  <2>1. \A i, j \in Nat : i < j => <<i, j>> \in Less
    BY DEF OpToRel
  <2> HIDE DEF Less
  <2> QED
    BY <1>2, <2>1
<1> QED
    BY <1>3

\* A side that is not empty has a first order, and no other order there has a better price.
LEMMA BestExists ==
    ASSUME OrdersInv, PriorityInv, NEW s \in Sides, OnSide(s) # {}
    PROVE  \E r \in book : IsBest(r, s) /\ \A a \in OnSide(s) : a = r \/ KeepsPlace(r, attr[a])
<1> DEFINE Before(r) == {a \in OnSide(s) : <<a, r>> \in ahead}
           Counts == {Cardinality(Before(r)) : r \in OnSide(s)}
<1>1. \A r : IsFiniteSet(Before(r)) /\ Cardinality(Before(r)) \in Nat
  <2> SUFFICES ASSUME NEW r PROVE IsFiniteSet(Before(r)) /\ Cardinality(Before(r)) \in Nat
    OBVIOUS
  <2>1. Before(r) \subseteq book
    BY DEF OnSide
  <2> QED
    BY <2>1, FS_Subset, FS_CardinalityType DEF OrdersInv
<1>2. Counts \subseteq Nat /\ Counts # {}
    BY <1>1
<1>3. PICK n \in Counts : \A m \in Counts : n <= m
    BY <1>2, LeastNumber
<1>4. PICK r \in OnSide(s) : \A a \in OnSide(s) : Cardinality(Before(r)) <= Cardinality(Before(a))
    BY <1>3
<1>5. \A a \in OnSide(s) : a \in Orders /\ a \in book /\ attr[a].side = s
    BY DEF OnSide, OrdersInv, BookTypeOK
<1>6. ASSUME NEW a \in OnSide(s), <<a, r>> \in ahead
      PROVE  FALSE
  <2>1. Before(a) \subseteq Before(r)
    BY <1>5, <1>6 DEF PriorityInv
  <2>2. a \in Before(r) /\ a \notin Before(a)
    BY <1>5, <1>6 DEF PriorityInv
  <2>3. Cardinality(Before(a)) <= Cardinality(Before(r))
        /\ (Cardinality(Before(a)) = Cardinality(Before(r)) => Before(a) = Before(r))
    BY <1>1, <2>1, FS_Subset
  <2>4. Cardinality(Before(r)) <= Cardinality(Before(a))
    BY <1>4
  <2>5. Cardinality(Before(a)) # Cardinality(Before(r))
    BY <2>2, <2>3
  <2>6. Cardinality(Before(a)) \in Nat /\ Cardinality(Before(r)) \in Nat
    BY <1>1
  <2> HIDE DEF Before
  <2> QED
    BY <2>3, <2>4, <2>5, <2>6
<1>7. IsBest(r, s)
  <2> SUFFICES ASSUME NEW a \in book, <<a, r>> \in ahead PROVE FALSE
    BY DEF IsBest
  <2>1. a \in OnSide(s)
    BY <1>5 DEF PriorityInv, OnSide, OrdersInv, BookTypeOK
  <2> QED
    BY <1>6, <2>1
<1>8. ASSUME NEW a \in OnSide(s), a # r
      PROVE  KeepsPlace(r, attr[a])
  <2>1. <<r, a>> \in ahead
    BY <1>5, <1>6, <1>8 DEF PriorityInv
  <2> QED
    BY <1>5, <2>1 DEF PriorityInv
<1> QED
    BY <1>5, <1>7, <1>8

\* A trade more adds its quantity at its price.
LEMMA OneTradeMore ==
    ASSUME NEW F, IsFiniteSet(F), F \subseteq Trade, NEW t \in Trade, t \notin F, t.qty \in 1..MaxQty, NEW p
    PROVE  /\ NumUnits(AtPrice(F, p), TradedQty) \in Nat
           /\ t.price = p =>
                 NumUnits(AtPrice(F \cup {t}, p), TradedQty) = NumUnits(AtPrice(F, p), TradedQty) + t.qty
           /\ t.price # p =>
                 NumUnits(AtPrice(F \cup {t}, p), TradedQty) = NumUnits(AtPrice(F, p), TradedQty)
<1>1. AtPrice(F, p) \subseteq F /\ t \notin AtPrice(F, p)
    BY DEF AtPrice
<1>2. IsFiniteSet(AtPrice(F, p))
    BY <1>1, FS_Subset
<1>3. NumUnits(AtPrice(F, p), TradedQty) \in Nat
    BY <1>2, UnitsFinite
<1>4. TradedQty[t] = t.qty /\ t.qty \in 0..MaxQty
    BY BookBounds DEF TradedQty
<1>5. CASE t.price = p
  <2>1. AtPrice(F \cup {t}, p) = AtPrice(F, p) \cup {t}
    BY <1>5 DEF AtPrice
  <2>2. TradedQty[t] \in 0..MaxQty
    BY <1>4
  <2>3. NumUnits(AtPrice(F, p) \cup {t}, TradedQty) = NumUnits(AtPrice(F, p), TradedQty) + TradedQty[t]
    BY <1>1, <1>2, <2>2, UnitsAdd, Zenon
  <2> QED
    BY <1>3, <1>4, <1>5, <2>1, <2>3
<1>6. CASE t.price # p
  <2>1. AtPrice(F \cup {t}, p) = AtPrice(F, p)
    BY <1>6 DEF AtPrice
  <2> QED
    BY <1>3, <1>6, <2>1
<1> QED
    BY <1>5, <1>6

\* Trades with a number above k.
After(F, k) == {t \in F : t.seq > k}

\* One after another the trades leave what is still to be reported.
LEMMA AfterStep ==
    ASSUME NEW F, IsFiniteSet(F), F \subseteq Trade, NEW t \in F, t.qty \in 1..MaxQty,
           \A u \in F : u.seq = t.seq => u = t, NEW k \in Nat, t.seq = k + 1, NEW p
    PROVE  /\ NumUnits(AtPrice(After(F, k + 1), p), TradedQty) \in Nat
           /\ t.price = p => NumUnits(AtPrice(After(F, k), p), TradedQty)
                             = NumUnits(AtPrice(After(F, k + 1), p), TradedQty) + t.qty
           /\ t.price # p => NumUnits(AtPrice(After(F, k), p), TradedQty)
                             = NumUnits(AtPrice(After(F, k + 1), p), TradedQty)
<1> DEFINE A == After(F, k + 1)
<1>1. \A u \in F : u.seq \in Nat
    BY DEF Trade
<1>2. After(F, k) = A \cup {t}
  <2>1. \A u \in F : u.seq > k <=> u.seq > k + 1 \/ u.seq = k + 1
    BY <1>1
  <2> QED
    BY <2>1 DEF After
<1>3. A \subseteq F /\ A \subseteq Trade /\ t \notin A
    BY <1>1 DEF After
<1> HIDE DEF A
<1>4. IsFiniteSet(A)
    BY <1>3, FS_Subset
<1>5. t \in Trade
    OBVIOUS
<1>6. /\ NumUnits(AtPrice(A, p), TradedQty) \in Nat
      /\ t.price = p => NumUnits(AtPrice(A \cup {t}, p), TradedQty) = NumUnits(AtPrice(A, p), TradedQty) + t.qty
      /\ t.price # p => NumUnits(AtPrice(A \cup {t}, p), TradedQty) = NumUnits(AtPrice(A, p), TradedQty)
    BY <1>3, <1>4, <1>5, OneTradeMore, Zenon
<1> QED
    BY <1>2, <1>6 DEF A

\* Without trades there is nothing.
LEMMA NothingTraded == \A p : NumUnits(AtPrice({}, p), TradedQty) = 0
<1> SUFFICES ASSUME NEW p PROVE NumUnits(AtPrice({}, p), TradedQty) = 0
    OBVIOUS
<1>1. Units(AtPrice({}, p), TradedQty) = {}
    BY DEF Units, AtPrice
<1> QED
    BY <1>1, FS_EmptySet DEF NumUnits

-----------------------------------------------------------------------------
(* The matching loop *)

BookInv == OrdersInv /\ PriorityInv /\ SidesApart /\ FillsInv

\* MatchOne with resting order r.
FillOne(r) ==
    /\ CanFill(r)
    /\ fills' = fills \cup {NewTrade(r)}
    /\ seq' = seq + 1
    /\ rem' = [rem EXCEPT ![incoming] = @ - FillQty(r), ![r] = @ - FillQty(r)]
    /\ \/ rem[r] = FillQty(r) /\ book' = book \ {r} /\ ahead' = Unqueued(r)
       \/ rem[r] # FillQty(r) /\ UNCHANGED <<book, ahead>>
    /\ UNCHANGED incoming

\* The loop fills the incoming order against an order of the book.
LEMMA MatchIsFill == MatchOne => \E r \in book : FillOne(r)
BY DEF MatchOne, FillOne

\* What the loop deals with.
LEMMA FillFacts ==
    ASSUME OrdersInv, NEW r \in book, CanFill(r)
    PROVE  /\ incoming \in Orders /\ r \in Orders /\ incoming # r /\ incoming # None /\ incoming \notin book
           /\ attr[incoming].side \in Sides /\ attr[r].side = Opposite(attr[incoming].side)
           /\ attr[r].price \in Prices /\ attr[r].price \in Nat
           /\ FillQty(r) \in 1..MaxQty /\ FillQty(r) \in Nat
           /\ FillQty(r) <= rem[r] /\ FillQty(r) <= rem[incoming]
           /\ rem[r] \in Nat /\ rem[incoming] \in Nat /\ rem[r] \in 1..MaxQty /\ rem[incoming] <= MaxQty
           /\ NewTrade(r) \in Trade
           /\ NewTrade(r).seq = seq + 1 /\ NewTrade(r).price = attr[r].price /\ NewTrade(r).qty = FillQty(r)
<1>1. incoming # None /\ rem[incoming] > 0 /\ r \in OnSide(Opposite(attr[incoming].side))
    BY DEF CanFill, IsBest
<1>2. /\ incoming \in Orders /\ r \in Orders /\ incoming \notin book
      /\ attr[incoming] \in Request /\ attr[r] \in Request
      /\ rem[r] \in Nat /\ rem[incoming] \in Nat /\ rem[r] \in 1..MaxQty /\ rem[incoming] <= MaxQty
      /\ seq \in Nat
    BY <1>1 DEF OrdersInv, BookTypeOK
<1>3. attr[incoming].side \in Sides /\ attr[r].side = Opposite(attr[incoming].side)
      /\ attr[r].price \in Prices /\ attr[r].price \in Nat
  <2>1. attr[r].side = Opposite(attr[incoming].side)
    BY <1>1 DEF OnSide
  <2> QED
    BY <1>2, <2>1, RequestFacts
<1>4. /\ FillQty(r) \in 1..MaxQty /\ FillQty(r) \in Nat
      /\ FillQty(r) <= rem[r] /\ FillQty(r) <= rem[incoming]
    BY <1>1, <1>2, BookBounds DEF FillQty, Lesser
<1>5. NewTrade(r) \in Trade
    BY <1>2, <1>3, <1>4 DEF NewTrade, Trade
<1>6. NewTrade(r).seq = seq + 1 /\ NewTrade(r).price = attr[r].price /\ NewTrade(r).qty = FillQty(r)
    BY DEF NewTrade
<1>7. incoming # r
    BY <1>2
<1> QED
    BY <1>1, <1>2, <1>3, <1>4, <1>5, <1>6, <1>7

\* A trade keeps the orders typed.
LEMMA FillKeepsOrders ==
    ASSUME OrdersInv, NEW r \in book, FillOne(r), UNCHANGED attr
    PROVE  OrdersInv'
<1> DEFINE q == FillQty(r)
<1>1. CanFill(r)
    BY DEF FillOne
<1>2. /\ incoming \in Orders /\ r \in Orders /\ incoming # r /\ incoming # None /\ incoming \notin book
      /\ q \in Nat /\ q \in 1..MaxQty /\ q <= rem[r] /\ q <= rem[incoming]
      /\ rem[r] \in Nat /\ rem[incoming] \in Nat /\ rem[r] \in 1..MaxQty /\ rem[incoming] <= MaxQty
      /\ NewTrade(r) \in Trade
    BY <1>1, FillFacts
<1>3. rem' = [rem EXCEPT ![incoming] = rem[incoming] - q, ![r] = rem[r] - q]
    BY <1>2 DEF FillOne, OrdersInv, BookTypeOK
<1>4. book' \subseteq book /\ (r \in book' => rem[r] # q) /\ ahead' \subseteq ahead
    BY DEF FillOne, Unqueued
<1>5. fills' = fills \cup {NewTrade(r)} /\ seq' = seq + 1 /\ incoming' = incoming
    BY DEF FillOne
<1> HIDE DEF q
<1>6. rem[incoming] - q \in Nat /\ rem[incoming] - q <= MaxQty /\ rem[r] - q \in Nat
      /\ (rem[r] # q => rem[r] - q \in 1..MaxQty)
    BY <1>2, BookBounds
<1>7. /\ rem' \in [Orders -> Nat] /\ rem'[incoming] = rem[incoming] - q /\ rem'[r] = rem[r] - q
      /\ \A x \in Orders : x # incoming /\ x # r => rem'[x] = rem[x]
    BY <1>2, <1>3, <1>6 DEF OrdersInv, BookTypeOK
<1>8. BookTypeOK'
    BY <1>2, <1>4, <1>5, <1>7 DEF OrdersInv, BookTypeOK
<1>9. IsFiniteSet(book')
    BY <1>4, FS_Subset DEF OrdersInv
<1>10. \A o \in book' : attr'[o] \in Request /\ rem'[o] \in 1..MaxQty
  <2> SUFFICES ASSUME NEW o \in book' PROVE rem'[o] \in 1..MaxQty
    BY <1>4 DEF OrdersInv
  <2>1. o \in Orders /\ o # incoming /\ rem[o] \in 1..MaxQty
    BY <1>2, <1>4 DEF OrdersInv, BookTypeOK
  <2> QED
    BY <1>4, <1>6, <1>7, <2>1
<1> QED
    BY <1>2, <1>4, <1>5, <1>6, <1>7, <1>8, <1>9, <1>10 DEF OrdersInv

\* A trade gets the next number.
LEMMA FillKeepsFills ==
    ASSUME OrdersInv, FillsInv, NEW r \in book, FillOne(r)
    PROVE  /\ FillsInv' /\ NewTrade(r) \notin fills
           /\ Cardinality(fills') = Cardinality(fills) + 1 /\ Cardinality(fills) \in Nat
<1> DEFINE t == NewTrade(r)  n == Cardinality(fills)
<1>1. CanFill(r)
    BY DEF FillOne
<1>2. /\ t.seq = seq + 1 /\ t.price \in Prices /\ t.qty \in 1..MaxQty /\ incoming # None
    BY <1>1, FillFacts
<1>3. fills' = fills \cup {t} /\ seq' = seq + 1 /\ incoming' = incoming
    BY DEF FillOne
<1>4. seq \in Nat /\ n \in Nat /\ n <= seq
    BY FS_CardinalityType DEF OrdersInv, BookTypeOK, FillsInv
<1> HIDE DEF t
<1>5. \A u \in fills : u.seq \in Nat /\ u.seq <= seq
    BY DEF OrdersInv, BookTypeOK, FillsInv, Trade
<1>6. t \notin fills
    BY <1>2, <1>4, <1>5
<1>7. IsFiniteSet(fills') /\ Cardinality(fills') = n + 1
    BY <1>3, <1>6, FS_AddElement DEF FillsInv
<1> HIDE DEF n
<1>8. seq' - Cardinality(fills') = seq - n
    BY <1>3, <1>4, <1>7
<1>9. \A u \in fills' : /\ u.price \in Prices /\ u.qty \in 1..MaxQty
                        /\ u.seq > seq - n /\ u.seq <= seq'
  <2>1. \A u \in fills : u.price \in Prices /\ u.qty \in 1..MaxQty /\ u.seq > seq - n /\ u.seq <= seq
    BY DEF FillsInv, n
  <2> QED
    BY <1>2, <1>3, <1>4, <1>5, <2>1
<1>10. \A u, v \in fills' : u.seq = v.seq => u = v
  <2>1. \A u, v \in fills : u.seq = v.seq => u = v
    BY DEF FillsInv
  <2> QED
    BY <1>2, <1>3, <1>4, <1>5, <2>1
<1>11. \A k \in Nat : seq - n < k /\ k <= seq' => \E u \in fills' : u.seq = k
  <2>1. \A k \in Nat : seq - n < k /\ k <= seq => \E u \in fills : u.seq = k
    BY DEF FillsInv, n
  <2> QED
    BY <1>2, <1>3, <1>4, <2>1
<1>12. FillsInv'
  <2>1. Cardinality(fills') <= seq'
    BY <1>3, <1>4, <1>7
  <2>2. incoming' = None => fills' = {}
    BY <1>2, <1>3
  <2>3. \A u \in fills' : /\ u.price \in Prices /\ u.qty \in 1..MaxQty
                          /\ u.seq > seq' - Cardinality(fills') /\ u.seq <= seq'
    BY <1>8, <1>9, Zenon
  <2>4. \A k \in Nat : seq' - Cardinality(fills') < k /\ k <= seq' => \E u \in fills' : u.seq = k
    BY <1>8, <1>11, Zenon
  <2> QED
    BY <1>7, <1>10, <2>1, <2>2, <2>3, <2>4, Zenon DEF FillsInv
<1> QED
    BY <1>4, <1>6, <1>7, <1>12 DEF t, n

\* A trade is made where the own side has nothing.
LEMMA FillKeepsApart ==
    ASSUME OrdersInv, SidesApart, NEW r \in book, FillOne(r), UNCHANGED <<attr, loaded>>
    PROVE  SidesApart'
<1>1. CanFill(r) /\ book' \subseteq book /\ fills' = fills \cup {NewTrade(r)} /\ incoming' = incoming
    BY DEF FillOne
<1>2. /\ attr[incoming].side \in Sides /\ attr[r].side = Opposite(attr[incoming].side)
      /\ attr[r].price \in Nat /\ NewTrade(r).price = attr[r].price
    BY <1>1, FillFacts
<1>3. \A o \in book : attr[o].price \in Nat
    BY RequestFacts DEF OrdersInv
<1>4. ASSUME ~loaded, NEW o \in book, attr[o].side = attr[incoming].side
      PROVE  attr[o].price # attr[r].price
    BY <1>2, <1>3, <1>4 DEF SidesApart, Opposite, Sides, BUY, SELL
<1> QED
    BY <1>1, <1>2, <1>4 DEF SidesApart

\* MatchOne keeps the book in order.
LEMMA MatchOneKeepsBook ==
    ASSUME BookInv, NEW r \in book, FillOne(r), UNCHANGED <<attr, loaded>>
    PROVE  BookInv'
<1>1. OrdersInv /\ PriorityInv /\ SidesApart /\ FillsInv
    BY DEF BookInv
<1>2. OrdersInv'
    BY <1>1, FillKeepsOrders
<1>3. FillsInv'
    BY <1>1, FillKeepsFills
<1>4. SidesApart'
    BY <1>1, FillKeepsApart
<1>5. PriorityInv'
  <2>1. CASE book' = book \ {r} /\ ahead' = Unqueued(r)
    BY <1>1, <2>1, UnqueuedKeepsPriority
  <2>2. CASE UNCHANGED <<book, ahead>>
    BY <1>1, <2>2, SameBookKeepsPriority
  <2> QED
    BY <2>1, <2>2 DEF FillOne
<1> QED
    BY <1>2, <1>3, <1>4, <1>5 DEF BookInv

-----------------------------------------------------------------------------
(* The other steps of the worker *)

\* What does not trade any more does not meet the other side.
LEMMA NothingCrosses ==
    ASSUME OrdersInv, PriorityInv, incoming # None, rem[incoming] > 0, \A r \in book : ~CanFill(r)
    PROVE  \A a \in OnSide(Opposite(attr[incoming].side)) :
              /\ attr[incoming].side = BUY => attr[incoming].price < attr[a].price
              /\ attr[incoming].side = SELL => attr[a].price < attr[incoming].price
<1> DEFINE s == Opposite(attr[incoming].side)
<1>1. attr[incoming].side \in Sides /\ attr[incoming].price \in Nat
    BY RequestFacts DEF OrdersInv
<1>2. s \in Sides /\ s # attr[incoming].side
    BY <1>1 DEF Opposite, Sides, BUY, SELL
<1>3. \A a \in OnSide(s) : attr[a].price \in Nat
    BY RequestFacts DEF OrdersInv, OnSide
<1> SUFFICES ASSUME NEW a \in OnSide(s)
             PROVE  /\ attr[incoming].side = BUY => attr[incoming].price < attr[a].price
                    /\ attr[incoming].side = SELL => attr[a].price < attr[incoming].price
    OBVIOUS
<1> HIDE DEF s
<1>4. PICK r \in book : IsBest(r, s) /\ \A x \in OnSide(s) : x = r \/ KeepsPlace(r, attr[x])
    BY <1>2, BestExists
<1>5. ~Crosses(incoming, r)
    BY <1>4 DEF CanFill, s
<1>6. r \in OnSide(s)
    BY <1>4 DEF IsBest
<1>7. (a = r \/ KeepsPlace(r, attr[a])) /\ attr[a].side = s
    BY <1>4 DEF OnSide
<1>8. attr[r].price \in Nat /\ attr[a].price \in Nat
    BY <1>3, <1>6
<1>9. CASE attr[incoming].side = BUY
  <2>1. s # BUY
    BY <1>2, <1>9
  <2>2. attr[incoming].price < attr[r].price
    BY <1>1, <1>5, <1>8, <1>9 DEF Crosses
  <2>3. attr[r].price <= attr[a].price
    BY <1>7, <1>8, <2>1 DEF KeepsPlace
  <2> QED
    BY <1>1, <1>8, <1>9, <2>2, <2>3 DEF BUY, SELL
<1>10. CASE attr[incoming].side = SELL
  <2>1. s = BUY
    BY <1>10 DEF s, Opposite, BUY, SELL
  <2>2. attr[r].price < attr[incoming].price
    BY <1>1, <1>5, <1>8, <1>10 DEF Crosses, BUY, SELL
  <2>3. attr[r].price >= attr[a].price
    BY <1>7, <1>8, <2>1 DEF KeepsPlace
  <2> QED
    BY <1>1, <1>8, <1>10, <2>2, <2>3 DEF BUY, SELL
<1> QED
    BY <1>1, <1>9, <1>10 DEF Sides

\* No trades.
LEMMA NoFillsInv ==
    ASSUME fills' = {}, seq' \in Nat
    PROVE  FillsInv'
<1>1. IsFiniteSet({}) /\ Cardinality({}) = 0
    BY FS_EmptySet
<1>2. IsFiniteSet(fills') /\ Cardinality(fills') = 0
    BY <1>1, Zenon
<1> QED
    BY <1>2 DEF FillsInv

\* FinishMatch leaves the rest of the order in the book.
LEMMA FinishKeepsBook ==
    ASSUME BookInv, FinishMatch, UNCHANGED <<attr, loaded>>
    PROVE  BookInv'
<1>1. OrdersInv /\ PriorityInv /\ SidesApart /\ FillsInv /\ BookTypeOK
    BY DEF BookInv, OrdersInv
<1>2. incoming # None /\ incoming' = None /\ fills' = {} /\ rem' = rem /\ seq' = seq
    BY DEF FinishMatch
<1>3. incoming \in Orders /\ incoming \notin book /\ attr[incoming] \in Request
      /\ rem[incoming] <= MaxQty /\ rem[incoming] \in Nat /\ attr[incoming] \in Attr
    BY <1>1, <1>2 DEF OrdersInv, BookTypeOK
<1>4. FillsInv'
    BY <1>1, <1>2, NoFillsInv DEF BookTypeOK
<1>5. CASE rem[incoming] > 0 /\ book' = book \cup {incoming} /\ ahead' = Queued(incoming, attr[incoming])
  <2>1. OnSide(attr[incoming].side) \subseteq Orders
    BY <1>1 DEF OnSide, BookTypeOK
  <2>2. ahead' \subseteq Orders \X Orders
    BY <1>1, <1>3, <1>5, <2>1 DEF Queued, BookTypeOK
  <2>3. BookTypeOK'
    BY <1>1, <1>2, <1>3, <1>5, <2>2 DEF BookTypeOK
  <2>4. IsFiniteSet(book')
    BY <1>1, <1>5, FS_AddElement DEF OrdersInv
  <2>5. rem[incoming] \in 1..MaxQty
    BY <1>3, <1>5, BookBounds
  <2>6. OrdersInv'
    BY <1>1, <1>2, <1>3, <1>5, <2>3, <2>4, <2>5 DEF OrdersInv
  <2>7. PriorityInv'
    <3>1. attr' \in [Orders -> Attr] /\ attr'[incoming] = attr[incoming] /\ \A x \in book : attr'[x] = attr[x]
      BY <1>1 DEF BookTypeOK
    <3> QED
      BY <1>1, <1>3, <1>5, <3>1, QueuedKeepsPriority
  <2>8. SidesApart'
    <3>1. \A r \in book : ~CanFill(r)
      BY DEF FinishMatch
    <3>2. \A a \in book : attr[a].side = Opposite(attr[incoming].side) =>
              /\ attr[incoming].side = BUY => attr[incoming].price < attr[a].price
              /\ attr[incoming].side = SELL => attr[a].price < attr[incoming].price
      BY <1>1, <1>2, <1>5, <3>1, NothingCrosses DEF OnSide
    <3>3. ASSUME ~loaded, NEW a \in book', NEW b \in book', attr[a].side = BUY, attr[b].side = SELL
          PROVE  attr[a].price < attr[b].price
      <4>1. CASE a \in book /\ b \in book
        BY <1>1, <3>3, <4>1 DEF SidesApart
      <4>2. CASE a = incoming /\ b \in book
        BY <3>2, <3>3, <4>2 DEF Opposite
      <4>3. CASE a \in book /\ b = incoming
        BY <3>2, <3>3, <4>3 DEF Opposite, BUY, SELL
      <4>4. a # b
        BY <3>3 DEF BUY, SELL
      <4> QED
        BY <1>5, <4>1, <4>2, <4>3, <4>4
    <3> QED
      BY <1>2, <3>3 DEF SidesApart
  <2> QED
    BY <1>4, <2>6, <2>7, <2>8 DEF BookInv
<1>6. CASE UNCHANGED <<book, ahead>>
  <2>1. OrdersInv'
    BY <1>1, <1>2, <1>6 DEF OrdersInv, BookTypeOK
  <2>2. PriorityInv'
    BY <1>1, <1>6, SameBookKeepsPriority
  <2>3. SidesApart'
    BY <1>1, <1>2, <1>6 DEF SidesApart
  <2> QED
    BY <1>4, <2>1, <2>2, <2>3 DEF BookInv
<1> QED
    BY <1>5, <1>6 DEF FinishMatch

\* Place puts an order to work on an unchanged book.
LEMMA PlaceKeepsBook ==
    ASSUME BookInv, NEW o \in Orders, NEW a \in Request, Place(o, a), UNCHANGED loaded
    PROVE  BookInv'
<1>1. OrdersInv /\ PriorityInv /\ SidesApart /\ FillsInv /\ BookTypeOK
    BY DEF BookInv, OrdersInv
<1>2. /\ attr[o] = NoAttr /\ attr' = [attr EXCEPT ![o] = a]
      /\ incoming = None /\ incoming' = o /\ rem' = [rem EXCEPT ![o] = a.qty]
      /\ UNCHANGED <<book, ahead, fills, seq>>
    BY DEF Place, BeginMatch
<1>3. o \notin book
    BY <1>1, <1>2, UnknownOrder
<1>4. a \in Attr /\ a.qty \in Nat /\ a.qty <= MaxQty
    BY RequestFacts, BookBounds
<1>5. attr' \in [Orders -> Attr] /\ attr'[o] = a /\ \A x \in Orders : x # o => attr'[x] = attr[x]
    BY <1>1, <1>2, <1>4 DEF BookTypeOK
<1>6. rem' \in [Orders -> Nat] /\ rem'[o] = a.qty /\ \A x \in Orders : x # o => rem'[x] = rem[x]
    BY <1>1, <1>2, <1>4 DEF BookTypeOK
<1>7. \A x \in book : x \in Orders /\ x # o /\ attr'[x] = attr[x] /\ rem'[x] = rem[x]
    BY <1>1, <1>3, <1>5, <1>6 DEF BookTypeOK
<1>8. fills = {}
    BY <1>1, <1>2 DEF FillsInv
<1>9. BookTypeOK'
    BY <1>1, <1>2, <1>5, <1>6 DEF BookTypeOK
<1>10. OrdersInv'
    BY <1>1, <1>2, <1>3, <1>4, <1>5, <1>6, <1>7, <1>9 DEF OrdersInv
<1>11. PriorityInv'
    BY <1>1, <1>2, <1>7, SameBookKeepsPriority
<1>12. SidesApart'
    BY <1>1, <1>2, <1>7, <1>8 DEF SidesApart
<1>13. FillsInv'
    BY <1>1, <1>2, <1>8, NoFillsInv DEF BookTypeOK
<1> QED
    BY <1>10, <1>11, <1>12, <1>13 DEF BookInv

\* LoadOrder inserts without matching.
LEMMA LoadKeepsBook ==
    ASSUME BookInv, NEW o \in Orders, NEW a \in Request, LoadOrder(o, a), loaded'
    PROVE  BookInv'
<1>1. OrdersInv /\ PriorityInv /\ FillsInv /\ BookTypeOK
    BY DEF BookInv, OrdersInv
<1>2. /\ attr[o] = NoAttr /\ attr' = [attr EXCEPT ![o] = a]
      /\ book' = book \cup {o} /\ ahead' = Queued(o, a) /\ rem' = [rem EXCEPT ![o] = a.qty]
      /\ UNCHANGED <<incoming, fills, seq>>
    BY DEF LoadOrder
<1>3. o \notin book /\ o # incoming
    BY <1>1, <1>2, UnknownOrder
<1>4. a \in Attr /\ a.qty \in Nat /\ a.qty \in 1..MaxQty
    BY RequestFacts
<1>5. attr' \in [Orders -> Attr] /\ attr'[o] = a /\ \A x \in Orders : x # o => attr'[x] = attr[x]
    BY <1>1, <1>2, <1>4 DEF BookTypeOK
<1>6. rem' \in [Orders -> Nat] /\ rem'[o] = a.qty /\ \A x \in Orders : x # o => rem'[x] = rem[x]
    BY <1>1, <1>2, <1>4 DEF BookTypeOK
<1>7. \A x \in book : x \in Orders /\ x # o /\ attr'[x] = attr[x] /\ rem'[x] = rem[x]
    BY <1>1, <1>3, <1>5, <1>6 DEF BookTypeOK
<1>8. ahead' \subseteq Orders \X Orders
  <2>1. OnSide(a.side) \subseteq Orders
    BY <1>1 DEF OnSide, BookTypeOK
  <2> QED
    BY <1>1, <1>2, <2>1 DEF Queued, BookTypeOK
<1>9. BookTypeOK'
    BY <1>1, <1>2, <1>5, <1>6, <1>8 DEF BookTypeOK
<1>10. OrdersInv'
  <2>1. IsFiniteSet(book')
    BY <1>1, <1>2, FS_AddElement DEF OrdersInv
  <2>2. \A x \in book' : attr'[x] \in Request /\ rem'[x] \in 1..MaxQty
    BY <1>1, <1>2, <1>4, <1>5, <1>6, <1>7 DEF OrdersInv
  <2>3. incoming # None => /\ incoming \in Orders /\ incoming # o /\ incoming \notin book'
                           /\ attr'[incoming] \in Request /\ rem'[incoming] <= MaxQty
    BY <1>1, <1>2, <1>3, <1>5, <1>6 DEF OrdersInv, BookTypeOK
  <2> QED
    BY <1>2, <1>9, <2>1, <2>2, <2>3 DEF OrdersInv
<1>11. PriorityInv'
    BY <1>1, <1>2, <1>3, <1>4, <1>5, <1>7, QueuedKeepsPriority
<1>12. SidesApart'
    BY DEF SidesApart
<1>13. FillsInv'
    BY <1>1, <1>2 DEF FillsInv
<1> QED
    BY <1>10, <1>11, <1>12, <1>13 DEF BookInv

\* Cancel takes an order out.
LEMMA CancelKeepsBook ==
    ASSUME BookInv, NEW o \in Orders, Cancel(o), UNCHANGED loaded
    PROVE  BookInv'
<1>1. OrdersInv /\ PriorityInv /\ SidesApart /\ FillsInv /\ BookTypeOK
    BY DEF BookInv, OrdersInv
<1>2. /\ incoming = None /\ book' = book \ {o} /\ ahead' = Unqueued(o) /\ rem' = [rem EXCEPT ![o] = 0]
      /\ UNCHANGED <<incoming, fills, seq, attr>>
    BY DEF Cancel, CancelResting
<1>3. rem' \in [Orders -> Nat] /\ \A x \in Orders : x # o => rem'[x] = rem[x]
    BY <1>1, <1>2 DEF BookTypeOK
<1>4. ahead' \subseteq ahead
    BY <1>2 DEF Unqueued
<1>5. BookTypeOK'
    BY <1>1, <1>2, <1>3, <1>4 DEF BookTypeOK
<1>6. IsFiniteSet(book')
    BY <1>1, <1>2, FS_RemoveElement DEF OrdersInv
<1>7. OrdersInv'
    BY <1>1, <1>2, <1>3, <1>5, <1>6 DEF OrdersInv, BookTypeOK
<1>8. PriorityInv'
    BY <1>1, <1>2, UnqueuedKeepsPriority
<1>9. SidesApart' /\ FillsInv'
    BY <1>1, <1>2 DEF SidesApart, FillsInv
<1> QED
    BY <1>7, <1>8, <1>9 DEF BookInv

\* Steps that leave the book alone.
LEMMA SameBook ==
    ASSUME BookInv, UNCHANGED <<attr, book, ahead, rem, incoming, fills, seq, loaded>>
    PROVE  BookInv'
BY DEF BookInv, OrdersInv, BookTypeOK, PriorityInv, KeepsPlace, SidesApart, FillsInv

-----------------------------------------------------------------------------
(* How the steps change what rests *)

\* Both totals are numbers.
LEMMA TotalsAreNumbers ==
    ASSUME BookInv, NEW s, NEW p
    PROVE  SideTotal(s, p) \in Nat /\ Taken(s, p) \in Nat
<1>1. At(s, p) \subseteq book /\ AtPrice(fills, p) \subseteq fills
    BY DEF At, OnSide, AtPrice
<1>2. IsFiniteSet(book) /\ IsFiniteSet(fills)
    BY DEF BookInv, OrdersInv, FillsInv
<1>3. IsFiniteSet(At(s, p)) /\ IsFiniteSet(AtPrice(fills, p))
    BY <1>1, <1>2, FS_Subset
<1>4. NumUnits(At(s, p), rem) \in Nat /\ NumUnits(AtPrice(fills, p), TradedQty) \in Nat
    BY <1>3, UnitsFinite
<1>5. SideTotal(s, p) = NumUnits(At(s, p), rem)
    BY SideIsUnits
<1> QED
    BY <1>4, <1>5 DEF Taken

\* What the loop takes from the book is taken, but not reported yet.
LEMMA FillKeepsRest ==
    ASSUME BookInv, BookInv', NEW r \in book, FillOne(r), UNCHANGED attr, NEW s, NEW p
    PROVE  SideTotal(s, p)' + Taken(s, p)' = SideTotal(s, p) + Taken(s, p)
<1> DEFINE q == FillQty(r)
<1>1. OrdersInv /\ OrdersInv' /\ FillsInv
    BY DEF BookInv
<1>2. CanFill(r) /\ fills' = fills \cup {NewTrade(r)} /\ incoming' = incoming
    BY DEF FillOne
<1>3. /\ incoming \in Orders /\ r \in Orders /\ incoming # r /\ incoming # None /\ incoming \notin book
      /\ attr[r].side = Opposite(attr[incoming].side)
      /\ q \in Nat /\ q \in 1..MaxQty /\ q <= rem[r] /\ rem[r] \in Nat
      /\ NewTrade(r) \in Trade /\ NewTrade(r).price = attr[r].price /\ NewTrade(r).qty = q
    BY <1>1, <1>2, FillFacts
<1>4. rem' = [rem EXCEPT ![incoming] = rem[incoming] - q, ![r] = rem[r] - q]
    BY <1>1, <1>3 DEF FillOne, OrdersInv, BookTypeOK
<1>5. /\ \/ rem[r] = q /\ book' = book \ {r}
         \/ rem[r] # q /\ book' = book
    BY DEF FillOne
<1>6. NewTrade(r) \notin fills
    BY <1>1, FillKeepsFills
<1> HIDE DEF q
<1>7. rem'[r] = rem[r] - q /\ \A x \in book \ {r} : rem'[x] = rem[x]
    BY <1>1, <1>3, <1>4 DEF OrdersInv, BookTypeOK
<1>8. PICK n \in Nat : SideTotal(s, p) = n + Share(r, s, p) /\ SideTotal(s, p)' = n + Share(r, s, p)'
  <2>1. book' \ {r} = book \ {r}
    BY <1>5
  <2>2. \A x \in book \ {r} : attr'[x] = attr[x] /\ rem'[x] = rem[x]
    BY <1>7
  <2> QED
    BY <1>1, <2>1, <2>2, OneOrderChanges
<1>9. /\ NumUnits(AtPrice(fills, p), TradedQty) \in Nat
      /\ attr[r].price = p =>
            NumUnits(AtPrice(fills', p), TradedQty) = NumUnits(AtPrice(fills, p), TradedQty) + q
      /\ attr[r].price # p =>
            NumUnits(AtPrice(fills', p), TradedQty) = NumUnits(AtPrice(fills, p), TradedQty)
  <2>1. PICK t : t = NewTrade(r)
    OBVIOUS
  <2>2. IsFiniteSet(fills) /\ fills \subseteq Trade
    BY <1>1 DEF FillsInv, OrdersInv, BookTypeOK
  <2>3. t \in Trade /\ t \notin fills /\ t.qty \in 1..MaxQty /\ t.price = attr[r].price /\ t.qty = q
    BY <1>3, <1>6, <2>1
  <2>4. /\ NumUnits(AtPrice(fills, p), TradedQty) \in Nat
        /\ t.price = p =>
              NumUnits(AtPrice(fills \cup {t}, p), TradedQty) = NumUnits(AtPrice(fills, p), TradedQty) + t.qty
        /\ t.price # p =>
              NumUnits(AtPrice(fills \cup {t}, p), TradedQty) = NumUnits(AtPrice(fills, p), TradedQty)
    BY <2>2, <2>3, OneTradeMore, Zenon
  <2>5. fills' = fills \cup {t}
    BY <1>2, <2>1
  <2> QED
    BY <2>3, <2>4, <2>5, Zenon
<1>10. Share(r, s, p) = IF attr[r].side = s /\ attr[r].price = p THEN rem[r] ELSE 0
    BY DEF Share, At, OnSide
<1>11. Share(r, s, p)' = IF attr[r].side = s /\ attr[r].price = p THEN rem[r] - q ELSE 0
    BY <1>3, <1>5, <1>7 DEF Share, At, OnSide
<1>12. Taken(s, p) = IF s = attr[r].side THEN NumUnits(AtPrice(fills, p), TradedQty) ELSE 0
    BY <1>3 DEF Taken
<1>13. Taken(s, p)' = IF s = attr[r].side THEN NumUnits(AtPrice(fills', p), TradedQty) ELSE 0
    BY <1>2, <1>3 DEF Taken
<1>14. CASE attr[r].side = s /\ attr[r].price = p
  <2>1. /\ SideTotal(s, p) = n + rem[r] /\ SideTotal(s, p)' = n + (rem[r] - q)
        /\ Taken(s, p)' = Taken(s, p) + q /\ Taken(s, p) \in Nat
    BY <1>8, <1>9, <1>10, <1>11, <1>12, <1>13, <1>14
  <2> HIDE <1>4
  <2> QED
    BY <1>3, <2>1
<1>15. CASE attr[r].side = s /\ attr[r].price # p
    BY <1>8, <1>9, <1>10, <1>11, <1>12, <1>13, <1>15
<1>16. CASE attr[r].side # s
    BY <1>8, <1>10, <1>11, <1>12, <1>13, <1>16
<1> QED
    BY <1>14, <1>15, <1>16

\* An order at work does not rest yet.
LEMMA PlaceKeepsRest ==
    ASSUME BookInv, BookInv', NEW o \in Orders, NEW a \in Request, Place(o, a), NEW s, NEW p
    PROVE  SideTotal(s, p)' + Taken(s, p)' = SideTotal(s, p) + Taken(s, p)
<1>1. OrdersInv /\ OrdersInv' /\ FillsInv
    BY DEF BookInv
<1>2. /\ attr[o] = NoAttr /\ attr' = [attr EXCEPT ![o] = a] /\ rem' = [rem EXCEPT ![o] = a.qty]
      /\ incoming = None /\ UNCHANGED <<book, fills>>
    BY DEF Place, BeginMatch
<1>3. o \notin book
    BY <1>1, <1>2, UnknownOrder
<1>4. \A x \in book \ {o} : attr'[x] = attr[x] /\ rem'[x] = rem[x]
    BY <1>1, <1>2 DEF OrdersInv, BookTypeOK
<1>5. book' \ {o} = book \ {o}
    BY <1>2
<1>6. PICK n \in Nat : SideTotal(s, p) = n + Share(o, s, p) /\ SideTotal(s, p)' = n + Share(o, s, p)'
    BY <1>1, <1>4, <1>5, OneOrderChanges
<1>7. Share(o, s, p) = 0 /\ Share(o, s, p)' = 0
    BY <1>2, <1>3 DEF Share, At, OnSide
<1>8. fills = {} /\ fills' = {}
    BY <1>1, <1>2 DEF FillsInv
<1>9. Taken(s, p) = 0
    BY <1>2 DEF Taken
<1>10. Taken(s, p)' = 0
    BY <1>8, NothingTraded DEF Taken
<1> QED
    BY <1>6, <1>7, <1>9, <1>10

\* A cancelled order rests no more.
LEMMA CancelChangesRest ==
    ASSUME BookInv, BookInv', NEW o \in Orders, Cancel(o), NEW s, NEW p
    PROVE  /\ o \in At(s, p) => SideTotal(s, p) = SideTotal(s, p)' + rem[o]
           /\ o \notin At(s, p) => SideTotal(s, p) = SideTotal(s, p)'
           /\ Taken(s, p) = 0 /\ Taken(s, p)' = 0
<1>1. OrdersInv /\ OrdersInv'
    BY DEF BookInv
<1>2. /\ incoming = None /\ incoming' = None /\ attr' = attr /\ rem' = [rem EXCEPT ![o] = 0]
      /\ book' = book \ {o}
    BY DEF Cancel, CancelResting
<1>3. \A x \in book \ {o} : attr'[x] = attr[x] /\ rem'[x] = rem[x]
    BY <1>1, <1>2 DEF OrdersInv, BookTypeOK
<1>4. book' \ {o} = book \ {o}
    BY <1>2
<1>5. PICK n \in Nat : SideTotal(s, p) = n + Share(o, s, p) /\ SideTotal(s, p)' = n + Share(o, s, p)'
    BY <1>1, <1>3, <1>4, OneOrderChanges
<1>6. Share(o, s, p)' = 0
    BY <1>2 DEF Share, At, OnSide
<1>7. Taken(s, p) = 0 /\ Taken(s, p)' = 0
    BY <1>2 DEF Taken
<1> QED
    BY <1>5, <1>6, <1>7 DEF Share

\* What remains of the incoming order comes to rest.
LEMMA FinishChangesRest ==
    ASSUME BookInv, BookInv', FinishMatch, UNCHANGED attr, NEW s, NEW p
    PROVE  /\ rem[incoming] # 0 /\ attr[incoming].side = s /\ attr[incoming].price = p =>
                 SideTotal(s, p)' = SideTotal(s, p) + rem[incoming]
           /\ ~(rem[incoming] # 0 /\ attr[incoming].side = s /\ attr[incoming].price = p) =>
                 SideTotal(s, p)' = SideTotal(s, p)
           /\ Taken(s, p)' = 0
<1>1. OrdersInv /\ OrdersInv'
    BY DEF BookInv
<1>2. /\ incoming # None /\ incoming' = None /\ rem' = rem
      /\ \/ rem[incoming] > 0 /\ book' = book \cup {incoming}
         \/ rem[incoming] = 0 /\ book' = book
    BY DEF FinishMatch
<1>3. incoming \notin book /\ incoming \in Orders /\ rem[incoming] \in Nat
    BY <1>1, <1>2 DEF OrdersInv, BookTypeOK
<1>4. book' \ {incoming} = book \ {incoming} /\ \A x \in book \ {incoming} : attr'[x] = attr[x] /\ rem'[x] = rem[x]
    BY <1>2
<1>5. PICK i : i = incoming
    OBVIOUS
<1>6. PICK n \in Nat : SideTotal(s, p) = n + Share(i, s, p) /\ SideTotal(s, p)' = n + Share(i, s, p)'
    BY <1>1, <1>4, <1>5, OneOrderChanges
<1>7. Share(i, s, p) = 0
    BY <1>3, <1>5 DEF Share, At, OnSide
<1>8. Share(i, s, p)' = IF rem[i] # 0 /\ attr[i].side = s /\ attr[i].price = p THEN rem[i] ELSE 0
    BY <1>2, <1>3, <1>5 DEF Share, At, OnSide
<1>9. Taken(s, p)' = 0
    BY <1>2 DEF Taken
<1> QED
    BY <1>5, <1>6, <1>7, <1>8, <1>9

\* What nothing has touched stays.
LEMMA SameRest ==
    ASSUME UNCHANGED <<attr, book, rem, incoming, fills>>, NEW s, NEW p
    PROVE  SideTotal(s, p)' = SideTotal(s, p) /\ Taken(s, p)' = Taken(s, p)
BY DEF SideTotal, OnSide, Taken

-----------------------------------------------------------------------------
(* What Match reports *)

Reported(t) == TradeEvent(t, sent + 1 + Cardinality({u \in fills : u.seq < t.seq}))
Reports == {Reported(t) : t \in fills}
RestReport == IF rem[incoming] = 0 THEN {}
              ELSE {OrderEvent("rested", incoming, sent + 1 + Cardinality(fills))}

\* The trades of this call of Match have the numbers that follow base.
FillsFollow(base) ==
    /\ seq = base + Cardinality(fills)
    /\ \A t \in fills : t.seq \in Nat /\ base < t.seq /\ t.seq <= base + Cardinality(fills)
    /\ \A t, u \in fills : t.seq = u.seq => t = u
    /\ \A k \in Nat : base < k /\ k <= base + Cardinality(fills) => \E t \in fills : t.seq = k

\* There is such a number.
LEMMA FillsHaveBase == BookInv => Cardinality(fills) \in Nat /\ \E base \in Nat : FillsFollow(base)
<1> SUFFICES ASSUME BookInv PROVE Cardinality(fills) \in Nat /\ \E base \in Nat : FillsFollow(base)
    OBVIOUS
<1> DEFINE n == Cardinality(fills)
<1>1. FillsInv /\ fills \subseteq Trade /\ seq \in Nat
    BY DEF BookInv, OrdersInv, BookTypeOK
<1>2. n \in Nat /\ n <= seq
    BY <1>1, FS_CardinalityType DEF FillsInv
<1>3. /\ \A t \in fills : t.seq > seq - n /\ t.seq <= seq
      /\ \A t, u \in fills : t.seq = u.seq => t = u
      /\ \A k \in Nat : seq - n < k /\ k <= seq => \E t \in fills : t.seq = k
    BY <1>1 DEF FillsInv
<1>4. \A t \in fills : t.seq \in Nat
    BY <1>1 DEF Trade
<1> HIDE DEF n
<1>5. PICK b \in Nat : b = seq - n
    BY <1>1, <1>2
<1>6. seq = b + n
    BY <1>1, <1>2, <1>5
<1>7. \A t \in fills : t.seq \in Nat /\ b < t.seq /\ t.seq <= b + n
    BY <1>1, <1>3, <1>4, <1>5, <1>6
<1>8. \A k \in Nat : b < k /\ k <= b + n => \E t \in fills : t.seq = k
    BY <1>3, <1>5, <1>6
<1>9. FillsFollow(b)
    BY <1>3, <1>6, <1>7, <1>8 DEF FillsFollow, n
<1> QED
    BY <1>2, <1>9 DEF n

\* A trade is preceded by those between base and its number.
LEMMA Rank ==
    ASSUME NEW base \in Nat, FillsFollow(base), Cardinality(fills) \in Nat, NEW t \in fills
    PROVE  /\ Cardinality({u \in fills : u.seq < t.seq}) \in Nat
           /\ t.seq = base + 1 + Cardinality({u \in fills : u.seq < t.seq})
<1> DEFINE E == {u \in fills : u.seq < t.seq}
<1>1. /\ \A u \in fills : u.seq \in Nat /\ base < u.seq /\ u.seq <= base + Cardinality(fills)
      /\ \A u, v \in fills : u.seq = v.seq => u = v
      /\ \A k \in Nat : base < k /\ k <= base + Cardinality(fills) => \E u \in fills : u.seq = k
    BY DEF FillsFollow
<1>2. PICK k \in Nat : t.seq = base + 1 + k
  <2>1. t.seq \in Nat /\ base < t.seq
    BY <1>1
  <2>2. t.seq - 1 - base \in Nat /\ t.seq = base + 1 + (t.seq - 1 - base)
    BY <2>1
  <2> QED
    BY <2>2
<1> DEFINE f == [j \in 1..k |-> CHOOSE u \in fills : u.seq = base + j]
<1>3. \A j \in 1..k : f[j] \in fills /\ f[j].seq = base + j
  <2> SUFFICES ASSUME NEW j \in 1..k PROVE \E u \in fills : u.seq = base + j
    OBVIOUS
  <2>1. base + j \in Nat /\ base < base + j /\ base + j < t.seq
    BY <1>2
  <2>2. t.seq <= base + Cardinality(fills) /\ t.seq \in Nat
    BY <1>1
  <2> QED
    BY <1>1, <2>1, <2>2
<1>4. \A j \in 1..k : f[j] \in E
    BY <1>2, <1>3
<1>5. f \in [1..k -> E]
    BY <1>4
<1>6. \A i, j \in 1..k : f[i] = f[j] => i = j
    BY <1>3
<1>7. ASSUME NEW u \in E PROVE \E j \in 1..k : f[j] = u
  <2>1. u.seq \in Nat /\ base < u.seq /\ u.seq < t.seq
    BY <1>1
  <2>2. u.seq - base \in 1..k /\ base + (u.seq - base) = u.seq
    BY <1>2, <2>1
  <2>3. f[u.seq - base] = u
    BY <1>1, <1>3, <2>2
  <2> QED
    BY <2>2, <2>3
<1> HIDE DEF f, E
<1>8. ExistsBijection(1..k, E)
    BY <1>5, <1>6, <1>7 DEF ExistsBijection, Bijection, Injection, Surjection, IsInjective
<1>9. Cardinality(E) = k
    BY <1>8, UpToFinite, FS_Bijection
<1> QED
    BY <1>2, <1>9 DEF E

\* The fields of the report of a trade.
LEMMA ReportFields ==
    ASSUME BookInv, sent \in Nat, NEW base \in Nat, FillsFollow(base), NEW t \in fills
    PROVE  /\ Reported(t) \in TradeEvents /\ Reported(t).kind = "trade"
           /\ Reported(t).price = t.price /\ Reported(t).qty = t.qty
           /\ t.price \in Prices /\ t.qty \in 1..MaxQty /\ t \in Trade
           /\ Reported(t).at \in Nat /\ Reported(t).at + base = sent + t.seq
           /\ t.seq \in Nat /\ base < t.seq /\ t.seq <= base + Cardinality(fills)
<1> DEFINE k == Cardinality({u \in fills : u.seq < t.seq})
<1>1. Cardinality(fills) \in Nat
    BY FillsHaveBase
<1>2. k \in Nat /\ t.seq = base + 1 + k
    BY <1>1, Rank
<1>3. t.price \in Prices /\ t.qty \in 1..MaxQty /\ t \in Trade
    BY DEF BookInv, FillsInv, OrdersInv, BookTypeOK
<1>4. t.qty \in Nat
    BY <1>3, BookBounds
<1>5. t.seq \in Nat /\ base < t.seq /\ t.seq <= base + Cardinality(fills)
    BY DEF FillsFollow
<1>6. Reported(t) = [kind |-> "trade", at |-> sent + 1 + k, price |-> t.price, qty |-> t.qty]
    BY DEF Reported, TradeEvent
<1> HIDE DEF k
<1>7. sent + 1 + k \in Nat /\ (sent + 1 + k) + base = sent + t.seq
    BY <1>2
<1> QED
    BY <1>3, <1>4, <1>5, <1>6, <1>7 DEF TradeEvents

\* There are as many reports as trades, and each place after sent has one.
LEMMA ReportsFacts ==
    ASSUME BookInv, sent \in Nat
    PROVE  /\ IsFiniteSet(Reports) /\ Cardinality(Reports) = Cardinality(fills) /\ Cardinality(fills) \in Nat
           /\ \A e \in Reports : /\ e \in TradeEvents /\ e.at \in Nat
                                 /\ e.at > sent /\ e.at <= sent + Cardinality(fills)
           /\ \A e, f \in Reports : e.at = f.at => e = f
           /\ \A k \in Nat : sent < k /\ k <= sent + Cardinality(fills) => \E e \in Reports : e.at = k
<1> DEFINE n == Cardinality(fills)
<1>1. n \in Nat /\ IsFiniteSet(fills)
    BY FillsHaveBase DEF BookInv, FillsInv
<1>2. PICK base \in Nat : FillsFollow(base)
    BY FillsHaveBase
<1>3. ASSUME NEW t \in fills
      PROVE  /\ Reported(t) \in TradeEvents /\ Reported(t).at \in Nat /\ Reported(t).at + base = sent + t.seq
             /\ t.seq \in Nat /\ base < t.seq /\ t.seq <= base + n
    BY <1>2, ReportFields
<1>4. \A t, u \in fills : t.seq = u.seq => t = u
    BY <1>2 DEF FillsFollow
<1>5. \A k \in Nat : base < k /\ k <= base + n => \E t \in fills : t.seq = k
    BY <1>2 DEF FillsFollow
<1> HIDE DEF n
<1>6. ASSUME NEW t \in fills, NEW u \in fills, Reported(t).at = Reported(u).at
      PROVE  t = u
  <2>1. t.seq = u.seq
    BY <1>3, <1>6
  <2> QED
    BY <1>4, <2>1
<1>7. IsFiniteSet(Reports) /\ Cardinality(Reports) = n
  <2> DEFINE f == [t \in fills |-> Reported(t)]
  <2>1. f \in [fills -> Reports] /\ \A t \in fills : f[t] = Reported(t)
    BY DEF Reports
  <2>2. \A t, u \in fills : f[t] = f[u] => t = u
    BY <1>6, <2>1
  <2>3. \A e \in Reports : \E t \in fills : f[t] = e
    BY <2>1 DEF Reports
  <2> HIDE DEF f
  <2>4. ExistsBijection(fills, Reports)
    BY <2>1, <2>2, <2>3 DEF ExistsBijection, Bijection, Injection, Surjection, IsInjective
  <2> QED
    BY <1>1, <2>4, FS_Bijection DEF n
<1>8. ASSUME NEW e \in Reports
      PROVE  e \in TradeEvents /\ e.at \in Nat /\ e.at > sent /\ e.at <= sent + n
  <2>1. PICK t \in fills : e = Reported(t)
    BY DEF Reports
  <2> QED
    BY <1>1, <1>3, <2>1
<1>9. \A e, f \in Reports : e.at = f.at => e = f
    BY <1>6 DEF Reports
<1>10. ASSUME NEW k \in Nat, sent < k, k <= sent + n
       PROVE  \E e \in Reports : e.at = k
  <2>1. (k - sent) + base \in Nat /\ base < (k - sent) + base /\ (k - sent) + base <= base + n
    BY <1>1, <1>10
  <2>2. PICK t \in fills : t.seq = (k - sent) + base
    BY <1>5, <2>1
  <2>3. Reported(t).at = k
    BY <1>3, <2>2
  <2> QED
    BY <2>3 DEF Reports
<1> QED
    BY <1>1, <1>7, <1>8, <1>9, <1>10 DEF n

-----------------------------------------------------------------------------
(* Publishing *)

\* The events N are published with the next m numbers.
Publishes(N, m) ==
    /\ IsFiniteSet(N) /\ N \subseteq TradeEvents \cup OrderEvents
    /\ \A e \in N : e.at \in Nat /\ e.at > sent /\ e.at <= sent + m
    /\ \A e, f \in N : e.at = f.at => e = f
    /\ \A k \in Nat : sent < k /\ k <= sent + m => \E e \in N : e.at = k
    /\ pending' = pending \cup N /\ sent' = sent + m

\* The report of an order.
LEMMA OrderEventFields ==
    ASSUME NEW o \in Orders, attr[o] \in Request, rem[o] \in Nat, NEW n \in Nat,
           NEW kind \in {"rested", "cancelled"}
    PROVE  /\ OrderEvent(kind, o, n) \in OrderEvents
           /\ OrderEvent(kind, o, n).kind = kind /\ OrderEvent(kind, o, n).at = n
           /\ OrderEvent(kind, o, n).side = attr[o].side /\ OrderEvent(kind, o, n).price = attr[o].price
           /\ OrderEvent(kind, o, n).qty = rem[o]
<1>1. attr[o].side \in Sides /\ attr[o].price \in Prices
    BY RequestFacts
<1>2. OrderEvent(kind, o, n) =
        [kind |-> kind, at |-> n, side |-> attr[o].side, price |-> attr[o].price, qty |-> rem[o]]
    BY DEF OrderEvent
<1> QED
    BY <1>1, <1>2 DEF OrderEvents

\* Match publishes its trades and then the rest of the order.
LEMMA MatchPublishes ==
    ASSUME BookInv, sent \in Nat, PublishMatch
    PROVE  /\ rem[incoming] = 0 => Publishes(Reports, Cardinality(fills))
           /\ rem[incoming] # 0 =>
                 Publishes(Reports \cup {OrderEvent("rested", incoming, sent + 1 + Cardinality(fills))},
                           Cardinality(fills) + 1)
<1> DEFINE n == Cardinality(fills)
           r == OrderEvent("rested", incoming, sent + 1 + n)
<1>1. /\ IsFiniteSet(Reports) /\ Cardinality(Reports) = n /\ n \in Nat
      /\ \A e \in Reports : e \in TradeEvents /\ e.at \in Nat /\ e.at > sent /\ e.at <= sent + n
      /\ \A e, f \in Reports : e.at = f.at => e = f
      /\ \A k \in Nat : sent < k /\ k <= sent + n => \E e \in Reports : e.at = k
    BY ReportsFacts
<1>2. pending' = pending \cup Reports \cup RestReport /\ sent' = sent + Cardinality(Reports \cup RestReport)
    BY DEF PublishMatch, Reports, Reported, RestReport
<1>3. ASSUME rem[incoming] = 0 PROVE Publishes(Reports, n)
  <2>1. Reports \cup RestReport = Reports /\ pending \cup Reports \cup RestReport = pending \cup Reports
    BY <1>3 DEF RestReport
  <2>2. pending' = pending \cup Reports /\ sent' = sent + n
    BY <1>1, <1>2, <2>1
  <2> HIDE DEF n
  <2> QED
    BY <1>1, <2>2 DEF Publishes
<1>4. ASSUME rem[incoming] # 0 PROVE Publishes(Reports \cup {r}, n + 1)
  <2>1. incoming # None
    BY DEF PublishMatch, FinishMatch
  <2>2. incoming \in Orders /\ attr[incoming] \in Request /\ rem[incoming] \in Nat
    BY <2>1 DEF BookInv, OrdersInv, BookTypeOK
  <2>3. sent + 1 + n \in Nat
    BY <1>1
  <2>4. r \in OrderEvents /\ r.at = sent + 1 + n
    BY <2>2, <2>3, OrderEventFields
  <2>5. RestReport = {r}
    BY <1>4 DEF RestReport
  <2> HIDE DEF r, n
  <2>6. r \notin Reports
    BY <1>1, <2>3, <2>4
  <2>7. IsFiniteSet(Reports \cup {r}) /\ Cardinality(Reports \cup {r}) = n + 1
    BY <1>1, <2>6, FS_AddElement
  <2>8. pending' = pending \cup (Reports \cup {r}) /\ sent' = sent + (n + 1)
    BY <1>2, <2>5, <2>7
  <2>9. \A e \in Reports \cup {r} : e.at \in Nat /\ e.at > sent /\ e.at <= sent + (n + 1)
    BY <1>1, <2>3, <2>4
  <2>10. \A e, f \in Reports \cup {r} : e.at = f.at => e = f
    BY <1>1, <2>3, <2>4
  <2>11. \A k \in Nat : sent < k /\ k <= sent + (n + 1) => \E e \in Reports \cup {r} : e.at = k
    BY <1>1, <2>3, <2>4
  <2> QED
    BY <1>1, <2>4, <2>7, <2>8, <2>9, <2>10, <2>11 DEF Publishes
<1> QED
    BY <1>3, <1>4 DEF n, r

\* A cancelled order is published.
LEMMA CancelPublishes ==
    ASSUME BookInv, sent \in Nat, NEW o \in book,
           pending' = pending \cup {OrderEvent("cancelled", o, sent + 1)}, sent' = sent + 1
    PROVE  Publishes({OrderEvent("cancelled", o, sent + 1)}, 1)
<1> DEFINE c == OrderEvent("cancelled", o, sent + 1)
<1>1. o \in Orders /\ attr[o] \in Request /\ rem[o] \in Nat /\ sent + 1 \in Nat
    BY DEF BookInv, OrdersInv, BookTypeOK
<1>2. c \in OrderEvents /\ c.at = sent + 1
    BY <1>1, OrderEventFields
<1>3. IsFiniteSet({c})
    BY FS_Singleton
<1> HIDE DEF c
<1>4. \A k \in Nat : sent < k /\ k <= sent + 1 => k = sent + 1
    OBVIOUS
<1>5. Publishes({c}, 1)
    BY <1>2, <1>3, <1>4 DEF Publishes, c
<1> QED
    BY <1>5 DEF c

LevelsInv == OneLevelPerPrice(bids) /\ OneLevelPerPrice(asks)

\* Numbers of events are numbers.
LEMMA EventFacts ==
    ASSUME ViewTypeOK
    PROVE  /\ \A e \in pending : e.at \in Nat /\ e.price \in Prices /\ e.qty \in Nat
           /\ \A e \in pending : \/ e.kind = "trade" /\ e \in TradeEvents
                                 \/ e.kind \in {"rested", "cancelled"} /\ e \in OrderEvents /\ e.side \in Sides
           /\ \A i \in DOMAIN recent : recent[i] \in TradeEvents /\ recent[i].at \in Nat
           /\ sent \in Nat
<1>1. \A e \in TradeEvents : e.at \in Nat /\ e.price \in Prices /\ e.qty \in Nat /\ e.kind = "trade"
    BY DEF TradeEvents
<1>2. \A e \in OrderEvents : /\ e.at \in Nat /\ e.price \in Prices /\ e.qty \in Nat
                             /\ e.kind \in {"rested", "cancelled"} /\ e.side \in Sides
    BY DEF OrderEvents
<1>3. \A i \in DOMAIN recent : recent[i] \in TradeEvents
    BY DomainFacts DEF ViewTypeOK
<1>4. pending \subseteq TradeEvents \cup OrderEvents /\ sent \in Nat
    BY DEF ViewTypeOK
<1> QED
    BY <1>1, <1>2, <1>3, <1>4

\* New events have new numbers.
LEMMA PublishKeepsEvents ==
    ASSUME ViewTypeOK, LevelsInv, EventsInv, NEW N, NEW m \in Nat, Publishes(N, m),
           UNCHANGED <<bids, asks, recent, inOrder, loaded>>
    PROVE  ViewTypeOK' /\ LevelsInv' /\ EventsInv'
<1>1. /\ IsFiniteSet(N) /\ N \subseteq TradeEvents \cup OrderEvents
      /\ \A e \in N : e.at \in Nat /\ e.at > sent /\ e.at <= sent + m
      /\ \A e, f \in N : e.at = f.at => e = f
      /\ pending' = pending \cup N /\ sent' = sent + m
    BY DEF Publishes
<1>2. /\ \A e \in pending : e.at \in Nat
      /\ \A i \in DOMAIN recent : recent[i].at \in Nat
      /\ sent \in Nat
    BY EventFacts
<1>3. IsFiniteSet(pending')
    BY <1>1, FS_Union DEF ViewTypeOK
<1>4. ViewTypeOK'
    BY <1>1, <1>3 DEF ViewTypeOK
<1>5. LevelsInv'
    BY DEF LevelsInv, OneLevelPerPrice
<1>6. /\ \A e \in pending : e.at >= 1 /\ e.at <= sent
      /\ \A i \in DOMAIN recent : recent[i].at <= sent
      /\ \A e, f \in pending : e.at = f.at => e = f
      /\ \A e \in pending, i \in DOMAIN recent : e.at # recent[i].at
      /\ \A i, j \in DOMAIN recent : recent[i].at = recent[j].at => i = j
    BY DEF EventsInv
<1>7. \A e \in pending' : e.at >= 1 /\ e.at <= sent'
    BY <1>1, <1>2, <1>6
<1>8. \A i \in DOMAIN recent : recent[i].at <= sent'
    BY <1>1, <1>2, <1>6
<1>9. \A e, f \in pending' : e.at = f.at => e = f
    BY <1>1, <1>2, <1>6
<1>10. \A e \in pending', i \in DOMAIN recent : e.at # recent[i].at
    BY <1>1, <1>2, <1>6
<1> QED
    BY <1>4, <1>5, <1>6, <1>7, <1>8, <1>9, <1>10 DEF EventsInv

\* The trades that Match hands over are on their way.
LEMMA MatchKeepsTrades ==
    ASSUME BookInv, ViewTypeOK, EventsInv, TradesInv, PublishMatch
    PROVE  TradesInv'
<1> DEFINE n == Cardinality(fills)  P == PendingTrades
<1>1. sent \in Nat /\ seq \in Nat /\ \A e \in pending : e.at <= sent /\ e.at \in Nat
    BY EventFacts DEF BookInv, OrdersInv, BookTypeOK, EventsInv
<1>2. /\ IsFiniteSet(Reports) /\ Cardinality(Reports) = n /\ n \in Nat
      /\ \A e \in Reports : e \in TradeEvents /\ e.at \in Nat /\ e.at > sent
    BY <1>1, ReportsFacts
<1>3. pending' = pending \cup Reports \cup RestReport /\ fills' = {} /\ seq' = seq /\ recent' = recent
    BY DEF PublishMatch, FinishMatch, Reports, Reported, RestReport
<1>4. P' = P \cup Reports
  <2>1. \A e \in Reports : e.kind = "trade"
    BY <1>2 DEF TradeEvents
  <2>2. \A e \in RestReport : e.kind # "trade"
    BY DEF RestReport, OrderEvent
  <2> QED
    BY <1>3, <2>1, <2>2 DEF PendingTrades
<1>5. IsFiniteSet(P)
  <2>1. P \subseteq pending
    BY DEF PendingTrades
  <2> QED
    BY <2>1, FS_Subset DEF ViewTypeOK
<1>6. P \cap Reports = {}
    BY <1>1, <1>2 DEF PendingTrades
<1>7. Cardinality(P \cup Reports) = Cardinality(P) + n /\ Cardinality(P) \in Nat
  <2>1. Cardinality(P) \in Nat
    BY <1>5, FS_CardinalityType
  <2>2. Cardinality(P \cup Reports) = Cardinality(P) + Cardinality(Reports) - Cardinality(P \cap Reports)
    <3> HIDE DEF P
    <3> QED
      BY <1>2, <1>5, FS_Union, Zenon
  <2>3. Cardinality(P \cap Reports) = 0
    BY <1>6, FS_EmptySet
  <2> QED
    BY <1>2, <2>1, <2>2, <2>3
<1>8. Cardinality(fills') = 0
    BY <1>3, FS_EmptySet
<1>9. n + Cardinality(P) <= seq /\ Len(recent) = Lesser(MaxRecent, seq - n - Cardinality(P))
    BY DEF TradesInv
<1>10. Cardinality(PendingTrades') = Cardinality(P) + n
    BY <1>4, <1>7
<1> HIDE DEF P, n
<1>11. Cardinality(fills') + Cardinality(PendingTrades') <= seq
    BY <1>1, <1>2, <1>7, <1>8, <1>9, <1>10
<1>12. seq - Cardinality(fills') - Cardinality(PendingTrades') = seq - n - Cardinality(P)
    BY <1>1, <1>2, <1>7, <1>8, <1>10
<1> QED
    BY <1>3, <1>9, <1>11, <1>12 DEF TradesInv

\* The trades of Match at work count.
LEMMA FillKeepsTrades ==
    ASSUME BookInv, ViewTypeOK, TradesInv, NEW r \in book, FillOne(r), UNCHANGED <<pending, recent>>
    PROVE  TradesInv'
<1> DEFINE n == Cardinality(fills)  m == Cardinality(PendingTrades)
<1>1. Cardinality(fills') = n + 1 /\ n \in Nat
    BY FillKeepsFills DEF BookInv
<1>2. seq \in Nat /\ seq' = seq + 1
    BY DEF BookInv, OrdersInv, BookTypeOK, FillOne
<1>3. m \in Nat
  <2>1. PendingTrades \subseteq pending
    BY DEF PendingTrades
  <2> QED
    BY <2>1, FS_Subset, FS_CardinalityType DEF ViewTypeOK
<1>4. n + m <= seq /\ Len(recent) = Lesser(MaxRecent, seq - n - m)
    BY DEF TradesInv
<1>5. Cardinality(PendingTrades)' = m
    BY DEF PendingTrades
<1> HIDE DEF n, m
<1>6. n + 1 + m <= seq' /\ seq' - (n + 1) - m = seq - n - m
    BY <1>1, <1>2, <1>3, <1>4
<1>7. Cardinality(fills') + Cardinality(PendingTrades)' <= seq'
    BY <1>1, <1>5, <1>6
<1>8. seq' - Cardinality(fills') - Cardinality(PendingTrades)' = seq - n - m
    BY <1>1, <1>5, <1>6
<1> QED
    BY <1>4, <1>7, <1>8 DEF TradesInv

\* Steps without trades.
LEMMA SameTrades ==
    ASSUME TradesInv, UNCHANGED <<fills, seq, recent>>, PendingTrades' = PendingTrades
    PROVE  TradesInv'
BY DEF TradesInv

-----------------------------------------------------------------------------
(* The handlers *)

\* Capped keeps the front of a sequence.
LEMMA CappedFacts ==
    ASSUME NEW S, NEW q \in Seq(S)
    PROVE  /\ Capped(q) \in Seq(S) /\ Len(Capped(q)) = Lesser(MaxRecent, Len(q))
           /\ \A i \in DOMAIN Capped(q) : i \in DOMAIN q /\ Capped(q)[i] = q[i]
<1>1. Len(q) \in Nat /\ MaxRecent \in Nat
    BY ViewBounds
<1>2. CASE Len(q) > MaxRecent
  <2>1. Capped(q) = SubSeq(q, 1, MaxRecent)
    BY <1>2 DEF Capped
  <2>2. SubSeq(q, 1, MaxRecent) \in Seq(S)
    BY <1>1, <1>2
  <2>3. Len(SubSeq(q, 1, MaxRecent)) = MaxRecent
    BY <1>1, <1>2
  <2>4. \A i \in DOMAIN SubSeq(q, 1, MaxRecent) : i \in DOMAIN q /\ SubSeq(q, 1, MaxRecent)[i] = q[i]
    BY <1>1, <1>2
  <2> QED
    BY <1>1, <1>2, <2>1, <2>2, <2>3, <2>4 DEF Lesser
<1>3. CASE ~(Len(q) > MaxRecent)
    BY <1>1, <1>3 DEF Capped, Lesser
<1> QED
    BY <1>2, <1>3

\* A trade comes to the front of those shown.
LEMMA RecentFacts ==
    ASSUME ViewTypeOK, NEW e \in TradeEvents, recent' = Capped(<<e>> \o recent)
    PROVE  /\ recent' \in Seq(TradeEvents)
           /\ Len(recent') = Lesser(MaxRecent, Len(recent) + 1) /\ Len(recent) \in Nat
           /\ \A i \in DOMAIN recent' : \/ i = 1 /\ recent'[i] = e
                                        \/ \E j \in DOMAIN recent : i = j + 1 /\ recent'[i] = recent[j]
<1> DEFINE q == <<e>> \o recent
<1>1. recent \in Seq(TradeEvents)
    BY DEF ViewTypeOK
<1>2. q \in Seq(TradeEvents) /\ Len(q) = Len(recent) + 1 /\ Len(recent) \in Nat
    BY <1>1
<1>3. ASSUME NEW i \in DOMAIN q
      PROVE  \/ i = 1 /\ q[i] = e
             \/ \E j \in DOMAIN recent : i = j + 1 /\ q[i] = recent[j]
  <2>1. i \in Nat /\ 1 <= i /\ i <= Len(recent) + 1
    BY <1>2
  <2>2. CASE i = 1
    BY <1>1, <2>2
  <2>3. CASE i # 1
    <3>1. PICK j \in Nat : i = j + 1
      BY <2>1
    <3>2. j \in DOMAIN recent
      BY <1>1, <2>1, <2>3, <3>1
    <3>3. q[i] = recent[j]
      <4>1. Len(<<e>>) = 1 /\ <<e>> \in Seq(TradeEvents)
        OBVIOUS
      <4>2. j \in 1..Len(recent)
        BY <1>1, <3>2
      <4> QED
        BY <1>1, <3>1, <4>1, <4>2
    <3> QED
      BY <3>1, <3>2, <3>3
  <2> QED
    BY <2>2, <2>3
<1> HIDE DEF q
<1>4. /\ Capped(q) \in Seq(TradeEvents) /\ Len(Capped(q)) = Lesser(MaxRecent, Len(q))
      /\ \A i \in DOMAIN Capped(q) : i \in DOMAIN q /\ Capped(q)[i] = q[i]
    BY <1>2, CappedFacts
<1>5. recent' = Capped(q)
    BY DEF q
<1> QED
    BY <1>2, <1>3, <1>4, <1>5

\* One trade fewer on its way is one more shown, or one pushed out.
LEMMA DispatchKeepsTrades ==
    ASSUME BookInv, ViewTypeOK, TradesInv, NEW e \in pending, Dispatch(e)
    PROVE  TradesInv'
<1> DEFINE n == Cardinality(fills)  m == Cardinality(PendingTrades)
<1>1. UNCHANGED <<fills, seq>> /\ pending' = pending \ {e}
    BY DEF Dispatch, vars
<1>2. CASE e.kind # "trade"
  <2>1. UNCHANGED recent
    BY <1>2 DEF Dispatch, OnOrderRested, OnOrderCancelled, OnTradeMatched
  <2>2. PendingTrades' = PendingTrades
    BY <1>1, <1>2 DEF PendingTrades
  <2> QED
    BY <1>1, <2>1, <2>2, SameTrades
<1>3. CASE e.kind = "trade"
  <2>1. recent' = Capped(<<e>> \o recent)
    BY <1>3 DEF Dispatch, OnOrderRested, OnOrderCancelled, OnTradeMatched
  <2>2. e \in TradeEvents
    BY <1>3, EventFacts
  <2>3. Len(recent') = Lesser(MaxRecent, Len(recent) + 1) /\ Len(recent) \in Nat
    BY <2>1, <2>2, RecentFacts
  <2>4. IsFiniteSet(PendingTrades)
    <3>1. PendingTrades \subseteq pending
      BY DEF PendingTrades
    <3> QED
      BY <3>1, FS_Subset DEF ViewTypeOK
  <2>5. PendingTrades' = PendingTrades \ {e} /\ e \in PendingTrades
    BY <1>1, <1>3 DEF PendingTrades
  <2>6. Cardinality(PendingTrades') = m - 1 /\ m \in Nat
    BY <2>4, <2>5, FS_RemoveElement, FS_CardinalityType
  <2>7. n \in Nat /\ seq \in Nat /\ Cardinality(fills') = n
    BY <1>1, FillsHaveBase DEF BookInv, OrdersInv, BookTypeOK
  <2>8. n + m <= seq /\ Len(recent) = Lesser(MaxRecent, seq - n - m)
    BY DEF TradesInv
  <2> HIDE DEF n, m
  <2>9. Cardinality(fills') + Cardinality(PendingTrades') <= seq'
    BY <1>1, <2>6, <2>7, <2>8
  <2>10. seq' - Cardinality(fills') - Cardinality(PendingTrades') = (seq - n - m) + 1
    BY <1>1, <2>6, <2>7
  <2>11. Len(recent') = Lesser(MaxRecent, (seq - n - m) + 1)
    <3>1. seq - n - m \in Nat
      BY <2>6, <2>7, <2>8
    <3>2. \A x \in Nat, y \in Nat : Lesser(y, Lesser(y, x) + 1) = Lesser(y, x + 1)
      BY DEF Lesser
    <3> QED
      BY <2>3, <2>8, <3>1, <3>2, ViewBounds
  <2> QED
    BY <2>9, <2>10, <2>11 DEF TradesInv
<1> QED
    BY <1>2, <1>3

\* What the handler of an event does to the levels.
Handles(e) ==
    /\ e.kind = "rested" /\ e.side = BUY => bids' = addLevel(bids, e.price, e.qty) /\ asks' = asks
    /\ e.kind = "rested" /\ e.side = SELL => bids' = bids /\ asks' = addLevel(asks, e.price, e.qty)
    /\ e.kind = "cancelled" /\ e.side = BUY => bids' = deductLevel(bids, e.price, e.qty) /\ asks' = asks
    /\ e.kind = "cancelled" /\ e.side = SELL => bids' = bids /\ asks' = deductLevel(asks, e.price, e.qty)
    /\ e.kind = "trade" => bids' = deductLevel(bids, e.price, e.qty) /\ asks' = deductLevel(asks, e.price, e.qty)

\* Dispatch runs one of the handlers.
LEMMA DispatchHandles ==
    ASSUME NEW e, Dispatch(e)
    PROVE  /\ Handles(e)
           /\ e.kind # "trade" => recent' = recent
           /\ e.kind = "trade" => recent' = Capped(<<e>> \o recent)
           /\ pending' = pending \ {e} /\ inOrder' = (inOrder /\ \A f \in pending : e.at <= f.at)
           /\ UNCHANGED <<vars, sent, loaded>>
<1>1. /\ pending' = pending \ {e} /\ inOrder' = (inOrder /\ \A f \in pending : e.at <= f.at)
      /\ UNCHANGED <<vars, sent, loaded>>
    BY DEF Dispatch
<1>2. CASE OnOrderRested(e)
    BY <1>1, <1>2 DEF OnOrderRested, Handles, BUY, SELL
<1>3. CASE OnOrderCancelled(e)
    BY <1>1, <1>3 DEF OnOrderCancelled, Handles, BUY, SELL
<1>4. CASE OnTradeMatched(e)
    BY <1>1, <1>4 DEF OnTradeMatched, Handles
<1> QED
    BY <1>2, <1>3, <1>4 DEF Dispatch

\* A list of levels that shows something else at one price at most.
LEMMA InsteadIsLevels ==
    ASSUME NEW L, NEW M, NEW p, NEW q, ShowsInstead(L, M, p, q)
    PROVE  M \in Seq(Levels) /\ OneLevelPerPrice(M)
BY DEF ShowsInstead

\* The handlers keep one level per price.
LEMMA DispatchKeepsLevels ==
    ASSUME ViewTypeOK, LevelsInv, NEW e \in pending, Handles(e)
    PROVE  bids' \in Seq(Levels) /\ asks' \in Seq(Levels) /\ LevelsInv'
<1>1. /\ bids \in Seq(Levels) /\ asks \in Seq(Levels)
      /\ OneLevelPerPrice(bids) /\ OneLevelPerPrice(asks)
    BY DEF ViewTypeOK, LevelsInv
<1>2. /\ e.price \in Prices /\ e.qty \in Nat
      /\ e.kind = "trade" \/ (e.kind \in {"rested", "cancelled"} /\ e.side \in {BUY, SELL})
    BY EventFacts DEF Sides
<1>3. ASSUME NEW L \in Seq(Levels), OneLevelPerPrice(L)
      PROVE  /\ addLevel(L, e.price, e.qty) \in Seq(Levels) /\ OneLevelPerPrice(addLevel(L, e.price, e.qty))
             /\ deductLevel(L, e.price, e.qty) \in Seq(Levels) /\ OneLevelPerPrice(deductLevel(L, e.price, e.qty))
    BY <1>2, <1>3, AddShows, DeductShows, InsteadIsLevels
<1>4. bids' \in Seq(Levels) /\ OneLevelPerPrice(bids')
  <2>1. bids' = bids \/ bids' = addLevel(bids, e.price, e.qty) \/ bids' = deductLevel(bids, e.price, e.qty)
    BY <1>2 DEF Handles
  <2> QED
    BY <1>1, <1>3, <2>1
<1>5. asks' \in Seq(Levels) /\ OneLevelPerPrice(asks')
  <2>1. asks' = asks \/ asks' = addLevel(asks, e.price, e.qty) \/ asks' = deductLevel(asks, e.price, e.qty)
    BY <1>2 DEF Handles
  <2> QED
    BY <1>1, <1>3, <2>1
<1> QED
    BY <1>4, <1>5 DEF LevelsInv

\* An event that is handled is pending no more, and shown if it is a trade.
LEMMA DispatchKeepsEvents ==
    ASSUME ViewTypeOK, LevelsInv, EventsInv, NEW e \in pending, Dispatch(e)
    PROVE  ViewTypeOK' /\ LevelsInv' /\ EventsInv'
<1>1. /\ Handles(e) /\ pending' = pending \ {e} /\ UNCHANGED <<vars, sent, loaded>>
      /\ e.kind # "trade" => recent' = recent
      /\ e.kind = "trade" => recent' = Capped(<<e>> \o recent)
      /\ inOrder' = (inOrder /\ \A f \in pending : e.at <= f.at)
    BY DispatchHandles
<1>2. bids' \in Seq(Levels) /\ asks' \in Seq(Levels) /\ LevelsInv'
    BY <1>1, DispatchKeepsLevels
<1>3. /\ recent' \in Seq(TradeEvents)
      /\ \/ recent' = recent
         \/ \A i \in DOMAIN recent' : \/ i = 1 /\ recent'[i] = e
                                      \/ \E j \in DOMAIN recent : i = j + 1 /\ recent'[i] = recent[j]
  <2>1. CASE e.kind = "trade"
    <3>1. e \in TradeEvents
      BY <2>1, EventFacts
    <3> QED
      BY <1>1, <2>1, <3>1, RecentFacts
  <2>2. CASE e.kind # "trade"
    BY <1>1, <2>2 DEF ViewTypeOK
  <2> QED
    BY <2>1, <2>2
<1>4. IsFiniteSet(pending')
    BY <1>1, FS_RemoveElement DEF ViewTypeOK
<1>5. inOrder' \in BOOLEAN
    BY <1>1
<1>6. ViewTypeOK'
    BY <1>1, <1>2, <1>3, <1>4, <1>5 DEF ViewTypeOK
<1>7. /\ \A f \in pending : f.at >= 1 /\ f.at <= sent
      /\ \A i \in DOMAIN recent : recent[i].at <= sent
      /\ \A f, g \in pending : f.at = g.at => f = g
      /\ \A f \in pending, i \in DOMAIN recent : f.at # recent[i].at
      /\ \A i, j \in DOMAIN recent : recent[i].at = recent[j].at => i = j
    BY DEF EventsInv
<1>8. EventsInv'
  <2>1. CASE recent' = recent
    BY <1>1, <1>7, <2>1 DEF EventsInv
  <2>2. CASE \A i \in DOMAIN recent' : \/ i = 1 /\ recent'[i] = e
                                      \/ \E j \in DOMAIN recent : i = j + 1 /\ recent'[i] = recent[j]
    <3>1. \A f \in pending' : f \in pending /\ f # e /\ f.at # e.at
      BY <1>1, <1>7
    <3>2. \A i \in DOMAIN recent' : recent'[i].at <= sent
      BY <1>7, <2>2
    <3>3. \A f \in pending', i \in DOMAIN recent' : f.at # recent'[i].at
      BY <1>7, <2>2, <3>1
    <3>4. \A i, j \in DOMAIN recent' : recent'[i].at = recent'[j].at => i = j
      BY <1>7, <2>2
    <3> QED
      BY <1>1, <1>7, <3>1, <3>2, <3>3, <3>4 DEF EventsInv
  <2> QED
    BY <1>3, <2>1, <2>2
<1> QED
    BY <1>2, <1>6, <1>8

-----------------------------------------------------------------------------
(* The history grows *)

\* Both histories say the same of the first n events.
AgreeUpTo(T, V, n) == \A k \in Nat : k <= n => V[k] = T[k]

\* The same events follow from it.
LEMMA TellsAgree ==
    ASSUME NEW T, NEW V, NEW n \in Nat, AgreeUpTo(T, V, n), NEW e, TellsChange(T, e),
           e.at \in Nat, e.at >= 1, e.at <= n, e.price \in Prices,
           e.kind = "trade" \/ (e.kind \in {"rested", "cancelled"} /\ e.side \in Sides)
    PROVE  TellsChange(V, e)
<1> DEFINE k == e.at
<1>1. k \in Nat /\ k - 1 \in Nat /\ k <= n /\ k - 1 <= n
    OBVIOUS
<1>2. \A s \in Sides, p \in Prices : V[k][s][p] = T[k][s][p] /\ V[k - 1][s][p] = T[k - 1][s][p]
    BY <1>1, Zenon DEF AgreeUpTo
<1>3. \A s \in Sides, p \in Prices : SameBut(T, k, s, p) => SameBut(V, k, s, p)
    BY <1>2 DEF SameBut
<1>4. \A s \in Sides, p \in Prices : \A q : Deducts(T, k, s, p, q) => Deducts(V, k, s, p, q)
    BY <1>2, <1>3 DEF Deducts
<1>5. \A s \in Sides : Opposite(s) \in Sides
    BY DEF Opposite, Sides
<1> HIDE DEF k
<1>6. ASSUME e.kind = "rested"
      PROVE  V[k][e.side][e.price] = V[k - 1][e.side][e.price] + e.qty /\ SameBut(V, k, e.side, e.price)
  <2>1. e.side \in Sides
    BY <1>6
  <2>2. T[k][e.side][e.price] = T[k - 1][e.side][e.price] + e.qty /\ SameBut(T, k, e.side, e.price)
    BY <1>6 DEF TellsChange, k
  <2> QED
    BY <1>2, <1>3, <2>1, <2>2
<1>7. ASSUME e.kind = "cancelled" PROVE Deducts(V, k, e.side, e.price, e.qty)
  <2>1. e.side \in Sides
    BY <1>7
  <2>2. Deducts(T, k, e.side, e.price, e.qty)
    BY <1>7 DEF TellsChange, k
  <2> QED
    BY <1>4, <2>1, <2>2
<1>8. ASSUME e.kind = "trade"
      PROVE  \E s \in Sides : Deducts(V, k, s, e.price, e.qty) /\ V[k - 1][Opposite(s)][e.price] = 0
  <2>1. PICK s \in Sides : Deducts(T, k, s, e.price, e.qty) /\ T[k - 1][Opposite(s)][e.price] = 0
    BY <1>8 DEF TellsChange, k
  <2>2. V[k - 1][Opposite(s)][e.price] = T[k - 1][Opposite(s)][e.price]
    BY <1>2, <1>5
  <2> QED
    BY <1>4, <2>1, <2>2
<1> QED
    BY <1>6, <1>7, <1>8 DEF TellsChange, k

\* Published events continue a history.
LEMMA HistoryGrows ==
    ASSUME ViewTypeOK, EventsInv, NEW N, NEW m \in Nat, Publishes(N, m), UNCHANGED <<bids, asks>>,
           NEW T, NEW d \in Nat, IsHistory(T, d), NEW V, AgreeUpTo(T, V, sent),
           \A e \in N : TellsChange(V, e),
           \A s \in Sides, p \in Prices : V[sent'][s][p] = SideTotal(s, p)' + Taken(s, p)'
    PROVE  IsHistory(V, d)'
<1>1. /\ \A e \in N : e.at \in Nat /\ e.at > sent /\ e.at <= sent + m
      /\ \A k \in Nat : sent < k /\ k <= sent + m => \E e \in N : e.at = k
      /\ pending' = pending \cup N /\ sent' = sent + m
    BY DEF Publishes
<1>2. /\ \A e \in pending : /\ e.at \in Nat /\ e.price \in Prices
                            /\ e.kind = "trade" \/ (e.kind \in {"rested", "cancelled"} /\ e.side \in Sides)
      /\ sent \in Nat
    BY EventFacts
<1>3. \A e \in pending : e.at >= 1 /\ e.at <= sent
    BY DEF EventsInv
<1>4. /\ d <= sent
      /\ \A k \in Nat : d < k /\ k <= sent <=> \E e \in pending : e.at = k
      /\ \A e \in pending : TellsChange(T, e)
      /\ ShowsAt(T, d)
    BY DEF IsHistory
<1>5. d <= sent'
    BY <1>1, <1>2, <1>4
<1>6. \A k \in Nat : d < k /\ k <= sent' <=> \E e \in pending' : e.at = k
    BY <1>1, <1>2, <1>4
<1>7. \A e \in pending' : TellsChange(V, e)
  <2>1. \A e \in pending : TellsChange(V, e)
    BY <1>2, <1>3, <1>4, TellsAgree
  <2> QED
    BY <1>1, <2>1
<1>8. ShowsAt(V, d)'
  <2>1. \A p \in Prices : V[d][BUY][p] = T[d][BUY][p] /\ V[d][SELL][p] = T[d][SELL][p]
    BY <1>4 DEF AgreeUpTo, Sides
  <2>2. \A p \in Prices : Shown(bids', p) = V[d][BUY][p] /\ Shown(asks', p) = V[d][SELL][p]
    BY <1>4, <2>1 DEF ShowsAt
  <2> QED
    BY <2>2 DEF ShowsAt
<1> QED
    BY <1>5, <1>6, <1>7, <1>8 DEF IsHistory

\* The loop changes nothing that is known.
LEMMA HistoryStays ==
    ASSUME NEW T, NEW d, IsHistory(T, d), UNCHANGED <<bids, asks, pending, sent>>,
           \A s \in Sides, p \in Prices : SideTotal(s, p)' + Taken(s, p)' = SideTotal(s, p) + Taken(s, p)
    PROVE  IsHistory(T, d)'
<1>1. /\ d <= sent
      /\ \A k \in Nat : d < k /\ k <= sent <=> \E e \in pending : e.at = k
      /\ \A e \in pending : TellsChange(T, e)
      /\ ShowsAt(T, d)
      /\ \A s \in Sides, p \in Prices : T[sent][s][p] = SideTotal(s, p) + Taken(s, p)
    BY DEF IsHistory
<1>2. \A s \in Sides, p \in Prices : T[sent'][s][p] = SideTotal(s, p)' + Taken(s, p)'
    BY <1>1
<1>3. ShowsAt(T, d)'
    BY <1>1 DEF ShowsAt
<1> QED
    BY <1>1, <1>2, <1>3 DEF IsHistory

\* A history may be continued in any way.
LEMMA JoinHistories ==
    ASSUME NEW T \in Histories, NEW n \in Nat, NEW A \in Histories
    PROVE  \E V \in Histories : AgreeUpTo(T, V, n) /\ \A k \in Nat : k > n => V[k] = A[k]
<1> DEFINE V == [k \in Nat |-> IF k <= n THEN T[k] ELSE A[k]]
<1>1. V \in Histories
    BY DEF Histories
<1>2. AgreeUpTo(T, V, n) /\ \A k \in Nat : k > n => V[k] = A[k]
    BY DEF AgreeUpTo
<1> HIDE DEF V
<1> QED
    BY <1>1, <1>2

\* What rests now, as the value of a history.
LEMMA TotalsNow ==
    ASSUME BookInv
    PROVE  \E U \in [Sides -> [Prices -> Nat]] : \A s \in Sides, p \in Prices : U[s][p] = SideTotal(s, p)
<1> DEFINE U == [s \in Sides |-> [p \in Prices |-> SideTotal(s, p)]]
<1>1. \A s \in Sides, p \in Prices : SideTotal(s, p) \in Nat
    BY TotalsAreNumbers
<1>2. U \in [Sides -> [Prices -> Nat]] /\ \A s \in Sides, p \in Prices : U[s][p] = SideTotal(s, p)
    BY <1>1
<1> HIDE DEF U
<1> QED
    BY <1>2

\* And after a step.
LEMMA TotalsNext ==
    ASSUME BookInv'
    PROVE  \E U \in [Sides -> [Prices -> Nat]] : \A s \in Sides, p \in Prices : U[s][p] = SideTotal(s, p)'
<1> DEFINE U == [s \in Sides |-> [p \in Prices |-> SideTotal(s, p)']]
<1>1. \A s \in Sides, p \in Prices : SideTotal(s, p)' \in Nat
  <2> SUFFICES ASSUME NEW s \in Sides, NEW p \in Prices PROVE SideTotal(s, p)' \in Nat
    OBVIOUS
  <2>1. PICK B : B = {u \in OnSide(s)' \X (1..MaxQty) : attr'[u[1]].price = p /\ u[2] <= rem'[u[1]]}
    OBVIOUS
  <2>2. IsFiniteSet(OnSide(s)')
    <3>1. OnSide(s)' \subseteq book' /\ IsFiniteSet(book')
      BY DEF OnSide, BookInv, OrdersInv
    <3> QED
      BY <3>1, FS_Subset
  <2>3. IsFiniteSet(B)
    <3>1. PICK C : C = OnSide(s)'
      OBVIOUS
    <3>2. PICK Q : Q = 1..MaxQty
      OBVIOUS
    <3>3. IsFiniteSet(C) /\ IsFiniteSet(Q)
      BY <2>2, <3>1, <3>2, UpToFinite, BookBounds
    <3>4. IsFiniteSet(C \X Q)
      BY <3>3, FS_Product
    <3>5. B \subseteq C \X Q
      BY <2>1, <3>1, <3>2
    <3> QED
      BY <3>4, <3>5, FS_Subset
  <2>4. SideTotal(s, p)' = Cardinality(B)
    BY <2>1 DEF SideTotal
  <2> QED
    BY <2>3, <2>4, FS_CardinalityType
<1>2. U \in [Sides -> [Prices -> Nat]] /\ \A s \in Sides, p \in Prices : U[s][p] = SideTotal(s, p)'
    BY <1>1
<1> HIDE DEF U
<1> QED
    BY <1>2

\* At first nothing rests and nothing is shown.
LEMMA InitHistory == ViewInit => HistoryInv
<1> SUFFICES ASSUME ViewInit PROVE \E T \in Histories, d \in Nat : IsHistory(T, d)
    BY DEF HistoryInv
<1> DEFINE T == [k \in Nat |-> [s \in Sides |-> [p \in Prices |-> 0]]]
<1>1. T \in Histories /\ \A k \in Nat, s \in Sides, p \in Prices : T[k][s][p] = 0
    BY DEF Histories
<1>2. /\ book = {} /\ incoming = None /\ bids = <<>> /\ asks = <<>> /\ pending = {} /\ sent = 0
    BY DEF ViewInit, Init, BookInit
<1>3. \A s \in Sides, p \in Prices : SideTotal(s, p) + Taken(s, p) = 0
  <2> SUFFICES ASSUME NEW s \in Sides, NEW p \in Prices PROVE SideTotal(s, p) + Taken(s, p) = 0
    OBVIOUS
  <2>1. {u \in OnSide(s) \X (1..MaxQty) : attr[u[1]].price = p /\ u[2] <= rem[u[1]]} = {}
    BY <1>2 DEF OnSide
  <2>2. SideTotal(s, p) = 0
    BY <2>1, FS_EmptySet DEF SideTotal
  <2>3. Taken(s, p) = 0
    BY <1>2 DEF Taken
  <2> QED
    BY <2>2, <2>3
<1> HIDE DEF T
<1>4. ShowsAt(T, 0)
    BY <1>1, <1>2 DEF ShowsAt, Shown, HasLevel, Sides
<1>5. IsHistory(T, 0)
    BY <1>1, <1>2, <1>3, <1>4 DEF IsHistory
<1> QED
    BY <1>1, <1>5

\* A cancelled order is deducted.
LEMMA CancelKeepsHistory ==
    ASSUME BookInv, BookInv', ViewTypeOK, EventsInv, HistoryInv, NEW o \in Orders, PublishCancel(o)
    PROVE  HistoryInv'
<1>1. Cancel(o) /\ UNCHANGED <<bids, asks, recent, inOrder, loaded>>
    BY DEF PublishCancel
<1> SUFFICES ASSUME inOrder, ~loaded PROVE \E V \in Histories, d \in Nat : IsHistory(V, d)'
    BY <1>1 DEF HistoryInv
<1>2. PICK T \in Histories, d \in Nat : IsHistory(T, d)
    BY DEF HistoryInv
<1>3. \A s \in Sides, p \in Prices :
         /\ o \in At(s, p) => SideTotal(s, p) = SideTotal(s, p)' + rem[o]
         /\ o \notin At(s, p) => SideTotal(s, p) = SideTotal(s, p)'
         /\ Taken(s, p) = 0 /\ Taken(s, p)' = 0
    BY <1>1, CancelChangesRest
<1>4. sent \in Nat
    BY EventFacts
<1>5. CASE o \notin book /\ UNCHANGED <<pending, sent>>
  <2>1. \A s \in Sides, p \in Prices : SideTotal(s, p)' + Taken(s, p)' = SideTotal(s, p) + Taken(s, p)
    BY <1>3, <1>5 DEF At, OnSide
  <2>2. IsHistory(T, d)'
    BY <1>1, <1>2, <1>5, <2>1, HistoryStays
  <2> QED
    BY <1>2, <2>2
<1>6. CASE /\ o \in book
           /\ pending' = pending \cup {OrderEvent("cancelled", o, sent + 1)} /\ sent' = sent + 1
  <2>1. Publishes({OrderEvent("cancelled", o, sent + 1)}, 1)
    BY <1>4, <1>6, CancelPublishes
  <2>2. PICK U \in [Sides -> [Prices -> Nat]] : \A s \in Sides, p \in Prices : U[s][p] = SideTotal(s, p)'
    BY TotalsNext
  <2>3. PICK V \in Histories : AgreeUpTo(T, V, sent) /\ \A k \in Nat : k > sent => V[k] = U
    <3> DEFINE A == [k \in Nat |-> U]
    <3>1. A \in Histories /\ \A k \in Nat : A[k] = U
      BY DEF Histories
    <3> HIDE DEF A
    <3>2. PICK W \in Histories : AgreeUpTo(T, W, sent) /\ \A k \in Nat : k > sent => W[k] = A[k]
      BY <1>2, <1>4, <3>1, JoinHistories
    <3> QED
      BY <3>1, <3>2
  <2>4. V[sent + 1] = U /\ V[sent] = T[sent]
    BY <1>4, <2>3 DEF AgreeUpTo
  <2>5. \A s \in Sides, p \in Prices : T[sent][s][p] = SideTotal(s, p)
    <3>1. \A s \in Sides, p \in Prices : T[sent][s][p] = SideTotal(s, p) + Taken(s, p)
      BY <1>2 DEF IsHistory
    <3>2. \A s \in Sides, p \in Prices : SideTotal(s, p) \in Nat
      BY TotalsAreNumbers
    <3> QED
      BY <1>3, <3>1, <3>2
  <2>6. PICK e : e = OrderEvent("cancelled", o, sent + 1)
    OBVIOUS
  <2>7. /\ e.kind = "cancelled" /\ e.at = sent + 1 /\ e.side = attr[o].side
        /\ e.price = attr[o].price /\ e.qty = rem[o]
    BY <2>6 DEF OrderEvent
  <2>8. e.side \in Sides /\ e.price \in Prices
    BY <1>6, <2>7, RequestFacts DEF BookInv, OrdersInv
  <2>9. o \in At(e.side, e.price) /\ \A s, p : s # e.side \/ p # e.price => o \notin At(s, p)
    BY <1>6, <2>7 DEF At, OnSide
  <2>10. \A s \in Sides, p \in Prices : s # e.side \/ p # e.price => V[sent + 1][s][p] = V[sent][s][p]
    BY <1>3, <2>2, <2>4, <2>5, <2>9
  <2>11. V[sent][e.side][e.price] = V[sent + 1][e.side][e.price] + e.qty
    BY <1>3, <2>2, <2>4, <2>5, <2>7, <2>8, <2>9
  <2>12. TellsChange(V, e)
    <3>1. e.at - 1 = sent
      BY <1>4, <2>7
    <3> QED
      BY <2>7, <2>10, <2>11, <3>1 DEF TellsChange, Deducts, SameBut
  <2>13. \A s \in Sides, p \in Prices : V[sent'][s][p] = SideTotal(s, p)' + Taken(s, p)'
    <3>1. \A s \in Sides, p \in Prices : U[s][p] \in Nat /\ U[s][p] = SideTotal(s, p)'
      BY <2>2
    <3> QED
      BY <1>3, <1>6, <2>4, <3>1
  <2>14. IsHistory(V, d)'
    <3>1. \A f \in {OrderEvent("cancelled", o, sent + 1)} : TellsChange(V, f)
      BY <2>6, <2>12
    <3> QED
      BY <1>1, <1>2, <2>1, <2>3, <2>13, <3>1, HistoryGrows
  <2> QED
    BY <1>2, <2>3, <2>14
<1> QED
    BY <1>5, <1>6 DEF PublishCancel

-----------------------------------------------------------------------------
(* The history of a call of Match *)

\* Units of the trades at price p that come after the event with number k.
Left(base, k, p) == NumUnits(AtPrice(After(fills, (k + base) - sent), p), TradedQty)

\* At first all are left, at the end none, and each report takes its own.
LEMMA LeftFacts ==
    ASSUME BookInv, sent \in Nat, NEW base \in Nat, FillsFollow(base)
    PROVE  /\ \A k \in Nat : \A p : Left(base, k, p) \in Nat
           /\ \A p : Left(base, sent, p) = NumUnits(AtPrice(fills, p), TradedQty)
           /\ \A p : Left(base, sent + Cardinality(fills), p) = 0
           /\ \A t \in fills : \A p :
                 /\ t.price = p => Left(base, Reported(t).at - 1, p) = Left(base, Reported(t).at, p) + t.qty
                 /\ t.price # p => Left(base, Reported(t).at - 1, p) = Left(base, Reported(t).at, p)
<1> DEFINE n == Cardinality(fills)
<1>1. /\ n \in Nat /\ IsFiniteSet(fills) /\ fills \subseteq Trade
      /\ \A t \in fills : t.seq \in Nat /\ base < t.seq /\ t.seq <= base + n
      /\ \A t, u \in fills : t.seq = u.seq => t = u
    BY FillsHaveBase DEF BookInv, FillsInv, OrdersInv, BookTypeOK, FillsFollow
<1> HIDE DEF n
<1>2. ASSUME NEW k \in Nat, NEW p PROVE Left(base, k, p) \in Nat
  <2>1. AtPrice(After(fills, (k + base) - sent), p) \subseteq fills
    BY DEF AtPrice, After
  <2>2. IsFiniteSet(AtPrice(After(fills, (k + base) - sent), p))
    BY <1>1, <2>1, FS_Subset
  <2> QED
    BY <2>2, UnitsFinite DEF Left
<1>3. ASSUME NEW p PROVE Left(base, sent, p) = NumUnits(AtPrice(fills, p), TradedQty)
  <2>1. (sent + base) - sent = base
    OBVIOUS
  <2>2. After(fills, base) = fills
    BY <1>1 DEF After
  <2> QED
    BY <2>1, <2>2 DEF Left
<1>4. ASSUME NEW p PROVE Left(base, sent + n, p) = 0
  <2>1. ((sent + n) + base) - sent = base + n
    BY <1>1
  <2>2. After(fills, base + n) = {}
    BY <1>1 DEF After
  <2> QED
    BY <2>1, <2>2, NothingTraded DEF Left
<1>5. ASSUME NEW t \in fills, NEW p
      PROVE  /\ t.price = p => Left(base, Reported(t).at - 1, p) = Left(base, Reported(t).at, p) + t.qty
             /\ t.price # p => Left(base, Reported(t).at - 1, p) = Left(base, Reported(t).at, p)
  <2>1. /\ t.qty \in 1..MaxQty /\ Reported(t).at \in Nat /\ Reported(t).at + base = sent + t.seq
        /\ t.seq \in Nat /\ base < t.seq
    BY ReportFields
  <2>2. PICK k \in Nat : t.seq = k + 1
    <3>1. t.seq - 1 \in Nat /\ t.seq = (t.seq - 1) + 1
      BY <2>1
    <3> QED
      BY <3>1
  <2>3. (Reported(t).at + base) - sent = k + 1 /\ ((Reported(t).at - 1) + base) - sent = k
    BY <2>1, <2>2
  <2>4. /\ t.price = p => NumUnits(AtPrice(After(fills, k), p), TradedQty)
                           = NumUnits(AtPrice(After(fills, k + 1), p), TradedQty) + t.qty
        /\ t.price # p => NumUnits(AtPrice(After(fills, k), p), TradedQty)
                           = NumUnits(AtPrice(After(fills, k + 1), p), TradedQty)
    <3>1. \A u \in fills : u.seq = t.seq => u = t
      BY <1>1
    <3> QED
      BY <1>1, <2>1, <2>2, <3>1, AfterStep
  <2> QED
    BY <2>3, <2>4 DEF Left
<1> QED
  <2>1. \A k \in Nat : \A p : Left(base, k, p) \in Nat
    BY <1>2
  <2> QED
    BY <1>3, <1>4, <1>5, <2>1 DEF n

\* The own side of the order at work has nothing where it trades.
LEMMA OwnSideEmpty ==
    ASSUME BookInv, ~loaded, NEW t \in fills
    PROVE  SideTotal(attr[incoming].side, t.price) = 0
<1> DEFINE s == attr[incoming].side
<1>1. {u \in OnSide(s) \X (1..MaxQty) : attr[u[1]].price = t.price /\ u[2] <= rem[u[1]]} = {}
    BY DEF BookInv, SidesApart, OnSide
<1> QED
    BY <1>1, FS_EmptySet DEF SideTotal

\* A trade is deducted on the side it was taken from, the other has nothing there.
LEMMA ReportTells ==
    ASSUME BookInv, ~loaded, incoming # None, sent \in Nat, NEW base \in Nat, FillsFollow(base), NEW V,
           \A k \in Nat, s \in Sides, p \in Prices :
               sent <= k /\ k <= sent + Cardinality(fills) =>
                   V[k][s][p] = SideTotal(s, p)
                                + IF s = Opposite(attr[incoming].side) THEN Left(base, k, p) ELSE 0,
           NEW t \in fills
    PROVE  TellsChange(V, Reported(t))
<1> DEFINE e == Reported(t)  own == attr[incoming].side  opp == Opposite(own)  a == Reported(t).at
<1>1. /\ e.kind = "trade" /\ e.price = t.price /\ e.qty = t.qty
      /\ t.price \in Prices /\ t.qty \in 1..MaxQty
      /\ a \in Nat /\ a + base = sent + t.seq
      /\ t.seq \in Nat /\ base < t.seq /\ t.seq <= base + Cardinality(fills)
    BY ReportFields
<1>2. Cardinality(fills) \in Nat /\ t.qty \in Nat
    BY <1>1, FillsHaveBase, BookBounds
<1>3. /\ a \in Nat /\ a - 1 \in Nat /\ sent <= a /\ sent <= a - 1
      /\ a <= sent + Cardinality(fills) /\ a - 1 <= sent + Cardinality(fills)
    BY <1>1, <1>2
<1>4. own \in Sides /\ opp \in Sides /\ Opposite(opp) = own /\ own # opp
  <2>1. own \in Sides
    BY RequestFacts DEF BookInv, OrdersInv
  <2> QED
    BY <2>1 DEF Opposite, Sides, BUY, SELL
<1>5. /\ \A k \in Nat : \A p : Left(base, k, p) \in Nat
      /\ \A p : /\ t.price = p => Left(base, a - 1, p) = Left(base, a, p) + t.qty
                /\ t.price # p => Left(base, a - 1, p) = Left(base, a, p)
    BY LeftFacts
<1>6. \A s \in Sides, p \in Prices : SideTotal(s, p) \in Nat
    BY TotalsAreNumbers
<1>7. SideTotal(own, t.price) = 0
    BY OwnSideEmpty
<1>8. \A s \in Sides, p \in Prices :
         /\ V[a][s][p] = SideTotal(s, p) + IF s = opp THEN Left(base, a, p) ELSE 0
         /\ V[a - 1][s][p] = SideTotal(s, p) + IF s = opp THEN Left(base, a - 1, p) ELSE 0
    BY <1>3
<1> HIDE DEF e, own, opp, a
<1>9. V[a - 1][opp][t.price] = V[a][opp][t.price] + t.qty
  <2>1. /\ V[a][opp][t.price] = SideTotal(opp, t.price) + Left(base, a, t.price)
        /\ V[a - 1][opp][t.price] = SideTotal(opp, t.price) + Left(base, a - 1, t.price)
    BY <1>1, <1>4, <1>8
  <2>2. SideTotal(opp, t.price) \in Nat /\ Left(base, a, t.price) \in Nat
    BY <1>1, <1>3, <1>4, <1>5, <1>6
  <2>3. Left(base, a - 1, t.price) = Left(base, a, t.price) + t.qty
    BY <1>5
  <2> QED
    BY <1>2, <2>1, <2>2, <2>3
<1>10. ASSUME NEW s \in Sides, NEW p \in Prices, s # opp \/ p # t.price
       PROVE  V[a][s][p] = V[a - 1][s][p]
  <2>1. CASE s # opp
    BY <1>8, <2>1
  <2>2. CASE s = opp /\ t.price # p
    BY <1>5, <1>8, <2>2
  <2> QED
    BY <1>10, <2>1, <2>2
<1>11. V[a - 1][own][t.price] = 0
    BY <1>1, <1>4, <1>7, <1>8
<1>12. Deducts(V, a, opp, t.price, t.qty)
    BY <1>9, <1>10 DEF Deducts, SameBut
<1>13. e.at = a
    BY DEF e, a
<1>14. TellsChange(V, e)
    BY <1>1, <1>4, <1>11, <1>12, <1>13 DEF TellsChange
<1> QED
    BY <1>14 DEF e

\* Trades are deducted where they were made, and what is left of the order is added.
LEMMA MatchKeepsHistory ==
    ASSUME BookInv, BookInv', ViewTypeOK, EventsInv, HistoryInv, PublishMatch
    PROVE  HistoryInv'
<1> DEFINE n == Cardinality(fills)  own == attr[incoming].side  opp == Opposite(own)  rest == rem[incoming]
<1>1. /\ FinishMatch /\ incoming # None
      /\ UNCHANGED <<attr, started, bids, asks, recent, inOrder, loaded>>
    BY DEF PublishMatch, FinishMatch
<1> SUFFICES ASSUME inOrder, ~loaded PROVE \E V \in Histories, d \in Nat : IsHistory(V, d)'
    BY <1>1 DEF HistoryInv
<1>2. PICK T \in Histories, d \in Nat : IsHistory(T, d)
    BY DEF HistoryInv
<1>3. sent \in Nat /\ n \in Nat
    BY EventFacts, FillsHaveBase
<1>4. PICK base \in Nat : FillsFollow(base)
    BY FillsHaveBase
<1>5. /\ incoming \in Orders /\ attr[incoming] \in Request /\ rest \in Nat
      /\ own \in Sides /\ attr[incoming].price \in Prices
    BY <1>1, RequestFacts DEF BookInv, OrdersInv, BookTypeOK
<1>6. /\ \A k \in Nat : \A p : Left(base, k, p) \in Nat
      /\ \A p : Left(base, sent, p) = NumUnits(AtPrice(fills, p), TradedQty)
      /\ \A p : Left(base, sent + n, p) = 0
    BY <1>3, <1>4, LeftFacts
<1>7. PICK U \in [Sides -> [Prices -> Nat]] : \A s \in Sides, p \in Prices : U[s][p] = SideTotal(s, p)'
    BY TotalsNext
<1>8. \A s \in Sides, p \in Prices :
         /\ rest # 0 /\ own = s /\ attr[incoming].price = p => SideTotal(s, p)' = SideTotal(s, p) + rest
         /\ ~(rest # 0 /\ own = s /\ attr[incoming].price = p) => SideTotal(s, p)' = SideTotal(s, p)
         /\ Taken(s, p)' = 0
    BY <1>1, FinishChangesRest
<1>9. \A s \in Sides, p \in Prices : SideTotal(s, p) \in Nat
    BY TotalsAreNumbers
<1>10. PICK A \in Histories : /\ \A k \in Nat : k > sent + n => A[k] = U
                              /\ \A k \in Nat, s \in Sides, p \in Prices : k <= sent + n =>
                                    A[k][s][p] = SideTotal(s, p) + IF s = opp THEN Left(base, k, p) ELSE 0
  <2> DEFINE val(k, s, p) == SideTotal(s, p) + IF s = opp THEN Left(base, k, p) ELSE 0
             A == [k \in Nat |-> IF k > sent + n THEN U ELSE [s \in Sides |-> [p \in Prices |-> val(k, s, p)]]]
  <2>1. \A k \in Nat, s \in Sides, p \in Prices : val(k, s, p) \in Nat
    BY <1>6, <1>9
  <2> HIDE DEF val
  <2>2. A \in Histories
    BY <2>1 DEF Histories
  <2>3. \A k \in Nat : k > sent + n => A[k] = U
    OBVIOUS
  <2>4. \A k \in Nat, s \in Sides, p \in Prices : k <= sent + n => A[k][s][p] = val(k, s, p)
    BY <1>3
  <2> HIDE DEF A
  <2>5. \A k \in Nat, s \in Sides, p \in Prices : k <= sent + n =>
           A[k][s][p] = SideTotal(s, p) + IF s = opp THEN Left(base, k, p) ELSE 0
    BY <2>4 DEF val
  <2> QED
    BY <2>2, <2>3, <2>5
<1>11. PICK V \in Histories : AgreeUpTo(T, V, sent) /\ \A k \in Nat : k > sent => V[k] = A[k]
    BY <1>2, <1>3, <1>10, JoinHistories
<1>12. \A s \in Sides, p \in Prices :
          V[sent][s][p] = SideTotal(s, p) + IF s = opp THEN Left(base, sent, p) ELSE 0
  <2>1. V[sent] = T[sent]
    BY <1>3, <1>11 DEF AgreeUpTo
  <2>2. \A s \in Sides, p \in Prices : T[sent][s][p] = SideTotal(s, p) + Taken(s, p)
    BY <1>2 DEF IsHistory
  <2>3. \A s, p : Taken(s, p) = IF s = opp THEN Left(base, sent, p) ELSE 0
    BY <1>1, <1>6 DEF Taken
  <2> QED
    BY <2>1, <2>2, <2>3
<1>13. \A k \in Nat, s \in Sides, p \in Prices :
          sent <= k /\ k <= sent + n =>
              V[k][s][p] = SideTotal(s, p) + IF s = opp THEN Left(base, k, p) ELSE 0
  <2> HIDE DEF n, own, opp, rest
  <2> SUFFICES ASSUME NEW k \in Nat, NEW s \in Sides, NEW p \in Prices, sent <= k, k <= sent + n
               PROVE  V[k][s][p] = SideTotal(s, p) + IF s = opp THEN Left(base, k, p) ELSE 0
    OBVIOUS
  <2>1. CASE k = sent
    BY <1>12, <2>1
  <2>2. CASE k > sent
    BY <1>10, <1>11, <2>2
  <2> QED
    BY <1>3, <2>1, <2>2
<1>14. \A e \in Reports : TellsChange(V, e)
  <2>1. \A t \in fills : TellsChange(V, Reported(t))
    BY <1>1, <1>3, <1>4, <1>13, ReportTells
  <2> QED
    BY <2>1 DEF Reports
<1>15. \A s \in Sides, p \in Prices : V[sent + n][s][p] = SideTotal(s, p)
  <2> HIDE DEF n, own, opp, rest
  <2>1. sent + n \in Nat /\ sent <= sent + n /\ sent + n <= sent + n
    BY <1>3
  <2> QED
    BY <1>6, <1>9, <1>13, <2>1
<1>16. CASE rest = 0
  <2>1. Publishes(Reports, n)
    BY <1>3, <1>16, MatchPublishes
  <2>2. \A s \in Sides, p \in Prices : V[sent'][s][p] = SideTotal(s, p)' + Taken(s, p)'
    <3>1. sent' = sent + n
      BY <2>1 DEF Publishes
    <3> HIDE DEF n, own, opp, rest
    <3> QED
      BY <1>8, <1>9, <1>15, <1>16, <3>1
  <2>3. IsHistory(V, d)'
    BY <1>1, <1>2, <1>3, <1>11, <1>14, <2>1, <2>2, HistoryGrows
  <2> QED
    BY <1>2, <1>11, <2>3
<1>17. CASE rest # 0
  <2>1. PICK e : e = OrderEvent("rested", incoming, sent + 1 + n)
    OBVIOUS
  <2>2. Publishes(Reports \cup {e}, n + 1)
    BY <1>3, <1>17, <2>1, MatchPublishes
  <2>3. /\ e.kind = "rested" /\ e.at = sent + 1 + n /\ e.side = own
        /\ e.price = attr[incoming].price /\ e.qty = rest
    BY <2>1 DEF OrderEvent
  <2>4. e.side \in Sides /\ e.price \in Prices
    BY <1>5, <2>3
  <2> HIDE DEF n, own, opp, rest
  <2>5. e.at \in Nat /\ e.at - 1 = sent + n /\ e.at > sent + n /\ e.at > sent
    BY <1>3, <2>3
  <2>6. \A s \in Sides, p \in Prices : V[e.at][s][p] = SideTotal(s, p)'
    <3>1. V[e.at] = U
      BY <1>10, <1>11, <2>5
    <3> QED
      BY <1>7, <3>1
  <2>7. TellsChange(V, e)
    <3>1. V[e.at][e.side][e.price] = V[e.at - 1][e.side][e.price] + e.qty
      BY <1>8, <1>15, <1>17, <2>3, <2>4, <2>5, <2>6
    <3>2. SameBut(V, e.at, e.side, e.price)
      BY <1>8, <1>15, <2>3, <2>5, <2>6 DEF SameBut
    <3> QED
      BY <2>3, <3>1, <3>2 DEF TellsChange
  <2>8. \A s \in Sides, p \in Prices : V[sent'][s][p] = SideTotal(s, p)' + Taken(s, p)'
    <3>1. sent' = e.at
      BY <1>3, <2>2, <2>3 DEF Publishes
    <3>2. \A s \in Sides, p \in Prices : SideTotal(s, p)' \in Nat
      BY <1>7
    <3> QED
      BY <1>8, <2>6, <3>1, <3>2
  <2>9. \A f \in Reports \cup {e} : TellsChange(V, f)
    BY <1>14, <2>7
  <2>10. IsHistory(V, d)'
    BY <1>1, <1>2, <1>3, <1>11, <2>2, <2>8, <2>9, HistoryGrows
  <2> QED
    BY <1>2, <1>11, <2>10
<1> QED
    BY <1>16, <1>17

-----------------------------------------------------------------------------
(* The history and the handlers *)

\* The handler of the next event brings the view to the next book.
LEMMA HandledShows ==
    ASSUME ViewTypeOK, LevelsInv, NEW T \in Histories, NEW d \in Nat, ShowsAt(T, d),
           NEW e \in pending, e.at = d + 1, TellsChange(T, e), Handles(e)
    PROVE  ShowsAt(T, d + 1)'
<1>1. /\ bids \in Seq(Levels) /\ asks \in Seq(Levels)
      /\ OneLevelPerPrice(bids) /\ OneLevelPerPrice(asks)
    BY DEF ViewTypeOK, LevelsInv
<1>2. /\ e.price \in Prices /\ e.qty \in Nat
      /\ e.kind = "trade" \/ (e.kind \in {"rested", "cancelled"} /\ e.side \in {BUY, SELL})
    BY EventFacts DEF Sides
<1>3. e.at - 1 = d /\ d + 1 \in Nat
    OBVIOUS
<1>4. /\ \A p \in Prices : Shown(bids, p) = T[d][BUY][p] /\ Shown(asks, p) = T[d][SELL][p]
      /\ \A s \in Sides, p \in Prices : T[d][s][p] \in Nat /\ T[d + 1][s][p] \in Nat
    BY <1>3 DEF ShowsAt, Histories
<1>5. ASSUME NEW L \in Seq(Levels), OneLevelPerPrice(L), NEW x
      PROVE  /\ Shown(addLevel(L, e.price, e.qty), x) =
                   IF x = e.price THEN Shown(L, x) + e.qty ELSE Shown(L, x)
             /\ Shown(deductLevel(L, e.price, e.qty), x) =
                   IF x # e.price THEN Shown(L, x)
                   ELSE IF Shown(L, x) > e.qty THEN Shown(L, x) - e.qty ELSE 0
  <2>1. ShowsInstead(L, addLevel(L, e.price, e.qty), e.price, Shown(L, e.price) + e.qty)
    BY <1>2, <1>5, AddShows
  <2>2. ShowsInstead(L, deductLevel(L, e.price, e.qty), e.price,
                     IF Shown(L, e.price) > e.qty THEN Shown(L, e.price) - e.qty ELSE 0)
    BY <1>2, <1>5, DeductShows
  <2> QED
    BY <2>1, <2>2 DEF ShowsInstead
<1> SUFFICES ASSUME NEW p \in Prices
             PROVE  Shown(bids', p) = T[d + 1][BUY][p] /\ Shown(asks', p) = T[d + 1][SELL][p]
    BY DEF ShowsAt
<1>6. BUY \in Sides /\ SELL \in Sides /\ BUY # SELL /\ Opposite(BUY) = SELL /\ Opposite(SELL) = BUY
    BY DEF Sides, Opposite, BUY, SELL
<1>7. CASE e.kind = "rested"
  <2>1. /\ T[d + 1][e.side][e.price] = T[d][e.side][e.price] + e.qty
        /\ \A z \in Sides, x \in Prices : z # e.side \/ x # e.price => T[d + 1][z][x] = T[d][z][x]
    BY <1>3, <1>7 DEF TellsChange, SameBut
  <2>2. CASE e.side = BUY
    <3>1. bids' = addLevel(bids, e.price, e.qty) /\ asks' = asks
      BY <1>7, <2>2 DEF Handles
    <3> QED
      BY <1>1, <1>2, <1>4, <1>5, <1>6, <2>1, <2>2, <3>1
  <2>3. CASE e.side = SELL
    <3>1. bids' = bids /\ asks' = addLevel(asks, e.price, e.qty)
      BY <1>7, <2>3 DEF Handles
    <3>2. Shown(bids', p) = T[d + 1][BUY][p]
      BY <1>4, <1>6, <2>1, <2>3, <3>1
    <3>3. Shown(asks', p) = IF p = e.price THEN Shown(asks, p) + e.qty ELSE Shown(asks, p)
      BY <1>1, <1>5, <3>1
    <3>4. Shown(asks, p) = T[d][SELL][p]
      BY <1>4
    <3>5. T[d + 1][SELL][p] = IF p = e.price THEN T[d][SELL][p] + e.qty ELSE T[d][SELL][p]
      BY <1>6, <2>1, <2>3
    <3> QED
      BY <3>2, <3>3, <3>4, <3>5
  <2> QED
    BY <1>2, <1>7, <2>2, <2>3
<1>8. CASE e.kind = "cancelled"
  <2>1. /\ T[d][e.side][e.price] = T[d + 1][e.side][e.price] + e.qty
        /\ \A z \in Sides, x \in Prices : z # e.side \/ x # e.price => T[d + 1][z][x] = T[d][z][x]
    BY <1>3, <1>8 DEF TellsChange, Deducts, SameBut
  <2>2. CASE e.side = BUY
    <3>1. bids' = deductLevel(bids, e.price, e.qty) /\ asks' = asks
      BY <1>8, <2>2 DEF Handles
    <3>2. Shown(asks', p) = T[d + 1][SELL][p]
      BY <1>4, <1>6, <2>1, <2>2, <3>1
    <3>3. CASE p = e.price
      <4>1. Shown(bids', p) = IF Shown(bids, p) > e.qty THEN Shown(bids, p) - e.qty ELSE 0
        BY <1>1, <1>5, <3>1, <3>3
      <4>2. Shown(bids, p) = T[d + 1][BUY][p] + e.qty
        BY <1>4, <2>1, <2>2, <3>3
      <4> QED
        BY <1>2, <1>4, <1>6, <3>2, <4>1, <4>2
    <3>4. CASE p # e.price
      BY <1>1, <1>4, <1>5, <1>6, <2>1, <3>1, <3>2, <3>4
    <3> QED
      BY <3>3, <3>4
  <2>3. CASE e.side = SELL
    <3>1. bids' = bids /\ asks' = deductLevel(asks, e.price, e.qty)
      BY <1>8, <2>3 DEF Handles
    <3>2. Shown(bids', p) = T[d + 1][BUY][p]
      BY <1>4, <1>6, <2>1, <2>3, <3>1
    <3>3. CASE p = e.price
      <4>1. Shown(asks', p) = IF Shown(asks, p) > e.qty THEN Shown(asks, p) - e.qty ELSE 0
        BY <1>1, <1>5, <3>1, <3>3
      <4>2. Shown(asks, p) = T[d + 1][SELL][p] + e.qty
        BY <1>4, <2>1, <2>3, <3>3
      <4> QED
        BY <1>2, <1>4, <1>6, <3>2, <4>1, <4>2
    <3>4. CASE p # e.price
      BY <1>1, <1>4, <1>5, <1>6, <2>1, <3>1, <3>2, <3>4
    <3> QED
      BY <3>3, <3>4
  <2> QED
    BY <1>2, <1>8, <2>2, <2>3
<1>9. CASE e.kind = "trade"
  <2>1. PICK s \in Sides :
           /\ T[d][s][e.price] = T[d + 1][s][e.price] + e.qty
           /\ \A z \in Sides, x \in Prices : z # s \/ x # e.price => T[d + 1][z][x] = T[d][z][x]
           /\ T[d][Opposite(s)][e.price] = 0
    BY <1>3, <1>9 DEF TellsChange, Deducts, SameBut
  <2>2. bids' = deductLevel(bids, e.price, e.qty) /\ asks' = deductLevel(asks, e.price, e.qty)
    BY <1>9 DEF Handles
  <2>3. CASE p # e.price
    BY <1>1, <1>4, <1>5, <1>6, <2>1, <2>2, <2>3
  <2>4. CASE p = e.price
    <3>1. /\ Shown(bids', p) = IF Shown(bids, p) > e.qty THEN Shown(bids, p) - e.qty ELSE 0
          /\ Shown(asks', p) = IF Shown(asks, p) > e.qty THEN Shown(asks, p) - e.qty ELSE 0
      BY <1>1, <1>5, <2>2, <2>4
    <3>2. Shown(bids, p) = T[d][BUY][p] /\ Shown(asks, p) = T[d][SELL][p]
      BY <1>4
    <3>3. CASE s = BUY
      <4>1. Shown(bids, p) = T[d + 1][BUY][p] + e.qty /\ Shown(asks, p) = 0 /\ T[d + 1][SELL][p] = 0
        BY <1>6, <2>1, <2>4, <3>2, <3>3
      <4> QED
        BY <1>2, <1>4, <1>6, <3>1, <4>1
    <3>4. CASE s = SELL
      <4>1. Shown(asks, p) = T[d + 1][SELL][p] + e.qty /\ Shown(bids, p) = 0 /\ T[d + 1][BUY][p] = 0
        BY <1>6, <2>1, <2>4, <3>2, <3>4
      <4> QED
        BY <1>2, <1>4, <1>6, <3>1, <4>1
    <3> QED
      BY <2>1, <3>3, <3>4 DEF Sides
  <2> QED
    BY <2>3, <2>4
<1> QED
  <2>1. e.kind = "rested" \/ e.kind = "cancelled" \/ e.kind = "trade"
    BY <1>2
  <2> QED
    BY <1>7, <1>8, <1>9, <2>1

\* In order it is the next event that is handled.
LEMMA DispatchKeepsHistory ==
    ASSUME ViewTypeOK, LevelsInv, EventsInv, HistoryInv, NEW e \in pending, Dispatch(e)
    PROVE  HistoryInv'
<1>1. /\ Handles(e) /\ pending' = pending \ {e}
      /\ inOrder' = (inOrder /\ \A f \in pending : e.at <= f.at)
      /\ UNCHANGED <<vars, sent, loaded>>
    BY DispatchHandles
<1>2. UNCHANGED <<attr, book, rem, incoming, fills>>
    BY <1>1 DEF vars
<1> SUFFICES ASSUME inOrder', ~loaded' PROVE \E V \in Histories, d \in Nat : IsHistory(V, d)'
    BY DEF HistoryInv
<1>3. inOrder /\ ~loaded /\ \A f \in pending : e.at <= f.at
    BY <1>1
<1>4. PICK T \in Histories, d \in Nat : IsHistory(T, d)
    BY <1>3 DEF HistoryInv
<1>5. /\ d <= sent
      /\ \A k \in Nat : d < k /\ k <= sent <=> \E f \in pending : f.at = k
      /\ \A f \in pending : TellsChange(T, f)
      /\ ShowsAt(T, d)
      /\ \A s \in Sides, p \in Prices : T[sent][s][p] = SideTotal(s, p) + Taken(s, p)
    BY <1>4 DEF IsHistory
<1>6. sent \in Nat /\ \A f \in pending : f.at \in Nat
    BY EventFacts
<1>7. e.at = d + 1 /\ d + 1 <= sent
  <2>1. e.at \in Nat /\ d < e.at /\ e.at <= sent
    BY <1>5, <1>6
  <2>2. d + 1 \in Nat /\ d < d + 1 /\ d + 1 <= sent
    BY <1>6, <2>1
  <2>3. PICK f \in pending : f.at = d + 1
    BY <1>5, <2>2
  <2>4. e.at <= d + 1
    BY <1>3, <2>3
  <2> QED
    BY <2>1, <2>2, <2>4
<1>8. ShowsAt(T, d + 1)'
    BY <1>1, <1>4, <1>5, <1>7, HandledShows
<1>9. \A k \in Nat : d + 1 < k /\ k <= sent <=> \E f \in pending' : f.at = k
  <2>1. \A f \in pending : f.at = e.at => f = e
    BY DEF EventsInv
  <2> SUFFICES ASSUME NEW k \in Nat
               PROVE  d + 1 < k /\ k <= sent <=> \E f \in pending' : f.at = k
    OBVIOUS
  <2>2. d + 1 < k /\ k <= sent => \E f \in pending' : f.at = k
    BY <1>1, <1>5, <1>7
  <2>3. ASSUME NEW f \in pending', f.at = k PROVE d + 1 < k /\ k <= sent
    <3>1. f \in pending /\ f.at # d + 1
      BY <1>1, <1>7, <2>1
    <3>2. d < k /\ k <= sent
      BY <1>5, <2>3, <3>1
    <3> QED
      BY <2>3, <3>1, <3>2
  <2> QED
    BY <2>2, <2>3
<1>10. \A f \in pending' : TellsChange(T, f)
    BY <1>1, <1>5
<1>11. \A s \in Sides, p \in Prices : T[sent'][s][p] = SideTotal(s, p)' + Taken(s, p)'
  <2>1. \A s \in Sides, p \in Prices : SideTotal(s, p)' = SideTotal(s, p) /\ Taken(s, p)' = Taken(s, p)
    BY <1>2, SameRest
  <2> QED
    BY <1>1, <1>5, <2>1
<1>12. IsHistory(T, d + 1)'
    BY <1>1, <1>7, <1>8, <1>9, <1>10, <1>11 DEF IsHistory
<1> QED
    BY <1>4, <1>12

\* What only the book does leaves the history as it is.
LEMMA BookKeepsHistory ==
    ASSUME HistoryInv, UNCHANGED <<bids, asks, pending, sent, inOrder, loaded>>,
           \A s \in Sides, p \in Prices : SideTotal(s, p)' + Taken(s, p)' = SideTotal(s, p) + Taken(s, p)
    PROVE  HistoryInv'
<1> SUFFICES ASSUME inOrder, ~loaded PROVE \E V \in Histories, d \in Nat : IsHistory(V, d)'
    BY DEF HistoryInv
<1>1. PICK T \in Histories, d \in Nat : IsHistory(T, d)
    BY DEF HistoryInv
<1>2. IsHistory(T, d)'
    BY <1>1, HistoryStays
<1> QED
    BY <1>1, <1>2

-----------------------------------------------------------------------------
(* The invariant *)

ViewInv == BookInv /\ ViewTypeOK /\ LevelsInv /\ EventsInv /\ TradesInv /\ HistoryInv

\* The empty book and view.
LEMMA ViewInitInv == ViewInit => ViewInv
<1> SUFFICES ASSUME ViewInit PROVE ViewInv
    OBVIOUS
<1>1. /\ attr = [o \in Orders |-> NoAttr] /\ book = {} /\ ahead = {} /\ rem = [o \in Orders |-> 0]
      /\ incoming = None /\ fills = {} /\ seq = 0
      /\ bids = <<>> /\ asks = <<>> /\ recent = <<>>
      /\ pending = {} /\ sent = 0 /\ inOrder = TRUE /\ loaded = FALSE
    BY DEF ViewInit, Init, BookInit
<1>2. IsFiniteSet({}) /\ Cardinality({}) = 0
    BY FS_EmptySet
<1>3. OrdersInv
  <2>1. NoAttr \in Attr
    BY DEF NoAttr, Attr, Sides
  <2>2. BookTypeOK
    BY <1>1, <2>1 DEF BookTypeOK
  <2> QED
    BY <1>1, <1>2, <2>2 DEF OrdersInv
<1>4. PriorityInv /\ SidesApart
    BY <1>1 DEF PriorityInv, SidesApart
<1>5. FillsInv
    BY <1>1, <1>2 DEF FillsInv
<1>6. ViewTypeOK /\ LevelsInv /\ EventsInv
  <2>1. <<>> \in Seq(Levels) /\ <<>> \in Seq(TradeEvents) /\ DOMAIN <<>> = {}
    OBVIOUS
  <2>2. bids \in Seq(Levels) /\ asks \in Seq(Levels) /\ recent \in Seq(TradeEvents)
    BY <1>1, <2>1
  <2>3. IsFiniteSet(pending)
    BY <1>1, <1>2
  <2>4. ViewTypeOK
    BY <1>1, <2>2, <2>3 DEF ViewTypeOK
  <2>5. LevelsInv
    BY <1>1 DEF LevelsInv, OneLevelPerPrice
  <2>6. EventsInv
    BY <1>1 DEF EventsInv
  <2> QED
    BY <2>4, <2>5, <2>6
<1>7. TradesInv
  <2>1. Cardinality(fills) = 0
    BY <1>1, <1>2
  <2>2. PendingTrades = {}
    BY <1>1 DEF PendingTrades
  <2>3. Cardinality(PendingTrades) = 0
    BY <1>2, <2>2
  <2>4. Len(recent) = 0 /\ Lesser(MaxRecent, 0 - 0 - 0) = 0
    BY <1>1, ViewBounds DEF Lesser
  <2> QED
    BY <1>1, <2>1, <2>3, <2>4 DEF TradesInv
<1>8. HistoryInv
    BY InitHistory
<1> QED
    BY <1>3, <1>4, <1>5, <1>6, <1>7, <1>8 DEF ViewInv, BookInv

\* Steps of the worker that publish nothing.
LEMMA UnpublishedInv ==
    ASSUME ViewInv, Unpublished
    PROVE  ViewInv'
<1>1. /\ BookInv /\ ViewTypeOK /\ LevelsInv /\ EventsInv /\ TradesInv /\ HistoryInv
      /\ UNCHANGED <<bids, asks, recent, pending, sent, inOrder, loaded>>
    BY DEF ViewInv, Unpublished, view
<1>2. ViewTypeOK' /\ LevelsInv' /\ EventsInv'
    BY <1>1 DEF ViewTypeOK, LevelsInv, OneLevelPerPrice, EventsInv
<1>3. PendingTrades' = PendingTrades
    BY <1>1 DEF PendingTrades
<1>4. CASE Start
  <2>1. UNCHANGED <<attr, book, ahead, rem, incoming, fills, seq>>
    BY <1>4 DEF Start, bookVars
  <2>2. BookInv'
    BY <1>1, <2>1, SameBook
  <2>3. TradesInv'
    BY <1>1, <1>3, <2>1, SameTrades
  <2>4. \A s \in Sides, p \in Prices : SideTotal(s, p)' + Taken(s, p)' = SideTotal(s, p) + Taken(s, p)
    BY <2>1, SameRest
  <2>5. HistoryInv'
    BY <1>1, <2>4, BookKeepsHistory
  <2> QED
    BY <1>2, <2>2, <2>3, <2>5 DEF ViewInv
<1>5. CASE MatchOne /\ UNCHANGED <<attr, started>>
  <2>1. PICK r \in book : FillOne(r)
    BY <1>5, MatchIsFill
  <2>2. UNCHANGED attr
    BY <1>5
  <2>3. BookInv'
    BY <1>1, <2>1, <2>2, MatchOneKeepsBook
  <2>4. TradesInv'
    BY <1>1, <2>1, FillKeepsTrades
  <2>5. \A s \in Sides, p \in Prices : SideTotal(s, p)' + Taken(s, p)' = SideTotal(s, p) + Taken(s, p)
    BY <1>1, <2>1, <2>2, <2>3, FillKeepsRest
  <2>6. HistoryInv'
    BY <1>1, <2>5, BookKeepsHistory
  <2> QED
    BY <1>2, <2>3, <2>4, <2>6 DEF ViewInv
<1>6. ASSUME NEW o \in Orders, NEW a \in Request, Place(o, a)
      PROVE  ViewInv'
  <2>1. UNCHANGED <<fills, seq>>
    BY <1>6 DEF Place, BeginMatch
  <2>2. BookInv'
    BY <1>1, <1>6, PlaceKeepsBook
  <2>3. TradesInv'
    BY <1>1, <1>3, <2>1, SameTrades
  <2>4. \A s \in Sides, p \in Prices : SideTotal(s, p)' + Taken(s, p)' = SideTotal(s, p) + Taken(s, p)
    BY <1>1, <1>6, <2>2, PlaceKeepsRest
  <2>5. HistoryInv'
    BY <1>1, <2>4, BookKeepsHistory
  <2> QED
    BY <1>2, <2>2, <2>3, <2>5 DEF ViewInv
<1> QED
    BY <1>4, <1>5, <1>6 DEF Unpublished

\* The end of a call of Match.
LEMMA PublishMatchInv ==
    ASSUME ViewInv, PublishMatch
    PROVE  ViewInv'
<1>1. BookInv /\ ViewTypeOK /\ LevelsInv /\ EventsInv /\ TradesInv /\ HistoryInv
    BY DEF ViewInv
<1>2. FinishMatch /\ UNCHANGED <<attr, bids, asks, recent, inOrder, loaded>>
    BY DEF PublishMatch
<1>3. BookInv'
    BY <1>1, <1>2, FinishKeepsBook
<1>4. sent \in Nat /\ Cardinality(fills) \in Nat
    BY <1>1, EventFacts, FillsHaveBase
<1>5. \E m \in Nat : \E N : Publishes(N, m)
  <2>1. CASE rem[incoming] = 0
    BY <1>1, <1>4, <2>1, MatchPublishes
  <2>2. CASE rem[incoming] # 0
    <3>1. Cardinality(fills) + 1 \in Nat
      BY <1>4
    <3> QED
      BY <1>1, <1>4, <2>2, <3>1, MatchPublishes
  <2> QED
    BY <2>1, <2>2
<1>6. ViewTypeOK' /\ LevelsInv' /\ EventsInv'
  <2>1. PICK m \in Nat : \E N : Publishes(N, m)
    BY <1>5
  <2>2. PICK N : Publishes(N, m)
    BY <2>1
  <2> QED
    BY <1>1, <1>2, <2>2, PublishKeepsEvents
<1>7. TradesInv'
    BY <1>1, MatchKeepsTrades
<1>8. HistoryInv'
    BY <1>1, <1>3, MatchKeepsHistory
<1> QED
    BY <1>3, <1>6, <1>7, <1>8 DEF ViewInv

\* A cancellation.
LEMMA PublishCancelInv ==
    ASSUME ViewInv, NEW o \in Orders, PublishCancel(o)
    PROVE  ViewInv'
<1>1. BookInv /\ ViewTypeOK /\ LevelsInv /\ EventsInv /\ TradesInv /\ HistoryInv
    BY DEF ViewInv
<1>2. /\ Cancel(o) /\ UNCHANGED <<fills, seq, bids, asks, recent, inOrder, loaded>>
    BY DEF PublishCancel, Cancel, CancelResting
<1>3. BookInv'
    BY <1>1, <1>2, CancelKeepsBook
<1>4. HistoryInv'
    BY <1>1, <1>3, CancelKeepsHistory
<1>5. CASE o \notin book /\ UNCHANGED <<pending, sent>>
  <2>1. ViewTypeOK' /\ LevelsInv' /\ EventsInv'
    BY <1>1, <1>2, <1>5 DEF ViewTypeOK, LevelsInv, OneLevelPerPrice, EventsInv
  <2>2. PendingTrades' = PendingTrades
    BY <1>5 DEF PendingTrades
  <2>3. TradesInv'
    BY <1>1, <1>2, <2>2, SameTrades
  <2> QED
    BY <1>3, <1>4, <2>1, <2>3 DEF ViewInv
<1>6. CASE /\ o \in book
           /\ pending' = pending \cup {OrderEvent("cancelled", o, sent + 1)} /\ sent' = sent + 1
  <2>1. sent \in Nat
    BY <1>1, EventFacts
  <2>2. Publishes({OrderEvent("cancelled", o, sent + 1)}, 1)
    BY <1>1, <1>6, <2>1, CancelPublishes
  <2>3. ViewTypeOK' /\ LevelsInv' /\ EventsInv'
    BY <1>1, <1>2, <2>2, PublishKeepsEvents
  <2>4. PendingTrades' = PendingTrades
    BY <1>6 DEF PendingTrades, OrderEvent
  <2>5. TradesInv'
    BY <1>1, <1>2, <2>4, SameTrades
  <2> QED
    BY <1>3, <1>4, <2>3, <2>5 DEF ViewInv
<1> QED
    BY <1>5, <1>6 DEF PublishCancel

\* Rehydration.
LEMMA LoadInv ==
    ASSUME ViewInv, NEW o \in Orders, NEW a \in Request, Load(o, a)
    PROVE  ViewInv'
<1>1. BookInv /\ ViewTypeOK /\ LevelsInv /\ EventsInv /\ TradesInv /\ HistoryInv
    BY DEF ViewInv
<1>2. LoadOrder(o, a) /\ loaded' = TRUE /\ UNCHANGED <<bids, asks, recent, pending, sent, inOrder, fills, seq>>
    BY DEF Load, LoadOrder
<1>3. BookInv'
    BY <1>1, <1>2, LoadKeepsBook
<1>4. ViewTypeOK' /\ LevelsInv' /\ EventsInv'
    BY <1>1, <1>2 DEF ViewTypeOK, LevelsInv, OneLevelPerPrice, EventsInv
<1>5. PendingTrades' = PendingTrades
    BY <1>2 DEF PendingTrades
<1>6. TradesInv'
    BY <1>1, <1>2, <1>5, SameTrades
<1>7. HistoryInv'
    BY <1>2 DEF HistoryInv
<1> QED
    BY <1>3, <1>4, <1>6, <1>7 DEF ViewInv

\* A handler.
LEMMA DispatchInv ==
    ASSUME ViewInv, NEW e \in pending, Dispatch(e)
    PROVE  ViewInv'
<1>1. BookInv /\ ViewTypeOK /\ LevelsInv /\ EventsInv /\ TradesInv /\ HistoryInv
    BY DEF ViewInv
<1>2. UNCHANGED <<attr, book, ahead, rem, incoming, fills, seq, loaded>>
    BY DEF Dispatch, vars
<1>3. BookInv'
    BY <1>1, <1>2, SameBook
<1>4. ViewTypeOK' /\ LevelsInv' /\ EventsInv'
    BY <1>1, DispatchKeepsEvents
<1>5. TradesInv'
    BY <1>1, DispatchKeepsTrades
<1>6. HistoryInv'
    BY <1>1, DispatchKeepsHistory
<1> QED
    BY <1>3, <1>4, <1>5, <1>6 DEF ViewInv

\* Every step keeps the invariant.
LEMMA ViewStepInv == ViewInv /\ [ViewNext]_<<vars, view>> => ViewInv'
<1> SUFFICES ASSUME ViewInv, [ViewNext]_<<vars, view>> PROVE ViewInv'
    OBVIOUS
<1>1. CASE PublishMatch
    BY <1>1, PublishMatchInv
<1>2. ASSUME NEW o \in Orders, PublishCancel(o) PROVE ViewInv'
    BY <1>2, PublishCancelInv
<1>3. ASSUME NEW o \in Orders, NEW a \in Request, Load(o, a) PROVE ViewInv'
    BY <1>3, LoadInv
<1>4. CASE Unpublished
    BY <1>4, UnpublishedInv
<1>5. ASSUME NEW e \in pending, Dispatch(e) PROVE ViewInv'
    BY <1>5, DispatchInv
<1>6. CASE UNCHANGED <<vars, view>>
  <2>1. UNCHANGED <<attr, book, ahead, rem, incoming, fills, seq, bids, asks, recent, pending, sent, inOrder, loaded>>
    BY <1>6 DEF vars, view
  <2>2. BookInv /\ ViewTypeOK /\ LevelsInv /\ EventsInv /\ TradesInv /\ HistoryInv
    BY DEF ViewInv
  <2>3. BookInv'
    BY <2>1, <2>2, SameBook
  <2>4. ViewTypeOK' /\ LevelsInv' /\ EventsInv'
    BY <2>1, <2>2 DEF ViewTypeOK, LevelsInv, OneLevelPerPrice, EventsInv
  <2>5. PendingTrades' = PendingTrades
    BY <2>1 DEF PendingTrades
  <2>6. TradesInv'
    BY <2>1, <2>2, <2>5, SameTrades
  <2>7. \A s \in Sides, p \in Prices : SideTotal(s, p)' + Taken(s, p)' = SideTotal(s, p) + Taken(s, p)
    BY <2>1, SameRest
  <2>8. HistoryInv'
    BY <2>1, <2>2, <2>7, BookKeepsHistory
  <2> QED
    BY <2>3, <2>4, <2>6, <2>8 DEF ViewInv
<1> QED
    BY <1>1, <1>2, <1>3, <1>4, <1>5, <1>6 DEF ViewNext

-----------------------------------------------------------------------------
(* Results *)

\* The book, the events on their way and the view belong together: the sides of a book
\* nobody loaded orders into do not meet, each trade of the engine's counter is at work,
\* on its way, shown or pushed out, and as long as no handler has overtaken another the
\* view is the book as it was after the last event handled.
THEOREM ViewInvariant == ViewSpec => []ViewInv
<1> QED
    BY ViewInitInv, ViewStepInv, PTL DEF ViewSpec

\* OnTradeMatched shows every trade once, and the list is as long as the number of trades
\* allows once all handlers have run.
THEOREM RecentTradesAreComplete == ViewSpec => []RecentTradesComplete
<1>1. ASSUME ViewInv PROVE RecentTradesComplete
  <2>1. IsInjective(recent)
    BY <1>1 DEF ViewInv, EventsInv, IsInjective
  <2>2. ASSUME pending = {}, incoming = None PROVE Len(recent) = Lesser(MaxRecent, seq)
    <3>1. fills = {}
      BY <1>1, <2>2 DEF ViewInv, BookInv, FillsInv
    <3>2. PendingTrades = {}
      BY <2>2 DEF PendingTrades
    <3>3. Cardinality(fills) = 0 /\ Cardinality(PendingTrades) = 0
      BY <3>1, <3>2, FS_EmptySet
    <3>4. seq \in Nat
      BY <1>1 DEF ViewInv, BookInv, OrdersInv, BookTypeOK
    <3>5. Len(recent) = Lesser(MaxRecent, seq - Cardinality(fills) - Cardinality(PendingTrades))
      BY <1>1 DEF ViewInv, TradesInv
    <3> QED
      BY <3>3, <3>4, <3>5
  <2> QED
    BY <2>1, <2>2 DEF RecentTradesComplete
<1> QED
    BY <1>1, ViewInvariant, PTL

\* Handlers that keep the order of the events make the public book the engine's book,
\* although OnTradeMatched deducts from both sides without asking which one was taken.
THEOREM InOrderViewIsExact == ViewSpec => []InOrderViewShowsBook
<1>1. ASSUME ViewInv PROVE InOrderViewShowsBook
  <2> SUFFICES ASSUME inOrder, ~loaded, Settled PROVE ShowsBook
    BY DEF InOrderViewShowsBook
  <2>1. pending = {} /\ incoming = None
    BY DEF Settled
  <2>2. PICK T \in Histories, d \in Nat : IsHistory(T, d)
    BY <1>1 DEF ViewInv, HistoryInv
  <2>3. /\ d <= sent
        /\ \A k \in Nat : d < k /\ k <= sent <=> \E e \in pending : e.at = k
        /\ ShowsAt(T, d)
        /\ \A s \in Sides, p \in Prices : T[sent][s][p] = SideTotal(s, p) + Taken(s, p)
    BY <2>2 DEF IsHistory
  <2>4. sent \in Nat
    BY <1>1 DEF ViewInv, ViewTypeOK
  <2>5. d = sent
    <3>1. ~(d < sent)
      BY <2>1, <2>3, <2>4
    <3> QED
      BY <2>3, <2>4, <3>1
  <2>6. \A s \in Sides, p \in Prices : T[sent][s][p] = SideTotal(s, p)
    <3>1. \A s \in Sides, p \in Prices : Taken(s, p) = 0 /\ SideTotal(s, p) \in Nat
      BY <1>1, <2>1, TotalsAreNumbers DEF ViewInv, Taken
    <3> QED
      BY <2>3, <3>1
  <2> QED
    BY <2>3, <2>5, <2>6 DEF ShowsBook, ShowsAt, Sides
<1> QED
    BY <1>1, ViewInvariant, PTL
=============================================================================
