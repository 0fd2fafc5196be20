-------------------------- MODULE OrderBookProofs --------------------------
(***************************************************************************)
(* Proof that the slices of price levels of book.go implement the          *)
(* price-time priority queue of BookSpec, for any orders, prices and       *)
(* quantities, and that Match leaves no order resting across the book.     *)
(***************************************************************************)
EXTENDS OrderBook, WellFoundedInduction, TLAPS

PriceLevel == [price : Prices, orders : Seq(Orders)]

\* Price p is matched before price q on side s.
Better(s, p, q) == IF s = BUY THEN p > q ELSE p < q

\* The levels of a side: sorted, never empty, each with the orders of its price, in
\* which an order stands once.  The attributes are a parameter, for a state and its
\* successor.
SideOK(levels, s, at) ==
    /\ levels \in Seq(PriceLevel)
    /\ \A i \in DOMAIN levels : levels[i].orders # <<>>
    /\ \A i, j \in DOMAIN levels : i < j => Better(s, levels[i].price, levels[j].price)
    /\ \A i \in DOMAIN levels : \A k \in DOMAIN levels[i].orders :
           LET o == levels[i].orders[k] IN at[o].side = s /\ at[o].price = levels[i].price
    /\ \A i \in DOMAIN levels : \A k, l \in DOMAIN levels[i].orders :
           levels[i].orders[k] = levels[i].orders[l] => k = l

BookTypeOK ==
    /\ attr \in [Orders -> Request \cup {NoAttr}]
    /\ rem \in [Orders -> Nat]
    /\ incoming \in Orders \cup {None}
    /\ seq \in Nat

\* The order Match works on has been placed and does not rest.
IncomingOK ==
    incoming # None => attr[incoming] # NoAttr /\ incoming \notin IdsOf(bids) \cup IdsOf(asks)

BookInv == BookTypeOK /\ SideOK(bids, BUY, attr) /\ SideOK(asks, SELL, attr) /\ IncomingOK

-----------------------------------------------------------------------------
(* Sequences *)

\* A set of naturals that is not empty has a minimum.
LEMMA MinIsLeast ==
    ASSUME NEW S \in SUBSET Nat, S # {}
    PROVE  Min(S) \in S /\ \A x \in S : Min(S) <= x
<1> DEFINE Less == OpToRel(<, Nat)
<1>1. IsWellFoundedOn(Less, Nat)
    BY NatLessThanWellFounded
<1>2. PICK x \in S : \A y \in S : <<y, x>> \notin Less
    <2> HIDE DEF Less
    <2> QED
        BY <1>1, WFMin
<1>3. \A y \in S : x <= y
    <2>1. \A i, j \in Nat : i < j => <<i, j>> \in Less
        BY DEF OpToRel
    <2>2. ASSUME NEW y \in S
          PROVE  ~(y < x) /\ x \in Nat /\ y \in Nat
        <3> HIDE DEF Less
        <3> QED
            BY <1>2, <2>1
    <2> QED
        BY <2>2
<1> QED
    BY <1>3 DEF Min

\* The places of a sequence are numbered from 1.
LEMMA DomainFacts ==
    ASSUME NEW S, NEW q \in Seq(S)
    PROVE  /\ \A j : j \in DOMAIN q <=> j \in Nat /\ 1 <= j /\ j <= Len(q)
           /\ \A j \in DOMAIN q : q[j] \in S
           /\ Len(q) \in Nat
OBVIOUS

\* Replacing one element.
LEMMA ExceptFacts ==
    ASSUME NEW S, NEW q \in Seq(S), NEW i \in DOMAIN q, NEW e \in S
    PROVE  /\ [q EXCEPT ![i] = e] \in Seq(S)
           /\ DOMAIN [q EXCEPT ![i] = e] = DOMAIN q
           /\ [q EXCEPT ![i] = e][i] = e
           /\ \A j \in DOMAIN q : j # i => [q EXCEPT ![i] = e][j] = q[j]
OBVIOUS

\* The elements of a concatenation.
LEMMA ConcatFacts ==
    ASSUME NEW S, NEW a \in Seq(S), NEW b \in Seq(S)
    PROVE  /\ a \o b \in Seq(S) /\ Len(a \o b) = Len(a) + Len(b)
           /\ \A j \in 1..Len(a) : (a \o b)[j] = a[j]
           /\ \A j \in (Len(a) + 1)..(Len(a) + Len(b)) : (a \o b)[j] = b[j - Len(a)]
OBVIOUS

\* RemoveAt moves what follows one place to the front.
LEMMA RemoveAtFacts ==
    ASSUME NEW S, NEW s \in Seq(S), NEW i \in 1..Len(s)
    PROVE  /\ RemoveAt(s, i) \in Seq(S)
           /\ Len(RemoveAt(s, i)) = Len(s) - 1
           /\ \A j \in 1..(Len(s) - 1) : RemoveAt(s, i)[j] = IF j < i THEN s[j] ELSE s[j + 1]
<1> DEFINE a == SubSeq(s, 1, i - 1)  b == SubSeq(s, i + 1, Len(s))
<1>1. a \in Seq(S) /\ Len(a) = i - 1 /\ \A j \in 1..(i - 1) : a[j] = s[j]
    OBVIOUS
<1>2. b \in Seq(S) /\ Len(b) = Len(s) - i /\ \A j \in 1..(Len(s) - i) : b[j] = s[i + j]
    OBVIOUS
<1> HIDE DEF a, b
<1>3. RemoveAt(s, i) = a \o b
    BY DEF RemoveAt, a, b
<1>4. /\ a \o b \in Seq(S) /\ Len(a \o b) = Len(a) + Len(b)
      /\ \A j \in 1..Len(a) : (a \o b)[j] = a[j]
      /\ \A j \in (Len(a) + 1)..(Len(a) + Len(b)) : (a \o b)[j] = b[j - Len(a)]
    BY <1>1, <1>2, ConcatFacts
<1>5. ASSUME NEW j \in 1..(Len(s) - 1)
      PROVE  (a \o b)[j] = IF j < i THEN s[j] ELSE s[j + 1]
    <2>3. i \in Nat /\ j \in Nat /\ Len(s) \in Nat
        OBVIOUS
    <2>1. CASE j < i
        BY <2>1, <2>3, <1>1, <1>4
    <2>2. CASE j >= i
        <3>1. j \in (Len(a) + 1)..(Len(a) + Len(b))
            BY <2>2, <2>3, <1>1, <1>2
        <3>2. (a \o b)[j] = b[j - Len(a)]
            BY <3>1, <1>4
        <3>3. PICK k \in 1..(Len(s) - i) : k = j - Len(a) /\ i + k = j + 1
            BY <2>2, <2>3, <1>1
        <3>4. b[k] = s[j + 1]
            BY <3>3, <1>2
        <3>5. (a \o b)[j] = s[j + 1]
            BY <3>2, <3>3, <3>4, Zenon
        <3>6. ~(j < i)
            BY <2>2, <2>3
        <3> QED
            BY <3>5, <3>6, Zenon
    <2>4. j < i \/ j >= i
        BY <2>3
    <2> QED
        BY <2>1, <2>2, <2>4, Zenon
<1> QED
    BY <1>1, <1>2, <1>3, <1>4, <1>5

\* InsertAt moves what follows one place to the back.
LEMMA InsertAtFacts ==
    ASSUME NEW S, NEW s \in Seq(S), NEW i \in 1..(Len(s) + 1), NEW e \in S
    PROVE  /\ InsertAt(s, i, e) \in Seq(S)
           /\ Len(InsertAt(s, i, e)) = Len(s) + 1
           /\ \A j \in 1..(Len(s) + 1) :
                  InsertAt(s, i, e)[j] = IF j < i THEN s[j] ELSE IF j = i THEN e ELSE s[j - 1]
<1> DEFINE a == SubSeq(s, 1, i - 1)  b == SubSeq(s, i, Len(s))
<1>1. a \in Seq(S) /\ Len(a) = i - 1 /\ \A j \in 1..(i - 1) : a[j] = s[j]
    OBVIOUS
<1>2. b \in Seq(S) /\ Len(b) = Len(s) + 1 - i /\ \A j \in 1..(Len(s) + 1 - i) : b[j] = s[i + j - 1]
    OBVIOUS
<1> HIDE DEF a, b
<1>3. InsertAt(s, i, e) = (a \o <<e>>) \o b
    BY DEF InsertAt, a, b
<1>4. /\ a \o <<e>> \in Seq(S) /\ Len(a \o <<e>>) = i
      /\ \A j \in 1..(i - 1) : (a \o <<e>>)[j] = s[j]
      /\ (a \o <<e>>)[i] = e
    BY <1>1
<1> DEFINE c == a \o <<e>>
<1> HIDE DEF c
<1>5. /\ c \in Seq(S) /\ Len(c) = i /\ c[i] = e /\ \A j \in 1..(i - 1) : c[j] = s[j]
    BY <1>4 DEF c
<1>6. /\ c \o b \in Seq(S) /\ Len(c \o b) = Len(c) + Len(b)
      /\ \A j \in 1..Len(c) : (c \o b)[j] = c[j]
      /\ \A j \in (Len(c) + 1)..(Len(c) + Len(b)) : (c \o b)[j] = b[j - Len(c)]
    BY <1>2, <1>5, ConcatFacts
<1>7. ASSUME NEW j \in 1..(Len(s) + 1)
      PROVE  (c \o b)[j] = IF j < i THEN s[j] ELSE IF j = i THEN e ELSE s[j - 1]
    <2>3. i \in Nat /\ j \in Nat /\ Len(s) \in Nat
        OBVIOUS
    <2>1. CASE j <= i
        BY <2>1, <2>3, <1>5, <1>6
    <2>2. CASE j > i
        <3>1. j \in (Len(c) + 1)..(Len(c) + Len(b))
            BY <2>2, <2>3, <1>2, <1>5
        <3>2. (c \o b)[j] = b[j - Len(c)]
            BY <3>1, <1>6
        <3>3. PICK k \in 1..(Len(s) + 1 - i) : k = j - Len(c) /\ i + k - 1 = j - 1
            BY <2>2, <2>3, <1>5
        <3>4. b[k] = s[j - 1]
            BY <3>3, <1>2
        <3>5. (c \o b)[j] = s[j - 1]
            BY <3>2, <3>3, <3>4, Zenon
        <3>6. ~(j < i) /\ j # i
            BY <2>2, <2>3
        <3> QED
            BY <3>5, <3>6, Zenon
    <2>4. j <= i \/ j > i
        BY <2>3
    <2> QED
        BY <2>1, <2>2, <2>4, Zenon
<1>8. InsertAt(s, i, e) = c \o b
    BY <1>3 DEF c
<1> QED
    BY <1>2, <1>5, <1>6, <1>7, <1>8

-----------------------------------------------------------------------------
(* Places in a side of the book *)

\* The levels of a side.
LEMMA LevelFacts ==
    ASSUME NEW L \in Seq(PriceLevel)
    PROVE  \A i \in DOMAIN L : /\ i \in Nat /\ i \in 1..Len(L) /\ L[i] \in PriceLevel
                              /\ L[i].orders \in Seq(Orders) /\ L[i].price \in Prices
<1>1. \A i \in DOMAIN L : i \in Nat /\ i \in 1..Len(L) /\ L[i] \in PriceLevel
    BY DomainFacts
<1> QED
    BY <1>1 DEF PriceLevel

\* What it is to stand at a place.
LEMMA StandsFacts ==
    ASSUME NEW L \in Seq(PriceLevel)
    PROVE  /\ \A i, k, o : Stands(L, i, k, o) =>
                  /\ i \in Nat /\ i \in 1..Len(L) /\ L[i] \in PriceLevel
                  /\ k \in Nat /\ k \in 1..Len(L[i].orders) /\ o = L[i].orders[k]
                  /\ o \in Orders
           /\ \A i \in 1..Len(L) : \A k \in 1..Len(L[i].orders) : Stands(L, i, k, L[i].orders[k])
           /\ \A i \in 1..Len(L) : i \in Nat /\ L[i] \in PriceLevel
<1>1. \A i \in DOMAIN L : i \in 1..Len(L) /\ i \in Nat /\ L[i] \in PriceLevel
    OBVIOUS
<1>2. \A i \in DOMAIN L : L[i].orders \in Seq(Orders)
    BY <1>1 DEF PriceLevel
<1>3. \A q \in Seq(Orders) : \A k \in DOMAIN q : k \in 1..Len(q) /\ k \in Nat /\ q[k] \in Orders
    OBVIOUS
<1>4. \A q \in Seq(Orders) : \A k \in 1..Len(q) : k \in DOMAIN q
    OBVIOUS
<1>5. \A i \in 1..Len(L) : i \in DOMAIN L
    OBVIOUS
<1>6. ASSUME NEW i, NEW k, NEW o, Stands(L, i, k, o)
      PROVE  /\ i \in Nat /\ i \in 1..Len(L) /\ L[i] \in PriceLevel
             /\ k \in Nat /\ k \in 1..Len(L[i].orders) /\ o = L[i].orders[k]
             /\ o \in Orders
    BY <1>1, <1>2, <1>3, <1>6 DEF Stands
<1> QED
    BY <1>1, <1>2, <1>4, <1>5, <1>6 DEF Stands

\* The ids of a side are those that stand somewhere.
LEMMA IdsFacts ==
    ASSUME NEW L \in Seq(PriceLevel)
    PROVE  /\ \A x : x \in IdsOf(L) <=> \E i, k \in Nat : Stands(L, i, k, x)
           /\ IdsOf(L) \subseteq Orders
<1>1. \A q \in Seq(Orders) : Range(q) = {q[k] : k \in DOMAIN q}
    BY DEF Range
<1>0. \A i \in DOMAIN L : L[i] \in PriceLevel
    OBVIOUS
<1>2. \A i \in DOMAIN L : L[i].orders \in Seq(Orders)
    BY <1>0 DEF PriceLevel
<1>3. \A x : x \in IdsOf(L) <=> \E i \in DOMAIN L : \E k \in DOMAIN L[i].orders : L[i].orders[k] = x
    BY <1>1, <1>2, Zenon DEF IdsOf
<1>4. \A x : x \in IdsOf(L) <=> \E i, k : Stands(L, i, k, x)
    BY <1>3, Zenon DEF Stands
<1> QED
    BY <1>4, StandsFacts, Zenon

\* The order of two ids is the order of their places.
LEMMA PrecedesFacts ==
    ASSUME NEW L \in Seq(PriceLevel), NEW x, NEW y
    PROVE  Precedes(L, x, y) <=>
             \E i, j, k, l \in Nat : /\ Stands(L, i, k, x) /\ Stands(L, j, l, y)
                                     /\ i < j \/ (i = j /\ k < l)
<1>1. ASSUME NEW i \in Nat, NEW j \in Nat, NEW k \in Nat, NEW l \in Nat,
             Stands(L, i, k, x), Stands(L, j, l, y), i < j \/ (i = j /\ k < l)
      PROVE  Precedes(L, x, y)
    <2>1. i \in DOMAIN L /\ j \in DOMAIN L /\ k \in DOMAIN L[i].orders /\ l \in DOMAIN L[j].orders
        BY <1>1 DEF Stands
    <2> QED
        BY <1>1, <2>1, Zenon DEF Precedes
<1>2. ASSUME Precedes(L, x, y)
      PROVE  \E i, j, k, l \in Nat : /\ Stands(L, i, k, x) /\ Stands(L, j, l, y)
                                     /\ i < j \/ (i = j /\ k < l)
    <2>1. PICK i, j, k, l : /\ Stands(L, i, k, x) /\ Stands(L, j, l, y)
                            /\ i < j \/ (i = j /\ k < l)
        BY <1>2, Zenon DEF Precedes
    <2>2. i \in Nat /\ j \in Nat /\ k \in Nat /\ l \in Nat
        BY <2>1, StandsFacts
    <2> QED
        BY <2>1, <2>2
<1> QED
    BY <1>1, <1>2

\* In a side of the book an order has one place.
LEMMA OnePlace ==
    ASSUME NEW s \in {BUY, SELL}, NEW at, NEW L, SideOK(L, s, at),
           NEW i, NEW j, NEW k, NEW l, NEW x, Stands(L, i, k, x), Stands(L, j, l, x)
    PROVE  i = j /\ k = l
<1>1. L \in Seq(PriceLevel)
    BY DEF SideOK
<1>2. i \in 1..Len(L) /\ j \in 1..Len(L) /\ i \in Nat /\ j \in Nat
    BY <1>1, StandsFacts
<1>3. L[i].price = at[x].price /\ L[j].price = at[x].price
    BY DEF SideOK, Stands
<1>4. L[i].price \in Nat
    BY <1>1, <1>2, StandsFacts, OrderBookBounds DEF PriceLevel
<1>5. ~(i < j) /\ ~(j < i)
    BY <1>2, <1>3, <1>4 DEF SideOK, Stands, Better
<1>6. i = j
    BY <1>2, <1>5
<1> QED
    BY <1>6 DEF SideOK, Stands

\* So the places of two orders decide which one precedes.
LEMMA PlacesDecide ==
    ASSUME NEW s \in {BUY, SELL}, NEW at, NEW L, SideOK(L, s, at),
           NEW i, NEW j, NEW k, NEW l, NEW x, NEW y, Stands(L, i, k, x), Stands(L, j, l, y)
    PROVE  Precedes(L, x, y) <=> i < j \/ (i = j /\ k < l)
<1>1. L \in Seq(PriceLevel)
    BY DEF SideOK
<1>2. i \in Nat /\ j \in Nat /\ k \in Nat /\ l \in Nat
    BY <1>1, StandsFacts
<1>3. ASSUME Precedes(L, x, y)
      PROVE  i < j \/ (i = j /\ k < l)
    <2>1. PICK a, b, c, d \in Nat : /\ Stands(L, a, c, x) /\ Stands(L, b, d, y)
                                    /\ a < b \/ (a = b /\ c < d)
        BY <1>1, <1>3, PrecedesFacts
    <2>2. a = i /\ c = k /\ b = j /\ d = l
        BY <2>1, OnePlace
    <2> QED
        BY <2>1, <2>2
<1>4. ASSUME i < j \/ (i = j /\ k < l)
      PROVE  Precedes(L, x, y)
    BY <1>1, <1>2, <1>4, PrecedesFacts
<1> QED
    BY <1>3, <1>4

\* The numbers but one.
Skip(n, j) == IF j < n THEN j ELSE j + 1

\* The places but level lev, and but place n of level row.
LevelAfter(lev, i) == Skip(lev, i)
PlaceAfter(row, n, i, k) == IF i = row THEN Skip(n, k) ELSE k

\* M has the places of L but for these, where only o stands.
Renumbers(L, M, o, lev, row, n) ==
    /\ \A i, k \in Nat : \A x \in Orders : Stands(M, i, k, x) =>
           x # o /\ Stands(L, LevelAfter(lev, i), PlaceAfter(row, n, i, k), x)
    /\ \A i, k \in Nat : \A x \in Orders : Stands(L, i, k, x) /\ x # o =>
           \E u, v \in Nat :
               i = LevelAfter(lev, u) /\ k = PlaceAfter(row, n, u, v) /\ Stands(M, u, v, x)

\* M is L without o: the order of the others is what it was.
TakenOut(L, M, o) ==
    /\ IdsOf(M) = IdsOf(L) \ {o}
    /\ Before(M) = {p \in Before(L) : p[1] # o /\ p[2] # o}

\* Renumbering keeps the order of the places, so it takes o out of the side and leaves
\* the order of the others.
LEMMA Shifted ==
    ASSUME NEW L \in Seq(PriceLevel), NEW M \in Seq(PriceLevel), NEW o,
           NEW lev \in Nat, NEW row \in Nat, NEW n \in Nat, Renumbers(L, M, o, lev, row, n)
    PROVE  TakenOut(L, M, o)
<1> DEFINE f(i) == LevelAfter(lev, i)
<1> DEFINE g(i, k) == PlaceAfter(row, n, i, k)
<1>1. \A i, k \in Nat : f(i) \in Nat /\ g(i, k) \in Nat
    BY DEF LevelAfter, PlaceAfter, Skip
<1>2. IdsOf(L) \subseteq Orders /\ IdsOf(M) \subseteq Orders
    BY IdsFacts
<1>3. /\ \A i, k, x : Stands(L, i, k, x) => x \in Orders
      /\ \A i, k, x : Stands(M, i, k, x) => x \in Orders
    BY StandsFacts
<1>4. \A i, j \in Nat : i < j => f(i) < f(j)
    BY DEF LevelAfter, Skip
<1>5. \A i, k, l \in Nat : k < l => g(i, k) < g(i, l)
    BY DEF PlaceAfter, Skip
<1>6. \A i, k \in Nat : \A x \in Orders : Stands(M, i, k, x) => x # o /\ Stands(L, f(i), g(i, k), x)
    BY DEF Renumbers
<1>7. \A i, k \in Nat : \A x \in Orders : Stands(L, i, k, x) /\ x # o =>
          \E u, v \in Nat : i = f(u) /\ k = g(u, v) /\ Stands(M, u, v, x)
    BY DEF Renumbers
<1> HIDE DEF f, g
<1>8. \A x : x \in IdsOf(L) <=> \E i, k \in Nat : Stands(L, i, k, x)
    BY IdsFacts
<1>9. \A x : x \in IdsOf(M) <=> \E i, k \in Nat : Stands(M, i, k, x)
    BY IdsFacts
<1>10. \A x : x \in IdsOf(M) <=> x \in IdsOf(L) /\ x # o
    <2>1. ASSUME NEW x, x \in IdsOf(M)
          PROVE  x \in IdsOf(L) /\ x # o
        <3>1. PICK i, k \in Nat : Stands(M, i, k, x)
            BY <2>1, <1>9
        <3>2. x # o /\ Stands(L, f(i), g(i, k), x)
            BY <3>1, <1>3, <1>6
        <3> QED
            BY <3>2, <1>1, <1>8
    <2>2. ASSUME NEW x, x \in IdsOf(L), x # o
          PROVE  x \in IdsOf(M)
        <3>1. PICK i, k \in Nat : Stands(L, i, k, x)
            BY <2>2, <1>8
        <3>2. PICK u, v \in Nat : Stands(M, u, v, x)
            BY <3>1, <2>2, <1>3, <1>7
        <3> QED
            BY <3>2, <1>9
    <2> QED
        BY <2>1, <2>2, Zenon
<1>11. ASSUME NEW x, NEW y, Precedes(M, x, y)
      PROVE  Precedes(L, x, y)
    <2>1. PICK i, j, k, l \in Nat : /\ Stands(M, i, k, x) /\ Stands(M, j, l, y)
                                    /\ i < j \/ (i = j /\ k < l)
        BY <1>11, PrecedesFacts
    <2>2. Stands(L, f(i), g(i, k), x) /\ Stands(L, f(j), g(j, l), y)
        BY <2>1, <1>3, <1>6
    <2>3. f(i) < f(j) \/ (f(i) = f(j) /\ g(i, k) < g(j, l))
        BY <2>1, <1>4, <1>5
    <2> QED
        <3>1. f(i) \in Nat /\ f(j) \in Nat /\ g(i, k) \in Nat /\ g(j, l) \in Nat
            BY <1>1
        <3> QED
            BY <2>2, <2>3, <3>1, PrecedesFacts
<1>12. ASSUME NEW x, NEW y, x # o, y # o, Precedes(L, x, y)
      PROVE  Precedes(M, x, y)
    <2>1. PICK i, j, k, l \in Nat : /\ Stands(L, i, k, x) /\ Stands(L, j, l, y)
                                    /\ i < j \/ (i = j /\ k < l)
        BY <1>12, PrecedesFacts
    <2>2. PICK a, c \in Nat : i = f(a) /\ k = g(a, c) /\ Stands(M, a, c, x)
        BY <1>12, <2>1, <1>3, <1>7
    <2>3. PICK b, d \in Nat : j = f(b) /\ l = g(b, d) /\ Stands(M, b, d, y)
        BY <1>12, <2>1, <1>3, <1>7
    <2>4. ~(b < a)
        <3>1. f(a) \in Nat /\ f(b) \in Nat /\ i = f(a) /\ j = f(b)
            BY <1>1, <2>2, <2>3
        <3>2. b < a => f(b) < f(a)
            BY <1>4
        <3>3. ~(j < i)
            BY <2>1
        <3>4. ~(f(b) < f(a))
            BY <3>1, <3>3, Zenon
        <3> QED
            BY <3>2, <3>4, Zenon
    <2>5. a = b => c < d
        <3>1. ASSUME a = b, d <= c PROVE FALSE
            <4>1. i = j /\ k < l
                BY <2>1, <2>2, <2>3, <3>1
            <4>2. d = c => l = k
                BY <2>2, <2>3, <3>1
            <4>3. d < c => l < k
                BY <2>2, <2>3, <3>1, <1>5
            <4> QED
                BY <3>1, <4>1, <4>2, <4>3
        <3> QED
            BY <3>1
    <2>6. a < b \/ (a = b /\ c < d)
        BY <2>4, <2>5
    <2> QED
        BY <2>2, <2>3, <2>6, PrecedesFacts
<1>13. ASSUME NEW p
      PROVE  p \in Before(M) <=> p \in Before(L) /\ p[1] # o /\ p[2] # o
    <2>1. p \in Before(M) <=> p \in IdsOf(M) \X IdsOf(M) /\ Precedes(M, p[1], p[2])
        BY Zenon DEF Before
    <2>2. p \in Before(L) <=> p \in IdsOf(L) \X IdsOf(L) /\ Precedes(L, p[1], p[2])
        BY Zenon DEF Before
    <2>3. p \in IdsOf(M) \X IdsOf(M) <=> p \in IdsOf(L) \X IdsOf(L) /\ p[1] # o /\ p[2] # o
        BY <1>10
    <2>4. p[1] # o /\ p[2] # o => (Precedes(M, p[1], p[2]) <=> Precedes(L, p[1], p[2]))
        BY <1>11, <1>12
    <2> QED
        BY <2>1, <2>2, <2>3, <2>4
<1>14. IdsOf(M) = IdsOf(L) \ {o}
    BY <1>10
<1>15. Before(M) = {p \in Before(L) : p[1] # o /\ p[2] # o}
    BY <1>13, Zenon
<1> QED
    BY <1>14, <1>15 DEF TakenOut

-----------------------------------------------------------------------------
(* Taking an order out *)

\* The last order of a level goes with the level.
LEMMA LevelGoes ==
    ASSUME NEW s \in {BUY, SELL}, NEW at, NEW L, SideOK(L, s, at),
           NEW i \in DOMAIN L, Len(L[i].orders) = 1, NEW o, Stands(L, i, 1, o)
    PROVE  SideOK(RemoveAt(L, i), s, at) /\ TakenOut(L, RemoveAt(L, i), o)
<1> DEFINE M == RemoveAt(L, i)
<1> DEFINE f(j) == LevelAfter(i, j)
<1> DEFINE g(j, l) == PlaceAfter(0, 0, j, l)
<1>1. L \in Seq(PriceLevel) /\ i \in Nat /\ 1 <= i /\ i <= Len(L) /\ Len(L) \in Nat
    <2>1. L \in Seq(PriceLevel)
        BY DEF SideOK
    <2> QED
        BY <2>1, DomainFacts
<1>2. /\ M \in Seq(PriceLevel) /\ Len(M) = Len(L) - 1
      /\ \A j \in Nat : 1 <= j /\ j < i => M[j] = L[j]
      /\ \A j \in Nat : i <= j /\ j < Len(L) => M[j] = L[j + 1]
    <2>1. i \in 1..Len(L)
        BY <1>1
    <2>2. \A j \in 1..(Len(L) - 1) : M[j] = IF j < i THEN L[j] ELSE L[j + 1]
        BY <1>1, <2>1, RemoveAtFacts
    <2>3. M \in Seq(PriceLevel) /\ Len(M) = Len(L) - 1
        BY <1>1, <2>1, RemoveAtFacts
    <2> HIDE DEF M
    <2> QED
        BY <1>1, <2>2, <2>3
<1>3. /\ \A j \in Nat : f(j) \in Nat
      /\ \A j \in Nat : j < i => f(j) = j
      /\ \A j \in Nat : i <= j => f(j) = j + 1
    BY <1>1 DEF LevelAfter, Skip
<1>4. \A j \in Nat \ {0} : \A l \in Nat : g(j, l) = l
    BY DEF PlaceAfter
<1> HIDE DEF f, g, M
<1>5. /\ \A j : j \in DOMAIN L <=> j \in Nat /\ 1 <= j /\ j <= Len(L)
      /\ \A j : j \in DOMAIN M <=> j \in Nat /\ 1 <= j /\ j < Len(L)
    <2>1. \A j : j \in DOMAIN M <=> j \in Nat /\ 1 <= j /\ j <= Len(M)
        BY <1>2, DomainFacts
    <2> QED
        BY <1>1, <1>2, <2>1, DomainFacts
<1>6. ASSUME NEW j \in DOMAIN M
      PROVE  j \in Nat /\ f(j) \in DOMAIN L /\ f(j) # i /\ M[j] = L[f(j)]
    <2>1. j \in Nat /\ 1 <= j /\ j < Len(L)
        BY <1>5
    <2>2. CASE j < i
        BY <2>1, <2>2, <1>1, <1>2, <1>3, <1>5
    <2>3. CASE i <= j
        <3>1. j + 1 \in DOMAIN L /\ j + 1 # i
            BY <2>1, <2>3, <1>1, <1>5
        <3> QED
            BY <2>1, <2>3, <3>1, <1>2, <1>3
    <2>4. j < i \/ i <= j
        BY <2>1, <1>1
    <2> QED
        BY <2>2, <2>3, <2>4
<1>7. ASSUME NEW j \in DOMAIN L, j # i
      PROVE  \E u \in DOMAIN M : u \in Nat /\ j = f(u) /\ M[u] = L[j]
    <2>1. j \in Nat /\ 1 <= j /\ j <= Len(L)
        BY <1>5
    <2>2. CASE j < i
        <3>1. j \in DOMAIN M /\ f(j) = j
            BY <2>1, <2>2, <1>1, <1>3, <1>5
        <3> QED
            BY <3>1, <2>1, <1>6
    <2>3. CASE i < j
        <3>1. PICK u \in Nat : u + 1 = j /\ i <= u /\ 1 <= u /\ u < Len(L)
            <4>1. j - 1 \in Nat /\ (j - 1) + 1 = j /\ i <= j - 1 /\ 1 <= j - 1 /\ j - 1 < Len(L)
                BY <2>1, <2>3, <1>1
            <4> QED
                BY <4>1
        <3>2. u \in DOMAIN M /\ f(u) = j
            BY <3>1, <1>3, <1>5
        <3> QED
            BY <3>1, <3>2, <1>6
    <2>4. j < i \/ i < j
        BY <2>1, <1>1, <1>7
    <2> QED
        BY <2>2, <2>3, <2>4
<1>8. SideOK(M, s, at)
    <2>1. \A j \in DOMAIN M : M[j].orders # <<>>
        BY <1>6 DEF SideOK
    <2>2. ASSUME NEW j \in DOMAIN M, NEW l \in DOMAIN M, j < l
          PROVE  Better(s, M[j].price, M[l].price)
        <3>1. f(j) < f(l)
            <4>1. j \in Nat /\ l \in Nat
                BY <1>5
            <4>2. CASE i <= j
                <5>1. i <= l
                    BY <4>1, <4>2, <2>2, <1>1
                <5>2. f(j) = j + 1 /\ f(l) = l + 1
                    BY <4>1, <4>2, <5>1, <1>3
                <5> QED
                    BY <4>1, <5>2, <2>2
            <4>3. CASE j < i
                <5>1. f(j) = j
                    BY <4>1, <4>3, <1>3
                <5>2. l < i => f(l) = l
                    BY <4>1, <1>3
                <5>3. i <= l => f(l) = l + 1
                    BY <4>1, <1>3
                <5> QED
                    BY <4>1, <5>1, <5>2, <5>3, <2>2, <1>1
            <4> QED
                BY <4>1, <4>2, <4>3, <1>1
        <3> QED
            BY <3>1, <1>6 DEF SideOK
    <2>3. \A j \in DOMAIN M : \A l \in DOMAIN M[j].orders :
              LET x == M[j].orders[l] IN at[x].side = s /\ at[x].price = M[j].price
        BY <1>6 DEF SideOK
    <2>4. \A j \in DOMAIN M : \A l, m \in DOMAIN M[j].orders :
              M[j].orders[l] = M[j].orders[m] => l = m
        BY <1>6 DEF SideOK
    <2> QED
        BY <1>2, <2>1, <2>2, <2>3, <2>4 DEF SideOK
<1>9. L[i].orders[1] = o /\ \A l \in DOMAIN L[i].orders : l = 1
    <2>1. L[i].orders \in Seq(Orders)
        BY <1>1, <1>5, LevelFacts
    <2>2. \A l : l \in DOMAIN L[i].orders <=> l \in Nat /\ 1 <= l /\ l <= 1
        BY <2>1, DomainFacts
    <2> QED
        BY <2>2 DEF Stands
<1>10. Renumbers(L, M, o, i, 0, 0)
    <2>2. ASSUME NEW j \in Nat, NEW l \in Nat, NEW x \in Orders, Stands(M, j, l, x)
          PROVE  x # o /\ Stands(L, f(j), g(j, l), x)
        <3>1. Stands(L, f(j), l, x) /\ f(j) # i /\ j # 0
            BY <2>2, <1>5, <1>6 DEF Stands
        <3>2. x # o
            BY <3>1, OnePlace
        <3> QED
            BY <3>1, <3>2, <1>4
    <2>3. ASSUME NEW j \in Nat, NEW l \in Nat, NEW x \in Orders, Stands(L, j, l, x), x # o
          PROVE  \E u, v \in Nat : j = f(u) /\ l = g(u, v) /\ Stands(M, u, v, x)
        <3>1. j # i
            BY <2>3, <1>9 DEF Stands
        <3>2. PICK u \in DOMAIN M : u \in Nat /\ j = f(u) /\ M[u] = L[j]
            BY <3>1, <2>3, <1>7 DEF Stands
        <3>3. Stands(M, u, l, x) /\ u # 0
            BY <3>2, <2>3, <1>5 DEF Stands
        <3>4. g(u, l) = l
            BY <3>2, <3>3, <1>4
        <3> QED
            BY <3>2, <3>3, <3>4
    <2> QED
        BY <2>2, <2>3, Zenon DEF Renumbers, f, g
<1>11. 0 \in Nat /\ i \in Nat /\ L \in Seq(PriceLevel) /\ M \in Seq(PriceLevel)
    BY <1>1, <1>2
<1>12. TakenOut(L, M, o)
    BY <1>10, <1>11, Shifted, Zenon
<1> QED
    BY <1>8, <1>12 DEF M

\* Level i of L without its k-th order.
Shortened(L, i, k) == [L EXCEPT ![i].orders = RemoveAt(@, k)]

\* Any other order leaves its level to those before and behind it.
LEMMA OrderGoes ==
    ASSUME NEW s \in {BUY, SELL}, NEW at, NEW L, SideOK(L, s, at),
           NEW i \in DOMAIN L, NEW k \in DOMAIN L[i].orders, Len(L[i].orders) # 1, NEW o, Stands(L, i, k, o)
    PROVE  SideOK(Shortened(L, i, k), s, at) /\ TakenOut(L, Shortened(L, i, k), o)
<1> DEFINE M == Shortened(L, i, k)
<1> DEFINE q == L[i].orders
<1> DEFINE r == RemoveAt(q, k)
<1> DEFINE f(j) == LevelAfter(Len(L) + 1, j)
<1> DEFINE g(j, l) == PlaceAfter(i, k, j, l)
<1>1. L \in Seq(PriceLevel) /\ i \in Nat /\ L[i] \in PriceLevel /\ Len(L) \in Nat
    <2>1. L \in Seq(PriceLevel)
        BY DEF SideOK
    <2> QED
        BY <2>1, DomainFacts
<1>2. q \in Seq(Orders) /\ k \in Nat /\ 1 <= k /\ k <= Len(q) /\ Len(q) \in Nat /\ Len(q) # 1
    <2>1. q \in Seq(Orders)
        BY <1>1 DEF PriceLevel
    <2> QED
        BY <2>1, DomainFacts
<1>3. /\ r \in Seq(Orders) /\ Len(r) = Len(q) - 1
      /\ \A j \in Nat : 1 <= j /\ j < k => r[j] = q[j]
      /\ \A j \in Nat : k <= j /\ j < Len(q) => r[j] = q[j + 1]
    <2> HIDE DEF q
    <2>1. k \in 1..Len(q)
        BY <1>2
    <2>2. \A j \in 1..(Len(q) - 1) : r[j] = IF j < k THEN q[j] ELSE q[j + 1]
        BY <1>2, <2>1, RemoveAtFacts
    <2>3. r \in Seq(Orders) /\ Len(r) = Len(q) - 1
        BY <1>2, <2>1, RemoveAtFacts
    <2> HIDE DEF r
    <2> QED
        BY <1>2, <2>2, <2>3
<1>4. /\ \A j \in Nat : j <= Len(L) => f(j) = j
      /\ \A j, l \in Nat : g(j, l) \in Nat
      /\ \A j, l \in Nat : j # i \/ l < k => g(j, l) = l
      /\ \A l \in Nat : k <= l => g(i, l) = l + 1
    BY <1>1, <1>2 DEF LevelAfter, PlaceAfter, Skip
<1> HIDE DEF f, g
<1>5. /\ M \in Seq(PriceLevel) /\ DOMAIN M = DOMAIN L
      /\ M[i].orders = r /\ M[i].price = L[i].price
      /\ \A j \in DOMAIN L : j # i => M[j] = L[j]
    <2>1. M = [L EXCEPT ![i] = [L[i] EXCEPT !.orders = r]]
        BY DEF Shortened
    <2> HIDE DEF r
    <2>4. /\ [L[i] EXCEPT !.orders = r] \in PriceLevel
          /\ [L[i] EXCEPT !.orders = r].orders = r
          /\ [L[i] EXCEPT !.orders = r].price = L[i].price
        BY <1>1, <1>3 DEF PriceLevel
    <2>2. PICK lv \in PriceLevel : lv = [L[i] EXCEPT !.orders = r] /\ lv.orders = r /\ lv.price = L[i].price
        BY <2>4, Zenon
    <2>3. M = [L EXCEPT ![i] = lv]
        BY <2>1, <2>2
    <2> HIDE DEF M
    <2>5. /\ M \in Seq(PriceLevel) /\ DOMAIN M = DOMAIN L /\ M[i] = lv
          /\ \A j \in DOMAIN L : j # i => M[j] = L[j]
        BY <1>1, <2>2, <2>3, ExceptFacts
    <2> QED
        BY <2>2, <2>5
<1> HIDE DEF M, r
<1> HIDE DEF q
<1>6. /\ \A j : j \in DOMAIN q <=> j \in Nat /\ 1 <= j /\ j <= Len(q)
      /\ \A j : j \in DOMAIN r <=> j \in Nat /\ 1 <= j /\ j < Len(q)
    <2>1. \A j : j \in DOMAIN r <=> j \in Nat /\ 1 <= j /\ j <= Len(r)
        BY <1>3, DomainFacts
    <2> QED
        BY <1>2, <1>3, <2>1, DomainFacts
<1>7. r # <<>>
    <2>1. Len(r) > 0
        BY <1>2, <1>3
    <2> QED
        BY <2>1
<1>8. q = L[i].orders /\ \A j \in DOMAIN L : j \in Nat /\ j <= Len(L)
    BY <1>1, DomainFacts DEF q
<1>9. \A j \in DOMAIN M : \A l \in DOMAIN M[j].orders :
          /\ j \in Nat /\ l \in Nat /\ g(j, l) \in DOMAIN L[j].orders
          /\ M[j].orders[l] = L[j].orders[g(j, l)]
          /\ j = i => g(j, l) # k
    <2>1. ASSUME NEW l \in DOMAIN r
          PROVE  g(i, l) \in DOMAIN q /\ r[l] = q[g(i, l)] /\ g(i, l) # k /\ l \in Nat
        <3>1. l \in Nat /\ 1 <= l /\ l < Len(q)
            BY <1>6
        <3>2. CASE l < k
            <4>1. l \in DOMAIN q /\ l # k
                BY <3>1, <3>2, <1>2, <1>6
            <4>2. g(i, l) = l
                BY <3>1, <3>2, <1>1, <1>4
            <4>3. r[l] = q[l]
                BY <3>1, <3>2, <1>3
            <4> QED
                BY <3>1, <4>1, <4>2, <4>3
        <3>3. CASE k <= l
            <4>1. l + 1 \in DOMAIN q /\ l + 1 # k
                BY <3>1, <3>3, <1>2, <1>6
            <4>2. g(i, l) = l + 1
                BY <3>1, <3>3, <1>4
            <4>3. r[l] = q[l + 1]
                BY <3>1, <3>3, <1>3
            <4> QED
                BY <3>1, <4>1, <4>2, <4>3
        <3>4. l < k \/ k <= l
            BY <3>1, <1>2
        <3> QED
            BY <3>2, <3>3, <3>4
    <2>2. ASSUME NEW j \in DOMAIN L, j # i, NEW l \in DOMAIN L[j].orders
          PROVE  g(j, l) = l /\ l \in Nat /\ j \in Nat
        <3>1. L[j].orders \in Seq(Orders) /\ j \in Nat
            BY <1>1, LevelFacts
        <3>2. l \in Nat
            BY <3>1, DomainFacts
        <3> QED
            BY <2>2, <3>1, <3>2, <1>4, <1>8
    <2> QED
        BY <1>1, <1>5, <1>8, <2>1, <2>2
<1>10. SideOK(M, s, at)
    <2>1. \A j \in DOMAIN M : M[j].orders # <<>> /\ M[j].price = L[j].price
        BY <1>5, <1>7 DEF SideOK
    <2>2. \A j, l \in DOMAIN M : j < l => Better(s, M[j].price, M[l].price)
        BY <1>5, <2>1 DEF SideOK
    <2>3. \A j \in DOMAIN M : \A l \in DOMAIN M[j].orders :
              LET x == M[j].orders[l] IN at[x].side = s /\ at[x].price = M[j].price
        BY <1>5, <1>9, <2>1 DEF SideOK
    <2>4. ASSUME NEW j \in DOMAIN M, NEW l \in DOMAIN M[j].orders, NEW m \in DOMAIN M[j].orders,
                 M[j].orders[l] = M[j].orders[m]
          PROVE  l = m
        <3>1. g(j, l) = g(j, m)
            BY <2>4, <1>5, <1>9 DEF SideOK
        <3>2. j \in Nat /\ l \in Nat /\ m \in Nat
            BY <1>9
        <3>3. \A a, b \in Nat : a < b => g(j, a) < g(j, b)
            <4>1. ASSUME NEW a \in Nat, NEW b \in Nat, a < b
                  PROVE  g(j, a) < g(j, b)
                <5>1. CASE j = i /\ k <= a
                    BY <4>1, <5>1, <1>2, <1>4
                <5>2. CASE j # i \/ a < k
                    <6>1. g(j, a) = a
                        BY <5>2, <3>2, <1>4
                    <6>2. j # i \/ b < k => g(j, b) = b
                        BY <3>2, <1>4
                    <6>3. j = i /\ k <= b => g(j, b) = b + 1
                        BY <3>2, <1>4
                    <6> QED
                        BY <4>1, <6>1, <6>2, <6>3, <1>2
                <5> QED
                    BY <5>1, <5>2, <1>2
            <4> QED
                BY <4>1
        <3>4. \A a \in Nat : g(j, a) \in Nat
            BY <3>2, <1>4
        <3>5. ~(l < m) /\ ~(m < l)
            BY <3>1, <3>2, <3>3, <3>4
        <3> QED
            BY <3>2, <3>5
    <2> QED
        BY <1>5, <2>1, <2>2, <2>3, <2>4 DEF SideOK
<1>11. Renumbers(L, M, o, Len(L) + 1, i, k)
    <2>2. ASSUME NEW j \in Nat, NEW l \in Nat, NEW x \in Orders, Stands(M, j, l, x)
          PROVE  x # o /\ Stands(L, f(j), g(j, l), x)
        <3>1. Stands(L, j, g(j, l), x) /\ (j = i => g(j, l) # k)
            BY <2>2, <1>5, <1>9 DEF Stands
        <3>2. x # o
            BY <3>1, OnePlace
        <3>3. f(j) = j
            BY <3>1, <1>4, <1>8 DEF Stands
        <3> QED
            BY <3>1, <3>2, <3>3
    <2>3. ASSUME NEW j \in Nat, NEW l \in Nat, NEW x \in Orders, Stands(L, j, l, x), x # o
          PROVE  \E u, v \in Nat : j = f(u) /\ l = g(u, v) /\ Stands(M, u, v, x)
        <3>1. CASE j # i
            <4>1. Stands(M, j, l, x) /\ f(j) = j /\ g(j, l) = l
                BY <2>3, <3>1, <1>4, <1>5, <1>8 DEF Stands
            <4> QED
                BY <4>1
        <3>2. CASE j = i
            <4>1. q[l] = x /\ l # k /\ 1 <= l /\ l <= Len(q)
                BY <2>3, <3>2, <1>6, <1>8 DEF Stands
            <4>2. CASE l < k
                <5>1. l \in DOMAIN r
                    BY <4>1, <4>2, <1>2, <1>6
                <5>2. r[l] = x
                    BY <4>1, <4>2, <1>3
                <5>3. g(i, l) = l /\ f(i) = i
                    BY <4>2, <1>1, <1>4, <1>8
                <5>4. Stands(M, i, l, x)
                    BY <5>1, <5>2, <1>5 DEF Stands
                <5> QED
                    BY <5>3, <5>4, <3>2
            <4>3. CASE l > k
                <5>1. l - 1 \in Nat /\ (l - 1) + 1 = l /\ 1 <= l - 1 /\ k <= l - 1 /\ l - 1 < Len(q)
                    BY <4>1, <4>3, <1>2
                <5>2. PICK v \in Nat : v + 1 = l /\ 1 <= v /\ k <= v /\ v < Len(q)
                    BY <5>1
                <5>3. v \in DOMAIN r
                    BY <5>2, <1>6
                <5>4. r[v] = x
                    BY <5>2, <4>1, <1>3
                <5>5. g(i, v) = l /\ f(i) = i
                    BY <5>2, <1>1, <1>4, <1>8
                <5>6. Stands(M, i, v, x)
                    BY <5>3, <5>4, <1>5 DEF Stands
                <5> QED
                    BY <5>5, <5>6, <3>2
            <4>4. l < k \/ l > k
                BY <4>1, <1>2
            <4> QED
                BY <4>2, <4>3, <4>4
        <3> QED
            BY <3>1, <3>2
    <2> QED
        BY <2>2, <2>3, Zenon DEF Renumbers, f, g
<1>12. /\ Len(L) + 1 \in Nat /\ i \in Nat /\ k \in Nat
       /\ L \in Seq(PriceLevel) /\ M \in Seq(PriceLevel)
    BY <1>1, <1>2, <1>5
<1>13. TakenOut(L, M, o)
    BY <1>11, <1>12, Shifted, Zenon
<1> QED
    BY <1>10, <1>13 DEF M

\* Without takes one order out of its side and leaves the order of the others.
LEMMA WithoutFacts ==
    ASSUME NEW s \in {BUY, SELL}, NEW at, NEW L, SideOK(L, s, at),
           NEW i, NEW k, NEW o, Stands(L, i, k, o)
    PROVE  SideOK(Without(L, i, k), s, at) /\ TakenOut(L, Without(L, i, k), o)
<1>1. L \in Seq(PriceLevel)
    BY DEF SideOK
<1>2. i \in DOMAIN L /\ k \in DOMAIN L[i].orders
    BY DEF Stands
<1>3. CASE Len(L[i].orders) = 1
    <2>1. L[i].orders \in Seq(Orders)
        BY <1>1, <1>2, LevelFacts
    <2>2. k = 1
        BY <1>2, <1>3, <2>1, DomainFacts
    <2>3. Without(L, i, k) = RemoveAt(L, i)
        BY <1>3 DEF Without
    <2> QED
        BY <2>2, <2>3, <1>2, <1>3, LevelGoes, Zenon
<1>4. CASE Len(L[i].orders) # 1
    <2>1. Without(L, i, k) = Shortened(L, i, k)
        BY <1>4, Zenon DEF Without, Shortened
    <2> QED
        BY <2>1, <1>2, <1>4, OrderGoes, Zenon
<1> QED
    BY <1>3, <1>4

-----------------------------------------------------------------------------
(* Adding an order *)

\* Two sequences with the same elements.
LEMMA SameSeq ==
    ASSUME NEW S, NEW q \in Seq(S), NEW r \in Seq(S), Len(q) = Len(r),
           \A j \in DOMAIN q : q[j] = r[j]
    PROVE  q = r
OBVIOUS

\* Appending one element.
LEMMA AppendFacts ==
    ASSUME NEW S, NEW q \in Seq(S), NEW e \in S
    PROVE  /\ Append(q, e) \in Seq(S) /\ Len(Append(q, e)) = Len(q) + 1
           /\ Append(q, e)[Len(q) + 1] = e
           /\ \A j \in DOMAIN q : Append(q, e)[j] = q[j]
OBVIOUS

\* Level i is where an order at price p belongs: exactly the levels before it are better.
IsSlot(levels, s, i, p) ==
    /\ i \in Nat /\ 1 <= i /\ i <= Len(levels) + 1
    /\ \A j \in DOMAIN levels : j < i <=> Better(s, levels[j].price, p)

\* The scan of addBid and addAsk ends there, stops being the levels that are not better.
LEMMA SlotFacts ==
    ASSUME NEW s \in {BUY, SELL}, NEW at, NEW L, SideOK(L, s, at), NEW p \in Prices, NEW stops,
           stops = {j \in DOMAIN L : ~Better(s, L[j].price, p)}
    PROVE  IsSlot(L, s, SlotOf(L, stops), p)
<1> DEFINE i == SlotOf(L, stops)
<1>1. L \in Seq(PriceLevel) /\ p \in Nat
    BY OrderBookBounds DEF SideOK
<1>2. \A j \in DOMAIN L : j \in Nat /\ 1 <= j /\ j <= Len(L) /\ L[j].price \in Nat
    <2>1. \A j \in DOMAIN L : L[j].price \in Prices
        BY <1>1, LevelFacts
    <2> QED
        BY <1>1, <2>1, DomainFacts, OrderBookBounds
<1>3. Len(L) \in Nat
    BY <1>1
<1>4. CASE stops = {}
    BY <1>2, <1>3, <1>4 DEF SlotOf, IsSlot
<1>5. CASE stops # {}
    <2>1. i \in stops /\ \A j \in stops : i <= j
        BY <1>2, <1>5, MinIsLeast DEF SlotOf
    <2> HIDE DEF i
    <2>2. i \in DOMAIN L /\ ~Better(s, L[i].price, p)
        BY <2>1
    <2>3. ASSUME NEW j \in DOMAIN L, j < i
          PROVE  Better(s, L[j].price, p)
        <3>1. ~(i <= j)
            BY <2>3, <1>2, <2>2
        <3> QED
            BY <3>1, <2>1
    <2>4. ASSUME NEW j \in DOMAIN L, ~(j < i)
          PROVE  ~Better(s, L[j].price, p)
        <3>1. j = i \/ i < j
            BY <2>4, <1>2, <2>2
        <3>2. i < j => Better(s, L[i].price, L[j].price)
            BY <2>2 DEF SideOK
        <3> QED
            BY <3>1, <3>2, <2>2, <1>1, <1>2 DEF Better
    <2>5. IsSlot(L, s, i, p)
        BY <1>2, <1>3, <2>2, <2>3, <2>4 DEF IsSlot
    <2> QED
        BY <2>5 DEF i
<1> QED
    BY <1>4, <1>5

\* A side whose last order at one price is o, and that is L without it.
JoinsLast(L, M, s, at, o) ==
    /\ SideOK(M, s, at)
    /\ \E i, k : Stands(M, i, k, o) /\ k = Len(M[i].orders) /\ L = Without(M, i, k)

\* A level of its own, in front of the first level that is not better.
LEMMA NewLevel ==
    ASSUME NEW s \in {BUY, SELL}, NEW at, NEW L, SideOK(L, s, at),
           NEW o \in Orders, NEW p \in Prices, at[o].side = s /\ at[o].price = p,
           NEW i, IsSlot(L, s, i, p), \A j \in DOMAIN L : i = j => L[j].price # p
    PROVE  JoinsLast(L, InsertAt(L, i, Level(p, <<o>>)), s, at, o)
<1> DEFINE e == Level(p, <<o>>)
<1> DEFINE M == InsertAt(L, i, e)
<1> DEFINE f(j) == Skip(i, j)
<1>1. /\ L \in Seq(PriceLevel) /\ Len(L) \in Nat /\ p \in Nat
      /\ i \in Nat /\ 1 <= i /\ i <= Len(L) + 1
    BY OrderBookBounds DEF SideOK, IsSlot
<1>2. e \in PriceLevel /\ e.price = p /\ e.orders = <<o>>
    BY DEF Level, PriceLevel
<1>3. /\ \A j \in Nat : f(j) \in Nat
      /\ \A j \in Nat : j < i => f(j) = j
      /\ \A j \in Nat : i <= j => f(j) = j + 1
    BY <1>1 DEF Skip
<1> HIDE DEF e, f
<1>4. /\ M \in Seq(PriceLevel) /\ Len(M) = Len(L) + 1 /\ M[i] = e
      /\ \A j \in Nat : 1 <= j /\ j < i => M[j] = L[j]
      /\ \A j \in Nat : i <= j /\ j <= Len(L) => M[j + 1] = L[j]
    <2>1. i \in 1..(Len(L) + 1)
        BY <1>1
    <2>2. \A j \in 1..(Len(L) + 1) : M[j] = IF j < i THEN L[j] ELSE IF j = i THEN e ELSE L[j - 1]
        BY <1>1, <1>2, <2>1, InsertAtFacts
    <2>3. M \in Seq(PriceLevel) /\ Len(M) = Len(L) + 1
        BY <1>1, <1>2, <2>1, InsertAtFacts
    <2> HIDE DEF M
    <2>4. M[i] = e
        BY <1>1, <2>1, <2>2
    <2>5. \A j \in Nat : 1 <= j /\ j < i => M[j] = L[j]
        BY <1>1, <2>2
    <2>6. ASSUME NEW j \in Nat, i <= j, j <= Len(L)
          PROVE  M[j + 1] = L[j]
        <3>1. j + 1 \in 1..(Len(L) + 1) /\ ~(j + 1 < i) /\ j + 1 # i /\ (j + 1) - 1 = j
            BY <2>6, <1>1
        <3> QED
            BY <3>1, <2>2
    <2> QED
        BY <2>3, <2>4, <2>5, <2>6
<1> HIDE DEF M
<1>5. /\ \A j : j \in DOMAIN L <=> j \in Nat /\ 1 <= j /\ j <= Len(L)
      /\ \A j : j \in DOMAIN M <=> j \in Nat /\ 1 <= j /\ j <= Len(L) + 1
    <2>1. \A j : j \in DOMAIN M <=> j \in Nat /\ 1 <= j /\ j <= Len(M)
        BY <1>4, DomainFacts
    <2> QED
        BY <1>1, <1>4, <2>1, DomainFacts
<1>6. \A j \in DOMAIN L : j \in Nat /\ f(j) \in DOMAIN M /\ f(j) # i /\ M[f(j)] = L[j]
    <2>1. ASSUME NEW j \in DOMAIN L
          PROVE  j \in Nat /\ f(j) \in DOMAIN M /\ f(j) # i /\ M[f(j)] = L[j]
        <3>1. j \in Nat /\ 1 <= j /\ j <= Len(L)
            BY <1>5
        <3>2. CASE j < i
            BY <3>1, <3>2, <1>1, <1>3, <1>4, <1>5
        <3>3. CASE i <= j
            <4>1. j + 1 \in DOMAIN M /\ j + 1 # i
                BY <3>1, <3>3, <1>1, <1>5
            <4> QED
                BY <3>1, <3>3, <4>1, <1>3, <1>4
        <3>4. j < i \/ i <= j
            BY <3>1, <1>1
        <3> QED
            BY <3>2, <3>3, <3>4
    <2> QED
        BY <2>1
<1>7. ASSUME NEW u \in DOMAIN M, u # i
      PROVE  \E j \in DOMAIN L : u = f(j)
    <2>1. u \in Nat /\ 1 <= u /\ u <= Len(L) + 1
        BY <1>5
    <2>2. CASE u < i
        <3>1. u \in DOMAIN L /\ f(u) = u
            BY <2>1, <2>2, <1>1, <1>3, <1>5
        <3> QED
            BY <3>1
    <2>3. CASE i < u
        <3>1. u - 1 \in Nat /\ (u - 1) + 1 = u /\ i <= u - 1 /\ 1 <= u - 1 /\ u - 1 <= Len(L)
            BY <2>1, <2>3, <1>1
        <3>2. PICK j \in Nat : j + 1 = u /\ i <= j /\ 1 <= j /\ j <= Len(L)
            BY <3>1
        <3>3. j \in DOMAIN L /\ f(j) = u
            BY <3>2, <1>3, <1>5
        <3> QED
            BY <3>3
    <2>4. u < i \/ i < u
        BY <2>1, <1>1, <1>7
    <2> QED
        BY <2>2, <2>3, <2>4
<1>8. \A j \in DOMAIN L : /\ j < i => Better(s, L[j].price, p)
                          /\ i <= j => Better(s, p, L[j].price)
    <2>1. ASSUME NEW j \in DOMAIN L, i <= j
          PROVE  Better(s, p, L[j].price)
        <3>1. ~Better(s, L[j].price, p) /\ L[j].price \in Nat
            <4>1. L[j].price \in Prices /\ ~(j < i)
                BY <1>1, <1>6, <2>1, LevelFacts
            <4> QED
                BY <4>1, OrderBookBounds DEF IsSlot
        <3>2. L[j].price # p
            <4>1. i \in DOMAIN L
                BY <1>1, <1>5, <2>1
            <4>2. CASE i = j
                BY <4>2
            <4>3. CASE i < j
                <5>1. Better(s, L[i].price, L[j].price)
                    BY <4>1, <4>3 DEF SideOK
                <5>2. ~Better(s, L[i].price, p)
                    BY <4>1, <1>1 DEF IsSlot
                <5> QED
                    BY <5>1, <5>2
            <4>4. i = j \/ i < j
                BY <1>1, <1>6, <2>1
            <4> QED
                BY <4>2, <4>3, <4>4
        <3> QED
            BY <3>1, <3>2, <1>1 DEF Better
    <2>2. \A j \in DOMAIN L : j < i => Better(s, L[j].price, p)
        BY DEF IsSlot
    <2> QED
        BY <2>1, <2>2
<1>9. e.orders[1] = o /\ Len(e.orders) = 1 /\ \A l : l \in DOMAIN e.orders <=> l = 1
    <2>1. <<o>> \in Seq(Orders) /\ Len(<<o>>) = 1 /\ <<o>>[1] = o
        OBVIOUS
    <2>2. \A l : l \in DOMAIN <<o>> <=> l \in Nat /\ 1 <= l /\ l <= 1
        BY <2>1, DomainFacts
    <2>3. \A l : l \in DOMAIN <<o>> <=> l = 1
        BY <2>2
    <2> QED
        BY <1>2, <2>1, <2>3
<1>10. SideOK(M, s, at)
    <2>1. \A u \in DOMAIN M : M[u].orders # <<>>
        <3>1. <<o>> # <<>>
            OBVIOUS
        <3>2. M[i].orders # <<>>
            BY <3>1, <1>2, <1>4
        <3> QED
            BY <3>2, <1>6, <1>7 DEF SideOK
    <2>2. ASSUME NEW u \in DOMAIN M, NEW v \in DOMAIN M, u < v
          PROVE  Better(s, M[u].price, M[v].price)
        <3>1. CASE u = i
            <4>1. PICK j \in DOMAIN L : v = f(j)
                BY <3>1, <2>2, <1>1, <1>7
            <4>2. i <= j
                BY <4>1, <3>1, <2>2, <1>1, <1>3, <1>6
            <4> QED
                BY <3>1, <4>1, <4>2, <1>2, <1>4, <1>6, <1>8
        <3>2. CASE v = i
            <4>1. PICK j \in DOMAIN L : u = f(j)
                BY <3>2, <2>2, <1>1, <1>7
            <4>2. j < i
                BY <4>1, <3>2, <2>2, <1>1, <1>3, <1>6
            <4> QED
                BY <3>2, <4>1, <4>2, <1>2, <1>4, <1>6, <1>8
        <3>3. CASE u # i /\ v # i
            <4>1. PICK j \in DOMAIN L : u = f(j)
                BY <3>3, <1>7
            <4>2. PICK l \in DOMAIN L : v = f(l)
                BY <3>3, <1>7
            <4>3. j < l
                <5>1. j \in Nat /\ l \in Nat /\ f(j) < f(l)
                    BY <4>1, <4>2, <2>2, <1>6
                <5>2. j < i => f(j) = j
                    BY <5>1, <1>3
                <5>3. i <= j => f(j) = j + 1
                    BY <5>1, <1>3
                <5>4. l < i => f(l) = l
                    BY <5>1, <1>3
                <5>5. i <= l => f(l) = l + 1
                    BY <5>1, <1>3
                <5> QED
                    BY <5>1, <5>2, <5>3, <5>4, <5>5, <1>1
            <4> QED
                BY <4>1, <4>2, <4>3, <1>6 DEF SideOK
        <3> QED
            BY <3>1, <3>2, <3>3
    <2>3. \A u \in DOMAIN M : \A k \in DOMAIN M[u].orders :
              LET x == M[u].orders[k] IN at[x].side = s /\ at[x].price = M[u].price
        <3>1. \A k \in DOMAIN M[i].orders :
                 LET x == M[i].orders[k] IN at[x].side = s /\ at[x].price = M[i].price
            BY <1>2, <1>4, <1>9
        <3> QED
            BY <3>1, <1>6, <1>7 DEF SideOK
    <2>4. \A u \in DOMAIN M : \A k, l \in DOMAIN M[u].orders :
              M[u].orders[k] = M[u].orders[l] => k = l
        <3>1. \A k, l \in DOMAIN M[i].orders : k = l
            BY <1>4, <1>9
        <3> QED
            BY <3>1, <1>6, <1>7 DEF SideOK
    <2> QED
        BY <1>4, <2>1, <2>2, <2>3, <2>4 DEF SideOK
<1>11. Stands(M, i, 1, o) /\ 1 = Len(M[i].orders)
    BY <1>1, <1>4, <1>5, <1>9 DEF Stands
<1>12. L = Without(M, i, 1)
    <2> DEFINE N == RemoveAt(M, i)
    <2>1. i \in 1..Len(M)
        BY <1>1, <1>4
    <2>2. /\ N \in Seq(PriceLevel) /\ Len(N) = Len(M) - 1
          /\ \A j \in 1..(Len(M) - 1) : N[j] = IF j < i THEN M[j] ELSE M[j + 1]
        BY <1>4, <2>1, RemoveAtFacts
    <2> HIDE DEF N
    <2>3. ASSUME NEW j \in DOMAIN L
          PROVE  L[j] = N[j]
        <3>1. j \in Nat /\ 1 <= j /\ j <= Len(L)
            BY <1>5
        <3>2. j \in 1..(Len(M) - 1)
            BY <3>1, <1>1, <1>4
        <3>3. j < i => M[j] = L[j]
            BY <3>1, <1>4
        <3>4. ~(j < i) => M[j + 1] = L[j]
            BY <3>1, <1>1, <1>4
        <3> QED
            BY <3>2, <3>3, <3>4, <2>2
    <2>4. Len(N) = Len(L)
        BY <2>2, <1>1, <1>4
    <2>5. L = N
        BY <1>1, <2>2, <2>3, <2>4, SameSeq
    <2>6. Without(M, i, 1) = RemoveAt(M, i)
        BY <1>11 DEF Without
    <2> QED
        BY <2>5, <2>6, Zenon DEF N
<1>13. JoinsLast(L, M, s, at, o)
    BY <1>10, <1>11, <1>12, Zenon DEF JoinsLast
<1> QED
    BY <1>13 DEF M, e

\* The end of an equal level.
LEMMA SameLevel ==
    ASSUME NEW s \in {BUY, SELL}, NEW at, NEW L, SideOK(L, s, at),
           NEW o \in Orders, o \notin IdsOf(L), NEW p, at[o].side = s /\ at[o].price = p,
           NEW i \in DOMAIN L, L[i].price = p
    PROVE  JoinsLast(L, [L EXCEPT ![i].orders = Append(@, o)], s, at, o)
<1> DEFINE M == [L EXCEPT ![i].orders = Append(@, o)]
<1> DEFINE q == L[i].orders
<1> DEFINE r == Append(q, o)
<1> DEFINE k == Len(q) + 1
<1>1. L \in Seq(PriceLevel) /\ i \in Nat /\ L[i] \in PriceLevel /\ Len(L) \in Nat
    <2>1. L \in Seq(PriceLevel)
        BY DEF SideOK
    <2> QED
        BY <2>1, DomainFacts
<1>2. q \in Seq(Orders) /\ q # <<>> /\ Len(q) \in Nat /\ Len(q) # 0
    <2>1. q \in Seq(Orders) /\ q # <<>>
        BY <1>1 DEF PriceLevel, SideOK
    <2> QED
        BY <2>1
<1>3. /\ r \in Seq(Orders) /\ Len(r) = k /\ r[k] = o
      /\ \A j \in DOMAIN q : r[j] = q[j]
    <2> HIDE DEF q
    <2> QED
        BY <1>2, AppendFacts
<1>4. /\ M \in Seq(PriceLevel) /\ DOMAIN M = DOMAIN L
      /\ M[i].orders = r /\ M[i].price = p
      /\ \A j \in DOMAIN L : j # i => M[j] = L[j]
    <2>1. M = [L EXCEPT ![i] = [L[i] EXCEPT !.orders = r]]
        OBVIOUS
    <2> HIDE DEF r
    <2>2. /\ [L[i] EXCEPT !.orders = r] \in PriceLevel
          /\ [L[i] EXCEPT !.orders = r].orders = r
          /\ [L[i] EXCEPT !.orders = r].price = L[i].price
        BY <1>1, <1>3 DEF PriceLevel
    <2>3. PICK lv \in PriceLevel : lv = [L[i] EXCEPT !.orders = r] /\ lv.orders = r /\ lv.price = L[i].price
        BY <2>2, Zenon
    <2>4. M = [L EXCEPT ![i] = lv]
        BY <2>1, <2>3
    <2> HIDE DEF M
    <2>5. /\ M \in Seq(PriceLevel) /\ DOMAIN M = DOMAIN L /\ M[i] = lv
          /\ \A j \in DOMAIN L : j # i => M[j] = L[j]
        BY <1>1, <2>3, <2>4, ExceptFacts
    <2> QED
        BY <2>3, <2>5
<1> HIDE DEF M, r
<1>5. \A j \in DOMAIN q : q[j] # o
    BY DEF IdsOf, Range
<1>6. q = L[i].orders
    OBVIOUS
<1> HIDE DEF q
<1>7. /\ \A j : j \in DOMAIN q <=> j \in Nat /\ 1 <= j /\ j <= Len(q)
      /\ \A j : j \in DOMAIN r <=> j \in Nat /\ 1 <= j /\ j <= k
    <2>1. \A j : j \in DOMAIN r <=> j \in Nat /\ 1 <= j /\ j <= Len(r)
        BY <1>3, DomainFacts
    <2> QED
        BY <1>2, <1>3, <2>1, DomainFacts
<1>8. k \in Nat /\ k # 1 /\ k \notin DOMAIN q /\ k \in DOMAIN r
    BY <1>2, <1>7
<1>9. \A l \in DOMAIN r : l = k \/ l \in DOMAIN q
    BY <1>2, <1>7
<1> HIDE DEF k
<1>10. SideOK(M, s, at)
    <2>1. \A j \in DOMAIN M : M[j].orders # <<>> /\ M[j].price = L[j].price
        <3>1. r # <<>>
            BY <1>8
        <3> QED
            BY <3>1, <1>4 DEF SideOK
    <2>2. \A j, l \in DOMAIN M : j < l => Better(s, M[j].price, M[l].price)
        BY <1>4, <2>1 DEF SideOK
    <2>3. \A j \in DOMAIN M : \A l \in DOMAIN M[j].orders :
              LET x == M[j].orders[l] IN at[x].side = s /\ at[x].price = M[j].price
        BY <1>3, <1>4, <1>6, <1>9 DEF SideOK
    <2>4. \A j \in DOMAIN M : \A l, m \in DOMAIN M[j].orders :
              M[j].orders[l] = M[j].orders[m] => l = m
        <3>1. \A l, m \in DOMAIN q : q[l] = q[m] => l = m
            BY <1>6 DEF SideOK
        <3>2. \A l, m \in DOMAIN r : r[l] = r[m] => l = m
            BY <3>1, <1>3, <1>5, <1>9
        <3>3. \A j \in DOMAIN M : j # i => M[j] = L[j] /\ j \in DOMAIN L
            BY <1>4
        <3> QED
            BY <3>2, <3>3, <1>4 DEF SideOK
    <2> QED
        BY <1>4, <2>1, <2>2, <2>3, <2>4 DEF SideOK
<1>11. Stands(M, i, k, o) /\ k = Len(M[i].orders)
    BY <1>3, <1>4, <1>8 DEF Stands
<1>12. RemoveAt(r, k) = q
    <2> DEFINE t == RemoveAt(r, k)
    <2>1. k \in 1..Len(r) /\ Len(r) = k
        BY <1>3, <1>8
    <2>2. /\ t \in Seq(Orders) /\ Len(t) = k - 1
          /\ \A j \in 1..(k - 1) : t[j] = IF j < k THEN r[j] ELSE r[j + 1]
        BY <1>3, <2>1, RemoveAtFacts
    <2> HIDE DEF t
    <2>3. ASSUME NEW j \in DOMAIN q
          PROVE  q[j] = t[j]
        <3>1. j \in 1..(k - 1) /\ j < k
            BY <1>2, <1>7 DEF k
        <3> QED
            BY <3>1, <2>2, <1>3
    <2>4. Len(q) = Len(t)
        BY <2>2, <1>2 DEF k
    <2>5. q = t
        BY <1>2, <2>2, <2>3, <2>4, SameSeq
    <2> QED
        BY <2>5 DEF t
<1>13. L = Without(M, i, k)
    <2> DEFINE N == Shortened(M, i, k)
    <2>1. Without(M, i, k) = N
        <3>1. Len(M[i].orders) # 1
            BY <1>8, <1>11, Zenon
        <3> QED
            BY <3>1, Zenon DEF Without, Shortened
    <2>2. N = [M EXCEPT ![i] = [M[i] EXCEPT !.orders = q]]
        BY <1>4, <1>12 DEF Shortened
    <2>3. [M[i] EXCEPT !.orders = q] = L[i]
        <3>1. M[i] \in PriceLevel
            BY <1>4, DomainFacts
        <3> QED
            BY <3>1, <1>1, <1>4, <1>6 DEF PriceLevel
    <2>4. N = [M EXCEPT ![i] = L[i]]
        BY <2>2, <2>3
    <2> HIDE DEF N
    <2>5. /\ N \in Seq(PriceLevel) /\ DOMAIN N = DOMAIN M /\ N[i] = L[i]
          /\ \A j \in DOMAIN M : j # i => N[j] = M[j]
        BY <1>1, <1>4, <2>4, ExceptFacts
    <2>6. Len(N) = Len(L) /\ \A j \in DOMAIN L : L[j] = N[j]
        BY <2>5, <1>1, <1>4
    <2>7. L = N
        BY <1>1, <2>5, <2>6, SameSeq
    <2> QED
        BY <2>1, <2>7
<1>14. JoinsLast(L, M, s, at, o)
    BY <1>10, <1>11, <1>13, Zenon DEF JoinsLast
<1> QED
    BY <1>14 DEF M

\* M is L and o, which is behind the orders of a price that is not worse than its own.
Joined(L, M, s, at, o) ==
    /\ IdsOf(M) = IdsOf(L) \cup {o}
    /\ Before(M) = Before(L)
          \cup {<<x, o>> : x \in {x \in IdsOf(L) : ~Better(s, at[o].price, at[x].price)}}
          \cup {<<o, x>> : x \in {x \in IdsOf(L) : Better(s, at[o].price, at[x].price)}}

\* The orders of a side have its side and a price that can be asked for.
LEMMA SideFacts ==
    ASSUME NEW s \in {BUY, SELL}, NEW at, NEW L, SideOK(L, s, at)
    PROVE  /\ IdsOf(L) \subseteq Orders
           /\ \A x \in IdsOf(L) : at[x].side = s /\ at[x].price \in Prices
<1>1. L \in Seq(PriceLevel)
    BY DEF SideOK
<1>2. ASSUME NEW x \in IdsOf(L)
      PROVE  at[x].side = s /\ at[x].price \in Prices
    <2>1. PICK i, k \in Nat : Stands(L, i, k, x)
        BY <1>1, IdsFacts
    <2>2. at[x].side = s /\ at[x].price = L[i].price /\ i \in DOMAIN L
        BY <2>1 DEF SideOK, Stands
    <2> QED
        BY <1>1, <2>2, LevelFacts
<1> QED
    BY <1>1, <1>2, IdsFacts

\* Only the attributes of the orders of a side matter to it.
LEMMA SameAttributes ==
    ASSUME NEW s \in {BUY, SELL}, NEW at, NEW as, NEW L, SideOK(L, s, at),
           \A x \in IdsOf(L) : as[x] = at[x]
    PROVE  SideOK(L, s, as)
<1>1. \A i \in DOMAIN L : \A k \in DOMAIN L[i].orders : L[i].orders[k] \in IdsOf(L)
    BY DEF IdsOf, Range
<1>2. \A i \in DOMAIN L : \A k \in DOMAIN L[i].orders :
          LET x == L[i].orders[k] IN as[x].side = s /\ as[x].price = L[i].price
    <2>1. ASSUME NEW i \in DOMAIN L, NEW k \in DOMAIN L[i].orders
          PROVE  as[L[i].orders[k]].side = s /\ as[L[i].orders[k]].price = L[i].price
        <3>1. as[L[i].orders[k]] = at[L[i].orders[k]]
            BY <1>1
        <3> QED
            BY <3>1 DEF SideOK
    <2> QED
        BY <2>1
<1> QED
    BY <1>2 DEF SideOK

\* The last order of a level is behind the orders of its price and of the better ones.
LEMMA LastPrecedes ==
    ASSUME NEW s \in {BUY, SELL}, NEW at, NEW M, SideOK(M, s, at),
           NEW i, NEW k, NEW o, Stands(M, i, k, o), k = Len(M[i].orders),
           NEW x \in IdsOf(M), x # o
    PROVE  /\ Precedes(M, x, o) <=> ~Better(s, at[o].price, at[x].price)
           /\ Precedes(M, o, x) <=> Better(s, at[o].price, at[x].price)
<1>1. M \in Seq(PriceLevel)
    BY DEF SideOK
<1>2. PICK j, l \in Nat : Stands(M, j, l, x)
    BY <1>1, IdsFacts
<1>3. i \in Nat /\ k \in Nat
    BY <1>1, StandsFacts
<1>4. /\ i \in DOMAIN M /\ at[o].price = M[i].price /\ M[i].price \in Nat
      /\ j \in DOMAIN M /\ at[x].price = M[j].price /\ M[j].price \in Nat
    <2>1. /\ i \in DOMAIN M /\ at[o].price = M[i].price
          /\ j \in DOMAIN M /\ at[x].price = M[j].price
        BY <1>2 DEF Stands, SideOK
    <2>2. M[i].price \in Prices /\ M[j].price \in Prices
        BY <1>1, <2>1, LevelFacts
    <2> QED
        BY <2>1, <2>2, OrderBookBounds
<1>5. i = j => l < k
    <2>1. l \in 1..Len(M[j].orders) /\ x = M[j].orders[l] /\ o = M[i].orders[k]
        BY <1>1, <1>2, StandsFacts
    <2> QED
        BY <2>1, <1>2, <1>3
<1>6. Better(s, at[o].price, at[x].price) <=> i < j
    <2>1. i < j => Better(s, M[i].price, M[j].price)
        BY <1>4 DEF SideOK
    <2>2. j < i => Better(s, M[j].price, M[i].price)
        BY <1>4 DEF SideOK
    <2>3. i < j \/ i = j \/ j < i
        BY <1>2, <1>3
    <2> QED
        BY <1>2, <1>3, <1>4, <2>1, <2>2, <2>3 DEF Better
<1>7. Precedes(M, x, o) <=> j < i \/ (j = i /\ l < k)
    BY <1>2, PlacesDecide
<1>8. Precedes(M, o, x) <=> i < j \/ (i = j /\ k < l)
    BY <1>2, PlacesDecide
<1> QED
    BY <1>2, <1>3, <1>5, <1>6, <1>7, <1>8

\* So an order that joins as the last of its level joins the queue where it should.
LEMMA LastJoins ==
    ASSUME NEW s \in {BUY, SELL}, NEW at, NEW L \in Seq(PriceLevel), NEW M,
           NEW o, JoinsLast(L, M, s, at, o)
    PROVE  SideOK(M, s, at) /\ Joined(L, M, s, at, o)
<1>1. PICK i, k : Stands(M, i, k, o) /\ k = Len(M[i].orders) /\ L = Without(M, i, k)
    BY DEF JoinsLast
<1>2. SideOK(M, s, at) /\ M \in Seq(PriceLevel)
    BY DEF JoinsLast, SideOK
<1>3. TakenOut(M, L, o)
    BY <1>1, <1>2, WithoutFacts, Zenon
<1>4. o \in IdsOf(M)
    <2>1. i \in Nat /\ k \in Nat
        BY <1>1, <1>2, StandsFacts
    <2> QED
        BY <2>1, <1>1, <1>2, IdsFacts
<1>5. IdsOf(L) = IdsOf(M) \ {o} /\ IdsOf(M) = IdsOf(L) \cup {o}
    BY <1>3, <1>4 DEF TakenOut
<1>6. \A x \in IdsOf(L) : /\ Precedes(M, x, o) <=> ~Better(s, at[o].price, at[x].price)
                          /\ Precedes(M, o, x) <=> Better(s, at[o].price, at[x].price)
    BY <1>1, <1>2, <1>5, LastPrecedes
<1>7. ~Precedes(M, o, o)
    <2>1. i \in Nat /\ k \in Nat
        BY <1>1, <1>2, StandsFacts
    <2> QED
        BY <2>1, <1>1, <1>2, PlacesDecide
<1>8. \A x, y \in IdsOf(L) : <<x, y>> \in Before(L) <=> <<x, y>> \in Before(M)
    BY <1>3, <1>5 DEF TakenOut
<1>9. \A x, y : <<x, y>> \in Before(M) <=> x \in IdsOf(M) /\ y \in IdsOf(M) /\ Precedes(M, x, y)
    BY DEF Before
<1>10. Before(L) \subseteq IdsOf(L) \X IdsOf(L) /\ Before(M) \subseteq IdsOf(M) \X IdsOf(M)
    BY DEF Before
<1> DEFINE A == {<<x, o>> : x \in {x \in IdsOf(L) : ~Better(s, at[o].price, at[x].price)}}
<1> DEFINE B == {<<o, x>> : x \in {x \in IdsOf(L) : Better(s, at[o].price, at[x].price)}}
<1>11. Before(M) = Before(L) \cup A \cup B
    <2>1. ASSUME NEW x \in IdsOf(M), NEW y \in IdsOf(M)
          PROVE  <<x, y>> \in Before(M) <=> <<x, y>> \in Before(L) \cup A \cup B
        <3>1. CASE x = o /\ y = o
            BY <3>1, <1>5, <1>7, <1>9, <1>10
        <3>2. CASE x = o /\ y # o
            BY <3>2, <1>5, <1>6, <1>9, <1>10
        <3>3. CASE x # o /\ y = o
            BY <3>3, <1>5, <1>6, <1>9, <1>10
        <3>4. CASE x # o /\ y # o
            BY <3>4, <1>5, <1>8
        <3> QED
            BY <3>1, <3>2, <3>3, <3>4
    <2>2. A \subseteq IdsOf(M) \X IdsOf(M) /\ B \subseteq IdsOf(M) \X IdsOf(M)
        BY <1>4, <1>5
    <2>3. Before(L) \subseteq IdsOf(M) \X IdsOf(M)
        BY <1>5, <1>10
    <2> HIDE DEF A, B
    <2> QED
        BY <2>1, <2>2, <2>3, <1>10
<1> QED
    BY <1>2, <1>5, <1>11 DEF Joined

\* addBid and addAsk.
LEMMA AddAtFacts ==
    ASSUME NEW s \in {BUY, SELL}, NEW at, NEW L, SideOK(L, s, at),
           NEW o \in Orders, o \notin IdsOf(L), NEW p \in Prices, at[o].side = s /\ at[o].price = p,
           NEW i, IsSlot(L, s, i, p)
    PROVE  SideOK(AddAt(L, i, o, p), s, at) /\ Joined(L, AddAt(L, i, o, p), s, at, o)
<1>1. L \in Seq(PriceLevel)
    BY DEF SideOK
<1>2. i <= Len(L) <=> i \in DOMAIN L
    BY <1>1, DomainFacts DEF IsSlot
<1>3. CASE i \in DOMAIN L /\ L[i].price = p
    <2>1. AddAt(L, i, o, p) = [L EXCEPT ![i].orders = Append(@, o)]
        BY <1>2, <1>3, Zenon DEF AddAt
    <2>2. JoinsLast(L, [L EXCEPT ![i].orders = Append(@, o)], s, at, o)
        <3>1. i \in DOMAIN L /\ L[i].price = p
            BY <1>3
        <3> QED
            BY <3>1, SameLevel, Zenon
    <2>3. JoinsLast(L, AddAt(L, i, o, p), s, at, o)
        BY <2>1, <2>2, Zenon
    <2> QED
        BY <1>1, <2>3, LastJoins, Zenon
<1>4. CASE ~(i \in DOMAIN L /\ L[i].price = p)
    <2>1. AddAt(L, i, o, p) = InsertAt(L, i, Level(p, <<o>>))
        BY <1>2, <1>4, Zenon DEF AddAt
    <2>2. JoinsLast(L, AddAt(L, i, o, p), s, at, o)
        BY <1>4, <2>1, NewLevel, Zenon
    <2> QED
        BY <1>1, <2>2, LastJoins, Zenon
<1> QED
    BY <1>3, <1>4

\* Where Cancel finds an order is where it stands.
LEMMA RemovedFacts ==
    ASSUME NEW s \in {BUY, SELL}, NEW at, NEW L, SideOK(L, s, at), NEW o
    PROVE  /\ LevelsOf(L, o) # {} <=> o \in IdsOf(L)
           /\ o \in IdsOf(L) => SideOK(Removed(L, o), s, at) /\ TakenOut(L, Removed(L, o), o)
<1>1. L \in Seq(PriceLevel)
    BY DEF SideOK
<1>2. LevelsOf(L, o) # {} <=> o \in IdsOf(L)
    BY DEF LevelsOf, IdsOf
<1>3. ASSUME o \in IdsOf(L)
      PROVE  SideOK(Removed(L, o), s, at) /\ TakenOut(L, Removed(L, o), o)
    <2> DEFINE i == Min(LevelsOf(L, o))
    <2> DEFINE k == Min(PlacesOf(L[i].orders, o))
    <2>1. i \in LevelsOf(L, o)
        <3>1. LevelsOf(L, o) \subseteq Nat
            BY <1>1, LevelFacts DEF LevelsOf
        <3> QED
            BY <3>1, <1>2, <1>3, MinIsLeast
    <2>2. i \in DOMAIN L /\ o \in Range(L[i].orders)
        BY <2>1 DEF LevelsOf
    <2>3. Removed(L, o) = Without(L, i, k)
        BY DEF Removed
    <2> HIDE DEF i
    <2>4. k \in PlacesOf(L[i].orders, o)
        <3>1. L[i].orders \in Seq(Orders)
            BY <1>1, <2>2, LevelFacts
        <3>2. PlacesOf(L[i].orders, o) \subseteq Nat
            BY <3>1, DomainFacts DEF PlacesOf
        <3>3. PlacesOf(L[i].orders, o) # {}
            BY <2>2 DEF PlacesOf, Range
        <3> QED
            BY <3>2, <3>3, MinIsLeast
    <2> HIDE DEF k
    <2>5. Stands(L, i, k, o)
        BY <2>2, <2>4 DEF PlacesOf, Stands
    <2> QED
        BY <2>3, <2>5, WithoutFacts, Zenon
<1> QED
    BY <1>2, <1>3

\* The first order of the first level, which Match takes.
IsHead(levels, r) == levels # <<>> /\ r = levels[1].orders[1]

\* At the head of a side: nothing precedes it, no order of the side is better,
\* and every other order has it in front.
LEMMA HeadFacts ==
    ASSUME NEW s \in {BUY, SELL}, NEW at, NEW L, SideOK(L, s, at), NEW r, IsHead(L, r)
    PROVE  /\ r \in IdsOf(L) /\ at[r].price = L[1].price
           /\ SideOK(Popped(L), s, at) /\ TakenOut(L, Popped(L), r)
           /\ \A x \in IdsOf(L) : /\ ~Precedes(L, x, r)
                                  /\ x # r => Precedes(L, r, x)
                                  /\ ~Better(s, at[x].price, L[1].price)
<1>1. L \in Seq(PriceLevel) /\ L # <<>> /\ r = L[1].orders[1]
    BY DEF SideOK, IsHead
<1>2. 1 \in DOMAIN L
    BY <1>1
<1>3. L[1].orders \in Seq(Orders) /\ L[1].orders # <<>> /\ L[1].price \in Nat
    BY <1>1, <1>2, LevelFacts, OrderBookBounds DEF SideOK
<1>4. 1 \in DOMAIN L[1].orders
    BY <1>3
<1>5. Stands(L, 1, 1, r)
    BY <1>1, <1>2, <1>4 DEF Stands
<1>6. SideOK(Popped(L), s, at) /\ TakenOut(L, Popped(L), r)
    BY <1>5, WithoutFacts, Zenon DEF Popped
<1>7. r \in IdsOf(L) /\ at[r].price = L[1].price
    BY <1>1, <1>5, IdsFacts DEF SideOK, Stands
<1>8. ASSUME NEW x \in IdsOf(L)
      PROVE  /\ ~Precedes(L, x, r)
             /\ x # r => Precedes(L, r, x)
             /\ ~Better(s, at[x].price, L[1].price)
    <2>1. PICK i, k \in Nat : Stands(L, i, k, x)
        BY <1>1, IdsFacts
    <2>2. 1 <= i /\ 1 <= k
        BY <1>1, <2>1, StandsFacts
    <2>3. Precedes(L, x, r) <=> i < 1 \/ (i = 1 /\ k < 1)
        BY <1>5, <2>1, PlacesDecide
    <2>4. Precedes(L, r, x) <=> 1 < i \/ (1 = i /\ 1 < k)
        BY <1>5, <2>1, PlacesDecide
    <2>5. x # r => i # 1 \/ k # 1
        BY <1>1, <1>5, <2>1 DEF Stands
    <2>6. ~Better(s, at[x].price, L[1].price)
        <3>1. i \in DOMAIN L /\ at[x].price = L[i].price
            BY <2>1 DEF Stands, SideOK
        <3>2. L[i].price \in Nat
            BY <1>1, <3>1, LevelFacts, OrderBookBounds
        <3>3. i = 1 \/ 1 < i
            BY <2>2
        <3>4. 1 < i => Better(s, L[1].price, L[i].price)
            BY <1>2, <3>1 DEF SideOK
        <3> QED
            BY <1>3, <3>1, <3>2, <3>3, <3>4 DEF Better
    <2> QED
        BY <2>2, <2>3, <2>4, <2>5, <2>6
<1> QED
    BY <1>6, <1>7, <1>8

-----------------------------------------------------------------------------
(* The steps of the worker *)

\* No order is on both sides.
LEMMA SidesApart ==
    ASSUME BookInv
    PROVE  IdsOf(bids) \cap IdsOf(asks) = {}
<1>1. \A x \in IdsOf(bids) : attr[x].side = BUY
    BY SideFacts DEF BookInv
<1>2. \A x \in IdsOf(asks) : attr[x].side = SELL
    BY SideFacts DEF BookInv
<1> QED
    BY <1>1, <1>2 DEF BUY, SELL

\* What taking an order out of its side does to the book and to the queue.
LEMMA TakeStep ==
    ASSUME BookInv, NEW o,
           \/ TakenOut(bids, bids', o) /\ asks' = asks /\ o \in IdsOf(bids)
           \/ TakenOut(asks, asks', o) /\ bids' = bids /\ o \in IdsOf(asks)
    PROVE  /\ IdsOf(bids') \cup IdsOf(asks') = (IdsOf(bids) \cup IdsOf(asks)) \ {o}
           /\ Before(bids') \cup Before(asks') = Abstract!Unqueued(o)
<1>1. /\ Before(bids) \subseteq IdsOf(bids) \X IdsOf(bids)
      /\ Before(asks) \subseteq IdsOf(asks) \X IdsOf(asks)
    BY DEF Before
<1>2. \A p \in Before(bids) : p[1] \in IdsOf(bids) /\ p[2] \in IdsOf(bids)
    BY <1>1
<1>3. \A p \in Before(asks) : p[1] \in IdsOf(asks) /\ p[2] \in IdsOf(asks)
    BY <1>1
<1>4. CASE TakenOut(bids, bids', o) /\ asks' = asks /\ o \in IdsOf(bids)
    <2>1. o \notin IdsOf(asks)
        BY <1>4, SidesApart
    <2>2. IdsOf(asks') = IdsOf(asks) /\ Before(asks') = Before(asks)
        BY <1>4
    <2> QED
        BY <1>3, <1>4, <2>1, <2>2 DEF TakenOut, Abstract!Unqueued
<1>5. CASE TakenOut(asks, asks', o) /\ bids' = bids /\ o \in IdsOf(asks)
    <2>1. o \notin IdsOf(bids)
        BY <1>5, SidesApart
    <2>2. IdsOf(bids') = IdsOf(bids) /\ Before(bids') = Before(bids)
        BY <1>5
    <2> QED
        BY <1>2, <1>5, <2>1, <2>2 DEF TakenOut, Abstract!Unqueued
<1> QED
    BY <1>4, <1>5

\* The orders a new one queues behind are those of its side at no worse a price.
LEMMA KeepsFacts ==
    ASSUME BookInv, NEW a \in Request
    PROVE  /\ a.side = BUY =>
               /\ {p \in Abstract!OnSide(a.side) : Abstract!KeepsPlace(p, a)}
                     = {x \in IdsOf(bids) : ~Better(BUY, a.price, attr[x].price)}
               /\ {p \in Abstract!OnSide(a.side) : ~Abstract!KeepsPlace(p, a)}
                     = {x \in IdsOf(bids) : Better(BUY, a.price, attr[x].price)}
           /\ a.side = SELL =>
               /\ {p \in Abstract!OnSide(a.side) : Abstract!KeepsPlace(p, a)}
                     = {x \in IdsOf(asks) : ~Better(SELL, a.price, attr[x].price)}
               /\ {p \in Abstract!OnSide(a.side) : ~Abstract!KeepsPlace(p, a)}
                     = {x \in IdsOf(asks) : Better(SELL, a.price, attr[x].price)}
<1>1. \A x \in IdsOf(bids) : attr[x].side = BUY /\ attr[x].price \in Nat
    BY SideFacts, OrderBookBounds DEF BookInv
<1>2. \A x \in IdsOf(asks) : attr[x].side = SELL /\ attr[x].price \in Nat
    BY SideFacts, OrderBookBounds DEF BookInv
<1>3. a.price \in Nat /\ BUY # SELL
    BY OrderBookBounds DEF Request, BUY, SELL
<1>4. /\ Abstract!OnSide(BUY) = IdsOf(bids)
      /\ Abstract!OnSide(SELL) = IdsOf(asks)
    BY <1>1, <1>2, <1>3 DEF Abstract!OnSide
<1>5. ASSUME a.side = BUY, NEW x \in IdsOf(bids)
      PROVE  Abstract!KeepsPlace(x, a) <=> ~Better(BUY, a.price, attr[x].price)
    BY <1>1, <1>3, <1>5 DEF Abstract!KeepsPlace, Abstract!BUY, BUY, Better
<1>6. ASSUME a.side = SELL, NEW x \in IdsOf(asks)
      PROVE  Abstract!KeepsPlace(x, a) <=> ~Better(SELL, a.price, attr[x].price)
    BY <1>2, <1>3, <1>6 DEF Abstract!KeepsPlace, Abstract!BUY, BUY, SELL, Better
<1> QED
    BY <1>4, <1>5, <1>6

\* What AddOrder does to the book and to the queue.
LEMMA AddStep ==
    ASSUME BookInv, NEW o \in Orders, o \notin IdsOf(bids) \cup IdsOf(asks), NEW a \in Request,
           NEW at, at[o] = a, \A x \in IdsOf(bids) \cup IdsOf(asks) : at[x] = attr[x],
           AddOrder(o, a)
    PROVE  /\ SideOK(bids', BUY, at) /\ SideOK(asks', SELL, at)
           /\ IdsOf(bids') \cup IdsOf(asks') = (IdsOf(bids) \cup IdsOf(asks)) \cup {o}
           /\ Before(bids') \cup Before(asks') = Abstract!Queued(o, a)
<1>1. SideOK(bids, BUY, at) /\ SideOK(asks, SELL, at)
    BY SameAttributes DEF BookInv
<1>2. a.price \in Prices /\ at[o].price = a.price /\ at[o].side = a.side /\ a.price \in Nat
    BY OrderBookBounds DEF Request
<1>3. /\ \A x \in IdsOf(bids) : attr[x].price \in Nat
      /\ \A x \in IdsOf(asks) : attr[x].price \in Nat
    BY SideFacts, OrderBookBounds DEF BookInv
<1>4. CASE a.side = BUY /\ bids' = addBid(o, a.price) /\ asks' = asks
    <2> DEFINE stops == {i \in DOMAIN bids : bids[i].price <= a.price}
    <2> DEFINE i == SlotOf(bids, stops)
    <2>1. \A j \in DOMAIN bids : bids[j].price \in Nat
        BY <1>1, LevelFacts, OrderBookBounds DEF SideOK
    <2>2. stops = {j \in DOMAIN bids : ~Better(BUY, bids[j].price, a.price)}
        BY <1>2, <2>1 DEF Better
    <2> HIDE DEF stops
    <2>3. IsSlot(bids, BUY, i, a.price)
        BY <1>1, <1>2, <2>2, SlotFacts
    <2>4. bids' = AddAt(bids, i, o, a.price)
        BY <1>4 DEF addBid, stops
    <2> HIDE DEF i
    <2>5. SideOK(bids', BUY, at) /\ Joined(bids, bids', BUY, at, o)
        <3>1. at[o].side = BUY /\ at[o].price = a.price /\ a.price \in Prices
            BY <1>2, <1>4
        <3>2. o \notin IdsOf(bids)
            OBVIOUS
        <3> QED
            BY <1>1, <2>3, <2>4, <3>1, <3>2, AddAtFacts
    <2>6. /\ {p \in Abstract!OnSide(a.side) : Abstract!KeepsPlace(p, a)}
                = {x \in IdsOf(bids) : ~Better(BUY, a.price, at[x].price)}
          /\ {p \in Abstract!OnSide(a.side) : ~Abstract!KeepsPlace(p, a)}
                = {x \in IdsOf(bids) : Better(BUY, a.price, at[x].price)}
        BY <1>4, KeepsFacts
    <2>7. Before(bids') \cup Before(asks') = Abstract!Queued(o, a)
        BY <1>2, <1>4, <2>5, <2>6 DEF Joined, Abstract!Queued
    <2> QED
        BY <1>1, <1>4, <2>5, <2>7 DEF Joined
<1>5. CASE a.side = SELL /\ asks' = addAsk(o, a.price) /\ bids' = bids
    <2> DEFINE stops == {i \in DOMAIN asks : asks[i].price >= a.price}
    <2> DEFINE i == SlotOf(asks, stops)
    <2>1. \A j \in DOMAIN asks : asks[j].price \in Nat
        BY <1>1, LevelFacts, OrderBookBounds DEF SideOK
    <2>2. stops = {j \in DOMAIN asks : ~Better(SELL, asks[j].price, a.price)}
        BY <1>2, <2>1 DEF Better, BUY, SELL
    <2> HIDE DEF stops
    <2>3. IsSlot(asks, SELL, i, a.price)
        BY <1>1, <1>2, <2>2, SlotFacts
    <2>4. asks' = AddAt(asks, i, o, a.price)
        BY <1>5 DEF addAsk, stops
    <2> HIDE DEF i
    <2>5. SideOK(asks', SELL, at) /\ Joined(asks, asks', SELL, at, o)
        <3>1. at[o].side = SELL /\ at[o].price = a.price /\ a.price \in Prices
            BY <1>2, <1>5
        <3>2. o \notin IdsOf(asks)
            OBVIOUS
        <3> QED
            BY <1>1, <2>3, <2>4, <3>1, <3>2, AddAtFacts
    <2>6. /\ {p \in Abstract!OnSide(a.side) : Abstract!KeepsPlace(p, a)}
                = {x \in IdsOf(asks) : ~Better(SELL, a.price, at[x].price)}
          /\ {p \in Abstract!OnSide(a.side) : ~Abstract!KeepsPlace(p, a)}
                = {x \in IdsOf(asks) : Better(SELL, a.price, at[x].price)}
        BY <1>5, KeepsFacts
    <2>7. Before(bids') \cup Before(asks') = Abstract!Queued(o, a)
        BY <1>2, <1>5, <2>5, <2>6 DEF Joined, Abstract!Queued
    <2> QED
        BY <1>1, <1>5, <2>5, <2>7 DEF Joined
<1> QED
    BY <1>4, <1>5 DEF AddOrder

\* The orders of side s.
LEMMA SideIds ==
    ASSUME BookInv, NEW s \in {BUY, SELL}, NEW L, L = IF s = BUY THEN bids ELSE asks
    PROVE  /\ SideOK(L, s, attr)
           /\ Abstract!OnSide(s) = IdsOf(L)
           /\ IdsOf(L) \subseteq IdsOf(bids) \cup IdsOf(asks)
           /\ \A x, y : y \in IdsOf(L) =>
                 (<<x, y>> \in Before(bids) \cup Before(asks) <=> x \in IdsOf(L) /\ Precedes(L, x, y))
<1>1. BUY # SELL
    BY DEF BUY, SELL
<1>2. SideOK(L, s, attr)
    BY <1>1 DEF BookInv
<1>3. \A x \in IdsOf(bids) : attr[x].side = BUY
    BY SideFacts DEF BookInv
<1>4. \A x \in IdsOf(asks) : attr[x].side = SELL
    BY SideFacts DEF BookInv
<1>5. Abstract!OnSide(s) = IdsOf(L)
    BY <1>1, <1>3, <1>4 DEF Abstract!OnSide
<1>6. /\ \A x, y : <<x, y>> \in Before(bids) <=> x \in IdsOf(bids) /\ y \in IdsOf(bids) /\ Precedes(bids, x, y)
      /\ \A x, y : <<x, y>> \in Before(asks) <=> x \in IdsOf(asks) /\ y \in IdsOf(asks) /\ Precedes(asks, x, y)
    BY DEF Before
<1>7. CASE s = BUY
    BY <1>2, <1>5, <1>6, <1>7, SidesApart
<1>8. CASE s = SELL
    BY <1>1, <1>2, <1>5, <1>6, <1>8, SidesApart
<1> QED
    BY <1>7, <1>8

\* The best order of a side is the first order of its first level.
LEMMA BestIsHead ==
    ASSUME BookInv, NEW s \in {BUY, SELL}, NEW L, L = IF s = BUY THEN bids ELSE asks, NEW r
    PROVE  Abstract!IsBest(r, s) <=> IsHead(L, r)
<1>1. /\ SideOK(L, s, attr)
      /\ Abstract!OnSide(s) = IdsOf(L)
      /\ IdsOf(L) \subseteq IdsOf(bids) \cup IdsOf(asks)
      /\ \A x, y : y \in IdsOf(L) =>
            (<<x, y>> \in Before(bids) \cup Before(asks) <=> x \in IdsOf(L) /\ Precedes(L, x, y))
    BY SideIds
<1>2. \A h : IsHead(L, h) => /\ h \in IdsOf(L)
                             /\ \A x \in IdsOf(L) : ~Precedes(L, x, h) /\ (x # h => Precedes(L, h, x))
    <2>1. ASSUME NEW h, IsHead(L, h)
          PROVE  /\ h \in IdsOf(L)
                 /\ \A x \in IdsOf(L) : ~Precedes(L, x, h) /\ (x # h => Precedes(L, h, x))
        BY <1>1, <2>1, HeadFacts, Zenon
    <2> QED
        BY <2>1
<1>3. IdsOf(L) # {} => \E h : IsHead(L, h)
    <2>1. L = <<>> => IdsOf(L) = {}
        BY DEF IdsOf
    <2> QED
        BY <2>1 DEF IsHead
<1>4. Abstract!IsBest(r, s) <=>
          /\ r \in IdsOf(L)
          /\ \A x \in IdsOf(bids) \cup IdsOf(asks) : <<x, r>> \notin Before(bids) \cup Before(asks)
    BY <1>1 DEF Abstract!IsBest
<1>5. ASSUME Abstract!IsBest(r, s)
      PROVE  IsHead(L, r)
    <2>1. r \in IdsOf(L)
        BY <1>4, <1>5
    <2>2. PICK h : IsHead(L, h)
        BY <1>3, <2>1
    <2>3. h \in IdsOf(L) /\ <<h, r>> \notin Before(bids) \cup Before(asks)
        BY <1>1, <1>2, <1>4, <1>5, <2>2
    <2>4. ~Precedes(L, h, r)
        BY <1>1, <2>1, <2>3
    <2> QED
        BY <1>2, <2>1, <2>2, <2>4
<1>6. ASSUME IsHead(L, r)
      PROVE  Abstract!IsBest(r, s)
    <2>1. r \in IdsOf(L) /\ \A x \in IdsOf(L) : ~Precedes(L, x, r)
        BY <1>2, <1>6
    <2> QED
        BY <1>1, <1>4, <2>1
<1> QED
    BY <1>5, <1>6

\* The loop of Match goes on exactly when an order can be filled, and fills the head.
LEMMA GuardFacts ==
    ASSUME BookInv, incoming # None
    PROVE  /\ \A r : IsHead(Facing, r) => attr[r].price = Facing[1].price
           /\ \A r : Abstract!CanFill(r) <=> LoopGuard /\ IsHead(Facing, r)
<1> DEFINE s == Abstract!Opposite(attr[incoming].side)
<1>1. attr[incoming].side \in {BUY, SELL}
    BY DEF BookInv, BookTypeOK, Request, NoAttr, BUY, SELL
<1>2. /\ s \in {BUY, SELL} /\ Facing = IF s = BUY THEN bids ELSE asks
    BY <1>1 DEF Abstract!Opposite, Abstract!BUY, Abstract!SELL, BUY, SELL, Facing
<1>3. \A r : Abstract!CanFill(r) <=>
          rem[incoming] > 0 /\ Abstract!IsBest(r, s) /\ Abstract!Crosses(incoming, r)
    BY DEF Abstract!CanFill
<1> HIDE DEF s
<1>4. SideOK(Facing, s, attr)
    BY <1>2, SideIds
<1>5. ASSUME NEW r, IsHead(Facing, r)
      PROVE  attr[r].price = Facing[1].price
    <2>1. s \in {BUY, SELL}
        BY <1>2
    <2> QED
        BY <2>1, <1>4, <1>5, HeadFacts, Zenon
<1>6. \A r : Abstract!IsBest(r, s) <=> IsHead(Facing, r)
    BY <1>2, BestIsHead
<1>7. \A r : IsHead(Facing, r) =>
          (Abstract!Crosses(incoming, r) <=> LimitReaches(Facing[1].price))
    BY <1>5 DEF Abstract!Crosses, LimitReaches, Abstract!BUY, BUY
<1>8. \A r : IsHead(Facing, r) => Facing # <<>>
    BY DEF IsHead
<1> QED
    BY <1>3, <1>5, <1>6, <1>7, <1>8, Zenon DEF LoopGuard

\* The attributes of what can rest are not those of an order the engine has not seen.
LEMMA NewIsNotResting ==
    ASSUME BookInv, NEW o, attr[o] = NoAttr
    PROVE  o \notin IdsOf(bids) \cup IdsOf(asks)
<1>1. \A x \in IdsOf(bids) \cup IdsOf(asks) : attr[x].price \in Prices
    BY SideFacts DEF BookInv
<1>2. NoAttr.price \notin Prices
    BY OrderBookBounds DEF NoAttr
<1> QED
    BY <1>1, <1>2

\* A request is not the absence of one, and has a quantity.
LEMMA RequestFacts ==
    ASSUME NEW a \in Request
    PROVE  a # NoAttr /\ a.qty \in Nat
<1>1. a.price \in Prices /\ NoAttr.price = 0 /\ 0 \notin Prices
    BY OrderBookBounds DEF Request, NoAttr
<1>2. a.qty \in Nat
    BY OrderBookBounds DEF Request
<1> QED
    BY <1>1, <1>2

\* The empty book is the empty queue.
LEMMA InitStep ==
    ASSUME Init
    PROVE  BookInv /\ Abstract!Init
<1>1. BookTypeOK
    BY DEF Init, BookTypeOK
<1>2. IdsOf(bids) = {} /\ IdsOf(asks) = {} /\ Before(bids) = {} /\ Before(asks) = {}
    <2>1. IdsOf(bids) = {} /\ IdsOf(asks) = {}
        BY DEF Init, IdsOf
    <2> QED
        BY <2>1 DEF Before
<1>3. SideOK(bids, BUY, attr) /\ SideOK(asks, SELL, attr)
    BY DEF Init, SideOK
<1>4. IncomingOK
    BY DEF Init, IncomingOK
<1> QED
    BY <1>1, <1>2, <1>3, <1>4
    DEF BookInv, Init, Abstract!Init, Abstract!BookInit, Abstract!NoAttr, NoAttr, Abstract!BUY, BUY

\* Start opens the book to commands and leaves it as it was.
LEMMA StartStep ==
    ASSUME BookInv, Start
    PROVE  BookInv' /\ Abstract!Start
<1>1. UNCHANGED <<bids, asks, attr, rem, incoming, fills, seq>>
    BY DEF Start
<1>2. BookInv'
    BY <1>1 DEF BookInv, BookTypeOK, IncomingOK
<1> QED
    BY <1>1, <1>2 DEF Start, Abstract!Start, Abstract!bookVars

\* LoadOrder puts a known order where it belongs.
LEMMA LoadStep ==
    ASSUME BookInv, NEW o \in Orders, NEW a \in Request, LoadOrder(o, a)
    PROVE  BookInv' /\ Abstract!LoadOrder(o, a)
<1>1. /\ attr[o] = NoAttr /\ attr' = [attr EXCEPT ![o] = a]
      /\ rem' = [rem EXCEPT ![o] = a.qty] /\ AddOrder(o, a)
      /\ UNCHANGED <<incoming, fills, seq, started>> /\ ~started
    BY DEF LoadOrder
<1>2. o \notin IdsOf(bids) \cup IdsOf(asks)
    BY <1>1, NewIsNotResting
<1>3. /\ IdsOf(bids) \subseteq Orders /\ IdsOf(asks) \subseteq Orders
    BY SideFacts DEF BookInv
<1>4. /\ attr \in [Orders -> Request \cup {NoAttr}] /\ rem \in [Orders -> Nat]
      /\ incoming \in Orders \cup {None} /\ seq \in Nat
    BY DEF BookInv, BookTypeOK
<1>5. /\ attr' \in [Orders -> Request \cup {NoAttr}] /\ attr'[o] = a
      /\ \A x \in Orders : x # o => attr'[x] = attr[x]
    BY <1>1, <1>4
<1>6. rem' \in [Orders -> Nat]
    BY <1>1, <1>4, RequestFacts
<1>7. /\ SideOK(bids', BUY, attr') /\ SideOK(asks', SELL, attr')
      /\ IdsOf(bids') \cup IdsOf(asks') = (IdsOf(bids) \cup IdsOf(asks)) \cup {o}
      /\ Before(bids') \cup Before(asks') = Abstract!Queued(o, a)
    <2>1. PICK at : at = attr'
        OBVIOUS
    <2>2. at[o] = a /\ \A x \in IdsOf(bids) \cup IdsOf(asks) : at[x] = attr[x]
        BY <2>1, <1>2, <1>3, <1>5
    <2>3. /\ SideOK(bids', BUY, at) /\ SideOK(asks', SELL, at)
          /\ IdsOf(bids') \cup IdsOf(asks') = (IdsOf(bids) \cup IdsOf(asks)) \cup {o}
          /\ Before(bids') \cup Before(asks') = Abstract!Queued(o, a)
        BY <2>2, <1>1, <1>2, AddStep, Zenon
    <2> QED
        BY <2>1, <2>3
<1>8. IncomingOK'
    <2>1. ASSUME incoming # None
          PROVE  attr'[incoming] # NoAttr /\ incoming \notin IdsOf(bids') \cup IdsOf(asks')
        <3>1. attr[incoming] # NoAttr /\ incoming \notin IdsOf(bids) \cup IdsOf(asks)
            BY <2>1 DEF BookInv, IncomingOK
        <3>2. incoming \in Orders /\ incoming # o
            BY <2>1, <3>1, <1>1, <1>4
        <3> QED
            BY <3>1, <3>2, <1>5, <1>7
    <2> QED
        BY <2>1, <1>1 DEF IncomingOK
<1>9. BookInv'
    BY <1>1, <1>4, <1>5, <1>6, <1>7, <1>8 DEF BookInv, BookTypeOK
<1>10. Abstract!LoadOrder(o, a)
    BY <1>1, <1>7, Zenon DEF Abstract!LoadOrder, Abstract!NoAttr, NoAttr, Abstract!BUY, BUY
<1> QED
    BY <1>9, <1>10

\* handlePlace gives Match an order that does not rest.
LEMMA PlaceStep ==
    ASSUME BookInv, NEW o \in Orders, NEW a \in Request, Place(o, a)
    PROVE  BookInv' /\ Abstract!Place(o, a)
<1>1. /\ attr[o] = NoAttr /\ attr' = [attr EXCEPT ![o] = a]
      /\ rem' = [rem EXCEPT ![o] = a.qty] /\ incoming' = o
      /\ UNCHANGED <<bids, asks, fills, seq, started>> /\ started /\ incoming = None
    BY DEF Place
<1>2. o \notin IdsOf(bids) \cup IdsOf(asks)
    BY <1>1, NewIsNotResting
<1>3. IdsOf(bids) \subseteq Orders /\ IdsOf(asks) \subseteq Orders
    BY SideFacts DEF BookInv
<1>4. /\ attr \in [Orders -> Request \cup {NoAttr}] /\ rem \in [Orders -> Nat] /\ seq \in Nat
    BY DEF BookInv, BookTypeOK
<1>5. /\ attr' \in [Orders -> Request \cup {NoAttr}] /\ attr'[o] = a
      /\ \A x \in Orders : x # o => attr'[x] = attr[x]
    BY <1>1, <1>4
<1>6. rem' \in [Orders -> Nat]
    BY <1>1, <1>4, RequestFacts
<1>7. SideOK(bids', BUY, attr') /\ SideOK(asks', SELL, attr')
    <2>1. PICK at : at = attr'
        OBVIOUS
    <2>2. \A x \in IdsOf(bids) \cup IdsOf(asks) : at[x] = attr[x]
        BY <2>1, <1>2, <1>3, <1>5
    <2>3. SideOK(bids, BUY, at) /\ SideOK(asks, SELL, at)
        BY <2>2, SameAttributes DEF BookInv
    <2> QED
        BY <1>1, <2>1, <2>3
<1>8. IncomingOK'
    BY <1>1, <1>2, <1>5, RequestFacts DEF IncomingOK
<1>9. BookInv'
    BY <1>1, <1>4, <1>5, <1>6, <1>7, <1>8 DEF BookInv, BookTypeOK
<1>10. Abstract!Place(o, a)
    BY <1>1 DEF Abstract!Place, Abstract!BeginMatch, Abstract!NoAttr, NoAttr, Abstract!BUY, BUY
<1> QED
    BY <1>9, <1>10

\* handleCancel takes the order from the side it rests on, if any.
LEMMA CancelStep ==
    ASSUME BookInv, NEW o \in Orders, Cancel(o)
    PROVE  BookInv' /\ Abstract!Cancel(o)
<1>1. /\ started /\ incoming = None /\ CancelResting(o) /\ rem' = [rem EXCEPT ![o] = 0]
      /\ UNCHANGED <<attr, incoming, fills, seq, started>>
    BY DEF Cancel
<1>2. SideOK(bids, BUY, attr) /\ SideOK(asks, SELL, attr)
    BY DEF BookInv
<1>3. /\ LevelsOf(bids, o) # {} <=> o \in IdsOf(bids)
      /\ o \in IdsOf(bids) => SideOK(Removed(bids, o), BUY, attr) /\ TakenOut(bids, Removed(bids, o), o)
    <2>1. BUY \in {BUY, SELL}
        OBVIOUS
    <2> QED
        BY <2>1, <1>2, RemovedFacts, Zenon
<1>4. /\ LevelsOf(asks, o) # {} <=> o \in IdsOf(asks)
      /\ o \in IdsOf(asks) => SideOK(Removed(asks, o), SELL, attr) /\ TakenOut(asks, Removed(asks, o), o)
    <2>1. SELL \in {BUY, SELL}
        OBVIOUS
    <2> QED
        BY <2>1, <1>2, RemovedFacts, Zenon
<1>5. /\ SideOK(bids', BUY, attr) /\ SideOK(asks', SELL, attr)
      /\ IdsOf(bids') \cup IdsOf(asks') = (IdsOf(bids) \cup IdsOf(asks)) \ {o}
      /\ Before(bids') \cup Before(asks') = Abstract!Unqueued(o)
    <2>1. CASE o \in IdsOf(bids)
        <3>1. bids' = Removed(bids, o) /\ asks' = asks
            BY <2>1, <1>1, <1>3 DEF CancelResting
        <3>2. SideOK(bids', BUY, attr) /\ TakenOut(bids, bids', o)
            BY <2>1, <3>1, <1>3
        <3> QED
            BY <2>1, <3>1, <3>2, <1>2, TakeStep
    <2>2. CASE o \notin IdsOf(bids) /\ o \in IdsOf(asks)
        <3>1. asks' = Removed(asks, o) /\ bids' = bids
            BY <2>2, <1>1, <1>3, <1>4 DEF CancelResting
        <3>2. SideOK(asks', SELL, attr) /\ TakenOut(asks, asks', o)
            BY <2>2, <3>1, <1>4
        <3> QED
            BY <2>2, <3>1, <3>2, <1>2, TakeStep
    <2>3. CASE o \notin IdsOf(bids) /\ o \notin IdsOf(asks)
        <3>1. bids' = bids /\ asks' = asks
            BY <2>3, <1>1, <1>3, <1>4 DEF CancelResting
        <3>2. \A p \in Before(bids) \cup Before(asks) : p[1] # o /\ p[2] # o
            BY <2>3 DEF Before
        <3> QED
            BY <2>3, <3>1, <3>2, <1>2 DEF Abstract!Unqueued
    <2> QED
        BY <2>1, <2>2, <2>3
<1>6. /\ attr \in [Orders -> Request \cup {NoAttr}] /\ rem \in [Orders -> Nat]
      /\ incoming \in Orders \cup {None} /\ seq \in Nat
    BY DEF BookInv, BookTypeOK
<1>7. rem' \in [Orders -> Nat]
    BY <1>1, <1>6
<1>8. BookInv'
    BY <1>1, <1>5, <1>6, <1>7 DEF BookInv, BookTypeOK, IncomingOK
<1>9. Abstract!Cancel(o)
    BY <1>1, <1>5, Zenon DEF Abstract!Cancel, Abstract!CancelResting
<1> QED
    BY <1>8, <1>9

\* An iteration of Match trades with the best order, and pops it when it is filled.
LEMMA MatchStep ==
    ASSUME BookInv, MatchOne
    PROVE  BookInv' /\ Abstract!Match
<1> DEFINE r == Facing[1].orders[1]
<1> DEFINE q == Lesser(rem[incoming], rem[r])
<1> DEFINE left == IF rem[r] = q THEN Popped(Facing) ELSE Facing
<1> DEFINE book == IdsOf(bids) \cup IdsOf(asks)
<1>1. /\ incoming # None /\ LoopGuard /\ seq' = seq + 1
      /\ rem' = [rem EXCEPT ![incoming] = @ - q, ![r] = @ - q]
      /\ UNCHANGED <<attr, incoming, started>>
    BY DEF MatchOne
<1>2. \/ /\ attr[incoming].side = BUY
         /\ fills' = fills \cup {[buy |-> incoming, sell |-> r,
                                  price |-> Facing[1].price, qty |-> q, seq |-> seq + 1]}
         /\ asks' = left /\ bids' = bids
      \/ /\ attr[incoming].side = SELL
         /\ fills' = fills \cup {[buy |-> r, sell |-> incoming,
                                  price |-> Facing[1].price, qty |-> q, seq |-> seq + 1]}
         /\ bids' = left /\ asks' = asks
    BY DEF MatchOne
<1>3. IsHead(Facing, r) /\ Facing # <<>>
    BY <1>1 DEF LoopGuard, IsHead
<1> HIDE DEF r
<1>4. Abstract!CanFill(r) /\ attr[r].price = Facing[1].price
    BY <1>1, <1>3, GuardFacts
<1>5. /\ attr \in [Orders -> Request \cup {NoAttr}] /\ rem \in [Orders -> Nat]
      /\ incoming \in Orders /\ seq \in Nat
      /\ SideOK(bids, BUY, attr) /\ SideOK(asks, SELL, attr)
      /\ incoming \notin book /\ attr[incoming] # NoAttr
    BY <1>1 DEF BookInv, BookTypeOK, IncomingOK
<1>6. q = Abstract!FillQty(r)
    BY DEF Abstract!FillQty, Abstract!Lesser, Lesser
<1>7. /\ r \in IdsOf(Facing) /\ IdsOf(Facing) \subseteq book /\ r \in Orders /\ r # incoming
      /\ attr[incoming].side = BUY =>
             /\ SideOK(Popped(Facing), SELL, attr) /\ TakenOut(asks, Popped(Facing), r)
             /\ r \in IdsOf(asks) /\ Facing = asks
      /\ attr[incoming].side # BUY =>
             /\ SideOK(Popped(Facing), BUY, attr) /\ TakenOut(bids, Popped(Facing), r)
             /\ r \in IdsOf(bids) /\ Facing = bids
    <2>1. IdsOf(bids) \subseteq Orders /\ IdsOf(asks) \subseteq Orders
        BY <1>5, SideFacts
    <2>2. CASE attr[incoming].side = BUY
        <3>1. Facing = asks /\ SELL \in {BUY, SELL} /\ IsHead(asks, r)
            BY <2>2, <1>3 DEF Facing
        <3>2. SideOK(Popped(asks), SELL, attr) /\ TakenOut(asks, Popped(asks), r) /\ r \in IdsOf(asks)
            BY <3>1, <1>5, HeadFacts, Zenon
        <3> QED
            BY <2>1, <2>2, <3>1, <3>2, <1>5
    <2>3. CASE attr[incoming].side # BUY
        <3>1. Facing = bids /\ BUY \in {BUY, SELL} /\ IsHead(bids, r)
            BY <2>3, <1>3 DEF Facing
        <3>2. SideOK(Popped(bids), BUY, attr) /\ TakenOut(bids, Popped(bids), r) /\ r \in IdsOf(bids)
            BY <3>1, <1>5, HeadFacts, Zenon
        <3> QED
            BY <2>1, <2>3, <3>1, <3>2, <1>5
    <2> QED
        BY <2>2, <2>3
<1>8. fills' = fills \cup {Abstract!NewTrade(r)}
    <2>1. CASE attr[incoming].side = BUY
        BY <2>1, <1>2, <1>4, <1>6 DEF Abstract!NewTrade, Abstract!BUY, BUY, SELL
    <2>2. CASE attr[incoming].side = SELL
        BY <2>2, <1>2, <1>4, <1>6 DEF Abstract!NewTrade, Abstract!BUY, BUY, SELL
    <2> QED
        BY <2>1, <2>2, <1>2
<1>9. rem' \in [Orders -> Nat]
    <2>1. /\ rem[incoming] \in Nat /\ rem[r] \in Nat
          /\ rem[incoming] - q \in Nat /\ rem[r] - q \in Nat
        BY <1>5, <1>7 DEF Lesser
    <2> HIDE DEF q
    <2>2. rem' = [[rem EXCEPT ![incoming] = rem[incoming] - q] EXCEPT ![r] = rem[r] - q]
        BY <1>1, <1>7
    <2> QED
        BY <2>1, <2>2, <1>5, <1>7
<1> HIDE DEF q
<1>10. /\ SideOK(bids', BUY, attr) /\ SideOK(asks', SELL, attr)
       /\ \/ /\ rem[r] = q
             /\ IdsOf(bids') \cup IdsOf(asks') = book \ {r}
             /\ Before(bids') \cup Before(asks') = Abstract!Unqueued(r)
          \/ rem[r] # q /\ bids' = bids /\ asks' = asks
    <2>1. CASE rem[r] # q
        BY <2>1, <1>2, <1>5, <1>7 DEF BUY, SELL
    <2>2. CASE rem[r] = q
        <3>1. /\ SideOK(bids', BUY, attr) /\ SideOK(asks', SELL, attr)
              /\ \/ TakenOut(bids, bids', r) /\ asks' = asks /\ r \in IdsOf(bids)
                 \/ TakenOut(asks, asks', r) /\ bids' = bids /\ r \in IdsOf(asks)
            BY <2>2, <1>2, <1>5, <1>7 DEF BUY, SELL
        <3>2. /\ IdsOf(bids') \cup IdsOf(asks') = book \ {r}
              /\ Before(bids') \cup Before(asks') = Abstract!Unqueued(r)
            BY <3>1, TakeStep
        <3> QED
            BY <2>2, <3>1, <3>2
    <2> QED
        BY <2>1, <2>2
<1>11. IncomingOK'
    <2>1. IdsOf(bids') \cup IdsOf(asks') \subseteq book
        BY <1>10
    <2> QED
        BY <2>1, <1>1, <1>5 DEF IncomingOK
<1>12. BookInv'
    BY <1>1, <1>5, <1>9, <1>10, <1>11 DEF BookInv, BookTypeOK
<1>13. Abstract!MatchOne
    <2>1. r \in book
        BY <1>7
    <2>2. rem' = [rem EXCEPT ![incoming] = @ - Abstract!FillQty(r), ![r] = @ - Abstract!FillQty(r)]
        BY <1>1, <1>6
    <2>3. \/ /\ rem[r] = Abstract!FillQty(r)
             /\ IdsOf(bids') \cup IdsOf(asks') = book \ {r}
             /\ Before(bids') \cup Before(asks') = Abstract!Unqueued(r)
          \/ /\ rem[r] # Abstract!FillQty(r)
             /\ IdsOf(bids') \cup IdsOf(asks') = book
             /\ Before(bids') \cup Before(asks') = Before(bids) \cup Before(asks)
        BY <1>6, <1>10
    <2> QED
        BY <2>1, <2>2, <2>3, <1>1, <1>4, <1>8, Zenon DEF Abstract!MatchOne
<1> QED
    BY <1>1, <1>12, <1>13 DEF Abstract!Match

\* Match returns when no order can be filled, and lets the remainder rest.
LEMMA FinishStep ==
    ASSUME BookInv, FinishMatch
    PROVE  BookInv' /\ Abstract!Match
<1> DEFINE book == IdsOf(bids) \cup IdsOf(asks)
<1>1. /\ incoming # None /\ ~LoopGuard
      /\ \/ rem[incoming] > 0 /\ AddOrder(incoming, attr[incoming])
         \/ rem[incoming] = 0 /\ bids' = bids /\ asks' = asks
      /\ incoming' = None /\ fills' = {}
      /\ UNCHANGED <<attr, rem, seq, started>>
    BY DEF FinishMatch
<1>2. /\ attr \in [Orders -> Request \cup {NoAttr}] /\ rem \in [Orders -> Nat]
      /\ incoming \in Orders /\ seq \in Nat
      /\ SideOK(bids, BUY, attr) /\ SideOK(asks, SELL, attr)
      /\ incoming \notin book /\ attr[incoming] # NoAttr
    BY <1>1 DEF BookInv, BookTypeOK, IncomingOK
<1>3. \A r \in book : ~Abstract!CanFill(r)
    BY <1>1, GuardFacts
<1>4. attr[incoming] \in Request
    BY <1>2
<1>5. /\ SideOK(bids', BUY, attr) /\ SideOK(asks', SELL, attr)
      /\ \/ /\ rem[incoming] > 0
            /\ IdsOf(bids') \cup IdsOf(asks') = book \cup {incoming}
            /\ Before(bids') \cup Before(asks') = Abstract!Queued(incoming, attr[incoming])
         \/ /\ rem[incoming] = 0
            /\ IdsOf(bids') \cup IdsOf(asks') = book
            /\ Before(bids') \cup Before(asks') = Before(bids) \cup Before(asks)
    <2>1. CASE rem[incoming] > 0 /\ AddOrder(incoming, attr[incoming])
        <3>1. PICK at, i, a : at = attr /\ i = incoming /\ a = attr[incoming]
            OBVIOUS
        <3>2. i \in Orders /\ i \notin IdsOf(bids) \cup IdsOf(asks) /\ a \in Request /\ at[i] = a
            BY <3>1, <1>2, <1>4
        <3>3. AddOrder(i, a) /\ \A x \in IdsOf(bids) \cup IdsOf(asks) : at[x] = attr[x]
            BY <2>1, <3>1
        <3>4. /\ SideOK(bids', BUY, at) /\ SideOK(asks', SELL, at)
              /\ IdsOf(bids') \cup IdsOf(asks') = (IdsOf(bids) \cup IdsOf(asks)) \cup {i}
              /\ Before(bids') \cup Before(asks') = Abstract!Queued(i, a)
            BY <3>2, <3>3, AddStep, Zenon
        <3> QED
            BY <2>1, <3>1, <3>4
    <2>2. CASE rem[incoming] = 0 /\ bids' = bids /\ asks' = asks
        BY <2>2, <1>2
    <2> QED
        BY <2>1, <2>2, <1>1
<1>6. BookInv'
    BY <1>1, <1>2, <1>5 DEF BookInv, BookTypeOK, IncomingOK
<1>7. Abstract!FinishMatch
    BY <1>1, <1>3, <1>5, Zenon DEF Abstract!FinishMatch
<1> QED
    BY <1>1, <1>6, <1>7 DEF Abstract!Match

\* No order facing one that the loop has left can trade with it.
LEMMA NothingReached ==
    ASSUME BookInv, incoming # None, ~LoopGuard, rem[incoming] > 0
    PROVE  /\ attr[incoming].side = BUY =>
                 \A x \in IdsOf(asks) : attr[incoming].price < attr[x].price
           /\ attr[incoming].side = SELL =>
                 \A x \in IdsOf(bids) : attr[x].price < attr[incoming].price
<1>1. SideOK(bids, BUY, attr) /\ SideOK(asks, SELL, attr) /\ BUY # SELL
    BY DEF BookInv, BUY, SELL
<1>2. attr[incoming].price \in Nat
    <2>1. attr[incoming] \in Request
        BY DEF BookInv, BookTypeOK, IncomingOK
    <2>2. attr[incoming].price \in Prices
        BY <2>1 DEF Request
    <2> QED
        BY <2>2, OrderBookBounds
<1>3. ASSUME NEW s \in {BUY, SELL}, NEW L, SideOK(L, s, attr), NEW x \in IdsOf(L)
      PROVE  /\ L # <<>> /\ L[1].price \in Nat /\ attr[x].price \in Nat
             /\ ~Better(s, attr[x].price, L[1].price)
    <2>1. L # <<>> /\ L \in Seq(PriceLevel)
        BY <1>3 DEF IdsOf, SideOK
    <2>2. PICK h : IsHead(L, h)
        BY <2>1 DEF IsHead
    <2>3. ~Better(s, attr[x].price, L[1].price)
        BY <1>3, <2>2, HeadFacts, Zenon
    <2>4. attr[x].price \in Nat
        BY <1>3, SideFacts, OrderBookBounds
    <2>5. L[1].price \in Nat
        <3>1. 1 \in DOMAIN L
            BY <2>1
        <3> QED
            BY <2>1, <3>1, LevelFacts, OrderBookBounds
    <2> QED
        BY <2>1, <2>3, <2>4, <2>5
<1>4. ASSUME attr[incoming].side = BUY, NEW x \in IdsOf(asks)
      PROVE  attr[incoming].price < attr[x].price
    <2>1. /\ asks # <<>> /\ asks[1].price \in Nat /\ attr[x].price \in Nat
          /\ ~Better(SELL, attr[x].price, asks[1].price)
        BY <1>1, <1>3
    <2>2. ~(attr[incoming].price >= asks[1].price)
        BY <1>4, <2>1 DEF LoopGuard, Facing, LimitReaches
    <2> QED
        BY <1>1, <1>2, <2>1, <2>2 DEF Better
<1>5. ASSUME attr[incoming].side = SELL, NEW x \in IdsOf(bids)
      PROVE  attr[x].price < attr[incoming].price
    <2>1. /\ bids # <<>> /\ bids[1].price \in Nat /\ attr[x].price \in Nat
          /\ ~Better(BUY, attr[x].price, bids[1].price)
        BY <1>1, <1>3
    <2>2. ~(attr[incoming].price <= bids[1].price)
        BY <1>1, <1>5, <2>1 DEF LoopGuard, Facing, LimitReaches
    <2> QED
        BY <1>1, <1>2, <2>1, <2>2 DEF Better
<1> QED
    BY <1>4, <1>5

\* So the order that Match lets rest does not cross the other side.
LEMMA UncrossedStep ==
    ASSUME BookInv, Next, incoming # None, incoming' = None,
           NEW b \in IdsOf(bids'), NEW s \in IdsOf(asks'), incoming \in {b, s}
    PROVE  attr[b].price < attr[s].price
<1>1. FinishMatch
    BY DEF Next, Start, MatchOne, Cancel, LoadOrder, Place
<1>2. BookInv'
    BY <1>1, FinishStep
<1>3. attr' = attr
    BY <1>1 DEF FinishMatch
<1>4. attr[b].side = BUY /\ attr[s].side = SELL
    <2>1. SideOK(bids', BUY, attr) /\ SideOK(asks', SELL, attr)
        BY <1>2, <1>3 DEF BookInv
    <2> QED
        BY <2>1, SideFacts
<1>5. incoming \notin IdsOf(bids) \cup IdsOf(asks)
    BY DEF BookInv, IncomingOK
<1>6. rem[incoming] > 0 /\ AddOrder(incoming, attr[incoming]) /\ ~LoopGuard
    BY <1>1, <1>5 DEF FinishMatch
<1>7. CASE incoming = b
    <2>1. asks' = asks
        BY <1>4, <1>6, <1>7 DEF AddOrder, BUY, SELL
    <2> QED
        BY <2>1, <1>4, <1>6, <1>7, NothingReached
<1>8. CASE incoming = s
    <2>1. bids' = bids
        BY <1>4, <1>6, <1>8 DEF AddOrder, BUY, SELL
    <2> QED
        BY <2>1, <1>4, <1>6, <1>8, NothingReached
<1> QED
    BY <1>7, <1>8

\* A step of the book is a step of the queue.
LEMMA NextStep ==
    ASSUME BookInv, Next
    PROVE  BookInv' /\ Abstract!Next
<1>1. ASSUME NEW o \in Orders, Cancel(o)
      PROVE  BookInv' /\ Abstract!Next
    BY <1>1, CancelStep, Zenon DEF Abstract!Next
<1>2. ASSUME NEW o \in Orders, NEW a \in Request, LoadOrder(o, a)
      PROVE  BookInv' /\ Abstract!Next
    <2>1. BookInv' /\ Abstract!LoadOrder(o, a) /\ a \in Abstract!Request
        BY <1>2, LoadStep DEF Request, Abstract!Request, Abstract!Sides, Abstract!BUY, Abstract!SELL, BUY, SELL
    <2> QED
        BY <2>1, Zenon DEF Abstract!Next
<1>3. ASSUME NEW o \in Orders, NEW a \in Request, Place(o, a)
      PROVE  BookInv' /\ Abstract!Next
    <2>1. BookInv' /\ Abstract!Place(o, a) /\ a \in Abstract!Request
        BY <1>3, PlaceStep DEF Request, Abstract!Request, Abstract!Sides, Abstract!BUY, Abstract!SELL, BUY, SELL
    <2> QED
        BY <2>1, Zenon DEF Abstract!Next
<1>4. ASSUME MatchOne \/ FinishMatch \/ Start
      PROVE  BookInv' /\ Abstract!Next
    BY <1>4, MatchStep, FinishStep, StartStep, Zenon DEF Abstract!Next
<1> QED
    BY <1>1, <1>2, <1>3, <1>4, Zenon DEF Next

\* A step that leaves the book alone leaves the queue alone.
LEMMA StutterStep ==
    ASSUME BookInv, UNCHANGED vars
    PROVE  BookInv' /\ UNCHANGED Abstract!vars
<1>1. UNCHANGED <<bids, asks, attr, rem, incoming, fills, seq, started>>
    BY DEF vars
<1>2. BookInv'
    BY <1>1 DEF BookInv, BookTypeOK, IncomingOK
<1> QED
    BY <1>1, <1>2 DEF Abstract!vars

-----------------------------------------------------------------------------
\* Each side of the book stays sorted, without empty levels, and with every order at
\* its own price, once (addBid, addAsk, removeFirst and the loops of Cancel).
THEOREM BookInvariant == Spec => []BookInv
<1>1. Init => BookInv
    BY InitStep
<1>2. BookInv /\ [Next]_vars => BookInv'
    BY NextStep, StutterStep
<1> QED
    BY <1>1, <1>2, PTL DEF Spec

\* The slices of price levels behave as the price-time priority queue of BookSpec:
\* every step of book.go is a step of it.
THEOREM BookRefinement == Spec => Refinement
<1>1. Init => Abstract!Init
    BY InitStep
<1>2. BookInv /\ [Next]_vars => [Abstract!Next]_(Abstract!vars)
    BY NextStep, StutterStep
<1> QED
    BY <1>1, <1>2, BookInvariant, PTL DEF Spec, Refinement, Abstract!Spec

\* When Match returns, the order it worked on does not rest crossed.
THEOREM MatchUncrosses == Spec => Uncrossed
<1>1. BookInv /\ [Next]_vars =>
          [incoming # None /\ incoming' = None =>
              \A b \in IdsOf(bids'), s \in IdsOf(asks') :
                 incoming \in {b, s} => attr[b].price < attr[s].price]_vars
    BY UncrossedStep
<1> QED
    BY <1>1, BookInvariant, PTL DEF Spec, Uncrossed
=============================================================================
