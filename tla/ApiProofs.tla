----------------------------- MODULE ApiProofs ------------------------------
(***************************************************************************)
(* Proofs about the two ways in which the API shows rows and events to its *)
(* clients.  WsFeed, for any clients, bridges and length of the queues:    *)
(* the order of unregister and close, and the hub's mutex, keep Publish    *)
(* from sending on a closed queue.  Listing, for any rows, limits and      *)
(* filter: what a walk through the pages misses and repeats is the work of *)
(* a tie, a deletion, an insertion or a misread limit, and the total of    *)
(* the ledger covers its page.                                             *)
(***************************************************************************)
EXTENDS WsFeed, Listing, FiniteSetTheorems, TLAPS

-----------------------------------------------------------------------------
(* The WebSocket feed *)

BridgeState == [jobs : Seq(Topics), todo : SUBSET Clients, sending : BOOLEAN]

WsTypeOK ==
    /\ clients \subseteq Clients /\ closed \subseteq Clients
    /\ topics \in [Clients -> SUBSET Topics]
    /\ out \in [Clients -> Seq(Topics)]
    /\ conn \in [Clients -> {"none", "open", "broken"}]
    /\ reader \in [Clients -> {"none", "reading", "unregistering", "closing", "ended"}]
    /\ bridge \in [Bridges -> BridgeState]

\* The reader's program counter says what has become of its client: it is in the hub
\* until it is unregistered, and its queue is open until the reader has ended.
ReaderOwnsClient ==
    \A c \in Clients :
        /\ c \in clients => reader[c] \in {"reading", "unregistering"}
        /\ c \in closed => reader[c] = "ended"
        /\ reader[c] = "none" <=> conn[c] = "none"

\* Publish only has registered clients before it: the hub does not change under it.
TodoIsRegistered ==
    \A b \in Bridges :
        IF bridge[b].sending THEN bridge[b].todo \subseteq clients /\ bridge[b].jobs # <<>>
                             ELSE bridge[b].todo = {}

WsInv == WsTypeOK /\ ReaderOwnsClient /\ TodoIsRegistered /\ NoSendOnClosedQueue

-----------------------------------------------------------------------------
\* At the start there are no clients.
LEMMA WsInitInv == Init => WsInv
<1> SUFFICES ASSUME Init PROVE WsInv
    OBVIOUS
<1>1. IdleBridge \in BridgeState /\ ~IdleBridge.sending /\ IdleBridge.todo = {}
    BY DEF IdleBridge, BridgeState
<1>2. bridge \in [Bridges -> BridgeState] /\ TodoIsRegistered
    BY <1>1 DEF Init, TodoIsRegistered
<1>3. out \in [Clients -> Seq(Topics)]
    BY DEF Init
<1> QED
    BY <1>2, <1>3 DEF Init, WsInv, WsTypeOK, ReaderOwnsClient, NoSendOnClosedQueue

\* The lists of topics that an event is published to.
LEMMA TopicLists ==
    ASSUME NEW S, NEW x \in S, NEW y \in S
    PROVE  <<x, y, y>> \in Seq(S) /\ <<y>> \in Seq(S)
OBVIOUS

\* A client that Publish has before it is registered, so its queue is open.
LEMMA OfferedIsOpen ==
    ASSUME WsInv, NEW b \in Bridges, NEW c \in Clients, bridge[b].sending, c \in bridge[b].todo
    PROVE  c \notin closed
BY DEF WsInv, ReaderOwnsClient, TodoIsRegistered

\* What a step of the bridge b has to show.
LEMMA OneBridge ==
    ASSUME WsInv, NEW b \in Bridges,
           bridge' \in [Bridges -> BridgeState],
           \A q \in Bridges : q # b => bridge'[q] = bridge[q],
           IF bridge'[b].sending THEN bridge'[b].todo \subseteq clients /\ bridge'[b].jobs # <<>>
                                 ELSE bridge'[b].todo = {},
           UNCHANGED <<clients, topics, closed, conn, reader, panicked>>,
           out' \in [Clients -> Seq(Topics)]
    PROVE  WsInv'
<1> USE DEF WsInv, WsTypeOK
<1>1. TodoIsRegistered'
    BY DEF TodoIsRegistered
<1> QED
    BY <1>1 DEF ReaderOwnsClient, NoSendOnClosedQueue

\* The bridge's own steps keep the invariant; Offer sends on open queues only.
LEMMA BridgeStepInv ==
    ASSUME WsInv, NEW b \in Bridges, Publish(b) \/ \E type \in EventTypes : OnEvent(b, type)
    PROVE  WsInv'
<1>1. /\ bridge \in [Bridges -> BridgeState] /\ out \in [Clients -> Seq(Topics)]
      /\ IF bridge[b].sending THEN bridge[b].todo \subseteq clients /\ bridge[b].jobs # <<>>
                              ELSE bridge[b].todo = {}
      /\ clients \in SUBSET Clients
    BY DEF WsInv, WsTypeOK, TodoIsRegistered
<1>2. ASSUME NEW type \in EventTypes, OnEvent(b, type)
      PROVE  WsInv'
    <2>1. Published(type) \in Seq(Topics)
        <3>1. "trades" \in Topics /\ "orderbook" \in Topics
            BY DEF Topics
        <3>2. <<"trades", "orderbook", "orderbook">> \in Seq(Topics) /\ <<"orderbook">> \in Seq(Topics)
            BY <3>1, TopicLists
        <3> QED
            BY <3>2 DEF Published
    <2>2. /\ bridge' \in [Bridges -> BridgeState]
          /\ \A q \in Bridges : q # b => bridge'[q] = bridge[q]
          /\ ~bridge'[b].sending /\ bridge'[b].todo = {}
        <3>1. ~bridge[b].sending /\ bridge[b].todo = {}
            BY <1>2 DEF OnEvent, IdleBridge
        <3>2. bridge' = [bridge EXCEPT ![b].jobs = Published(type)]
            BY <1>2 DEF OnEvent
        <3> QED
            BY <1>1, <2>1, <3>1, <3>2 DEF BridgeState
    <2>3. UNCHANGED <<clients, topics, closed, conn, reader, panicked, out>>
        BY <1>2 DEF OnEvent
    <2> QED
        BY <1>1, <2>2, <2>3, OneBridge
<1>3. ASSUME BeginPublish(b)
      PROVE  WsInv'
    <2>1. /\ bridge' \in [Bridges -> BridgeState]
          /\ \A q \in Bridges : q # b => bridge'[q] = bridge[q]
          /\ bridge'[b].sending /\ bridge'[b].todo = clients /\ bridge'[b].jobs # <<>>
        BY <1>1, <1>3 DEF BeginPublish, BridgeState
    <2>2. UNCHANGED <<clients, topics, closed, conn, reader, panicked, out>>
        BY <1>3 DEF BeginPublish
    <2> QED
        BY <1>1, <2>1, <2>2, OneBridge
<1>4. ASSUME NEW c \in Clients, Offer(b, c)
      PROVE  WsInv'
    <2>1. c \notin closed /\ panicked = FALSE
        BY <1>4, OfferedIsOpen DEF Offer, WsInv, NoSendOnClosedQueue
    <2>2. panicked' = panicked /\ UNCHANGED <<clients, topics, closed, conn, reader>>
        BY <1>4, <2>1 DEF Offer, Send
    <2>3. out' \in [Clients -> Seq(Topics)]
        <3>1. CASE Head(bridge[b].jobs) \in topics[c]
            <4>1. Head(bridge[b].jobs) \in Topics
                BY <3>1 DEF WsInv, WsTypeOK
            <4>2. Append(out[c], Head(bridge[b].jobs)) \in Seq(Topics)
                BY <1>1, <4>1
            <4> QED
                BY <1>1, <1>4, <3>1, <4>2 DEF Offer, Send
        <3>2. CASE Head(bridge[b].jobs) \notin topics[c]
            BY <1>1, <1>4, <3>2 DEF Offer
        <3> QED
            BY <3>1, <3>2
    <2>4. /\ bridge' \in [Bridges -> BridgeState]
          /\ \A q \in Bridges : q # b => bridge'[q] = bridge[q]
          /\ bridge'[b].sending /\ bridge'[b].todo \subseteq clients /\ bridge'[b].jobs # <<>>
        BY <1>1, <1>4 DEF Offer, BridgeState
    <2> QED
        BY <2>2, <2>3, <2>4, OneBridge
<1>5. ASSUME EndPublish(b)
      PROVE  WsInv'
    <2>1. Tail(bridge[b].jobs) \in Seq(Topics)
        <3>1. bridge[b].jobs \in Seq(Topics) /\ bridge[b].jobs # <<>>
            BY <1>1, <1>5 DEF BridgeState, EndPublish
        <3> QED
            BY <3>1
    <2>2. /\ bridge' \in [Bridges -> BridgeState]
          /\ \A q \in Bridges : q # b => bridge'[q] = bridge[q]
          /\ ~bridge'[b].sending /\ bridge'[b].todo = {}
        BY <1>1, <1>5, <2>1 DEF EndPublish, BridgeState
    <2>3. UNCHANGED <<clients, topics, closed, conn, reader, panicked, out>>
        BY <1>5 DEF EndPublish
    <2> QED
        BY <1>1, <2>2, <2>3, OneBridge
<1> QED
    BY <1>2, <1>3, <1>4, <1>5 DEF Publish

\* The steps of a client's goroutines and of its peer keep the invariant; the hub
\* changes only while nobody publishes.
LEMMA ClientStepInv ==
    ASSUME WsInv, NEW c \in Clients,
           \/ Connect(c) \/ Break(c) \/ ReadFails(c) \/ Unregister(c) \/ CloseOut(c) \/ Writer(c)
           \/ \E topic \in Topics : ReadOp(c, topic)
    PROVE  WsInv'
<1> USE DEF WsInv, WsTypeOK, ReaderOwnsClient, TodoIsRegistered, NoSendOnClosedQueue
<1>1. CASE Connect(c)
    BY <1>1 DEF Connect, NoReadLock
<1>2. CASE Break(c)
    BY <1>2 DEF Break
<1>3. CASE ReadFails(c)
    BY <1>3 DEF ReadFails
<1>4. CASE Unregister(c)
    BY <1>4 DEF Unregister, NoReadLock
<1>5. CASE CloseOut(c)
    BY <1>5 DEF CloseOut
<1>6. CASE Write(c)
    BY <1>6 DEF Write
<1>7. CASE EndWriter(c)
    BY <1>7 DEF EndWriter
<1>8. ASSUME NEW topic \in Topics, ReadOp(c, topic)
      PROVE  WsInv'
    BY <1>8 DEF ReadOp
<1> QED
    BY <1>1, <1>2, <1>3, <1>4, <1>5, <1>6, <1>7, <1>8 DEF Writer

\* The invariant of the feed.
THEOREM WsInvariantHolds == Spec => []WsInv
<1>1. WsInv /\ [Next]_vars => WsInv'
    <2> SUFFICES ASSUME WsInv, [Next]_vars PROVE WsInv'
        OBVIOUS
    <2>1. CASE UNCHANGED vars
        BY <2>1 DEF vars, WsInv, WsTypeOK, ReaderOwnsClient, TodoIsRegistered, NoSendOnClosedQueue
    <2> QED
        BY <2>1, BridgeStepInv, ClientStepInv DEF Next
<1> QED
    BY WsInitInv, <1>1, PTL DEF Spec

\* No goroutine ever sends on a queue that a reader has closed.
THEOREM NeverSendsOnClosed == Spec => []NoSendOnClosedQueue
<1>1. WsInv => NoSendOnClosedQueue
    BY DEF WsInv
<1> QED
    BY <1>1, WsInvariantHolds, PTL

-----------------------------------------------------------------------------
(* The paginated lists *)

ListingTypeOK ==
    /\ list \in Lists
    /\ window \in [from : Nat, to : Nat] /\ asked \in Nat /\ now \in Nat \ {0}
    /\ createdAt \in [Rows -> Nat]
    /\ rows \subseteq Rows /\ removed \subseteq Rows /\ present \subseteq Rows
    /\ phase \in {"idle", "asking", "counting", "answered", "done"}
    /\ offset \in Nat
    /\ items \in Seq(Rows) /\ seen \in Seq(Rows)

\* A row has its time before it is committed, and only a list that shrinks loses rows.
RowsHaveTimes ==
    /\ \A r \in rows \cup removed : createdAt[r] > 0
    /\ removed # {} => list.shrinks
    /\ phase = "idle" => present = {} /\ joined = {} /\ seen = <<>>
    /\ removed = {} => present \subseteq Listed
    /\ present \cup Range(items) \cup Range(seen) \subseteq rows \cup removed

Holding == phase \in {"counting", "answered"}

\* What the walk has shown, the page in the client's hands included.
Walked == IF Holding THEN seen \o items ELSE seen

\* The next page begins where the last one has ended.
PagesMeet ==
    /\ phase # "done" => offset = Len(seen)
    /\ Holding => Len(items) <= ParsePagination(asked)

Above(r) == {s \in Listed : ComesBefore(s, r)}

\* Unless a row has come in, no row stands further down the list than where it was shown.
ShownInPlace ==
    \A i \in DOMAIN Walked :
        joined # {} \/ Tied(Walked[i]) \/ Cardinality(Above(Walked[i])) < i

NotRepeated ==
    \A i, j \in DOMAIN Walked :
        i # j /\ Walked[i] = Walked[j] => joined # {} \/ Tied(Walked[i])

\* A row that has not been shown is still to come: it stands behind what was shown,
\* and the page was full.
StillToCome(r) ==
    /\ phase # "done"
    /\ Cardinality(Above(r)) >= Len(Walked)
    /\ Holding => Len(items) >= ParsePagination(asked)

NothingPassedOver ==
    removed = {} /\ ~Misread =>
        \A r \in present : Tied(r) \/ r \in Range(Walked) \/ StillToCome(r)

\* The rows are counted after the page was read, and no row has left the ledger since.
TotalWillCover ==
    /\ phase = "counting" /\ list.counted /\ items # <<>> => offset + Len(items) <= Cardinality(Listed)
    /\ TotalCoversPage

ListingInv ==
    /\ ListingTypeOK /\ RowsHaveTimes /\ PagesMeet /\ ShownInPlace
    /\ NotRepeated /\ NothingPassedOver /\ TotalWillCover

-----------------------------------------------------------------------------
(* Pages of a sorted list *)

\* The smaller of two numbers.
LEMMA MinOfTwo ==
    ASSUME NEW a \in Nat, NEW b \in Nat
    PROVE  Min({a, b}) = IF a <= b THEN a ELSE b
<1> DEFINE m == IF a <= b THEN a ELSE b
<1>1. m \in {a, b} /\ \A y \in {a, b} : m <= y
    OBVIOUS
<1>2. Min({a, b}) \in {a, b} /\ \A y \in {a, b} : Min({a, b}) <= y
    BY <1>1 DEF Min
<1> QED
    BY <1>1, <1>2

\* A limit is a positive number, and what is asked for when it is in range.
LEMMA LimitFacts ==
    ASSUME ListingTypeOK
    PROVE  /\ ParsePagination(asked) \in Nat \ {0}
           /\ asked \in 1..MaxLimit => ParsePagination(asked) = asked
           /\ asked > MaxLimit => ParsePagination(asked) < asked
BY ListingBounds DEF ListingTypeOK, ParsePagination

\* The elements of two sequences put together.
LEMMA ConcatFacts ==
    ASSUME NEW S, NEW s \in Seq(S), NEW t \in Seq(S)
    PROVE  /\ s \o t \in Seq(S) /\ Len(s \o t) = Len(s) + Len(t)
           /\ \A i \in DOMAIN s : i \in DOMAIN (s \o t) /\ (s \o t)[i] = s[i]
           /\ \A j \in DOMAIN t : Len(s) + j \in DOMAIN (s \o t) /\ (s \o t)[Len(s) + j] = t[j]
           /\ \A i \in DOMAIN (s \o t) : i \in DOMAIN s \/ \E j \in DOMAIN t : i = Len(s) + j
           /\ Range(s \o t) = Range(s) \cup Range(t)
<1>1. s \o t \in Seq(S) /\ Len(s \o t) = Len(s) + Len(t) /\ Len(s) \in Nat /\ Len(t) \in Nat
    OBVIOUS
<1>2. \A i \in DOMAIN s : i \in DOMAIN (s \o t) /\ (s \o t)[i] = s[i]
    OBVIOUS
<1>3. \A j \in DOMAIN t : Len(s) + j \in DOMAIN (s \o t) /\ (s \o t)[Len(s) + j] = t[j]
    OBVIOUS
<1>4. ASSUME NEW i \in DOMAIN (s \o t)
      PROVE  i \in DOMAIN s \/ \E j \in DOMAIN t : i = Len(s) + j
  <2>1. i \in Nat /\ i >= 1 /\ i <= Len(s) + Len(t)
    BY <1>1
  <2>2. CASE i <= Len(s)
    BY <2>1, <2>2
  <2>3. CASE i > Len(s)
    <3>1. i - Len(s) \in DOMAIN t /\ i = Len(s) + (i - Len(s))
      BY <1>1, <2>1, <2>3
    <3> QED
      BY <3>1
  <2> QED
    BY <1>1, <2>1, <2>2, <2>3
<1>5. Range(s \o t) = Range(s) \cup Range(t)
  <2>1. Range(s \o t) \subseteq Range(s) \cup Range(t)
    BY <1>2, <1>3, <1>4 DEF Range
  <2>2. Range(s) \subseteq Range(s \o t) /\ Range(t) \subseteq Range(s \o t)
    BY <1>2, <1>3 DEF Range
  <2> QED
    BY <2>1, <2>2
<1> QED
    BY <1>1, <1>2, <1>3, <1>4, <1>5

\* Page is the part of the list that begins behind the offset, as long as the limit allows.
LEMMA PageFacts ==
    ASSUME NEW S, NEW q \in Seq(S), NEW P \in Nat \ {0}, offset \in Nat, P = ParsePagination(asked)
    PROVE  /\ Page(q) \in Seq(S)
           /\ Len(Page(q)) <= P
           /\ \A j \in DOMAIN Page(q) : offset + j \in DOMAIN q /\ Page(q)[j] = q[offset + j]
           /\ \A j \in 1..P : offset + j \in DOMAIN q => j \in DOMAIN Page(q)
           /\ Len(q) >= offset + P => Len(Page(q)) = P
           /\ Page(q) # <<>> => offset + Len(Page(q)) <= Len(q)
<1> DEFINE m == Min({Len(q), offset + P})
<1>1. m = IF Len(q) <= offset + P THEN Len(q) ELSE offset + P
    BY MinOfTwo
<1>2. Page(q) = SubSeq(q, offset + 1, m)
    BY DEF Page
<1>3. m \in Nat /\ m <= Len(q) /\ m <= offset + P
    BY <1>1
<1> HIDE DEF m
<1>4. Page(q) \in Seq(S)
    BY <1>2, <1>3
<1>5. Len(Page(q)) = IF offset < m THEN m - offset ELSE 0
    BY <1>2, <1>3
<1>6. \A j \in DOMAIN Page(q) : Page(q)[j] = q[offset + j]
  <2>1. \A j \in 1..(m - (offset + 1) + 1) : SubSeq(q, offset + 1, m)[j] = q[offset + 1 + j - 1]
    BY <1>3
  <2>2. \A j \in DOMAIN Page(q) : j \in 1..(m - (offset + 1) + 1) /\ offset + 1 + j - 1 = offset + j
    BY <1>3, <1>4, <1>5
  <2> QED
    BY <1>2, <2>1, <2>2
<1>7. \A j \in DOMAIN Page(q) : offset + j \in DOMAIN q
    BY <1>3, <1>4, <1>5
<1> QED
    BY <1>1, <1>4, <1>5, <1>6, <1>7

\* The size of an interval.
LEMMA UpToFinite ==
    ASSUME NEW n \in Nat
    PROVE  IsFiniteSet(1..n) /\ Cardinality(1..n) = n
BY FS_Interval

\* A finite list: so are the rows above one of its rows.
LEMMA ListedFinite ==
    ASSUME ListingTypeOK
    PROVE  /\ IsFiniteSet(Listed) /\ Cardinality(Listed) \in Nat
           /\ \A r : IsFiniteSet(Above(r)) /\ Cardinality(Above(r)) \in Nat
<1>1. Listed \subseteq Rows /\ \A r : Above(r) \subseteq Rows
    BY DEF ListingTypeOK, Listed, Above
<1>2. \A S : S \subseteq Rows => IsFiniteSet(S) /\ Cardinality(S) \in Nat
    BY FS_Subset, FS_CardinalityType, ListingBounds
<1> QED
    BY <1>1, <1>2

\* A sorted list holds every listed row once, in an order that ComesBefore allows.
LEMMA SortedFacts ==
    ASSUME ListingTypeOK, NEW q \in Sorted
    PROVE  /\ q \in Seq(Listed) /\ q \in Seq(Rows)
           /\ Len(q) = Cardinality(Listed)
           /\ \A i, j \in DOMAIN q : i # j => q[i] # q[j]
           /\ \A r \in Listed : \E i \in DOMAIN q : q[i] = r
           /\ \A i, j \in DOMAIN q : ComesBefore(q[i], q[j]) => i < j
<1> DEFINE n == Cardinality(Listed)
<1>1. IsFiniteSet(Listed) /\ n \in Nat
    BY ListedFinite
<1>2. /\ q \in [1..n -> Listed]
      /\ \A i, j \in 1..n : i # j => q[i] # q[j]
      /\ \A i, j \in DOMAIN q : ComesBefore(q[i], q[j]) => i < j
    BY DEF Sorted, SetToSeqs
<1>3. Listed \subseteq Rows
    BY DEF ListingTypeOK, Listed
<1>4. q \in Seq(Listed) /\ q \in Seq(Rows) /\ Len(q) = n /\ DOMAIN q = 1..n
  <2>1. q \in [1..n -> Rows]
    BY <1>2, <1>3
  <2> QED
    BY <1>1, <1>2, <2>1
<1>5. q \in Surjection(1..n, Listed)
  <2>1. IsFiniteSet(1..n) /\ Cardinality(1..n) = n
    BY <1>1, UpToFinite
  <2>2. q \in Injection(1..n, Listed)
    BY <1>2 DEF Injection, IsInjective
  <2> QED
    BY <1>1, <2>1, <2>2, FS_Injection, Zenon
<1> QED
    BY <1>2, <1>4, <1>5 DEF Surjection

\* Two rows of the list are ordered unless they are tied, and never both ways.
LEMMA UntiedIsOrdered ==
    ASSUME ListingTypeOK, NEW r \in Listed, NEW s \in Listed, r # s, ~Tied(r)
    PROVE  ComesBefore(s, r) <=> ~ComesBefore(r, s)
<1>1. r \in Rows /\ s \in Rows /\ r \in Nat /\ s \in Nat
    BY ListingBounds DEF ListingTypeOK, Listed
<1>2. list.byId \/ createdAt[s] # createdAt[r]
    BY DEF Tied, Listed
<1>3. createdAt[s] \in Nat /\ createdAt[r] \in Nat
    BY <1>1 DEF ListingTypeOK
<1> QED
    BY <1>1, <1>2, <1>3 DEF ComesBefore

\* The row at position k has k - 1 rows above it, whichever order the database has picked.
LEMMA Position ==
    ASSUME ListingTypeOK, NEW q \in Sorted, NEW k \in DOMAIN q, ~Tied(q[k])
    PROVE  Cardinality(Above(q[k])) = k - 1
<1> DEFINE r == q[k]
           f == [i \in 1..(k - 1) |-> q[i]]
<1>1. /\ q \in Seq(Listed) /\ k \in 1..Len(q) /\ k \in Nat
      /\ \A i, j \in DOMAIN q : i # j => q[i] # q[j]
      /\ \A s \in Listed : \E i \in DOMAIN q : q[i] = s
      /\ \A i, j \in DOMAIN q : ComesBefore(q[i], q[j]) => i < j
      /\ r \in Listed
    BY SortedFacts
<1>2. ASSUME NEW i \in DOMAIN q
      PROVE  q[i] \in Above(r) <=> i < k
  <2>1. q[i] \in Listed /\ i \in Nat
    BY <1>1
  <2>2. CASE i = k
    <3>1. ~ComesBefore(q[i], r) /\ ~(i < k)
      BY <1>1, <2>2
    <3> QED
      BY <3>1 DEF Above
  <2>3. CASE i # k
    <3>1. q[i] # r
      BY <1>1, <2>3
    <3>2. ComesBefore(q[i], r) <=> ~ComesBefore(r, q[i])
      BY <1>1, <2>1, <3>1, UntiedIsOrdered
    <3>3. ComesBefore(q[i], r) => i < k
      BY <1>1
    <3>4. ComesBefore(r, q[i]) => k < i
      BY <1>1
    <3> QED
      BY <1>1, <2>1, <2>3, <3>2, <3>3, <3>4 DEF Above
  <2> QED
    BY <2>2, <2>3
<1>3. \A i \in 1..(k - 1) : i \in DOMAIN q /\ i < k
    BY <1>1
<1>4. f \in Bijection(1..(k - 1), Above(r))
  <2>1. f \in [1..(k - 1) -> Above(r)]
    BY <1>2, <1>3
  <2>2. \A i, j \in 1..(k - 1) : f[i] = f[j] => i = j
    BY <1>1, <1>3
  <2>3. ASSUME NEW s \in Above(r)
        PROVE  \E i \in 1..(k - 1) : f[i] = s
    <3>1. PICK i \in DOMAIN q : q[i] = s
      BY <1>1 DEF Above
    <3>2. i < k /\ i \in 1..Len(q)
      BY <1>1, <1>2, <3>1
    <3> QED
      BY <1>1, <3>1, <3>2
  <2> QED
    BY <2>1, <2>2, <2>3 DEF Bijection, Injection, Surjection, IsInjective
<1>5. IsFiniteSet(1..(k - 1)) /\ Cardinality(1..(k - 1)) = k - 1
  <2>1. k - 1 \in Nat
    BY <1>1
  <2> QED
    BY <2>1, UpToFinite
<1>6. ExistsBijection(1..(k - 1), Above(r))
    BY <1>4 DEF ExistsBijection
<1> QED
    BY <1>5, <1>6, FS_Bijection

-----------------------------------------------------------------------------
(* Steps of other requests *)

\* What another request may do to the rows: times of committed rows stay, a row comes
\* into the list only as joined, and leaves it only as removed.
TableChange ==
    /\ UNCHANGED <<list, window, asked, walkVars>>
    /\ rows \cup removed \subseteq rows' \cup removed'
    /\ \A r \in rows \cup removed : createdAt'[r] = createdAt[r]
    /\ joined' = {} => joined = {} /\ (phase # "idle" => Listed' \subseteq Listed)
    /\ removed' = removed \/ (list.shrinks /\ removed' # {})
    /\ removed' = {} \/ ~list.shrinks => Listed \subseteq Listed'
    /\ phase = "idle" => joined' = {}

\* The clock, ReadClock, Insert and DeleteUser change the rows in that way only.
LEMMA RequestsChangeTable ==
    ASSUME ListingInv, Tick \/ \E r \in Rows : ReadClock(r) \/ Insert(r) \/ DeleteUser(r)
    PROVE  TableChange /\ ListingTypeOK' /\ \A r \in rows' \cup removed' : createdAt'[r] > 0
<1> USE DEF ListingInv
<1>1. CASE Tick
    BY <1>1 DEF Tick, TableChange, ListingTypeOK, RowsHaveTimes, Listed, InWindow, walkVars
<1>2. ASSUME NEW r \in Rows, ReadClock(r)
      PROVE  TableChange /\ ListingTypeOK' /\ \A s \in rows' \cup removed' : createdAt'[s] > 0
  <2>1. \A s \in Rows \ {r} : createdAt'[s] = createdAt[s]
    BY <1>2 DEF ReadClock, ListingTypeOK
  <2>2. r \notin rows \cup removed
    BY <1>2 DEF ReadClock, RowsHaveTimes, ListingTypeOK
  <2>3. Listed' = Listed
    BY <1>2, <2>1, <2>2 DEF ReadClock, ListingTypeOK, Listed, InWindow
  <2>4. ListingTypeOK'
    BY <1>2 DEF ReadClock, ListingTypeOK, walkVars
  <2>5. \A s \in rows \cup removed : createdAt'[s] = createdAt[s]
    BY <2>1, <2>2 DEF ListingTypeOK
  <2> QED
    BY <1>2, <2>3, <2>4, <2>5 DEF ReadClock, TableChange, RowsHaveTimes, walkVars
<1>3. ASSUME NEW r \in Rows, Insert(r)
      PROVE  TableChange /\ ListingTypeOK' /\ \A s \in rows' \cup removed' : createdAt'[s] > 0
  <2>1. Listed' = IF InWindow(r) THEN Listed \cup {r} ELSE Listed
    BY <1>3 DEF Insert, Listed, InWindow
  <2>2. joined' = IF phase # "idle" /\ InWindow(r) THEN joined \cup {r} ELSE joined
    BY <1>3 DEF Insert
  <2>3. ListingTypeOK' /\ \A s \in rows' \cup removed' : createdAt'[s] > 0
    BY <1>3 DEF Insert, ListingTypeOK, RowsHaveTimes, walkVars
  <2> QED
    BY <1>3, <2>1, <2>2, <2>3 DEF Insert, TableChange, RowsHaveTimes, walkVars
<1>4. ASSUME NEW r \in Rows, DeleteUser(r)
      PROVE  TableChange /\ ListingTypeOK' /\ \A s \in rows' \cup removed' : createdAt'[s] > 0
  <2>1. Listed' = Listed \ {r}
    BY <1>4 DEF DeleteUser, Listed, InWindow
  <2>2. ListingTypeOK' /\ \A s \in rows' \cup removed' : createdAt'[s] > 0
    BY <1>4 DEF DeleteUser, ListingTypeOK, RowsHaveTimes, walkVars
  <2> QED
    BY <1>4, <2>1, <2>2 DEF DeleteUser, TableChange, RowsHaveTimes, walkVars
<1> QED
    BY <1>1, <1>2, <1>3, <1>4

\* A tie stays: neither row can be inserted again, or change its time.
LEMMA TiesStay ==
    ASSUME TableChange, NEW r \in rows \cup removed, Tied(r)
    PROVE  Tied(r)'
BY DEF TableChange, Tied

\* While no row joins, no row gets another one above it; while none is removed, none loses one.
LEMMA AboveChanges ==
    ASSUME ListingTypeOK, ListingTypeOK', TableChange, NEW r \in rows \cup removed
    PROVE  /\ Listed' \subseteq Listed => Cardinality(Above(r)') <= Cardinality(Above(r))
           /\ Listed \subseteq Listed' => Cardinality(Above(r)) <= Cardinality(Above(r)')
<1>1. \A s \in Listed : ComesBefore(s, r) <=> ComesBefore(s, r)'
    BY DEF TableChange, ComesBefore, Listed
<1>2. Listed' \subseteq Listed => Above(r)' \subseteq Above(r)
    BY <1>1 DEF Above
<1>3. Listed \subseteq Listed' => Above(r) \subseteq Above(r)'
    BY <1>1 DEF Above
<1>4. IsFiniteSet(Above(r)) /\ IsFiniteSet(Above(r)')
  <2>1. Above(r)' \subseteq Rows
    BY DEF ListingTypeOK, Above, Listed
  <2> QED
    BY <2>1, ListedFinite, ListingBounds, FS_Subset
<1> QED
    BY <1>2, <1>3, <1>4, FS_Subset

\* Steps of other requests keep the invariant.
LEMMA RequestsKeepInv ==
    ASSUME ListingInv, ListingTypeOK', TableChange,
           \A r \in rows' \cup removed' : createdAt'[r] > 0
    PROVE  ListingInv'
<1> USE DEF ListingInv
<1>1. /\ UNCHANGED <<list, asked, phase, offset, items, total, seen, present>>
      /\ Walked' = Walked /\ Walked \in Seq(Rows) /\ Len(Walked) \in Nat
      /\ Range(Walked) \subseteq rows \cup removed
  <2>1. Range(seen \o items) \subseteq rows \cup removed
    BY ConcatFacts DEF ListingTypeOK, RowsHaveTimes
  <2> QED
    BY <2>1 DEF TableChange, walkVars, Walked, Holding, ListingTypeOK, RowsHaveTimes
<1>2. \A i \in DOMAIN Walked : Walked[i] \in rows \cup removed /\ i \in Nat
    BY <1>1 DEF Range
<1>3. \A r \in rows \cup removed : Tied(r) => Tied(r)'
    BY TiesStay
<1>4. \A r \in rows \cup removed :
         /\ Cardinality(Above(r)) \in Nat /\ Cardinality(Above(r)') \in Nat
         /\ Listed' \subseteq Listed => Cardinality(Above(r)') <= Cardinality(Above(r))
         /\ Listed \subseteq Listed' => Cardinality(Above(r)) <= Cardinality(Above(r)')
  <2>1. \A r : Cardinality(Above(r)') \in Nat
    <3> SUFFICES ASSUME NEW r PROVE Cardinality(Above(r)') \in Nat
      OBVIOUS
    <3>1. Above(r)' \subseteq Rows
      BY DEF ListingTypeOK, Above, Listed
    <3> QED
      BY <3>1, ListingBounds, FS_Subset, FS_CardinalityType
  <2> QED
    BY <2>1, ListedFinite, AboveChanges
<1>5. RowsHaveTimes'
    BY <1>1 DEF RowsHaveTimes, TableChange
<1>6. PagesMeet'
    BY <1>1 DEF PagesMeet, Holding, ParsePagination
<1>7. joined' = {} => joined = {} /\ (DOMAIN Walked # {} => Listed' \subseteq Listed)
    BY DEF RowsHaveTimes, TableChange, Walked, Holding
<1>8. ShownInPlace'
  <2> SUFFICES ASSUME NEW i \in DOMAIN Walked, joined' = {}, ~Tied(Walked[i])'
               PROVE  Cardinality(Above(Walked[i])') < i
    BY <1>1 DEF ShownInPlace
  <2>1. joined = {} /\ Listed' \subseteq Listed /\ ~Tied(Walked[i])
    BY <1>1, <1>2, <1>3, <1>7
  <2>2. Cardinality(Above(Walked[i])) < i
    BY <2>1 DEF ShownInPlace
  <2> QED
    BY <1>1, <1>2, <1>4, <2>1, <2>2
<1>9. NotRepeated'
    BY <1>1, <1>2, <1>3, <1>7 DEF NotRepeated
<1>10. NothingPassedOver'
  <2> SUFFICES ASSUME removed' = {}, ~Misread, NEW r \in present, ~Tied(r)', r \notin Range(Walked)
               PROVE  StillToCome(r)'
    BY <1>1 DEF NothingPassedOver, Misread
  <2>1. removed = {} /\ Listed \subseteq Listed' /\ r \in rows \cup removed
    BY DEF TableChange, RowsHaveTimes
  <2>2. StillToCome(r)
    BY <1>3, <2>1 DEF NothingPassedOver
  <2> QED
    BY <1>1, <1>4, <2>1, <2>2 DEF StillToCome, Holding, ParsePagination
<1>11. TotalWillCover'
  <2>1. list.counted => ~list.shrinks
    BY DEF ListingTypeOK, Lists, List, Ledger, Withdrawals, Orders, Trades, Deposits, Accounts, Users
  <2>2. list.counted => Listed \subseteq Listed'
    BY <2>1 DEF TableChange
  <2>3. IsFiniteSet(Listed')
    BY ListingBounds, FS_Subset DEF ListingTypeOK, Listed
  <2>4. list.counted => Cardinality(Listed) <= Cardinality(Listed') /\ Cardinality(Listed) \in Nat /\ Cardinality(Listed') \in Nat
    BY <2>2, <2>3, FS_Subset, FS_CardinalityType, ListedFinite
  <2> QED
    BY <1>1, <2>4 DEF TotalWillCover, TotalCoversPage, ListingTypeOK
<1> QED
    BY <1>5, <1>6, <1>8, <1>9, <1>10, <1>11

-----------------------------------------------------------------------------
(* Steps of the walk *)

\* The walk only reads: what it sees of the rows is the same after its step.
LEMMA WalkReadsOnly ==
    ASSUME UNCHANGED <<list, window, asked, tableVars, joined, removed>>
    PROVE  /\ Listed' = Listed
           /\ \A r : Above(r)' = Above(r)
           /\ \A r : Tied(r)' <=> Tied(r)
           /\ Misread' <=> Misread
<1>1. Listed' = Listed
    BY DEF tableVars, Listed, InWindow
<1> QED
    BY <1>1 DEF tableVars, Above, ComesBefore, Tied, Misread

\* What an untied row of a page has above it, and what is not on the page.
LEMMA PagePositions ==
    ASSUME ListingTypeOK, NEW q \in Sorted, offset = Len(seen)
    PROVE  /\ \A j \in DOMAIN Page(q) : Page(q)[j] \in Listed
           /\ \A j \in DOMAIN Page(q) :
                 Tied(Page(q)[j]) \/ Cardinality(Above(Page(q)[j])) = Len(seen) + j - 1
           /\ \A j, k \in DOMAIN Page(q) : j # k => Page(q)[j] # Page(q)[k]
           /\ \A r \in Listed :
                 \/ Tied(r)
                 \/ Cardinality(Above(r)) < Len(seen)
                 \/ r \in Range(Page(q))
                 \/ /\ Cardinality(Above(r)) >= Len(seen) + Len(Page(q))
                    /\ Len(Page(q)) = ParsePagination(asked)
<1> DEFINE P == ParsePagination(asked)
<1>1. P \in Nat \ {0} /\ offset \in Nat
    BY LimitFacts DEF ListingTypeOK
<1>2. /\ q \in Seq(Listed)
      /\ \A i, j \in DOMAIN q : i # j => q[i] # q[j]
      /\ \A r \in Listed : \E i \in DOMAIN q : q[i] = r
    BY SortedFacts
<1>3. /\ Page(q) \in Seq(Listed)
      /\ Len(Page(q)) <= P
      /\ \A j \in DOMAIN Page(q) : offset + j \in DOMAIN q /\ Page(q)[j] = q[offset + j]
      /\ \A j \in 1..P : offset + j \in DOMAIN q => j \in DOMAIN Page(q)
      /\ Len(q) >= offset + P => Len(Page(q)) = P
    BY <1>1, <1>2, PageFacts
<1> HIDE DEF P
<1>4. \A j \in DOMAIN Page(q) : j \in Nat /\ Page(q)[j] \in Listed
    BY <1>3
<1>5. \A k \in DOMAIN q : Tied(q[k]) \/ Cardinality(Above(q[k])) = k - 1
    BY Position
<1>6. \A j \in DOMAIN Page(q) : Tied(Page(q)[j]) \/ Cardinality(Above(Page(q)[j])) = Len(seen) + j - 1
    BY <1>1, <1>3, <1>4, <1>5
<1>7. \A j, k \in DOMAIN Page(q) : j # k => Page(q)[j] # Page(q)[k]
  <2> SUFFICES ASSUME NEW j \in DOMAIN Page(q), NEW k \in DOMAIN Page(q), j # k
               PROVE  Page(q)[j] # Page(q)[k]
    OBVIOUS
  <2>1. offset + j # offset + k
    BY <1>1, <1>4
  <2> QED
    BY <1>2, <1>3, <2>1
<1>8. ASSUME NEW r \in Listed, ~Tied(r), Cardinality(Above(r)) >= Len(seen), r \notin Range(Page(q))
      PROVE  Cardinality(Above(r)) >= Len(seen) + Len(Page(q)) /\ Len(Page(q)) = P
  <2>1. PICK k \in DOMAIN q : q[k] = r
    BY <1>2
  <2>2. Cardinality(Above(r)) = k - 1 /\ k \in Nat /\ k <= Len(q) /\ Len(q) \in Nat
    BY <1>2, <1>5, <1>8, <2>1
  <2>3. CASE k <= offset + P
    <3>1. k - offset \in 1..P /\ offset + (k - offset) = k
      BY <1>1, <1>8, <2>2, <2>3
    <3>2. k - offset \in DOMAIN Page(q) /\ Page(q)[k - offset] = r
      BY <1>3, <2>1, <3>1
    <3> QED
      BY <1>8, <3>2 DEF Range
  <2>4. CASE k > offset + P
    BY <1>1, <1>3, <2>2, <2>4
  <2> QED
    BY <1>1, <2>2, <2>3, <2>4
<1>9. ASSUME NEW r \in Listed
      PROVE  \/ Tied(r)
             \/ Cardinality(Above(r)) < Len(seen)
             \/ r \in Range(Page(q))
             \/ Cardinality(Above(r)) >= Len(seen) + Len(Page(q)) /\ Len(Page(q)) = P
  <2>1. Cardinality(Above(r)) \in Nat /\ Len(seen) \in Nat
    BY ListedFinite DEF ListingTypeOK
  <2> QED
    BY <1>8, <2>1
<1> QED
    BY <1>4, <1>6, <1>7, <1>9 DEF P

\* Begin keeps the invariant: nothing has been shown.
LEMMA BeginKeepsInv ==
    ASSUME ListingInv, Begin
    PROVE  ListingInv'
<1> USE DEF ListingInv
<1>1. UNCHANGED <<list, window, asked, tableVars, offset, items, total, seen, joined, removed>>
      /\ phase = "idle" /\ phase' = "asking" /\ present' = Listed /\ seen = <<>>
    BY DEF Begin, RowsHaveTimes
<1>2. /\ Listed' = Listed /\ Listed \subseteq rows /\ Listed \subseteq Rows
      /\ \A r : Above(r)' = Above(r) /\ (Tied(r)' <=> Tied(r))
      /\ Misread' <=> Misread
    BY <1>1, WalkReadsOnly DEF Listed, ListingTypeOK
<1>3. Walked = <<>> /\ Walked' = <<>>
    BY <1>1 DEF Walked, Holding
<1>4. ListingTypeOK'
    BY <1>1, <1>2 DEF ListingTypeOK, tableVars
<1>5. RowsHaveTimes'
    BY <1>1, <1>2 DEF RowsHaveTimes, tableVars
<1>6. PagesMeet' /\ TotalWillCover'
    BY <1>1 DEF PagesMeet, TotalWillCover, TotalCoversPage, Holding
<1>7. ShownInPlace' /\ NotRepeated'
    BY <1>3 DEF ShownInPlace, NotRepeated
<1>8. \A r : StillToCome(r)'
    BY <1>1, <1>2, <1>3, ListedFinite DEF StillToCome, Holding
<1> QED
    BY <1>4, <1>5, <1>6, <1>7, <1>8 DEF NothingPassedOver

\* ListPage keeps the invariant: the page goes on where the last one has ended.
LEMMA ListPageKeepsInv ==
    ASSUME ListingInv, ListPage
    PROVE  ListingInv'
<1> USE DEF ListingInv
<1>1. /\ UNCHANGED <<list, window, asked, tableVars, offset, total, seen, present, joined, removed>>
      /\ phase = "asking" /\ phase' = IF list.counted THEN "counting" ELSE "answered"
      /\ offset = Len(seen) /\ seen \in Seq(Rows)
    BY DEF ListPage, PagesMeet, ListingTypeOK
<1>2. PICK q \in Sorted : items' = Page(q)
    BY DEF ListPage
<1>3. /\ Listed' = Listed /\ Listed \subseteq rows /\ Listed \subseteq Rows
      /\ \A r : Above(r)' = Above(r) /\ (Tied(r)' <=> Tied(r))
      /\ Misread' <=> Misread
    BY <1>1, WalkReadsOnly DEF Listed, ListingTypeOK
<1>4. /\ Page(q) \in Seq(Rows) /\ Len(Page(q)) <= ParsePagination(asked)
      /\ Page(q) # <<>> => offset + Len(Page(q)) <= Cardinality(Listed)
    BY LimitFacts, SortedFacts, PageFacts DEF ListingTypeOK
<1>5. /\ \A j \in DOMAIN Page(q) : Page(q)[j] \in Listed
      /\ \A j \in DOMAIN Page(q) :
            Tied(Page(q)[j]) \/ Cardinality(Above(Page(q)[j])) = Len(seen) + j - 1
      /\ \A j, k \in DOMAIN Page(q) : j # k => Page(q)[j] # Page(q)[k]
      /\ \A r \in Listed :
            \/ Tied(r)
            \/ Cardinality(Above(r)) < Len(seen)
            \/ r \in Range(Page(q))
            \/ /\ Cardinality(Above(r)) >= Len(seen) + Len(Page(q))
               /\ Len(Page(q)) = ParsePagination(asked)
    BY <1>1, PagePositions
<1>6. PICK page \in Seq(Rows) : page = Page(q)
    BY <1>4
<1>7. /\ Walked = seen /\ Walked' = seen \o page
      /\ Holding' /\ items' = page
    BY <1>1, <1>2, <1>6 DEF Walked, Holding
<1>8. /\ seen \o page \in Seq(Rows) /\ Len(seen \o page) = Len(seen) + Len(page)
      /\ \A i \in DOMAIN seen : (seen \o page)[i] = seen[i] /\ i \in Nat /\ i <= Len(seen)
      /\ \A j \in DOMAIN page : (seen \o page)[Len(seen) + j] = page[j] /\ j \in Nat /\ j >= 1
      /\ \A i \in DOMAIN (seen \o page) : i \in DOMAIN seen \/ \E j \in DOMAIN page : i = Len(seen) + j
      /\ Range(seen \o page) = Range(seen) \cup Range(page)
  <2>1. /\ \A i \in DOMAIN seen : i \in Nat /\ i <= Len(seen)
        /\ \A j \in DOMAIN page : j \in Nat /\ j >= 1
    BY <1>1
  <2>2. seen \in Seq(Rows)
    BY <1>1
  <2>3. /\ seen \o page \in Seq(Rows) /\ Len(seen \o page) = Len(seen) + Len(page)
        /\ \A i \in DOMAIN seen : i \in DOMAIN (seen \o page) /\ (seen \o page)[i] = seen[i]
        /\ \A j \in DOMAIN page : Len(seen) + j \in DOMAIN (seen \o page) /\ (seen \o page)[Len(seen) + j] = page[j]
        /\ \A i \in DOMAIN (seen \o page) : i \in DOMAIN seen \/ \E j \in DOMAIN page : i = Len(seen) + j
        /\ Range(seen \o page) = Range(seen) \cup Range(page)
    BY <2>2, ConcatFacts, Zenon
  <2> QED
    BY <2>1, <2>3, Zenon
<1>9. ListingTypeOK'
    BY <1>1, <1>6, <1>7 DEF ListingTypeOK, tableVars
<1>10. RowsHaveTimes'
  <2>1. Range(page) \subseteq rows
    BY <1>3, <1>5, <1>6 DEF Range
  <2> QED
    BY <1>1, <1>3, <1>7, <2>1 DEF RowsHaveTimes, tableVars
<1>11. PagesMeet'
    BY <1>1, <1>4, <1>6, <1>7 DEF PagesMeet, ParsePagination
<1>12. TotalWillCover'
    BY <1>1, <1>3, <1>4, <1>6, <1>7 DEF TotalWillCover, TotalCoversPage
<1>13. ASSUME joined = {}, NEW j \in DOMAIN page, ~Tied(page[j])
       PROVE  Cardinality(Above(page[j])) = Len(seen) + j - 1
    BY <1>5, <1>6, <1>13
<1>14. ASSUME joined = {}, NEW i \in DOMAIN seen, ~Tied(seen[i])
       PROVE  Cardinality(Above(seen[i])) < i
    BY <1>7, <1>14 DEF ShownInPlace
<1>15. ShownInPlace'
  <2> SUFFICES ASSUME NEW i \in DOMAIN (seen \o page), joined = {}, ~Tied((seen \o page)[i])
               PROVE  Cardinality(Above((seen \o page)[i])) < i
    BY <1>1, <1>3, <1>7 DEF ShownInPlace
  <2>1. CASE i \in DOMAIN seen
    BY <1>8, <1>14, <2>1
  <2>2. ASSUME NEW j \in DOMAIN page, i = Len(seen) + j
        PROVE  Cardinality(Above((seen \o page)[i])) < i
    BY <1>1, <1>8, <1>13, <2>2
  <2> QED
    BY <1>8, <2>1, <2>2
<1>16. NotRepeated'
  <2> SUFFICES ASSUME NEW i \in DOMAIN (seen \o page), NEW k \in DOMAIN (seen \o page), i # k,
                      (seen \o page)[i] = (seen \o page)[k], joined = {}, ~Tied((seen \o page)[i])
               PROVE  FALSE
    BY <1>1, <1>3, <1>7 DEF NotRepeated
  <2>1. CASE i \in DOMAIN seen /\ k \in DOMAIN seen
    BY <1>7, <1>8, <2>1 DEF NotRepeated
  <2>2. ASSUME NEW a \in DOMAIN seen, NEW j \in DOMAIN page, seen[a] = page[j], ~Tied(page[j])
        PROVE  FALSE
    BY <1>1, <1>8, <1>13, <1>14, <2>2
  <2>3. ASSUME NEW a \in DOMAIN page, NEW j \in DOMAIN page, i = Len(seen) + a, k = Len(seen) + j
        PROVE  FALSE
    <3>1. a # j
      BY <2>3
    <3>2. page[a] # page[j]
      BY <1>5, <1>6, <3>1
    <3>3. (seen \o page)[Len(seen) + a] = page[a] /\ (seen \o page)[Len(seen) + j] = page[j]
      BY <1>8
    <3> QED
      BY <2>3, <3>2, <3>3
  <2> QED
    BY <1>8, <2>1, <2>2, <2>3
<1>17. NothingPassedOver'
  <2> SUFFICES ASSUME removed = {}, ~Misread, NEW r \in present, ~Tied(r), r \notin Range(seen \o page)
               PROVE  StillToCome(r)'
    BY <1>1, <1>3, <1>7 DEF NothingPassedOver
  <2>1. StillToCome(r) /\ r \in Listed /\ r \notin Range(page)
    BY <1>7, <1>8 DEF NothingPassedOver, RowsHaveTimes
  <2>2. Cardinality(Above(r)) >= Len(seen) /\ Cardinality(Above(r)) \in Nat /\ Len(seen) \in Nat
    BY <1>1, <1>7, <2>1, ListedFinite DEF StillToCome
  <2>3. Cardinality(Above(r)) >= Len(seen) + Len(page) /\ Len(page) = ParsePagination(asked)
    BY <1>5, <1>6, <2>1, <2>2
  <2>4. ParsePagination(asked)' = ParsePagination(asked) /\ Len(page) \in Nat
    BY <1>1 DEF ParsePagination
  <2>5. phase' # "done"
    BY <1>1
  <2> QED
    BY <1>3, <1>7, <1>8, <2>3, <2>4, <2>5 DEF StillToCome
<1> QED
    BY <1>9, <1>10, <1>11, <1>12, <1>15, <1>16, <1>17

\* CountRows keeps the invariant: the ledger has not lost a row since it was listed.
LEMMA CountRowsKeepsInv ==
    ASSUME ListingInv, CountRows
    PROVE  ListingInv'
<1> USE DEF ListingInv
<1>1. /\ UNCHANGED <<list, window, asked, tableVars, offset, items, seen, present, joined, removed>>
      /\ phase = "counting" /\ phase' = "answered" /\ total' = Cardinality(Listed)
    BY DEF CountRows, CountByUser
<1>2. /\ Listed' = Listed
      /\ \A r : Above(r)' = Above(r) /\ (Tied(r)' <=> Tied(r))
      /\ Misread' <=> Misread
    BY <1>1, WalkReadsOnly
<1>3. Walked' = Walked /\ Holding /\ Holding'
    BY <1>1 DEF Walked, Holding
<1>4. ListingTypeOK'
    BY <1>1 DEF ListingTypeOK, tableVars
<1>5. RowsHaveTimes'
    BY <1>1, <1>2 DEF RowsHaveTimes, tableVars
<1>6. PagesMeet'
    BY <1>1, <1>3 DEF PagesMeet, ParsePagination
<1>7. TotalWillCover'
    BY <1>1 DEF TotalWillCover, TotalCoversPage
<1>8. ShownInPlace'
    BY <1>1, <1>2, <1>3 DEF ShownInPlace
<1>9. NotRepeated'
    BY <1>1, <1>2, <1>3 DEF NotRepeated
<1>10. \A r : StillToCome(r) => StillToCome(r)'
    BY <1>1, <1>2, <1>3 DEF StillToCome, ParsePagination
<1>11. NothingPassedOver'
    BY <1>1, <1>2, <1>3, <1>10 DEF NothingPassedOver
<1> QED
    BY <1>4, <1>5, <1>6, <1>7, <1>8, <1>9, <1>11

\* A client that sees a full page goes on where it ends, and one that reads its
\* limit rightly stops at no other.
LEMMA FullPages ==
    ASSUME ListingTypeOK, Len(items) \in Nat, Len(items) <= ParsePagination(asked)
    PROVE  /\ Len(items) >= FullPage => Len(items) = FullPage
           /\ ~Misread => FullPage = ParsePagination(asked)
BY LimitFacts, ListingBounds DEF ListingTypeOK, FullPage, Misread

\* NextPage keeps the invariant: what the page has shown stays shown.
LEMMA NextPageKeepsInv ==
    ASSUME ListingInv, NextPage
    PROVE  ListingInv'
<1> USE DEF ListingInv
<1>1. /\ UNCHANGED <<list, window, asked, tableVars, items, total, present, joined, removed>>
      /\ phase = "answered" /\ seen' = seen \o items
      /\ \/ Len(items) < FullPage /\ phase' = "done" /\ UNCHANGED offset
         \/ Len(items) >= FullPage /\ phase' = "asking" /\ offset' = offset + FullPage
    BY DEF NextPage
<1>2. /\ Listed' = Listed
      /\ \A r : Above(r)' = Above(r) /\ (Tied(r)' <=> Tied(r))
      /\ Misread' <=> Misread
    BY <1>1, WalkReadsOnly
<1>3. Walked' = Walked /\ Holding /\ ~Holding' /\ Walked = seen \o items
    BY <1>1 DEF Walked, Holding
<1>4. /\ seen \o items \in Seq(Rows) /\ Len(seen \o items) = Len(seen) + Len(items)
      /\ Range(seen \o items) = Range(seen) \cup Range(items)
      /\ Len(items) \in Nat /\ Len(seen) \in Nat
    BY ConcatFacts DEF ListingTypeOK
<1>5. /\ Len(items) <= ParsePagination(asked)
      /\ Len(items) >= FullPage => Len(items) = FullPage
      /\ ~Misread => FullPage = ParsePagination(asked)
      /\ offset = Len(seen)
    BY <1>1, <1>3, <1>4, FullPages DEF PagesMeet
<1>6. ListingTypeOK'
    BY <1>1, <1>4, <1>5 DEF ListingTypeOK, tableVars
<1>7. RowsHaveTimes'
    BY <1>1, <1>2, <1>4 DEF RowsHaveTimes, tableVars
<1>8. PagesMeet'
    BY <1>1, <1>3, <1>4, <1>5 DEF PagesMeet
<1>9. TotalWillCover'
    BY <1>1 DEF TotalWillCover, TotalCoversPage
<1>10. ShownInPlace'
    BY <1>1, <1>2, <1>3 DEF ShownInPlace
<1>11. NotRepeated'
    BY <1>1, <1>2, <1>3 DEF NotRepeated
<1>12. \A r : StillToCome(r) /\ ~Misread => StillToCome(r)'
  <2> SUFFICES ASSUME NEW r, StillToCome(r), ~Misread
               PROVE  StillToCome(r)'
    OBVIOUS
  <2>1. phase' # "done"
    BY <1>3, <1>4, <1>5, <1>1 DEF StillToCome
  <2> QED
    BY <1>2, <1>3, <2>1 DEF StillToCome
<1>13. NothingPassedOver'
    BY <1>1, <1>2, <1>3, <1>12 DEF NothingPassedOver
<1> QED
    BY <1>6, <1>7, <1>8, <1>9, <1>10, <1>11, <1>13

-----------------------------------------------------------------------------
(* The invariant and the properties *)

\* No rows and no walk at the start.
LEMMA ListingInitInv == ListingInit => ListingInv
<1> SUFFICES ASSUME ListingInit PROVE ListingInv
    OBVIOUS
<1>1. phase = "idle" /\ seen = <<>> /\ items = <<>> /\ offset = 0
    BY DEF ListingInit
<1>2. Walked = <<>> /\ ~Holding
    BY <1>1 DEF Walked, Holding
<1>3. window \in [from : Nat, to : Nat]
    BY ListingBounds DEF ListingInit
<1>4. ListingTypeOK
    BY <1>3, ListingBounds DEF ListingInit, ListingTypeOK
<1>5. RowsHaveTimes
    BY <1>1 DEF ListingInit, RowsHaveTimes, Range
<1>6. PagesMeet /\ TotalWillCover
    BY <1>1, <1>2 DEF PagesMeet, TotalWillCover, TotalCoversPage
<1>7. ShownInPlace /\ NotRepeated
    BY <1>2 DEF ShownInPlace, NotRepeated
<1>8. NothingPassedOver
    BY DEF ListingInit, NothingPassedOver
<1> QED
    BY <1>4, <1>5, <1>6, <1>7, <1>8 DEF ListingInv

\* Every step keeps the invariant.
LEMMA ListingStepInv == ListingInv /\ [ListingNext]_listingVars => ListingInv'
<1> SUFFICES ASSUME ListingInv, [ListingNext]_listingVars PROVE ListingInv'
    OBVIOUS
<1>1. CASE Tick \/ \E r \in Rows : ReadClock(r) \/ Insert(r) \/ DeleteUser(r)
    BY <1>1, RequestsChangeTable, RequestsKeepInv
<1>2. CASE Begin
    BY <1>2, BeginKeepsInv
<1>3. CASE ListPage
    BY <1>3, ListPageKeepsInv
<1>4. CASE CountRows
    BY <1>4, CountRowsKeepsInv
<1>5. CASE NextPage
    BY <1>5, NextPageKeepsInv
<1>6. CASE UNCHANGED listingVars
  <2>1. TableChange /\ ListingTypeOK' /\ \A r \in rows' \cup removed' : createdAt'[r] > 0
    BY <1>6 DEF listingVars, tableVars, TableChange, ListingInv, ListingTypeOK, RowsHaveTimes,
                Listed, InWindow, walkVars
  <2> QED
    BY <2>1, RequestsKeepInv
<1> QED
    BY <1>1, <1>2, <1>3, <1>4, <1>5, <1>6 DEF ListingNext

\* The invariant of the lists holds in every state.
THEOREM ListingInvariant == ListingSpec => []ListingInv
<1> QED
    BY ListingInitInv, ListingStepInv, PTL DEF ListingSpec

\* The total that respondList gives covers the page next to it, however many entries
\* are committed between the two queries.
THEOREM TotalAlwaysCoversPage == ListingSpec => []TotalCoversPage
<1>1. ListingInv => TotalCoversPage
    BY DEF ListingInv, TotalWillCover
<1> QED
    BY <1>1, ListingInvariant, PTL

\* A walk shows no row twice unless one has come in during it, or a tie was left open.
THEOREM NoRepeatWithoutInsertion == ListingSpec => []RepeatsNeedInsertions
<1>1. ListingInv => RepeatsNeedInsertions
  <2> SUFFICES ASSUME ListingInv, NEW i \in DOMAIN seen, NEW j \in DOMAIN seen, i # j, seen[i] = seen[j]
               PROVE  joined # {} \/ Tied(seen[i])
    BY DEF RepeatsNeedInsertions
  <2>1. seen \in Seq(Rows) /\ items \in Seq(Rows)
    BY DEF ListingInv, ListingTypeOK
  <2>2. \A k \in DOMAIN seen : k \in DOMAIN Walked /\ Walked[k] = seen[k]
    BY <2>1, ConcatFacts DEF Walked
  <2> QED
    BY <2>2 DEF ListingInv, NotRepeated
<1> QED
    BY <1>1, ListingInvariant, PTL

\* A walk that has ended has shown every row that was in the list when it began,
\* unless a row was removed, the limit misread or a tie left open.
THEOREM WalkShowsEveryRow == ListingSpec => []WalkIsComplete
<1>1. ListingInv => WalkIsComplete
    BY DEF ListingInv, NothingPassedOver, WalkIsComplete, StillToCome, Walked, Holding
<1> QED
    BY <1>1, ListingInvariant, PTL
=============================================================================
