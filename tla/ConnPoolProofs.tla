--------------------------- MODULE ConnPoolProofs ---------------------------
(***************************************************************************)
(* Proofs about ConnPool, for any calls, rows and size of the pool: a      *)
(* circle of row locks takes a trade that names its orders the wrong way,  *)
(* otherwise all transactions wait only when the pool is exhausted; and a  *)
(* shutdown that drained closes the pool last.                             *)
(***************************************************************************)
EXTENDS ConnPool, FiniteSetTheorems, WellFoundedInduction, TLAPS

\* The rows that are left to lock after a key.
OrderLists == {<<r>> : r \in OrderRows} \cup {<<r, t>> : r \in OrderRows, t \in OrderRows}

\* The rows a call may still have to lock, in this order.
RowLists ==
    {<<>>} \cup OrderLists \cup {<<r>> : r \in Rows}
    \cup {<<k, r>> : k \in Keys, r \in OrderRows}
    \cup {<<k, r, t>> : k \in Keys, r \in OrderRows, t \in OrderRows}

\* Those of a settlement.
InOrderLists ==
    {<<>>} \cup {<<s>> : s \in Sells} \cup {<<b, s>> : b \in Buys, s \in Sells}
    \cup {<<k, b, s>> : k \in Keys, b \in Buys, s \in Sells}

CallState == [at : {"idle", "outside", "inside", "done"}, before : BOOLEAN,
              rows : RowLists, inside : BOOLEAN]

PoolTypeOK ==
    /\ calls \in [Calls -> CallState]
    /\ owner \in [Rows -> Calls \cup {None}]
    /\ stage \in {"serving", "draining", "stopping", "closing", "stopped"}
    /\ engine \in BOOLEAN /\ closed \in BOOLEAN /\ failed \in BOOLEAN

\* What the call c, which has locked r, may still wait for: after a key for orders, after
\* an order for one more; only a request may name another one than a buyer's seller.
MayHold(c, state, r) ==
    /\ state.at = "inside"
    /\ \/ state.rows = <<>>
       \/ r \in Keys /\ state.rows \in OrderLists
       \/ r \in OrderRows /\ \E t \in OrderRows :
              state.rows = <<t>> /\ (c \in Requests \/ (r \in Buys /\ t \in Sells))

\* Rows are locked by transactions, in this order.
LocksInOrder ==
    /\ \A r \in Rows : owner[r] # None => MayHold(owner[r], calls[owner[r]], r)
    /\ \A c \in Calls : c \notin Requests => calls[c].rows \in InOrderLists

\* A transaction has one of the pool's connections.
WithinPool == Cardinality(Holders) <= MaxConns

\* What each stage of the shutdown has waited for.
StageInv ==
    /\ closed <=> stage \in {"closing", "stopped"}
    /\ failed => closed
    /\ stage \in {"stopping", "closing", "stopped"} /\ ~failed => Active \cap Requests = {}
    /\ closed /\ ~failed => ~engine /\ Active \cap Polls = {}

PoolInv == PoolTypeOK /\ LocksInOrder /\ WithinPool /\ StageInv

-----------------------------------------------------------------------------
\* The calls that hold a connection are finitely many.
LEMMA HoldersFinite == IsFiniteSet(Holders) /\ Cardinality(Holders) \in Nat
<1>1. Holders \subseteq Calls
    BY DEF Holders
<1> QED
    BY <1>1, PoolAssumption, FS_Subset, FS_CardinalityType

\* Taking a connection that is free keeps the transactions within the pool; otherwise
\* they do not become more.
LEMMA CountHolders ==
    ASSUME WithinPool, NEW c \in Calls, Holders' \subseteq Holders \cup {c},
           c \in Holders \/ HasFree \/ c \notin Holders'
    PROVE  WithinPool'
<1>1. CASE Holders' \subseteq Holders
    <2>1. Cardinality(Holders') <= Cardinality(Holders) /\ Cardinality(Holders') \in Nat
        BY <1>1, HoldersFinite, FS_Subset, FS_CardinalityType
    <2> QED
        BY <2>1, HoldersFinite, PoolAssumption DEF WithinPool
<1>2. CASE c \notin Holders /\ HasFree
    <2>1. /\ IsFiniteSet(Holders \cup {c})
          /\ Cardinality(Holders \cup {c}) = Cardinality(Holders) + 1
        BY <1>2, HoldersFinite, FS_AddElement
    <2>2. /\ Cardinality(Holders') <= Cardinality(Holders \cup {c})
          /\ Cardinality(Holders') \in Nat
        BY <2>1, FS_Subset, FS_CardinalityType
    <2> QED
        BY <1>2, <2>1, <2>2, HoldersFinite, PoolAssumption DEF WithinPool, HasFree
<1> QED
    BY <1>1, <1>2

\* What a step of the call c has to show.
LEMMA OneCall ==
    ASSUME PoolInv, NEW c \in Calls, stage # "stopped",
           calls' \in [Calls -> CallState],
           \A d \in Calls : d # c => calls'[d] = calls[d],
           owner' \in [Rows -> Calls \cup {None}],
           \A r \in Rows : owner'[r] # None =>
               \/ owner'[r] = owner[r] /\ owner[r] # c
               \/ owner'[r] = c /\ MayHold(c, calls'[c], r),
           c \notin Requests => calls'[c].rows \in InOrderLists,
           c \in Holders' => c \in Holders \/ HasFree,
           c \in Active' => c \in Active \/ MayStart(c),
           UNCHANGED <<stage, engine, closed, failed>>
    PROVE  PoolInv'
<1>1. PoolTypeOK'
    BY DEF PoolInv, PoolTypeOK
<1>2. LocksInOrder'
    <2>1. ASSUME NEW r \in Rows, owner'[r] # None
          PROVE  MayHold(owner'[r], calls'[owner'[r]], r)
        <3>1. CASE owner'[r] = owner[r] /\ owner[r] # c
            <4>1. owner[r] \in Calls /\ calls'[owner[r]] = calls[owner[r]]
                BY <3>1, <2>1 DEF PoolInv, PoolTypeOK
            <4> QED
                BY <2>1, <3>1, <4>1 DEF PoolInv, LocksInOrder
        <3> QED
            BY <2>1, <3>1
    <2>2. \A d \in Calls : d \notin Requests => calls'[d].rows \in InOrderLists
        BY DEF PoolInv, LocksInOrder
    <2> QED
        BY <2>1, <2>2 DEF LocksInOrder
<1>3. WithinPool'
    <2>1. Holders' \subseteq Holders \cup {c}
        BY DEF Holders
    <2> QED
        BY <2>1, CountHolders DEF PoolInv
<1>4. StageInv'
    <2>1. Active' \subseteq Active \cup {c}
        BY DEF Active
    <2>2. stage \in {"serving", "draining", "stopping", "closing", "stopped"}
        BY DEF PoolInv, PoolTypeOK
    <2> QED
        BY <2>1, <2>2, PoolAssumption DEF PoolInv, StageInv, MayStart, Calls
<1> QED
    BY <1>1, <1>2, <1>3, <1>4 DEF PoolInv

-----------------------------------------------------------------------------
\* Nobody is at work when the process starts.
LEMMA PoolInitInv == Init => PoolInv
<1> SUFFICES ASSUME Init PROVE PoolInv
    OBVIOUS
<1>1. /\ Call("idle", Nothing) \in CallState
      /\ Call("idle", Nothing).at = "idle" /\ Call("idle", Nothing).rows = <<>>
    BY DEF Call, Nothing, Work, CallState, RowLists
<1>2. \A c \in Calls : calls[c] = Call("idle", Nothing)
    BY DEF Init
<1>3. PoolTypeOK
    BY <1>1 DEF Init, PoolTypeOK
<1>4. LocksInOrder
    BY <1>1, <1>2 DEF Init, LocksInOrder, InOrderLists
<1>5. Holders = {} /\ Active = {}
    BY <1>1, <1>2 DEF Holders, Active
<1>6. WithinPool
    BY <1>5, FS_EmptySet, PoolAssumption DEF WithinPool
<1>7. StageInv
    BY <1>5 DEF Init, StageInv
<1> QED
    BY <1>3, <1>4, <1>6, <1>7 DEF PoolInv

\* Every list of rows that a service locks is one of RowLists.
LEMMA WorkShape ==
    ASSUME NEW c \in Calls, NEW w \in WorkOf(c)
    PROVE  /\ Call("outside", w) \in CallState
           /\ Call("outside", w).at = "outside"
           /\ c \notin Requests => Call("outside", w).rows \in InOrderLists
<1> DEFINE Shape == [before : BOOLEAN, rows : RowLists, inside : BOOLEAN]
<1>1. /\ <<>> \in RowLists /\ \A r \in Rows : <<r>> \in RowLists
      /\ OrderRows \subseteq Rows /\ Deposits \subseteq Rows /\ Keys \subseteq Rows
      /\ Buys \subseteq OrderRows /\ Sells \subseteq OrderRows
    BY DEF RowLists, Rows, OrderRows
<1>2. \A r, t \in OrderRows : <<r, t>> \in RowLists
    BY DEF RowLists, OrderLists
<1>3. \A k \in Keys, r, t \in OrderRows : <<k, r>> \in RowLists /\ <<k, r, t>> \in RowLists
    BY DEF RowLists
<1>4. \A before, inside \in BOOLEAN, rs \in RowLists :
          Work(before, rs, inside) \in Shape /\ Work(before, rs, inside).rows = rs
    BY DEF Work
<1>5. ASSUME c \in Settlements
      PROVE  w \in Shape /\ w.rows \in InOrderLists
    <2>1. PICK before \in BOOLEAN, rs \in (Buys \X Sells) \cup (MatchKeys \X Buys \X Sells) :
              w = Work(before, rs, TRUE)
        BY <1>5 DEF WorkOf, Settle, SettlePartner
    <2>2. rs \in RowLists /\ rs \in InOrderLists
        <3>1. CASE rs \in Buys \X Sells
            <4>1. PICK b \in Buys, t \in Sells : rs = <<b, t>>
                BY <3>1
            <4> QED
                BY <1>1, <1>2, <4>1 DEF InOrderLists
        <3>2. CASE rs \in MatchKeys \X Buys \X Sells
            <4>1. PICK k \in MatchKeys, b \in Buys, t \in Sells : rs = <<k, b, t>>
                BY <3>2
            <4>2. k \in Keys /\ b \in OrderRows /\ t \in OrderRows
                BY <1>1, PoolAssumption
            <4>3. rs \in RowLists
                BY <1>3, <4>1, <4>2
            <4>4. rs \in InOrderLists
                BY <4>1, <4>2 DEF InOrderLists
            <4> QED
                BY <4>3, <4>4
        <3> QED
            BY <3>1, <3>2
    <2> QED
        BY <1>4, <2>1, <2>2
<1>6. ASSUME c \notin Settlements, c \in Polls
      PROVE  w \in Shape /\ w.rows \in InOrderLists
    <2>1. w = Work(FALSE, <<>>, FALSE)
        BY <1>6 DEF WorkOf, ProcessBatch
    <2>2. <<>> \in InOrderLists
        BY DEF InOrderLists
    <2>3. w \in Shape /\ w.rows = <<>>
        BY <1>1, <1>4, <2>1, Zenon
    <2> QED
        BY <2>2, <2>3
<1>7. ASSUME c \notin Settlements, c \notin Polls
      PROVE  w \in Shape
    <2>1. CASE w \in ManualTrade
        <3> DEFINE Trade(k, r, t) ==
                IF r = t THEN Work(FALSE, <<k, r>>, FALSE)
                         ELSE Work(FALSE, <<k, r, t>>, <<r, t>> \in Buys \X Sells)
        <3>1. ManualTrade = {Trade(k, r, t) : k \in Keys, r \in OrderRows, t \in OrderRows}
            BY DEF ManualTrade
        <3>2. ASSUME NEW k \in Keys, NEW r \in OrderRows, NEW t \in OrderRows
              PROVE  Trade(k, r, t) \in Shape
            <4>1. <<k, r>> \in RowLists /\ <<k, r, t>> \in RowLists
                BY <1>3
            <4>2. (<<r, t>> \in Buys \X Sells) \in BOOLEAN
                OBVIOUS
            <4> QED
                BY <1>4, <4>1, <4>2
        <3> HIDE DEF Trade, Shape
        <3> QED
            BY <2>1, <3>1, <3>2
    <2>2. CASE \E before, inside \in BOOLEAN, x \in Rows : w = Work(before, <<x>>, inside)
        BY <1>1, <1>4, <2>2
    <2>3. w \in ManualTrade \/ \E before, inside \in BOOLEAN, x \in Rows : w = Work(before, <<x>>, inside)
        BY <1>1, <1>7 DEF WorkOf, CancelOrder, PlaceOrder, Withdraw, Intake, GetOrCreateAddress,
                          Confirm, Reject, SimulateDeposit, CreateUser, DeleteUser
    <2> QED
        BY <2>1, <2>2, <2>3
<1>8. w \in Shape /\ (c \notin Requests => w.rows \in InOrderLists)
    BY <1>5, <1>6, <1>7 DEF Calls
<1> QED
    BY <1>8 DEF Call, CallState

\* A call that begins.
LEMMA StartInv ==
    ASSUME PoolInv, stage # "stopped", NEW c \in Calls, Start(c)
    PROVE  PoolInv'
<1>1. PICK w \in WorkOf(c) : calls' = [calls EXCEPT ![c] = Call("outside", w)]
    BY DEF Start
<1>2. /\ calls' \in [Calls -> CallState] /\ calls'[c] = Call("outside", w)
      /\ \A d \in Calls : d # c => calls'[d] = calls[d]
    BY <1>1, WorkShape DEF PoolInv, PoolTypeOK
<1>3. c \notin Holders'
    BY <1>2, WorkShape DEF Holders
<1>4. \A r \in Rows : owner[r] # c
    BY PoolAssumption DEF PoolInv, LocksInOrder, MayHold, Start
<1>5. MayStart(c) /\ UNCHANGED <<owner, stage, engine, closed, failed>>
    BY DEF Start
<1>6. owner' \in [Rows -> Calls \cup {None}]
    BY <1>5 DEF PoolInv, PoolTypeOK
<1> QED
    BY <1>2, <1>3, <1>4, <1>5, <1>6, WorkShape, OneCall

\* A call that ends gives its connection and its locks back.
LEMMA EndCallInv ==
    ASSUME PoolInv, stage # "stopped", NEW c \in Calls, EndCall(c)
    PROVE  PoolInv'
<1>0. <<>> \in InOrderLists
    BY DEF InOrderLists
<1>1. /\ Call(IF c \in Polls THEN "idle" ELSE "done", Nothing) \in CallState
      /\ Call(IF c \in Polls THEN "idle" ELSE "done", Nothing).rows = <<>>
      /\ Call(IF c \in Polls THEN "idle" ELSE "done", Nothing).at \in {"idle", "done"}
    BY DEF Call, Nothing, Work, CallState, RowLists
<1>2. /\ calls' \in [Calls -> CallState]
      /\ calls'[c].rows = <<>> /\ calls'[c].at \in {"idle", "done"}
      /\ \A d \in Calls : d # c => calls'[d] = calls[d]
    BY <1>1 DEF EndCall, PoolInv, PoolTypeOK
<1>3. c \notin Holders' /\ c \notin Active'
    BY <1>2 DEF Holders, Active
<1>4. /\ owner' \in [Rows -> Calls \cup {None}]
      /\ \A r \in Rows : owner'[r] # None => owner'[r] = owner[r] /\ owner[r] # c
    BY DEF EndCall, PoolInv, PoolTypeOK
<1>5. UNCHANGED <<stage, engine, closed, failed>>
    BY DEF EndCall
<1> QED
    BY <1>0, <1>2, <1>3, <1>4, <1>5, OneCall

\* A query: only a mark of the call changes.
LEMMA QueryInv ==
    ASSUME PoolInv, stage # "stopped", NEW c \in Calls, Query(c) \/ QueryInside(c)
    PROVE  PoolInv'
<1>1. /\ calls' \in [Calls -> CallState]
      /\ calls'[c].at = calls[c].at /\ calls'[c].rows = calls[c].rows
      /\ \A d \in Calls : d # c => calls'[d] = calls[d]
    <2>1. calls \in [Calls -> CallState]
        BY DEF PoolInv, PoolTypeOK
    <2>2. CASE Query(c)
        BY <2>1, <2>2 DEF Query, CallState
    <2>3. CASE QueryInside(c)
        BY <2>1, <2>3 DEF QueryInside, CallState
    <2> QED
        BY <2>2, <2>3
<1>2. UNCHANGED <<owner, stage, engine, closed, failed>>
    BY DEF Query, QueryInside
<1>3. (c \in Holders' => c \in Holders) /\ (c \in Active' => c \in Active)
    BY <1>1 DEF Holders, Active
<1>4. \A r \in Rows : owner[r] = c => MayHold(c, calls'[c], r)
    BY <1>1, PoolAssumption DEF PoolInv, LocksInOrder, MayHold
<1>5. owner' \in [Rows -> Calls \cup {None}]
    BY <1>2 DEF PoolInv, PoolTypeOK
<1>6. c \notin Requests => calls'[c].rows \in InOrderLists
    BY <1>1 DEF PoolInv, LocksInOrder
<1> QED
    BY <1>1, <1>2, <1>3, <1>4, <1>5, <1>6, OneCall

\* The transaction takes a connection of the pool.
LEMMA BeginInv ==
    ASSUME PoolInv, stage # "stopped", NEW c \in Calls, Begin(c)
    PROVE  PoolInv'
<1>1. /\ calls' \in [Calls -> CallState]
      /\ calls'[c].rows = calls[c].rows /\ calls'[c].inside = calls[c].inside
      /\ \A d \in Calls : d # c => calls'[d] = calls[d]
    BY DEF Begin, PoolInv, PoolTypeOK, CallState
<1>2. HasFree /\ c \in Active /\ UNCHANGED <<owner, stage, engine, closed, failed>>
    BY DEF Begin, Active
<1>3. c \notin Requests => calls'[c].rows \in InOrderLists
    BY <1>1 DEF PoolInv, LocksInOrder
<1>4. \A r \in Rows : owner[r] # c
    BY PoolAssumption DEF PoolInv, LocksInOrder, MayHold, Begin
<1>5. owner' \in [Rows -> Calls \cup {None}]
    BY <1>2 DEF PoolInv, PoolTypeOK
<1> QED
    BY <1>1, <1>2, <1>3, <1>4, <1>5, OneCall

\* The first row of a list and the rest of it.
LEMMA RowListParts ==
    ASSUME NEW rows \in RowLists, rows # <<>>
    PROVE  /\ Head(rows) \in Rows /\ Tail(rows) \in RowLists
           /\ \/ Tail(rows) = <<>>
              \/ Head(rows) \in Keys /\ Tail(rows) \in OrderLists
              \/ Head(rows) \in OrderRows /\ \E t \in OrderRows : Tail(rows) = <<t>>
<1>1. OrderRows \subseteq Rows /\ Keys \subseteq Rows /\ OrderLists \subseteq RowLists
    BY DEF Rows, RowLists
<1>2. \A r \in OrderRows : <<r>> \in OrderLists
    BY DEF OrderLists
<1>3. CASE \E r \in Rows : rows = <<r>>
    BY <1>3 DEF RowLists
<1>4. CASE \E r, t \in OrderRows : rows = <<r, t>>
    <2>1. PICK r \in OrderRows, t \in OrderRows : rows = <<r, t>>
        BY <1>4
    <2>2. Head(rows) = r /\ Tail(rows) = <<t>>
        BY <2>1
    <2> QED
        BY <1>1, <1>2, <2>2
<1>5. CASE \E k \in Keys, r \in OrderRows : rows = <<k, r>>
    <2>1. PICK k \in Keys, r \in OrderRows : rows = <<k, r>>
        BY <1>5
    <2>2. Head(rows) = k /\ Tail(rows) = <<r>>
        BY <2>1
    <2> QED
        BY <1>1, <1>2, <2>2
<1>6. CASE \E k \in Keys, r \in OrderRows, t \in OrderRows : rows = <<k, r, t>>
    <2>1. PICK k \in Keys, r \in OrderRows, t \in OrderRows : rows = <<k, r, t>>
        BY <1>6
    <2>2. Head(rows) = k /\ Tail(rows) = <<r, t>>
        BY <2>1
    <2>3. <<r, t>> \in OrderLists
        BY DEF OrderLists
    <2> QED
        BY <1>1, <2>2, <2>3
<1>7. (\E r \in OrderRows : rows = <<r>>) => \E r \in Rows : rows = <<r>>
    BY <1>1
<1> QED
    BY <1>3, <1>4, <1>5, <1>6, <1>7 DEF RowLists, OrderLists

\* A settlement that locks a key has orders left, after its buy order the sell order.
LEMMA InOrderParts ==
    ASSUME NEW rows \in InOrderLists, rows # <<>>
    PROVE  /\ Tail(rows) \in InOrderLists
           /\ \/ Tail(rows) = <<>>
              \/ Head(rows) \in Keys /\ Tail(rows) \in OrderLists
              \/ Head(rows) \in Buys /\ \E s \in Sells : Tail(rows) = <<s>>
<1>1. CASE \E s \in Sells : rows = <<s>>
    BY <1>1 DEF InOrderLists
<1>2. CASE \E b \in Buys, s \in Sells : rows = <<b, s>>
    <2>1. PICK b \in Buys, s \in Sells : rows = <<b, s>>
        BY <1>2
    <2>2. Head(rows) = b /\ Tail(rows) = <<s>>
        BY <2>1
    <2> QED
        BY <2>2 DEF InOrderLists
<1>3. CASE \E k \in Keys, b \in Buys, s \in Sells : rows = <<k, b, s>>
    <2>1. PICK k \in Keys, b \in Buys, s \in Sells : rows = <<k, b, s>>
        BY <1>3
    <2>2. Head(rows) = k /\ Tail(rows) = <<b, s>>
        BY <2>1
    <2>3. <<b, s>> \in OrderLists /\ <<b, s>> \in InOrderLists
        BY DEF OrderLists, OrderRows, InOrderLists
    <2> QED
        BY <2>2, <2>3
<1> QED
    BY <1>1, <1>2, <1>3 DEF InOrderLists

\* A row lock: what is left to lock suits the row and those that the call has already.
LEMMA LockRowInv ==
    ASSUME PoolInv, stage # "stopped", NEW c \in Calls, LockRow(c)
    PROVE  PoolInv'
<1>1. /\ calls \in [Calls -> CallState] /\ calls[c].rows \in RowLists /\ calls[c].rows # <<>>
      /\ owner \in [Rows -> Calls \cup {None}] /\ calls[c].at = "inside"
    BY DEF PoolInv, PoolTypeOK, CallState, LockRow
<1> DEFINE first == Head(calls[c].rows)
           rest == Tail(calls[c].rows)
<1>2. /\ first \in Rows /\ rest \in RowLists
      /\ \/ rest = <<>>
         \/ first \in Keys /\ rest \in OrderLists
         \/ first \in OrderRows /\ \E t \in OrderRows : rest = <<t>>
    BY <1>1, RowListParts
<1>3. c \notin Requests =>
          /\ rest \in InOrderLists
          /\ \/ rest = <<>>
             \/ first \in Keys /\ rest \in OrderLists
             \/ first \in Buys /\ \E s \in Sells : rest = <<s>>
    BY <1>1, InOrderParts DEF PoolInv, LocksInOrder
<1>4. calls' = [calls EXCEPT ![c].rows = rest] /\ owner' = [owner EXCEPT ![first] = c]
    BY DEF LockRow
<1>5. ASSUME NEW r \in Rows, owner[r] = c
      PROVE  \/ rest = <<>>
             \/ r \in Keys /\ rest \in OrderLists
    <2>1. MayHold(c, calls[c], r)
        BY <1>5, PoolAssumption DEF PoolInv, LocksInOrder
    <2>2. CASE r \in Keys /\ calls[c].rows \in OrderLists
        <3>1. CASE \E x \in OrderRows : calls[c].rows = <<x>>
            BY <3>1
        <3>2. CASE \E x, y \in OrderRows : calls[c].rows = <<x, y>>
            <4>1. PICK x \in OrderRows, y \in OrderRows : calls[c].rows = <<x, y>>
                BY <3>2
            <4>2. rest = <<y>>
                BY <4>1
            <4> QED
                BY <2>2, <4>2 DEF OrderLists
        <3> QED
            BY <2>2, <3>1, <3>2 DEF OrderLists
    <2>3. CASE \E t \in OrderRows : calls[c].rows = <<t>>
        BY <2>3
    <2> QED
        BY <1>1, <2>1, <2>2, <2>3 DEF MayHold
<1> HIDE DEF first, rest
<1>6. /\ calls' \in [Calls -> CallState]
      /\ calls'[c].rows = rest /\ calls'[c].at = "inside"
      /\ \A d \in Calls : d # c => calls'[d] = calls[d]
    BY <1>1, <1>2, <1>4 DEF CallState
<1>7. MayHold(c, calls'[c], first)
    <2>1. CASE c \in Requests
        BY <1>2, <1>6, <2>1 DEF MayHold
    <2>2. CASE c \notin Requests
        BY <1>3, <1>6, <2>2 DEF MayHold, OrderRows
    <2> QED
        BY <2>1, <2>2
<1>8. \A r \in Rows : owner[r] = c => MayHold(c, calls'[c], r)
    BY <1>5, <1>6 DEF MayHold
<1>9. /\ owner' \in [Rows -> Calls \cup {None}]
      /\ \A r \in Rows : owner'[r] # None =>
             \/ owner'[r] = owner[r] /\ owner[r] # c
             \/ owner'[r] = c /\ MayHold(c, calls'[c], r)
    BY <1>1, <1>2, <1>4, <1>7, <1>8
<1>10. c \in Holders /\ c \in Active /\ UNCHANGED <<stage, engine, closed, failed>>
    BY <1>1 DEF Holders, Active, LockRow
<1> QED
    BY <1>3, <1>6, <1>9, <1>10, OneCall

\* The steps of run() and of the engine.
LEMMA ShutdownInv ==
    ASSUME PoolInv, Signal \/ Shutdown \/ EngineStops
    PROVE  PoolInv'
<1>1. UNCHANGED <<calls, owner>>
    BY DEF Signal, Shutdown, EngineStops, Drained, DrainTimesOut, ClosePool, Exit
<1>2. Holders' = Holders /\ Active' = Active
    BY <1>1 DEF Holders, Active
<1>3. PoolTypeOK'
    BY <1>1 DEF PoolInv, PoolTypeOK, Signal, Shutdown, EngineStops, Drained, DrainTimesOut,
                ClosePool, Exit
<1>4. LocksInOrder' /\ WithinPool'
    BY <1>1, <1>2 DEF PoolInv, LocksInOrder, WithinPool
<1>5. StageInv'
    BY <1>2 DEF PoolInv, PoolTypeOK, StageInv, Signal, Shutdown, EngineStops, Drained,
                DrainTimesOut, ClosePool, WorkersDone, Exit
<1> QED
    BY <1>3, <1>4, <1>5 DEF PoolInv

\* The invariant of the pool, its locks and the shutdown.
THEOREM PoolInvariantHolds == Spec => []PoolInv
<1>1. PoolInv /\ [Next]_vars => PoolInv'
    <2> SUFFICES ASSUME PoolInv, [Next]_vars PROVE PoolInv'
        OBVIOUS
    <2>1. CASE UNCHANGED vars
        BY <2>1 DEF vars, PoolInv, PoolTypeOK, LocksInOrder, WithinPool, StageInv, Holders, Active
    <2>2. ASSUME stage # "stopped", NEW c \in Calls, Start(c) \/ Step(c) \/ Abort(c) \/ BreakDeadlock(c)
          PROVE  PoolInv'
        BY <2>2, StartInv, EndCallInv, QueryInv, BeginInv, LockRowInv
        DEF Step, Abort, Commit, FindsPoolClosed, BreakDeadlock
    <2> QED
        BY <2>1, <2>2, ShutdownInv DEF Next
<1> QED
    BY PoolInitInv, <1>1, PTL DEF Spec

-----------------------------------------------------------------------------
\* Who waits for a row waits for a transaction that has locked it.
LEMMA WaitersOfRows ==
    ASSUME PoolInv, NEW c \in Holders, WaitsForRow(c)
    PROVE  /\ calls[c].rows \in RowLists /\ calls[c].rows # <<>>
           /\ Head(calls[c].rows) \in Rows
           /\ BlockedBy(c) \in Holders
           /\ MayHold(BlockedBy(c), calls[BlockedBy(c)], Head(calls[c].rows))
<1>1. c \in Calls /\ calls[c].rows \in RowLists /\ calls[c].rows # <<>>
    BY DEF Holders, WaitsForRow, PoolInv, PoolTypeOK, CallState
<1>2. Head(calls[c].rows) \in Rows
    BY <1>1, RowListParts
<1>3. BlockedBy(c) \in Calls /\ BlockedBy(c) # None
    BY <1>2 DEF WaitsForRow, BlockedBy, PoolInv, PoolTypeOK
<1>4. MayHold(BlockedBy(c), calls[BlockedBy(c)], Head(calls[c].rows))
    BY <1>2, <1>3 DEF BlockedBy, PoolInv, LocksInOrder
<1> QED
    BY <1>1, <1>2, <1>3, <1>4 DEF MayHold, Holders

\* In a circle each transaction has locked an order and waits for another one; if all
\* were in order, everybody would wait for a seller, and have locked a buyer that the
\* one before waits for.
LEMMA CyclesAreMisnamed == PoolInv => CyclesTakeAMisnamedTrade
<1> SUFFICES ASSUME PoolInv, NEW S \in SUBSET Holders, LockCycle(S),
                    ~ \E c \in S \cap Requests : NamesOrdersAnyhow(c)
             PROVE  FALSE
    BY DEF CyclesTakeAMisnamedTrade
<1>1. \A c \in S : /\ calls[c].rows \in RowLists /\ calls[c].rows # <<>>
                   /\ Head(calls[c].rows) \in Rows
                   /\ MayHold(BlockedBy(c), calls[BlockedBy(c)], Head(calls[c].rows))
    BY WaitersOfRows DEF LockCycle
<1>2. \A d \in S : \E c \in S : BlockedBy(c) = d
    BY DEF LockCycle
<1>3. \A x \in OrderLists : Head(x) \in OrderRows
    BY DEF OrderLists
<1>4. ASSUME NEW d \in S
      PROVE  Head(calls[d].rows) \in OrderRows
    <2>1. PICK c \in S : BlockedBy(c) = d
        BY <1>2
    <2>2. MayHold(d, calls[d], Head(calls[c].rows)) /\ calls[d].rows # <<>>
        BY <1>1, <2>1
    <2> QED
        BY <1>3, <2>2 DEF MayHold
<1>5. ASSUME NEW c \in S
      PROVE  Head(calls[c].rows) \in Buys /\ Head(calls[BlockedBy(c)].rows) \in Sells
    <2> DEFINE r == Head(calls[c].rows)
               d == BlockedBy(c)
    <2>1. d \in S /\ r \in OrderRows /\ r \in Rows /\ owner[r] = d
        BY <1>1, <1>4 DEF LockCycle, BlockedBy
    <2>2. MayHold(d, calls[d], r) /\ calls[d].rows # <<>>
        BY <1>1, <2>1
    <2> HIDE DEF r, d
    <2>3. PICK t \in OrderRows : /\ calls[d].rows = <<t>>
                                 /\ d \in Requests \/ (r \in Buys /\ t \in Sells)
        BY <2>1, <2>2, PoolAssumption DEF MayHold
    <2>4. Head(calls[d].rows) = t
        BY <2>3
    <2>5. d \in Requests => <<r, t>> \in Buys \X Sells
        BY <2>1, <2>4 DEF NamesOrdersAnyhow
    <2>6. r \in Buys /\ t \in Sells
        BY <2>3, <2>5
    <2> QED
        BY <2>4, <2>6 DEF r, d
<1>6. PICK c \in S : TRUE
    BY DEF LockCycle
<1>7. BlockedBy(c) \in S
    BY <1>6 DEF LockCycle
<1> QED
    BY <1>5, <1>6, <1>7, PoolAssumption

\* A set of naturals that has an element has a least one.
LEMMA LeastOne ==
    ASSUME NEW T \in SUBSET Nat, T # {}
    PROVE  \E n \in T : \A m \in T : n <= m
<1> DEFINE Less == OpToRel(<, Nat)
<1>1. IsWellFoundedOn(Less, Nat)
    BY NatLessThanWellFounded
<1>2. \A i, j \in Nat : i < j => <<i, j>> \in Less
    BY DEF OpToRel
<1> HIDE DEF Less
<1>3. PICK n \in T : \A m \in T : <<m, n>> \notin Less
    BY <1>1, WFMin
<1>4. \A m \in T : ~(m < n)
    BY <1>2, <1>3
<1>5. \A m \in T : n <= m
    BY <1>4
<1> QED
    BY <1>5

\* Some transactions that all wait for rows of each other.
WaitAmongThemselves(S) ==
    S \in SUBSET Holders /\ S # {} /\ \A c \in S : WaitsForRow(c) /\ BlockedBy(c) \in S

\* The smallest such set is a circle.
LEMMA WaitingForRowsIsACycle ==
    ASSUME PoolInv, WaitAmongThemselves(Holders)
    PROVE  Deadlocked
<1> DEFINE Sizes == {n \in Nat : \E S \in SUBSET Holders : WaitAmongThemselves(S) /\ Cardinality(S) = n}
<1>1. \A S \in SUBSET Holders : IsFiniteSet(S) /\ Cardinality(S) \in Nat
    BY HoldersFinite, FS_Subset, FS_CardinalityType
<1>2. Sizes \in SUBSET Nat /\ Sizes # {}
    BY HoldersFinite
<1>3. PICK n \in Sizes : \A m \in Sizes : n <= m
    <2> HIDE DEF Sizes
    <2> QED
        BY <1>2, LeastOne
<1>4. PICK S \in SUBSET Holders : WaitAmongThemselves(S) /\ Cardinality(S) = n
    BY <1>3
<1> DEFINE Awaited == {BlockedBy(c) : c \in S}
<1>5. Awaited \in SUBSET S /\ Awaited \in SUBSET Holders /\ WaitAmongThemselves(Awaited)
    BY <1>4 DEF WaitAmongThemselves
<1> HIDE DEF Awaited
<1>6. Cardinality(S) <= Cardinality(Awaited)
    BY <1>1, <1>3, <1>4, <1>5
<1>7. Cardinality(Awaited) <= Cardinality(S) /\ (Cardinality(S) = Cardinality(Awaited) => S = Awaited)
    BY <1>1, <1>5, FS_Subset
<1>8. Awaited = S
    BY <1>1, <1>5, <1>6, <1>7
<1>9. LockCycle(S)
    BY <1>4, <1>8 DEF LockCycle, WaitAmongThemselves, Awaited
<1> QED
    BY <1>4, <1>9 DEF Deadlocked, OnCycle, LockCycle, WaitAmongThemselves

\* When all the transactions wait and no circle of row locks is among them, they have
\* all the connections and one of them asks for another.
LEMMA StuckIsExhausted == PoolInv => StuckOnlyWhenExhausted
<1> SUFFICES ASSUME PoolInv, Stuck, ~Deadlocked
             PROVE  Cardinality(Holders) = MaxConns /\ \E c \in Holders : NeedsConnection(c)
    BY DEF StuckOnlyWhenExhausted, Exhausted
<1>1. \E c \in Holders : NeedsConnection(c)
    <2> SUFFICES ASSUME \A c \in Holders : ~NeedsConnection(c)
                 PROVE  FALSE
        OBVIOUS
    <2>1. \A c \in Holders : WaitsForRow(c)
        BY DEF Stuck, Waits
    <2>2. WaitAmongThemselves(Holders)
        BY <2>1, WaitersOfRows DEF WaitAmongThemselves, Stuck
    <2> QED
        BY <2>2, WaitingForRowsIsACycle
<1>2. ~HasFree
    BY <1>1 DEF Stuck, Waits, WaitsForRow, NeedsConnection, Holders
<1> QED
    BY <1>1, <1>2, HoldersFinite, PoolAssumption DEF PoolInv, WithinPool, HasFree

\* Transactions wait for each other in a circle of rows only with a POST /trades that
\* names two orders in another way than buy, sell; otherwise all of them wait only when
\* they have all the connections and one of them asks the pool for another.
THEOREM DeadlocksHaveTwoCauses == Spec => []DeadlocksAreKnown
<1>1. PoolInv => DeadlocksAreKnown
    BY CyclesAreMisnamed, StuckIsExhausted DEF DeadlocksAreKnown
<1> QED
    BY <1>1, PoolInvariantHolds, PTL

\* After a shutdown that drained no request and no worker meets a closed pool.
THEOREM PoolIsClosedLast == Spec => []PoolClosedLast
<1>1. PoolInv => PoolClosedLast
    BY DEF PoolInv, StageInv, PoolClosedLast
<1> QED
    BY <1>1, PoolInvariantHolds, PTL
=============================================================================
