------------------------------ MODULE ConnPool ------------------------------
(***************************************************************************)
(* The database connections of the process: the pgx pool, the calls that   *)
(* share it, the rows their transactions lock, and the shutdown that ends  *)
(* the workers and closes the pool.                                        *)
(*                                                                         *)
(* A call uses the pool for queries of their own, then begins a            *)
(* transaction, which keeps one connection, inserts a unique value or      *)
(* locks rows with SELECT ... FOR UPDATE one after the other, and, in four *)
(* of the services, asks the pool for another connection to look accounts  *)
(* or assets up before it writes and commits.  A query of its own takes a  *)
(* connection, waits for no lock and gives the connection back; queries,   *)
(* and transactions before the last one, that follow each other are one    *)
(* step here, because each of them asks the pool in the same way.          *)
(*                                                                         *)
(* Left out: what the transactions write and which values are spent        *)
(* (Exchange, Funds: a call that finds its value spent ends like one that  *)
(* is refused), a query after the commit, which keeps nothing, and the     *)
(* loss of a connection.  The market feed and the bot use no database;     *)
(* that they stop is in PartnerFeed.                                       *)
(***************************************************************************)
EXTENDS Integers, Sequences, FiniteSets

CONSTANTS Settlements,  \* settlement goroutines of the event bus
          Requests,     \* HTTP requests
          Polls,        \* outbox publishers
          Buys,         \* order rows of side BUY
          Sells,        \* order rows of side SELL
          Deposits,     \* rows of deposits
          Keys,         \* values of unique columns, rows of users
          MatchKeys,    \* those that matches of the engine have as well as requests
          MaxConns,     \* DB_MAX_CONNS, the size of the pool
          None          \* nobody

Calls == Settlements \cup Requests \cup Polls
OrderRows == Buys \cup Sells
Rows == OrderRows \cup Deposits \cup Keys

ASSUME PoolAssumption ==
    /\ IsFiniteSet(Calls)
    /\ Settlements \cap Requests = {} /\ Polls \cap (Settlements \cup Requests) = {}
    /\ Buys \cap Sells = {} /\ Deposits \cap OrderRows = {}
    /\ Keys \cap (OrderRows \cup Deposits) = {} /\ MatchKeys \subseteq Keys
    /\ MaxConns \in Nat \ {0}
    /\ None \notin Calls

VARIABLES calls,   \* [Calls -> [at, before, rows, inside]]: where each call is and what it still has to do
          owner,   \* [Rows -> Calls \cup {None}], the transaction that has locked the row
          stage,   \* run(): serving, draining, stopping, closing, stopped
          engine,  \* the engine's workers run
          closed,  \* pool.Close has been called
          failed   \* srv.Shutdown gave up on the requests in progress

vars == <<calls, owner, stage, engine, closed, failed>>

-----------------------------------------------------------------------------
(* What a call does: whether it queries before its transaction, the rows   *)
(* it locks, in this order, and whether it queries inside the transaction. *)

Work(before, rows, inside) == [before |-> before, rows |-> rows, inside |-> inside]

\* Mutant: a settlement locks the incoming order first, whichever side it is on.
SettleInMatchOrder(before) ==
    {Work(before, rs, TRUE) : rs \in (Buys \X Sells) \cup (Sells \X Buys)}

\* ExecuteTrade for a match of the engine: the buy order, the sell order, and four
\* lookups of AccountID while both are locked.  Nobody waits for the key of a match,
\* which comes first, unless a caller of POST /trades names it too.
Settle(before) ==
    {Work(before, rs, TRUE) : rs \in (Buys \X Sells) \cup (MatchKeys \X Buys \X Sells)}

\* The row of the MARKET user is a transaction of its own before the trade.
SettlePartner == Settle(TRUE)

\* POST /trades: ExecuteTrade with the key and the orders that the caller names.  It
\* looks at the sides under the locks and refuses before it looks accounts up.  To lock
\* one order twice is to lock it once.
ManualTrade ==
    {IF r = t THEN Work(FALSE, <<k, r>>, FALSE)
              ELSE Work(FALSE, <<k, r, t>>, <<r, t>> \in Buys \X Sells) :
         k \in Keys, r \in OrderRows, t \in OrderRows}

\* GetOrder of the handler, GetByID, and AccountID under the lock.
CancelOrder == {Work(TRUE, <<r>>, TRUE) : r \in OrderRows}

\* AccountID and SumByUserAsset come before the transaction, which begins with the key.
PlaceOrder == {Work(TRUE, <<k>>, FALSE) : k \in Keys}
Withdraw == {Work(TRUE, <<k>>, FALSE) : k \in Keys}

\* The transaction hash is unique.
Intake == {Work(TRUE, <<k>>, FALSE) : k \in Keys}

\* Each of the three tries is a transaction with an insertion.
GetOrCreateAddress == {Work(TRUE, <<k>>, FALSE) : k \in Keys}

Confirm == {Work(FALSE, <<d>>, TRUE) : d \in Deposits}
Reject == {Work(FALSE, <<d>>, FALSE) : d \in Deposits}

\* The lookup, Intake, and then Confirm of the row it has inserted.
SimulateDeposit == {Work(TRUE, <<d>>, TRUE) : d \in Deposits}

\* The address of the user is unique; ProvisionAll reads the enabled assets.
CreateUser == {Work(FALSE, <<k>>, TRUE) : k \in Keys}

DeleteUser == {Work(FALSE, <<k>>, FALSE) : k \in Keys}

\* ListPending skips rows that are locked.
ProcessBatch == {Work(FALSE, <<>>, FALSE)}

WorkOf(c) ==
    IF c \in Settlements THEN Settle(FALSE) \cup SettlePartner
    ELSE IF c \in Polls THEN ProcessBatch
    ELSE ManualTrade \cup CancelOrder \cup PlaceOrder \cup Withdraw \cup Intake
         \cup GetOrCreateAddress \cup Confirm \cup Reject \cup SimulateDeposit
         \cup CreateUser \cup DeleteUser

Nothing == Work(FALSE, <<>>, FALSE)
Call(at, w) == [at |-> at, before |-> w.before, rows |-> w.rows, inside |-> w.inside]

Active == {c \in Calls : calls[c].at \in {"outside", "inside"}}

\* The transactions in progress; each has one connection.
Holders == {c \in Calls : calls[c].at = "inside"}

\* The pool has a connection to give, or may open one.
HasFree == Cardinality(Holders) < MaxConns

-----------------------------------------------------------------------------
(* The calls *)

\* Mutant: the publisher does not look at its context.
MayStartForever(c) ==
    \/ c \in Requests /\ stage = "serving"
    \/ c \in Settlements /\ engine
    \/ c \in Polls

\* Requests come while the server listens, settlements while the engine matches,
\* and the publisher's ticker fires until its context is done.
MayStart(c) ==
    \/ c \in Requests /\ stage = "serving"
    \/ c \in Settlements /\ engine
    \/ c \in Polls /\ stage \in {"serving", "draining"}

Start(c) ==
    /\ calls[c].at = "idle"
    /\ MayStart(c)
    /\ \E w \in WorkOf(c) : calls' = [calls EXCEPT ![c] = Call("outside", w)]
    /\ UNCHANGED <<owner, stage, engine, closed, failed>>

\* Commit or rollback: the connection and the locks are given back.
EndCall(c) ==
    /\ calls' = [calls EXCEPT ![c] = Call(IF c \in Polls THEN "idle" ELSE "done", Nothing)]
    /\ owner' = [r \in Rows |-> IF owner[r] = c THEN None ELSE owner[r]]
    /\ UNCHANGED <<stage, engine, closed, failed>>

\* A query before the transaction.
Query(c) ==
    /\ calls[c].at = "outside" /\ calls[c].before
    /\ HasFree /\ ~closed
    /\ calls' = [calls EXCEPT ![c].before = FALSE]
    /\ UNCHANGED <<owner, stage, engine, closed, failed>>

Begin(c) ==
    /\ calls[c].at = "outside" /\ ~calls[c].before
    /\ HasFree /\ ~closed
    /\ calls' = [calls EXCEPT ![c].at = "inside"]
    /\ UNCHANGED <<owner, stage, engine, closed, failed>>

\* GetByIDTx, or an insertion of a unique value.
LockRow(c) ==
    /\ calls[c].at = "inside" /\ calls[c].rows # <<>>
    /\ owner[Head(calls[c].rows)] = None
    /\ owner' = [owner EXCEPT ![Head(calls[c].rows)] = c]
    /\ calls' = [calls EXCEPT ![c].rows = Tail(@)]
    /\ UNCHANGED <<stage, engine, closed, failed>>

\* A query through the pool while the transaction keeps its connection.
QueryInside(c) ==
    /\ calls[c].at = "inside" /\ calls[c].rows = <<>> /\ calls[c].inside
    /\ HasFree /\ ~closed
    /\ calls' = [calls EXCEPT ![c].inside = FALSE]
    /\ UNCHANGED <<owner, stage, engine, closed, failed>>

Commit(c) ==
    /\ calls[c].at = "inside" /\ calls[c].rows = <<>> /\ ~calls[c].inside
    /\ EndCall(c)

NeedsConnection(c) ==
    \/ calls[c].at = "outside"
    \/ calls[c].at = "inside" /\ calls[c].rows = <<>> /\ calls[c].inside

\* Mutant: a transaction in progress is not told that the pool is closed.
FindsPoolClosedOutside(c) ==
    /\ calls[c].at = "outside"
    /\ HasFree /\ closed
    /\ EndCall(c)

\* Acquire waits for a free connection first and only then sees that the pool is closed.
FindsPoolClosed(c) ==
    /\ NeedsConnection(c)
    /\ HasFree /\ closed
    /\ EndCall(c)

WaitsForRow(c) ==
    /\ calls[c].at = "inside" /\ calls[c].rows # <<>>
    /\ owner[Head(calls[c].rows)] # None

BlockedBy(c) == owner[Head(calls[c].rows)]

Waits(c) == WaitsForRow(c) \/ (NeedsConnection(c) /\ ~HasFree)

\* Transactions that wait for each other's rows in a circle, or in several.
LockCycle(S) == S # {} /\ (\A c \in S : WaitsForRow(c)) /\ {BlockedBy(c) : c \in S} = S

OnCycle(c) == WaitsForRow(c) /\ \E S \in SUBSET Holders : c \in S /\ LockCycle(S)

\* A request ends with its client and the publisher with its context, also while they
\* wait; settlements run with context.Background().
GivesUp(c) == c \in Requests \/ (c \in Polls /\ stage \in {"stopping", "closing"})

\* The service refuses, the database reports an error, or the context is done.
Abort(c) ==
    /\ c \in Active
    /\ ~Waits(c) \/ GivesUp(c)
    /\ EndCall(c)

\* PostgreSQL looks for circles of row locks, after deadlock_timeout, and makes one of
\* the transactions fail.  It knows nothing of the waits for the pool.
BreakDeadlock(c) ==
    /\ OnCycle(c)
    /\ EndCall(c)

-----------------------------------------------------------------------------
(* run() after the signal *)

Signal ==
    /\ stage = "serving"
    /\ stage' = "draining"
    /\ UNCHANGED <<calls, owner, engine, closed, failed>>

\* srv.Shutdown returns: cancelWorkers.
Drained ==
    /\ stage = "draining"
    /\ Active \cap Requests = {}
    /\ stage' = "stopping"
    /\ UNCHANGED <<calls, owner, engine, closed, failed>>

\* The drain timeout: run returns its error, and the deferred calls cancel the workers
\* and close the pool without waiting for them.
DrainTimesOut ==
    /\ stage = "draining"
    /\ Active \cap Requests # {}
    /\ stage' = "closing"
    /\ closed' = TRUE
    /\ failed' = TRUE
    /\ UNCHANGED <<calls, owner, engine>>

EngineStops ==
    /\ stage \in {"stopping", "closing"}
    /\ engine
    /\ engine' = FALSE
    /\ UNCHANGED <<calls, owner, stage, closed, failed>>

\* Mutant: run does not wait for the publisher.
WorkersDoneEarly == ~engine

WorkersDone == ~engine /\ Active \cap Polls = {}

\* engineDone, outboxDone and the others, then the deferred pool.Close.
ClosePool ==
    /\ stage = "stopping"
    /\ WorkersDone
    /\ stage' = "closing"
    /\ closed' = TRUE
    /\ UNCHANGED <<calls, owner, engine, failed>>

\* pool.Close returns when every connection has come back; the process ends.
Exit ==
    /\ stage = "closing"
    /\ Holders = {}
    /\ stage' = "stopped"
    /\ UNCHANGED <<calls, owner, engine, closed, failed>>

-----------------------------------------------------------------------------
Init ==
    /\ calls = [c \in Calls |-> Call("idle", Nothing)]
    /\ owner = [r \in Rows |-> None]
    /\ stage = "serving"
    /\ engine = TRUE
    /\ closed = FALSE
    /\ failed = FALSE

Step(c) == Query(c) \/ Begin(c) \/ LockRow(c) \/ QueryInside(c) \/ Commit(c) \/ FindsPoolClosed(c)

Shutdown == Drained \/ DrainTimesOut \/ ClosePool \/ Exit

Next ==
    \/ stage # "stopped" /\ \E c \in Calls : Start(c) \/ Step(c) \/ Abort(c) \/ BreakDeadlock(c)
    \/ Signal \/ Shutdown \/ EngineStops

Spec == Init /\ [][Next]_vars

\* Waiters for a connection and for a row lock are queued, so a call that can go on
\* again and again does; the database looks for deadlocks; the publisher's context
\* ends its waits; run() goes on.
FairSpec ==
    /\ Spec
    /\ \A c \in Calls : SF_vars(stage # "stopped" /\ Step(c))
    /\ WF_vars(stage # "stopped" /\ \E c \in Calls : BreakDeadlock(c))
    /\ \A c \in Polls : WF_vars(stage \in {"stopping", "closing"} /\ Abort(c))
    /\ WF_vars(Shutdown) /\ WF_vars(EngineStops)

-----------------------------------------------------------------------------
(* Properties *)

\* Every transaction in progress waits.
Stuck == Holders # {} /\ \A c \in Holders : Waits(c)

Deadlocked == \E c \in Holders : OnCycle(c)

\* Every transaction waits and the database will not help.
Exhausted == Stuck /\ ~Deadlocked

\* The call has locked an order and waits for another one, but not for the sell order
\* of a buy order.
NamesOrdersAnyhow(c) ==
    \E r \in OrderRows : owner[r] = c /\ <<r, Head(calls[c].rows)>> \notin Buys \X Sells

\* Settlements, cancellations, reviews of deposits and trades that name their orders
\* properly never close a circle of row locks, whatever keys they share: it takes a
\* POST /trades that names two orders in another way than buy, sell.
CyclesTakeAMisnamedTrade ==
    \A S \in SUBSET Holders : LockCycle(S) => \E c \in S \cap Requests : NamesOrdersAnyhow(c)

\* Without such a circle everybody waits only when the pool has no connection left
\* and one of those that have one asks it for another.
StuckOnlyWhenExhausted ==
    Exhausted => /\ Cardinality(Holders) = MaxConns
                 /\ \E c \in Holders : NeedsConnection(c)

\* The two ways in which transactions wait for each other.
DeadlocksAreKnown == CyclesTakeAMisnamedTrade /\ StuckOnlyWhenExhausted

\* Every call ends, in whatever order connections and locks are given out, unless
\* the pool is exhausted in that way.
CallsEndUnlessExhausted ==
    \A c \in Calls : c \in Active ~> (c \notin Active \/ Exhausted \/ stage = "stopped")

\* README, graceful shutdown: once the signal has come the process ends, although
\* pool.Close waits for every connection and nobody waits for the settlements.
StopsUnlessExhausted == stage = "draining" ~> (stage = "stopped" \/ Exhausted)

\* README, graceful shutdown: "Pool closed last".  When the requests have been
\* drained, neither they nor a worker ever meets a closed pool.
PoolClosedLast ==
    closed /\ ~failed => ~engine /\ Active \cap (Requests \cup Polls) = {}

=============================================================================
