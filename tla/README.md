# Verification of mynance

TLA+ models of the mynance exchange (Go, `src/`), checked with TLC on small
instances, with TLAPS proofs of all safety properties of the passing runs. Every definition
is translated from the Go source; `PROJECT.json` maps each one to its lines.

## The system

mynance is one process in front of one PostgreSQL database. HTTP handlers call
services; a service writes its tables in one transaction and may then hand a
command to the in-memory matching engine. The engine publishes events on an
in-process bus; handlers of these events settle trades, keep the public view of
the book and feed WebSocket clients.

| Component | State | Operations | Talks to |
|---|---|---|---|
| Matching engine (`internal/engine`) | per symbol: price levels, FIFO lists, trade counter, bounded command channel | `Submit`, `LoadOrder`, `Start`, `handlePlace`, `handleCancel`, `Match` | bus (trades, rested, cancelled) |
| Order service (`internal/order`) | `orders`, RESERVE/RELEASE entries | `PlaceOrder`, `CancelOrder` | engine after its commit |
| Trade service and settlement (`internal/trade`, `engine/settlement.go`) | `trades`, fills and status of `orders`, TRADE entries | `ExecuteTrade`, by the bus and by POST /trades | database only |
| Sandbox settlement (`engine/settlement_sandbox.go`) | order rows of the MARKET user | `OnTradeMatched`, `persistMarketOrder` | trade service |
| Start, restart, shutdown (`cmd/server/main.go`) | the whole process memory | `rehydrateEngine`, drain, stop of the workers, `pool.Close` | engine, workers, pool |
| Connection pool (pgxpool, as the services use it) | connections, row locks of their transactions | query, begin, lock, commit, PostgreSQL's abort of a deadlock | every service |
| Paginated lists (`shared.ParsePagination`, the `List*` queries) | none | a page, a total | read all tables |
| Users, accounts, wallets (`internal/user`, `account`, `wallet`) | `users`, `accounts`, `wallet_addresses` | `CreateUser`+`ProvisionAll`, `DeleteUser`, `GetOrCreateAddress` | read by deposits and debits |
| Deposits, withdrawals (`internal/deposit`, `withdrawal`) | `deposits`, `withdrawals` | `Intake`, `Confirm`, `Reject`, `Simulate`, `Withdraw` | ledger, keys, outbox |
| Ledger, idempotency keys | `ledger_entries`, `idempotency_keys` | `Insert`, `SumByUserAsset` | written in others' transactions |
| Outbox (`internal/outbox`) | `outbox_events` | `Insert`, poll, deliver, mark | its handler |
| Event bus (`internal/eventbus`) | subscriptions | `Publish`: one goroutine per event and handler | settlement, market data, WebSocket |
| Market data (`internal/marketdata`) | levels and recent trades in memory | three event handlers | GET /orderbook |
| WebSocket feed (`internal/wsfeed`) | hub, clients, bounded queues | register, subscribe, publish, read and write loops | peers |
| Partner stream (`internal/marketfeed`) | snapshots with their age, reconnect loop | dial, read, pause | bot |
| Liquidity bot (`internal/partnerfeed`) | the levels it believes to rest | `tick`, `sync` | engine channel |
| Asset catalog, candles, auth, config, the earlier layout (`internal/{handler,service,repository,domain}`) | see `PROJECT.json` | | not modelled |

### What is hard here

* Requests commit and only then submit to the engine, so commands arrive in any
  order, and a full channel drops them.
* Settlements run in goroutines of their own, in any order, may fail, and are not
  retried; cancellations race them for the same rows.
* The process may stop anywhere. The book is rebuilt from rows which do not know
  the matches that were not settled, and the trade counter starts at 0 again.
* Balances are read before the transaction that relies on them.
* Event handlers of the views run in any order.
* Bounded queues: engine channel, WebSocket queues, outbox batch.
* A bounded pool of connections which some transactions ask for a second one while
  they keep rows locked; POST /trades locks whatever orders it is given.
* In the sandbox a match of the bot becomes two transactions, and only the first
  of them may happen.
* Pages of a list are queries of their own, between which rows come and go.
* Goroutines that have to end each other (WebSocket) or be ended (shutdown).

`PROJECT.json` lists these as hazards, each at its line with the properties that
would show it going wrong, or with the reason why none does yet.

## Modules

| Module | Models |
|---|---|
| `MatchingBook` | the steps of the engine worker on a book seen as a price-time priority queue: a set of resting orders and the relation `ahead` |
| `BookSpec` | the abstract specification of the book: load, start, place, match, cancel |
| `OrderBook` | `book.go` as written: sorted slices of price levels with FIFO lists, `addBid`/`addAsk`, `matchBuy`/`matchSell`, `Cancel`; refines `BookSpec` |
| `Exchange` | user orders on one symbol from request to settlement: tables, requests, channel, worker (`MatchingBook`), settlement goroutines, restart |
| `ExchangeInv` | the inductive invariant of `Exchange` |
| `ManualTrades` | POST /trades on `Exchange`, a route that asks for a login and no role |
| `Sandbox` | `Exchange` and `ManualTrades` with the bot's ownerless orders and the rows of the MARKET user |
| `Accounts` | sign-up, soft delete and concurrent requests for a deposit address |
| `Funds` | `Accounts` with deposits, withdrawals, order reserves, idempotency keys and the ledger of one user and asset |
| `Outbox` | rows, overlapping publishers, failing handlers and crashes |
| `MarketData` | `BookSpec` with the events of the book, their unordered handlers and the public view |
| `WsFeed` | hub, bridges, reader and writer goroutines, queues and their closing |
| `MarketFeed` | dialing, reading, pausing (in integers of a given width), snapshot and its age |
| `PartnerFeed` | `MarketFeed` with the bot and the engine's channel |
| `ConnPool` | who keeps which connections and row locks, and the shutdown of the process |
| `Listing` | a walk through a paginated list while other requests insert and delete |
| `OrderBookProofs`, `OutboxProofs`, `MarketDataProofs`, `ConnPoolProofs` | inductive invariant and theorems of the module of that name |
| `ExchangeProofs` | theorems of `Exchange`, then those of `Sandbox`, which builds on it |
| `FundsProofs`, `PartnerFeedProofs` | theorems of `Funds` with `Accounts`, and of `PartnerFeed` with `MarketFeed` |
| `ApiProofs` | theorems of the two parts that only serve clients, `WsFeed` and `Listing` |
| `MC*` | constants and symmetry of the runs |

**Correspondence.** Variables are named for the columns, fields and channels they
stand for; each VARIABLES line says which. One action is one handler, or one part
of it up to the next point where something else can happen. A transaction is one
action in `Exchange`, because it locks the rows it changes (`FOR UPDATE`) and is
invisible until it commits. In `Funds` and `Accounts` it is cut where it can
wait: at a row lock and at a unique index. `Match` is a step per fill: the
worker alone owns the book, so this adds no other writer, but a crash may fall
between two fills. Definitions called "Mutant" in a comment are
plausible errors with which the properties are tested; no specification uses them.

**Abstractions.** One symbol (shards share nothing). Prices and quantities are
positive whole multiples of the smallest increment: the book's float64
arithmetic and its rounding are not modelled, nor are orders whose quantity is
not positive. Amounts of TRADE entries are not tracked. The bot is seen from two
sides: `PartnerFeed` has its state and reduces the engine to what becomes of its
orders, `Sandbox` has the engine and the settlement and lets the bot place and
cancel at any time. `ConnPool` keeps of a transaction what others can wait for: its
connection and its row locks, and of an insertion under a unique index that it
waits like a lock; queries that follow each other through the pool are one step,
because each asks in the same way while the call keeps the same locks. It has a
work set for every service operation that begins a transaction (those of
`account.Service` have no route). Deposits may have any amount, as `Intake` takes
it; debits are positive. `Listing` keeps of a row its id and its `created_at`.

## Runs

Twelve runs, ten of which pass. All bounds are constants of the cfg and guards of
the modules.

| Run | Checks | Instance |
|---|---|---|
| `order_book` | `Refinement` (OrderBook implements BookSpec), `Uncrossed` | 4 orders, 3 prices, quantity 2: a side with several levels and several orders per level, matches over both |
| `exchange_restart` | `TypeOK`, `IInv` and its parts, `KeysAreFresh`, `OrderLifecycle` | 3 orders, 1 price, quantity 2, channel 2, 2 restarts: two orders against one, partial fills, dropped commands, rehydrated pairs |
| `sandbox` | `MatchesWithinLimits`, `OverfillNeedsManualTrade`, `HouseWithinPartner`, `HouseRowsAreOneShot`, liveness `CancelTakesEffect` | 1 user order, 2 orders of the bot that can meet it and each other, 2 MARKET rows, 1 manual trade, 2 prices, channel 2, 1 restart, no symmetry |
| `funds` | `DepositCreditedOnce`, `BalanceMatchesRows`, `OneEffectPerKey`, `OneAddress`, `DepositsCanBeCredited` | 2 callers of each kind: every race here is between two; deposits of -1 and 2 |
| `outbox` | `DeliveredOncePerFault`, liveness `GoodEventsArePublished` | 3 events, one refused for ever, batch 2, 2 publishers, 2 faults |
| `market_data` | `InOrderViewShowsBook`, `RecentTradesComplete` | 3 orders, 2 prices |
| `ws_feed` | `NoSendOnClosedQueue`, liveness `PublishReturns`, `GoneClientsAreForgotten` | 2 clients, 1 bridge, queue of 1 |
| `partner_feed` | `NothingForgotten`, `OneOrderPerLevel`, `MirrorIsBook`, `BackoffIsCapped`, liveness `WorkersStop` | 1 price, 3 placements, channel 1, 7 failures in 7-bit durations (the wrap of the 64-bit one at 34) |
| `conn_pool` | `DeadlocksAreKnown`, `PoolClosedLast`, liveness `CallsEndUnlessExhausted`, `StopsUnlessExhausted` | 1 settlement, 2 requests of any kind, 1 publisher, 2 connections, 2 orders, a deposit and a key: a confirmation and a rejection of one deposit, trades that name the orders in any way, exhaustion, circles of row locks and their abort, a shutdown at any point |
| `listing` | `WalkIsComplete`, `RepeatsNeedInsertions`, `TotalCoversPage` | all seven lists, 4 rows at 2 times, default limit 1, maximum 2, limits 0, 2 and 3 asked for, with and without a window: walks of several pages, ties, late commits, deletions, a limit out of range |

`CHECK_DEADLOCK FALSE` is used throughout: the models stop when the bounded
clients have nothing left to ask for. What must not stop is a liveness property.

### What the newer runs show

* **Sandbox.** `persistMarketOrder` commits an OPEN row before the trade it is for.
  If the trade then fails, the row stays; after a restart `rehydrateEngine` loads it
  as an order nobody placed. `HouseRowsAreOneShot` therefore holds only within a
  process, while `HouseWithinPartner` shows that such rows never add up to more than
  the partner had on offer. `OverfillNeedsManualTrade` is the shape in which "no
  double-fill" survives POST /trades: an order is overfilled only after a manual trade.
* **Connection pool.** `ExecuteTrade`, `CancelOrder`, `Confirm` and `CreateUser` look
  accounts or assets up through the pool while their transaction keeps a
  connection. As many of them as there are connections wait for each other, and so
  do fewer of them with others that wait for their rows, such as a `Reject` of the
  deposit that a `Confirm` has locked (`Exhausted`). Requests end with their
  clients; settlements run with `context.Background()`, so a pool full of
  settlements stays so, and `pool.Close` with it.
  Row locks alone close a circle in one way: POST /trades locks the orders as the
  caller names them and looks at their sides afterwards, so a trade that names them
  the wrong way round can wait for a settlement that waits for it. PostgreSQL makes
  one of the two fail (`BreakDeadlock`, an external action); when that is the
  settlement, nobody tries it again. `DeadlocksAreKnown` says that there is no third
  way: a circle has a trade whose two orders are not a buy and a sell in this
  order, and without a circle everybody waits only when all connections are taken
  and one of their holders asks for another. The liveness properties say that
  everything ends unless the pool is exhausted in that way.
* **Shutdown.** `run` waits for the engine and the publisher, not for the
  settlements of the last matches. `PoolClosedLast` holds when the drain succeeds;
  after a drain timeout the deferred calls close the pool under whatever still runs,
  which then finds it closed. What a stop loses is in `Exchange`'s restart.
* **Lists.** Lists sorted by `created_at` alone leave ties open, and the accounts of
  a user all share it: a walk may show one account twice and another never. The
  ledger and the withdrawals break ties by id and need no such exception. A row
  that commits late with an older `created_at` shifts pages but hides nothing,
  because rows are only pushed back; a deleted user pulls rows forward, and one of
  them can be missed. A limit above 100 becomes 50 (`ParsePagination`).

### Where the documentation says something else

Two runs end in a counterexample to a sentence of `src/README.md`:

* `exchange_ghost` (`NoCancelledOrderRests`, line 419): a cancel that reaches the
  channel before its placement, or is dropped, leaves the cancelled order resting.
* `funds_overdraft` (`NoOverdraft`, line 358): two debits read the balance before
  either commits.

Smaller differences seen while modelling, without a run of their own: POST /trades
locks both orders but does not compare the quantity with what is left, so two
trades that each fit can overfill an order (line 455; `OverfillNeedsManualTrade`
states what remains true); a deduction that is handled before its addition is lost
to the view of the book, and its bids are not sorted (lines 488 and 486;
`InOrderViewShowsBook` states what holds when handlers run in order); the
repetition of a call that spent the balance is answered 422 instead of 200 (lines
362, 404); rehydration orders by `created_at` and not by arrival (line 654); the
loser of two concurrent first requests for an address gets an error (line 522); a
limit above the maximum of 100 is served as 50 (line 285).

### Fairness

* `Sandbox!SandboxFairSpec`: weak fairness of the worker goroutine, of settlement
  goroutines and of requests between commit and submission. Each is a goroutine
  that is never blocked for good: the channel send has a default branch, the
  worker takes what is there. Clients, callers of POST /trades included, the bot and
  crashes are not fair.
* `ConnPool`: strong fairness of each call, because waiters for a connection (the
  pool's semaphore) and for a row lock (PostgreSQL) are served in order, so that a
  call which can go on again and again does; weak fairness of PostgreSQL's search for
  circles of row locks (`deadlock_timeout`), of the publisher's context after
  `cancelWorkers`, and of `run`. Nothing else makes a settlement give up.
* `Outbox`: a publisher's ticker keeps firing.
* `WsFeed`: bridges, readers and writers run; a writer has a write deadline, so a
  stalled peer becomes a broken connection, but peers themselves are free.
* `PartnerFeed`: dial timeout and timer end; a read ends because the partner sends
  ten snapshots a second or the deadline passes. A peer that only pings would move
  the deadline for ever and hold up shutdown; this is assumed away. `BotStops` is
  strongly fair: `select` picks among ready cases at random.

## Proofs

Every theorem holds for all values of the constants that satisfy the named
`ASSUME`s of its module: finitely many orders and calls, positive bounds, a `None`
that is none of the names, rows of different tables that differ. No theorem fixes the size of a set. Each module proved about
has one inductive invariant, one lemma per action, and its theorems follow
from the invariant. TLC has checked every part of these invariants on the run's
instance; where one says that a function exists (`HistoryInv` below), TLC was given
the function.

| Module | Theorems | Inductive invariant |
|---|---|---|
| `OrderBookProofs` | `BookInvariant`, `BookRefinement`, action property `MatchUncrosses` | `BookInv` |
| `ExchangeProofs` | `InvariantHolds`, `TypeCorrect`, `EngineStaysWithinOrders`, `OrdersAreNotOverfilled`, `FillsAreTrades`, `StatusIsFill`, `ReserveIsOrder`, `SettlementKeysAreFresh`, `TradesWithinLimits`, action property `RowsFollowLifecycle` | `IInv` |
| `ExchangeProofs`, for `Sandbox` | `SandboxInvariantHolds`, `MatchesStayWithinLimits`, `OnlyManualTradesOverfill`, `HouseStaysWithinPartner`, `HouseRowsServeOnce` | `SandboxInv` |
| `FundsProofs` | `FundsInvariantHolds`, `OneAddressHolds`, `DepositsAreCreditable`, `KeysTakeEffectOnce`, `CreditedOnce`, `BalanceIsWhatTheRowsSay` | `FundsInv`, `BalanceInv` |
| `OutboxProofs` | `OutboxInvariantHolds`, `DeliveredOnceHolds` | `OutboxInv` |
| `MarketDataProofs` | `ViewInvariant`, `RecentTradesAreComplete`, `InOrderViewIsExact` | `ViewInv` |
| `ApiProofs`, for `WsFeed` | `WsInvariantHolds`, `NeverSendsOnClosed` | `WsInv` |
| `ApiProofs`, for `Listing` | `ListingInvariant`, `WalkShowsEveryRow`, `NoRepeatWithoutInsertion`, `TotalAlwaysCoversPage` | `ListingInv` |
| `PartnerFeedProofs` | `FeedInvariantHolds`, `NothingIsForgotten`, `OneOrderAtAPrice`, `TheMapMirrorsTheBook`, `PauseIsCapped` | `FeedInv`, `PauseInv` |
| `ConnPoolProofs` | `PoolInvariantHolds`, `DeadlocksHaveTwoCauses`, `PoolIsClosedLast` | `PoolInv` |

**Order book.** `SideOK` is what the scans of `addBid`, `addAsk` and `Match` rely on:
levels sorted strictly, none empty, every order in the level of its own price, once.
The proof speaks of places, "the k-th order of the i-th level" (`Stands`), and
the order of two orders is the order of their places (`PlacesDecide`). Taking an
order out renumbers the places behind it, or the levels behind its own, without
changing the order of any two (`Renumbers`, `Shifted`); that is `TakenOut`, and the
lemma `WithoutFacts` gives it for the pops of `Match` and for `Cancel`. Adding is
proved backwards: the new side with the order taken out again is the old one
(`JoinsLast`), and the order is the last of its level, so the sorted prices say whom
it is behind (`LastPrecedes`). The best order of BookSpec is then the first
order of the first level (`BestIsHead`), the condition of the loop is that
BookSpec can fill (`GuardFacts`), and each action implements the one of its
name. `Uncrossed` uses the same: what the loop leaves facing the order is at its first
level, and no price behind it is better. `SideOK` holds of crossed books too, which
`LoadOrder` can make.

**Exchange.** The property to prove is `NoOverfill`, which `ExecuteTrade` does not
enforce. It follows from `EngineWithinOrder`: filled + unsettled + remaining never
exceeds an order. A match moves units from remaining to unsettled, a settlement
from unsettled to filled, a failed settlement or a crash only loses some, and a
restart sets remaining to what is not filled while it drops everything unsettled.
For a placement to keep it, the order must be new to the engine: `Pipeline` says
that a placement on its way has left no trace there and is on its way once.
`BookShape` says what rests and what has a remainder. Settling needs the key to be
new, although counters restart: `PairsMatchOnce` says that two orders meet at most
once in all processes together, because a match exhausts one of the two, and a
rehydrated order only meets orders that come later. `TradeShape` gives the limits.
The quantities are cardinalities of sets of units (`Volume`), so that the lemmas
`VolumeAdd` and `VolumeRemove` follow from the theorems on finite sets without
induction.

**Sandbox.** `IInv` is false here: the bot's orders have no row, the house has rows
that were never placed, and manual trades fill orders behind the engine's back.
`SandboxInv` therefore counts per kind of order. `UserNumbers` is
`EngineWithinOrder` for the orders and house rows that no manual trade has touched;
`HouseNumbers` is its counterpart for an order of the bot, with the quantities of
the rows booked for it in the place of its fills, because `persistMarketOrder` moves
the units of a match from the bot's order to a row of the house. The same step
replaces a match by another one with the same number, so `SeqInv` gives each match
in flight a number of its own. `QueueInv` is the `Pipeline` of this system, and
its condition on fills again exempts orders touched by hand. `OneShotInv` says of a
house row before the first restart that it is nowhere in the engine and belongs to
one match, in flight or settled; a restart ends it, as the run shows.

**Funds.** `AddressInv`: the unique index lets one transaction at a time insert an
address and none after a commit. `ReviewsInv`: under the row lock a deposit is still
`PENDING` and has one reviewer; without it `Confirm` would not know that its credit
is the first. `CreditsInv` ties each credit of the ledger to its confirmed deposit
in both directions. `KeysInv`: an uncommitted key is held by one call and is not
among the committed ones. `BalanceInv` says that the sum over the ledger is the
credits less the debits; the sums are folds, and the lemmas on adding one element to
a sum are proved by a minimal counterexample (`WFMin`), since the library's
induction theorems cannot be instantiated.

**Outbox.** An event that has been delivered `faults + 1` times may only be waiting
for its commit: `DeliveriesCounted` says so, and rests on `LocksArePrivate` (SKIP
LOCKED gives a row to one publisher, while it is pending).

**Market data.** `RecentTradesComplete` is a count: `TradesInv` says that every trade of
the counter is of the `Match` at work, in an event, shown, or pushed out by the
capacity, and `EventsInv`, that no event is numbered twice. It needs no order of the
handlers. `InOrderViewShowsBook` compares the view with a book that is several
events ahead of it. `HistoryInv` therefore says that there is a history: for each event
the totals per side and price after it, such that every pending event tells the
change from one entry to the next (`TellsChange`), the view shows the entry of the
last event handled, and the last entry is the book. While `Match` is at work the
book is already smaller than its last event says; `Taken` is what has been matched
and not been published. That a trade can be deducted from both sides at its price
rests on `SidesApart`: the side of the order at work has nothing at a price at
which it trades, and the level it would be deducted from does not exist. Books that
`LoadOrder` made may cross, and the property exempts them. `PriorityInv` and
`OrdersInv` supply what `Match` needs of `ahead`. The totals are
cardinalities of sets of units (`Units`), as in the exchange, so that adding and
removing an order needs no sums along sequences.

**Lists.** `Walked` is what the client has been shown, the page in its hands included.
`NothingPassedOver` is the invariant behind `WalkIsComplete`: a row that has not been
shown has at least as many rows above it as were shown, so it is on a later page,
and there is one because the last page was full (`StillToCome`). A row that comes
in only adds to the rows above. `ShownInPlace` is the converse bound, which holds
until a row comes in, and gives `RepeatsNeedInsertions`. Both need that the k-th row
of the answer has k - 1 rows above it, which is proved from the sorted enumeration
and the theorems on cardinality.

**WebSocket feed.** `ReaderOwnsClient`: the reader unregisters its client before it
closes the queue. `TodoIsRegistered`: while `Publish` holds the hub's read lock the
clients before it stay registered, so none of their queues is closed.

**Partner feed.** The three properties speak of the book; `CancelsFollow` and
`CancelsPrecede` say the same of the orders still in the channel, where a cancel
stands behind the placement it is for and before the placement that replaces it.
`LevelsArePlaced`, `UniqueIds` and `SamePrices` let a cancel be found by its id.
The pause of the stream client is proved apart (`PauseInv`), with the facts about
powers of two and their wrap at a width that it needs. `Power2` is a recursive
function; that it satisfies its equation is proved by its beginnings, since the
library's theorem about recursive functions takes an operator.

**Connection pool.** `LocksInOrder` says what the owner of a row may still wait for:
after a key orders, after an order one more, and unless it is a request, after a
buy order a sell order (`MayHold`). In a circle every transaction owns the row that
another one waits for and waits itself, so all these rows are orders; were none of
its requests misnamed, each row would be a buy order, because its owner waits on,
and a sell order, because its waiter owns a buy order (`CyclesAreMisnamed`). When
everybody waits and nobody for a connection, a smallest set of transactions that
wait among themselves is such a circle (`WaitingForRowsIsACycle`, by the least
cardinality); so without one somebody asks the pool in vain, and `Holders` has
`MaxConns` members (`WithinPool` bounds them). The theorems also cover a caller of
POST /trades who names the key of a match (`MatchKeys`), which the run leaves out.
`StageInv` says what each stage of the shutdown has waited for.

**Only model-checked.**
* Liveness (`CancelTakesEffect`, `GoodEventsArePublished`, `PublishReturns`,
  `GoneClientsAreForgotten`, `WorkersStop`, `CallsEndUnlessExhausted`,
  `StopsUnlessExhausted`): fairness and ENABLED are out of the prover's reach.

Every invariant and every action property of the passing runs is the statement of
a theorem. The counterexamples of the two other runs are TLC's.

## Plan

1. Done: book and refinement, exchange with proofs, funds and accounts, outbox,
   market data, WebSocket feed, partner feed, sandbox settlement, connection pool
   and shutdown, lists.
2. Done: the refinement of the book, and a theorem for every safety property of a
   passing run.
3. Next models: balances over both assets of a symbol with the TRADE entries;
   tickers, trades and candles of the stream.

## Not modelled

Asset catalog (read-only), candles (a stateless proxy), authentication and
configuration (no state), the packages of the earlier layout (not imported by the
server), parsing, formatting and logging, and the items under 3 above. Floating
point in the book is out of reach of both tools.
