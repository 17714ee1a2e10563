# Option Chain OrderBook Backend: specifications

TLA+ specifications of the order book backend in `src/`, the TLC runs that check
them on small instances, and theorems about them that TLAPS proves for instances
of any size. Paths of source files are those of the repository under `src/` (the
crate's own sources are in `src/src/`).

    tlc -config mm_threads.cfg MCMarketMaker      a run: configuration and module
    tlapm MarketMakerProofs.tla                   the proofs of a module

`PROJECT.json` lists the components, the runs with their properties, the source
lines every definition models, the hazards of the code and the theorems.

## 1. The system

One process: an `axum` server on a multi-threaded `tokio` runtime. Handlers of
different requests run on different threads. Between its `await`s (most handlers
have none) a handler is ordinary synchronous code, so it is never suspended
half-way by the scheduler of the runtime, but it does interleave with the
handlers on the other threads wherever it touches shared state.

| Component | Source | State | Operations | Interacts with |
|---|---|---|---|---|
| Market maker engine | `market_maker/engine.rs` | switches and parameters (`config`), `prices`, `active_orders`, `instrument_orders` (reverse index) | `update_price`, `set_enabled`, `set_symbol_enabled`, the three parameter setters, `on_order_filled` | rests and cancels quotes on the option books; called by the control API, the WebSocket commands, the price feed and `record_fills` |
| Quoter, pricer | `market_maker/quoter.rs`, `pricer.rs` | none | `generate_quote`, `calculate_edge`, Black-Scholes | called by the engine |
| Control API | `api/controls.rs` | none of its own | kill switch, enable, parameters, toggle, `insert_price` | engine, database |
| Order handlers | `api/handlers.rs` | `state.orders` (tracking) | add, market, cancel, modify, bulk submit (plain, atomic), bulk cancel, cancel-all | option books, `record_fills`, feed |
| Fill recording | `api/handlers.rs` `record_fills` | positions, last trades, bars, executions | one call per match | engine, OHLC, trade stream |
| Order retention | `state.rs` | `state.orders` | `cleanup_old_orders` | |
| Order book feed | `api/websocket.rs`, `publish_level_delta` | sequence per symbol, broadcast channel, subscriptions per connection | publish, subscribe, batch subscribe, unsubscribe, snapshot, forward | order handlers publish; two tasks per connection consume |
| WebSocket connection | `api/websocket.rs` | subscription sets | `handle_socket`, its two tasks, `handle_client_message` and the command handlers | engine switch, engine events, feed, shutdown signal |
| Hierarchy of books | external crate, used by `api/handlers.rs` | underlyings, expirations, strikes, books | get-or-create, remove | everything that touches a book |
| Snapshots | `api/handlers.rs`, `state.rs` | `state.snapshots` | create, list, restore, bounded insert | option books, tracking |
| Rate limiter | `auth.rs`, `middleware.rs` | windows per key, `tracked` counter | check, prune, sweep, evict | middleware |
| Authentication | `auth.rs`, `middleware.rs` | none | verify token, permission of a route | middleware |
| Price simulator | `simulation.rs` | walks, current prices | `run`, `process_tick`, `get_next_price`, `regenerate`, `mark_dormant` | engine |
| OHLC aggregator | `ohlc.rs` | bars per symbol and interval | `record_trade`, `get_bars` | `record_fills` |
| Positions | `api/handlers.rs`, `models.rs` | `state.positions` | `PositionInfo::update` | `record_fills` |
| Queries (surface, chain, Greeks, metrics) | `api/handlers.rs` | a cache of volatility surfaces | read only | books |
| Configuration | `config.rs` | none | parse and validate | start-up |
| Persistence | `db/*`, `api/controls.rs` | PostgreSQL | best-effort inserts, latest price | control API |
| Start-up and shutdown | `main.rs` | shutdown signal, task handles | serve, drain, join | simulator, clean-up task, sockets |
| Client SDK | `crates/orderbook-client` | a socket split over two tasks and two bounded channels | one HTTP request per call; `connect`, `send`, `recv`, drop | server |

### Which behaviours are hard

* **A book call and the map beside it are two steps.** A quote rests before it is
  in `active_orders`; a user order rests, and trades, before it is in
  `state.orders`; a cancellation leaves the book before it leaves the map.
* **Locks are sequential and never nested.** `active_orders` and
  `instrument_orders` are updated one after the other, so every pair of
  operations may interleave between the two.
* **State read, then used.** The kill switch read by the gate of `update_price`;
  the ids a cancel-all collected; the resting quantity `modify_order` read before
  it cancels; a level read before its sequence number is taken; a snapshot read
  before it is numbered.
* **Batches that fail half-way.** An atomic bulk request has placed, traded and
  published orders when an item fails, and a trade cannot be undone.
* **Lossy delivery.** A broadcast receiver that lags loses messages and only the
  log is told.
* **Lifetimes that end elsewhere.** Deleting an underlying drops its books; the
  engine is not told.
* **A counter beside the map it counts.** The rate limiter reserves a slot in an
  atomic before it inserts a key, evicts in two steps, and sweeps by storing a
  length it read a moment ago.
* **Work off the lock.** A walk is regenerated in a blocking task while the loop
  awaits it and operators go on writing prices; it may fail, and a shutdown may
  come meanwhile.
* **Guards held across a write to a client.** The sending task of a socket keeps
  the read lock of a subscription set until its message is on the wire; the
  receiving task wants the write lock and the same wire.
* **Names that move with the calendar.** An expiration given as a number of days
  reads as another date tomorrow.
* **Crash between memory and database.** An inserted price is in force before its
  row exists.
* **One book of many.** A snapshot skips a book that fails to serialize and must say so.
* **Bounded queues in a ring.** The SDK's two channels and the two directions of
  its connection are bounded, and whoever finds one full waits: an application
  that sends without receiving may wait for a server that waits for it.

Each is listed with its line in `PROJECT.json`, "hazards". Where the code does run into a
hazard, or into part of it, no property is named for that: a run that admitted the bad
case would fail. The note says which property TLC then refutes and what the run leaves
out, and section 5 collects these.

### What makes each component correct

* Engine: no quote rests out of the engine's reach; what it tracks covers what can
  still be filled; a switched-off engine or underlying has no quote at rest; quotes
  follow the price; an order a cancellation found leaves the book.
* Tracking: an order that rests is listed as open; an entry claims no fill that
  did not happen; an open entry belongs to a live order; a rollback leaves nothing
  resting and untold; a replacement grants no more than its predecessor had left.
* Feed: a client that is up to date was told the present state of each level;
  nothing numbered after a snapshot is lost without a gap in the numbers.
* Rate limiter: no key is admitted more often than its limit in any window; the
  counter never promises less than the keys that were admitted, and drift heals.
* Price simulator: what a tick pushes is what the simulator stores; a dormant walk
  is retried, and not before its back-off ends; subscribers end up with the price
  in force; a reader is told only prices that were in force.
* Fills: every cent of the executions is in the positions; a bar has every fill
  of its time and retention drops the oldest.
* Access and connections: controls take an administrator on either way to them;
  no set grows past its cap; what is written is subscribed to; every command is
  dealt with; both tasks end when either does; the process ends when told.
* Snapshots: one holds all that stayed, or counts the book as failed, and nothing that
  never was; at most the cap is retained once nobody evicts, and no fewer unless creations overlap.
* Queries: an order is found under the name it was placed with, by every query but the
  cached volatility surface, over HTTP and over the socket.
* SDK: each call reaches the handler it is named for; nothing is lost while the
  connection holds; what is sent is read; an end of the connection is heard of.

## 2. The modules

| Module | Extends | What it is |
|---|---|---|
| `MarketMaker` | | the engine, its callers and the option books |
| `MCMarketMaker` | `MarketMaker` | instances for TLC |
| `MarketMakerProofs` | `MarketMaker` | theorems |
| `OrderTracking` | | the order handlers, `state.orders` and one option book |
| `MCOrderTracking` | `OrderTracking` | instances for TLC |
| `OrderTrackingProofs` | `OrderTracking` | theorems |
| `DeltaFeed` | | the order book feed of one symbol |
| `MCDeltaFeed` | `DeltaFeed` | instances for TLC |
| `LimitedAdmission` | | abstract: what a sliding-window limiter promises |
| `RateLimiter` | `Promise == INSTANCE LimitedAdmission WITH ...` | the limiter: windows, counter, sweep, eviction |
| `MCRateLimiter` | `RateLimiter` | an instance for TLC |
| `PriceFeed` | | simulator loop, operators' prices, readers, database rows, restarts |
| `MCPriceFeed` | `PriceFeed` | an instance for TLC |
| `PriceFeedProofs` | `PriceFeed` | theorems |
| `Ledger` | | `record_fills`: positions, last trades, bars, executions |
| `MCLedger` | `Ledger` | an instance for TLC |
| `LedgerProofs` | `Ledger`, `SumLemmas` | theorems |
| `Access` | | tokens, permissions, requests, the master switch |
| `Connection` | `Access` | a socket's two tasks, commands, locks |
| `Server` | `Connection` | both together, from start to shutdown |
| `ServerProofs` | `Server`, `RateLimiter` | theorems about the server, and about the limiter, its refinement among them |
| `Routes` | `Access` | the routes, the calls of the SDK, and what dispatch makes of them |
| `MCServer` | `Server`, `Routes` | an instance for TLC |
| `Hierarchy` | | books by expiration, strike and style, path segments, days going by |
| `Snapshots` | `Hierarchy` | creation, retention and restoration of snapshots over those books |
| `BookQueries` | `Hierarchy` | what every read query answers of those books |
| `MCSnapshots` | `Snapshots`, `BookQueries` | an instance for TLC |
| `SnapshotsProofs` | `Snapshots`, `BookQueries`, `SumLemmas` | theorems |
| `SumLemmas` | | lemmas on finite sets and on sums over them |
| `ClientSocket` | | the SDK's WebSocket client and the server at the other end |
| `MCClientSocket` | `ClientSocket` | an instance for TLC |
| `FeedProofs` | `DeltaFeed`, `ClientSocket` | theorems about the feed, and about the SDK's socket |

Conventions. A step of a module is one critical section of the code: one lock
held, one call of the option book (which serialises its own operations), one
access of a `DashMap` entry. `pc[w]` (or the field `pc` of a
thread's record) names the critical section a thread enters next; the rest of the
record, or `job[w]`, holds its locals. A definition that has a "Mutant" beside it is
a decision the code takes in one place; the mutant is the same decision taken
wrongly, and each property of a passing run fails when its mutant replaces it. A
module with behaviours has `Init`, `Next`, `Spec` and `TypeOK`; the two whose proofs share
a module with another's, `DeltaFeed` and `RateLimiter`, prefix these names (`FeedSpec`,
`LimiterSpec`). The proofs establish the types.

### MarketMaker

| Model | Code |
|---|---|
| `enabled`, `symbolEnabled`, `prices` | `config.enabled`, `config.symbol_enabled`, `prices` |
| `active[o]` | tracked quantity in `active_orders`, 0 when the id is absent |
| `info[o]` | `ActiveOrderInfo`: instrument, leg, the price it was computed from |
| `index[i][leg]` | `instrument_orders` |
| `book[o]` | the contracts of order `o` that rest on the (external) option book |
| `open`, `gen` | which books exist; a deleted and re-created book is a new generation |
| `UpdatePrice`, `GateEnabled`, `GateSymbol` | `update_price`, whose two reads of the configuration are two lock sections |
| `SetParameter`, `NextSymbol` | the parameter setters and `requote_all` |
| `StartRequote`, `NextInstrument` | the loops of `requote_symbol`, `generate_quote` refusing a price |
| `ReadStale`, `CancelStale`, `PruneActive`, `PruneIndex`, `AddLeg`, `TrackLeg`, `RecordLegs` | `update_quote`, lock section by lock section |
| `SetEnabled`, `SetSymbolEnabled`, `SnapshotOrders`, `NextVictim`, `ClearVictimSlot`, `CancelVictim`, `ClearIndex` | the switches and the cancellations they start |
| `Match`, `ReportFill`, `ClearFilledSlot` | a taker's match and `on_order_filled` |
| `CreateBook`, `DeleteUnderlying` | books made on demand, `delete_underlying` |

Abstractions. The prices, sizes and skew a quote gets are left out: a quote
is `Size` contracts on one leg, remembers the spot it was computed from, and
`NoQuote` says at which prices an instrument gets none. The contracts of a quote
are told apart so that fills reported out of order can be followed. A quote that
crosses a resting order when it is placed may lose any part of itself at once
(`AddLeg`), and the book may refuse it. Ids are never reused, as `OrderId::new`
makes them unique. Broadcast events and the captured edge do not feed back into
the state and are left out.

### OrderTracking

| Model | Code |
|---|---|
| `orders[o]` | the entry in `state.orders`: original, remaining and filled quantity, status |
| `book[o]`, `side[o]`, `asked[o]`, `done[o]` | the order on the book: what rests, its side, what was asked, what was executed |
| `fate[o]` | the `RollbackOutcome` of an order |
| `heirOf[o]` | the order that `o` replaced at an unchanged quantity |
| `AddOrder`, `Track` | `add_order` up to and from the book call; the insertion comes after |
| `SubmitMarketOrder` | `submit_market_order`, never tracked |
| `CancelOrder`, `Reconcile` | `cancel_order`: the book, then the entry (dropped, or declared filled) |
| `ModifyOrder`, `ModifyCancel`, `ModifyUntrack`, `Replace` | `modify_order` |
| `BulkSubmit`, `SubmitItem`, `FailItem`, `FinishBatch`, `RollbackCancel`, `RollbackReconcile` | `bulk_submit_orders`, `rollback_atomic_bulk` |
| `BulkCancelOne`, `UntrackOne`, `CancelAll`, `WalkCancel`, `WalkUntrack` | `bulk_cancel_orders`, `cancel_all_orders` |
| `CleanUp` | `cleanup_old_orders`; how old an entry is, is left open |
| `GetOrderStatus`, `ListOrders` | `get_order_status`, `list_orders`; the properties are stated of what these answer |

Abstractions. One option book. Prices are left out: a taker may trade with any set
of resting orders of the other side that covers its quantity or not
(`Matches`), which includes what price and time priority would pick. GTD is GTC
until it expires, and expiry is not modelled. An IOC remainder does not rest. A
client can name only an order it knows: one that is tracked, or one that a trade
it was in disclosed (`Known`, from the trade stream). `cancel_all_orders` iterates
over the `DashMap` in one step. A bulk cancellation keeps the entry locked while it
calls the book, so the look-up and the cancellation are one step; each id of a
request is a request of its own. Failing look-ups after an underlying was deleted,
and the restoration of a snapshot, are not modelled.

### DeltaFeed

| Model | Code |
|---|---|
| `book[l]` | the state of a level, named by the change that wrote it last |
| `sequence` | the symbol's counter in `OrderbookSubscriptionManager` |
| `feed[c]`, `missed[c]` | the connection's broadcast receiver, and whether it lagged |
| `subscribed[c]` | whether the symbol is in `subscribed_symbols` |
| `heard[c]` | what the client was sent |
| `aired` | the numbers of the deltas broadcast |
| `Mutate`, `ReadLevel`, `TakeSequence`, `Broadcast` | a handler changes levels, then `publish_level_delta` for each |
| `Subscribe`, `TakeSnapshot`, `StampSnapshot`, `SendSnapshot` | `handle_orderbook_subscribe` |
| `BatchSubscribe`, `Unsubscribe`, `ForwardDelta` | the batch form (no snapshot), unsubscription, the sending task |

Abstractions. One symbol, a snapshot as deep as the book, no trade stream, no
heartbeat, no connection teardown. A client that unsubscribes forgets what it was
told. The market maker's own quotes change the book without a delta; the
documentation of `OrderbookDelta` says so, and they are left out. A message is
told for a delta or a snapshot by the levels it tells of, one or all, so the book has
more levels than one (`LevelsAssumption`).

### LimitedAdmission and RateLimiter

| Model | Code |
|---|---|
| `log[k]`, `front[k]` | the window of `k`: all admissions since its bucket was last evicted, and how many of them pruning dropped; the bucket is what lies between |
| `Present` | the keys of `RateLimiter::windows` |
| `tracked` | the atomic counter, modulo `Wrap` |
| `task[t]` | a call of `check_and_record_status` or `sweep_expired` and its locals |
| `Call`, `RecordInBucket`, `MissBucket` | the fast path under the lock of a bucket, and its failure |
| `WinSlot`, `InsertVacant`, `InsertOccupied`, `GiveUp` | the reservation loop, the entry, the refund |
| `Reclaim`, `SweepBegin` to `SweepStore` | `sweep_expired`, one bucket at a time, and the two reads of the length |
| `EvictPick`, `EvictRemove`, `EvictRefund` | `evict_idlest_of_sample` |
| `BackgroundSweep` | the task of `main.rs` |

Keeping the whole log rather than the bucket makes the promise statable: the
admissions that still count are read off the log, the code decides by the bucket.
`LimitedAdmission` has only clock and log: a request is admitted below the limit
or refused, and a whole key may be forgotten. `DashMap::len` and a step of its
iteration are taken as atomic, and the wall clock as monotone.

What the module shows beside its properties: `tracked` may drift *below* the size
of the map when a sweep stores a length that other calls have outdated; until the
next sweep the map can then exceed `MAX_TRACKED_KEYS`. `CounterCovers` is stated up
to that (`drifted`), and `DriftHeals` says that it ends. A single new key may be
refused after its own evictions, when others win the slots it freed.

### PriceFeed

| Model | Code |
|---|---|
| `walk[s]`, `simPrice[s]` | `AssetSimulation` (position, length, back-off), `PriceSimulator::prices` |
| `loop` | the task in `run`: between ticks, or at an asset of a tick |
| `Tick`, `WalkOn`, `NeedsRegen`, `Repeat` | `process_tick`, `get_next_price`, `advance_step` |
| `Regenerated`, `GenerationFails`, `GenerationCancelled` | `regenerate`, with the join of its blocking task, `mark_dormant` |
| `PushPrice`, `TellPrice` | `update_price`, which writes and then announces |
| `InsertPrice`, `WriteInserted`, `TellInserted`, `Persist` | `insert_price` up to its database row |
| `GetLatestPrice`, `QueryRows` | `get_latest_price`, memory first |
| `Stop`, `Shutdown`, `Restart` | the signal, its reception, and any end of the process followed by a start |

A walk is a length and a position: prices are any of `Cents`, so every path of the
generator is one of the model's. A value that is not finite or out of range is
stored as the price before.
A restart loses everything but `rows`.

### Ledger

| Model | Code |
|---|---|
| `recorder[r]` | a request in `record_fills`, its fills left and the store it is at |
| `positions[b]`, `Update`, `Added`, `Closed` | `state.positions`, `update_position_on_fill`, `PositionInfo::update` |
| `bars[b][i]`, `WithFill`, `Retained` | the series of `OhlcAggregator`, `update_bar` |
| `RecordPosition`, `RecordLastTrade`, `RecordBar`, `RecordExecution` | the body of the loop, one lock each |
| `SkipFill` | a price that does not fit is skipped |
| `Mark`, `GetPosition`, `ListPositions` | the position endpoints, marked at the quote of the moment |
| `ListExecutions`, `GetExecution`, `GetLastTrade` | the execution and last-trade endpoints |
| `GetBars` | `get_bars`: the oldest of a window with two ends, the newest of any other |

Saturation at the ends of the integer types is not modelled (no traded quantity
comes near); rounding of the average is, and `slack` accumulates how much it may hide.

### Access, Connection, Server

| Model | Code |
|---|---|
| `token[u]`, `Allowed`, `RequiredPermission` | `verify_token`, `required_permission`, `has_permission` |
| `request[r]`, `Admit`, `Serve`, `IssueToken`, `KillSwitch`, `EnableQuoting` | a request past the middleware, and its handler |
| `holder[k]`, `subs[k][ch]` | the claims a socket was opened with, its two sets |
| `recv[k]`: `Command`, `ReplyOnly`, `ControlCommand`, `CheckCap`, `Insert`, `Remove`, `TakeWire`, `Reply` | the receiving task, await by await |
| `send[k]`: `TakeFeed`, `TakeOther`, `TakeSignal`, `SendLock`, `Deliver`, `DeliverFails`, `SendClose` | the sending task |
| `ReadHeld`, `WireFree` | the read guard kept across a send, the mutex of the shared sender |
| `Abort`, `Leave` | the `select!` that ends the sibling, a client that goes silent |
| `phase`, `StopSignal`, `Drained`, `TaskStops`, `Exit` | `main` from the signal to its return |
| `AllRoutes`, `PermissionOf` (`Routes`) | the router, and `required_permission`, which reads the path as text |
| `PlainCalls` to `MarketDataCalls`, `EncodeSegment` (`Routes`) | the paths the SDK builds |
| `Dispatched` (`Routes`) | axum: a literal segment goes before a parameter |

Of the limiter only that it may refuse is kept; what a message says is left out.
Socket and request are those of a subject of any permissions, and a token may
expire at any moment.

`Routes` has no state. Three assumptions, which TLC evaluates before the `server`
run, say that whatever a client names, also with a slash in it or spelled like a
route, each call of the SDK reaches the handler it is named for (`CallsAreRouted`),
that every route has its call (`RoutesAreCalled`), and that the permission read off
the path is the one `Access` gives the kind of the route (`PermissionsAgree`).

### Hierarchy, BookQueries and Snapshots

| Model | Code |
|---|---|
| `book[k][x]` | the (external) books, by expiration, a date or a number of days, and by strike; `OptionOf` by style too |
| `Terms[o]` | strike, style, side, price and quantity of an `AddOrderRequest` |
| `Parse`, `Format`, `Found` | `parse_expiration`, `format_expiration`, `find_expiration_by_str` |
| `CreateExpiration`, `CreateStrike`, `PlaceOrder`, `TakeOrder`, `DeleteUnderlying` | the handlers that create, use and delete books |
| `via[o]` | the path segment an order was placed with |
| `Midnight` | the date changes, and with it how a number of days reads |
| `GetUnderlying` to `GetOrderbookMetrics` (`BookQueries`) | the read endpoints, each the set of its possible answers |
| `FoundBySocket`, `SocketSnapshot` | the look-up of the WebSocket's own, and the snapshot it sends |
| `CreateBegin`, `CreateVisit`, `CreateNumber`, `CreateStore` | `create_snapshot`, option book by option book |
| `CreateVisitFails`, `job[t].failed` | a book whose orders do not serialize, and `orderbooks_failed`, by the books it counts |
| `EvictCheck`, `EvictPick`, `EvictDrop` | `insert_snapshot_bounded` |
| `ListSnapshots`, `GetSnapshot` | the read endpoints of snapshots |
| `RestoreBegin`, `RestoreBook`, `RestoreBookFails`, `RestoreEnd` | `restore_snapshot`, option book by option book |

One underlying. A walk keeps the hierarchy it began with when the underlying is
deleted under it. A snapshot names a book by its formatted date, so a book keyed by
a number of days is restored as one keyed by a date; the module follows that.
Quotes, levels and depths are computed from the orders that rest; volatilities,
Greeks and impact figures are left out of the answers. Any book with orders may fail to
serialize. The volatility surface is left out (section 6).

### ClientSocket

| Model | Code |
|---|---|
| `outbox`, `inbox` | the two `mpsc` channels of `WsClient` |
| `writer`, `reader` | its two tasks |
| `up`, `down`, `link` | the connection, one direction each, bounded by `Wire` |
| `server` | the receiving task of `handle_socket`, which answers a command before it reads the next |
| `AppSend`, `AppQueued`, `AppRefused`, `AppRecv`, `AppDrop` | `send`, `recv` and the drop of a `WsClient` |
| `WriterTakes`, `WriterWrites`, `WriterFails`, `ReaderTakes`, `ReaderHands`, `ReaderFails` | the tasks `connect` spawns |
| `ServerFeed`, `ServerReads`, `ServerAnswers`, `ServerCloses`, `ServerLoses` | the server |
| `LinkBreaks` | the network |

Messages are numbered; of a command only how many answers it gets is kept
(`ClientCommand`). What the server does with it is `Connection`'s.

## 3. The runs

| Run | Threads | Bounds | Checks | Shows |
|---|---|---|---|---|
| `mm_serial` | 1 | 2 underlyings with a book each, 3 quotes, each underlying deleted once | `TrackedIsIndexed`, `SymbolOffMeansQuiet` | with one operation at a time, all of them, deletion included, the two maps agree and an underlying that is off has no quote |
| `mm_kill` | 1 | 2 books, 2 prices, one without a quote, 3 quotes | `KilledMeansQuiet`, `QuotesFollowPrice`, `KillTakesEffect` | the kill switch works as long as no parameter is changed and no book deleted |
| `mm_threads` | 2 | 1 book, quotes of 2 contracts, 2 quotes | `NoOrphanQuote`, `TrackedCoversOutstanding`, `VictimLeavesBook` | requotes, parameter changes, kill switches and fills interleave at every lock |
| `ot_serial` | 1 | 3 orders of up to 3, GTC and FOK | `FillsHappened`, `OpenIsAlive`, `ModifyKeepsExposure` | entries tell the truth about fills and life, a new price grants no exposure |
| `ot_threads` | 2 | 2 orders of up to 2, GTC and IOC, batches of up to 3 items | `RestingIsListed`, `WalkTakesAllOff`, `RollbackLeavesNothing` | the same handlers, batches and rollbacks interleave between book and map |
| `df_feed` | 2 | 1 client, 2 levels, 2 changes, 2 subscriptions, a channel of 2 | `TruthWasTold`, `NothingMissedAfterSnapshot` | publication, lag, subscription and re-subscription interleave |
| `limiter` | 2 | 2 keys with limits 1 and 2, a map of 1, a clock of 2 ticks, samples of 1, 2 attempts | `LimitHolds`, `CounterCovers`, `DriftHeals`, `KeepsPromise` | admissions, sweeps, evictions and time interleave; the limiter implements `LimitedAdmission` |
| `prices` | loop and 1 request | 1 asset and 1 symbol without a walk, 2 prices, paths of 2, a back-off of 2 ticks, 2 inserts, 1 restart | `EngineFollowsSimulator`, `StormGuard`, `AnswerWasInForce`, `DormantIsRetried`, `SubscribersCatchUp` | the loop, operators, readers, the database and crashes |
| `ledger` | 2 | 3 fills of 1 or 2 at two prices or one too large, 2 bar lengths, 2 bars retained, 3 moments (`Scope`) | `GainsAreAccounted`, `BarsAreComplete` | longs, shorts, flips, rounding and late fills in any interleaving |
| `server` | 1 request, 1 socket with 2 tasks | 1 administrator, 1 trader, 1 channel, 1 contract and its wildcard, batches of 2, a cap of 1 | `CapHolds`, `WrittenIsSubscribed`, `ControlsOnlyByAdmin`, `CommandsAreAnswered`, `SocketsAreReleased`, `ShutdownCompletes` | no deadlock, no leak, the order of shutdown; and the assumptions of `Routes` |
| `snapshots` | 2 | 1 order for one option, a date and a number of days, 2 days, 2 snapshots, 1 retained, 2 moments (`Scope`) | `SnapshotIsComplete`, `SnapshotIsGenuine`, `RetentionHolds`, `PlacedIsFound` | creations, restorations, trading, deletion and midnight interleave, books fail to be saved, and every query but the surface is asked in every state |
| `client` | 1 client, 1 server | queues and directions of 1, 4 commands, 3 ahead, 3 messages of the feed | `NothingIsLost`, `SentIsRead`, `EndIsHeard` | sends, receipts, the feed, a broken connection, a shutdown and a dropped client interleave |

Why the bounds are enough. Two quotes are a bid and an ask, or a quote and its
replacement on one leg; three allow a full pair and a replacement; with two
contracts a quote can be filled in part, and a fill can be reported after another.
Two underlyings are needed for a per-symbol switch to be tested against a symbol it
must not touch. Two threads suffice for every pair of operations; a third adds a
bystander, and the theorems hold for any number. In `OrderTracking` a taker and two
makers are three orders, and an order of three can be filled twice in part; in the
two-threaded run one order is made, traded with or cancelled by the other thread,
and the third item of a batch is the one that fails. In `DeltaFeed` a channel of two overflows
with two changes of two levels, and the second subscription meets what the first
left behind. In `limiter` one slot for two keys makes every request meet the cap, and
limits of 1 and 2 tell a full window from one with room, the second of two attempts
follows one that reclaimed a slot or failed to; a window of no length
still spans one tick of the clock, so time can empty it, and `Wrap` leaves room
to see the counter pass below zero. In `prices` a path of 2 is used up by one tick and
a back-off of 2 has a tick that must not retry. In `ledger` three fills open, flip
and close a position, and two moments are in one bar of length 2 and in two of
length 1. Positions do not look at the time of a fill and bars treat all quantities alike, so
`Scope`, the constraint of that run, leaves runs in which both vary unexplored: in the
first moment fills have every price and quantity, and once time has passed those of 2
that fit. Likewise the time a snapshot bears only orders evictions, so in `snapshots` the
calendar moves, and day counts are used, in the first moment only. The theorems hold
without either constraint. In `server` a cap of 1 is met by the second subscription of a batch, and
one filter with its wildcard shows a set that matches twice. In `snapshots` the date and
the number of days read alike on the first day and differ on the second. In `client`
queues of 1 are full with the second message, so every wait there can be happens;
3 commands ahead are what fits between `send` and the server (`Queue + Wire + 1`,
`AheadAssumption`), reached with the fourth once one was heard of; with 4 ahead and 5
commands `SentIsRead` fails. `MaxOrders`,
`MaxGen`, `MaxBatch`, `MaxWrites`, `MaxSubscribes`, `MaxTime`, `MaxInserts`, `MaxRestarts`,
`MaxFills`, `MaxSnapshots`, `MaxSent`, `MaxFed` and `LastDay` bound how long a run lasts: a request that
would exceed them is not made.

Deadlock is checked wherever a client can always ask for something. In
`df_feed` and `ledger` it is off, since with their changes, subscriptions and fills
used up they rest, and in `client`, where a dropped client is the end. A process of
`server` that has ended stays as it is (`Down`); two tasks of a socket that wait for
each other would be found by `CommandsAreAnswered`, as would two sides of a
connection by `SentIsRead`.

Threads are interchangeable (`SYMMETRY`), and so are requests in `ledger`, and handlers
and levels in `df_feed`; runs with a temporal property use no symmetry.

### Fairness

`FairSpec` asks weak fairness of `Continue(w)` for every thread `w`: an operation
that has begun goes on to its end. The operations of the engine are synchronous,
take one lock at a time, never hold one across a call, and do not wait for one
another, so nothing but an unfair operating-system scheduler could stop them.
Nothing is asked of `Call`: no price need ever come, nobody need throw a switch.
Under it `KillTakesEffect` says that after quoting was disabled the books are empty
at some moment unless quoting is enabled again, and `VictimLeavesBook` that every
order a cancel-all found leaves its book, whoever removes it from tracking first.

The other specifications with fairness:

* `RateLimiter`: every thread goes on with the call it is in (nothing there awaits
  or waits but for a shard lock held for one access), and the background sweep keeps
  coming, as a `tokio` interval does. Nothing is asked of `Call`. `DriftHeals` needs
  both.
* `PriceFeed`: the loop goes on (its interval ticks, and a regeneration is a
  computation that ends one way or another), and so does a request under way. No
  operator need insert, no process restart. A shutdown releases the loop from
  `DormantIsRetried`.
* `Server`: requests are answered, the sending task writes, the sibling is aborted and
  `main` goes on (weak); the receiving task gets the locks it waits for (strong, as
  `tokio`'s mutex and read-write lock serve in order). That a write ends is
  assumed: a client that neither reads nor disconnects can hold both tasks
  of its own connection until TCP gives up. Nothing is asked of clients: a socket is
  released although `Leave` is the last thing its client did.
* `ClientSocket`: the tasks at both ends go on (weak), and the server's answer gets
  the sender it shares with the feed (strong: `tokio`'s mutex serves in order). The
  application goes on receiving whenever it is not sending, which is what the SDK
  asks of it; it need not send. Nobody need break, close or drop the connection.

## 4. The proofs

Every theorem holds for all values of the constants that satisfy the named
assumptions of its module; a further hypothesis is in the theorem itself, and said here. Every safety property a
run checks is stated by one of them.

| Module | Theorems | Further hypotheses |
|---|---|---|
| `MarketMakerProofs` | `TypeCorrect`, `TrackedIsEnough` | none |
| | `NoQuoteIsOrphaned`, `Inductive` | no deletions |
| | `LayersHold`, `TrackedOrdersAreIndexed`, `NothingIsOrphanedInTurn`, `SymbolSwitchWorks` | one thread |
| | `KillSwitchWorks`, `QuotesAreCurrent` | one thread, no parameter changes |
| `OrderTrackingProofs` | `TypeCorrect`, `NoRestingOrderIsHidden`, `RollbackIsFinal`, `WalkIsThorough` | none |
| | `PriceChangeKeepsExposure` | one request at a time |
| | `FillsWereExecuted`, `OpenEntriesAreAlive` | one request at a time, no IOC, no atomic batch |
| `FeedProofs` | `FeedTypeCorrect`, `FeedInvHolds`, `TruthIsTold`, `NothingIsMissed` (the feed) | none |
| | `TypeCorrect`, `NothingIsLostHolds` (the SDK's socket) | none |
| `PriceFeedProofs` | `TypeCorrect`, `EngineFollows`, `AnswersAreGenuine` | none |
| | `StormIsGuarded` | no asset named twice |
| `ServerProofs` | `LimiterTypeCorrect`, `LimiterInvHolds`, `LimitKept`, `Implements`, `CounterIsEnough` (the limiter) | none |
| | `TypeCorrect`, `CapKept`, `OnlySubscribersAreWritten`, `OnlyAdminsControl` (the server) | none |
| `LedgerProofs` | `TypeCorrect`, `GainsAreTheFills`, `BarsTellAll` | none |
| `SnapshotsProofs` | `TypeCorrect`, `NothingThatStayedIsMissed`, `NothingIsMadeUp`, `RetentionKeepsToItsCap`, `OrdersAreReached`, `SocketFindsTheSame`, `PlacedOrdersAreFound` | none |

### The engine, any number of threads

`MarketMakerProofs` proves, for any sets of threads, underlyings, instruments and
prices, any quote size and any bound on orders and deletions:

| Theorem | Statement |
|---|---|
| `TypeCorrect` | `Spec => []TypeOK` |
| `TrackedIsEnough` | `Spec => []TrackedCoversOutstanding` |
| `Inductive` | `Spec => []IInv`, when `delete_underlying` is not among the operations |
| `NoQuoteIsOrphaned` | `Spec => []NoOrphanQuote`, under the same condition |

Assumptions: the named assumptions of `MarketMaker` (every instrument has an
underlying, prices are positive, a quote has at least one contract, the bounds are
numbers). The condition on `delete_underlying` is needed: a requote that looked its
book up before the deletion goes on with it, and a book that was made anew is not
the one its orders rest on.

The invariant has two layers. `Accounted` is about quantities, holds whatever is
deleted, and gives `TrackedIsEnough`. Beside `TypeOK` it says:

* `UsedIds`: only ids below `nextId` occur anywhere, so a fresh id is fresh;
* `LotsApart`: the fills still to be reported of an order are disjoint, from each
  other and from what rests;
* `Covered`: the tracked quantity covers the outstanding contracts, which is why
  an order that reaches zero has nothing left on the book. It needs `LotsApart`, since
  reporting a lot must lower the outstanding quantity by as much as the tracked one.

`NoOrphanQuote` says that a resting quote is tracked, or is being tracked or
cancelled. It is not inductive by itself: an order may leave `active_orders` because
its quantity reached zero while contracts of it rest, and a requote prunes ids from
`active_orders` on the strength of a cancellation it did a step earlier. `IInv` adds:

* `BooksStay`: no book is deleted, so an order that rests can be found;
* `StaleIsGone`: between `CancelStale` and `PruneActive` the stale ids do not rest;
* `Reachable`: `NoOrphanQuote` in the form the steps preserve, which needs all the rest.

`TypeCorrect` includes that a tracked quantity never exceeds the size of a quote; no
run checks it besides.

### The engine, one thread

Operations on different threads interleave between lock sections, and the runs show
(section 5) that tracking and index then part and that the kill switch leaves quotes
behind. `MarketMakerProofs` also shows that nothing but interleaving does that:
when one thread serves all requests (`OneThread`), for any underlyings, instruments,
prices and sizes,

| Theorem | Statement |
|---|---|
| `TrackedOrdersAreIndexed` | `Spec => []TrackedIsIndexed` |
| `NothingIsOrphanedInTurn` | `Spec => []NoOrphanQuote`, deletions included |
| `SymbolSwitchWorks` | `Spec => []SymbolOffMeansQuiet` |
| `KillSwitchWorks` | `Spec => []KilledMeansQuiet`, without `set_parameter` |
| `QuotesAreCurrent` | `Spec => []QuotesFollowPrice`, without `set_parameter` |

`set_parameter` is left out of the last two since `requote_all` never asks whether
quoting is enabled: with it, `KilledMeansQuiet` is false. Deletions may be let in,
since with one thread no requote holds a book across one.

The properties speak of the moments between two operations. The invariant says what an
operation has done at each of its labels, in layers that rest on those before:

* `Resolved`: the requote under way writes on the book that is in force, what it
  collected and placed is of the instrument it is at, and the index names orders of
  its own instruments and legs;
* `Tracking`: every tracked order is in its slot of the index or among what the
  requote has placed and not yet recorded (`Indexed`); between the pruning of one map
  and of the other, the labels say which orders are in one only;
* `Reaching`: what rests is tracked, or is the order that is being tracked or
  cancelled (`Held`), and after `CancelStale` nothing rests of the instrument (`Gone`);
* `SymbolOff` and `Killed`: what rests though its switch is off is among the victims of
  the cancellation under way (`Covering`), and no requote walks with its switch off;
* `Follows`: an order that rests was computed from the price in force, or the price
  gives it no quote, or the requote under way has still to come to its instrument
  (`Pending`).

`LayersHold` proves `Resolved`, `Tracking`, `Reaching` and `SymbolOff` together; all rest on `Accounted`.

### Order handlers

`OrderTrackingProofs` proves, for any number of threads, orders and quantities:

| Theorem | Statement |
|---|---|
| `TypeCorrect` | `Spec => []TypeOK` |
| `NoRestingOrderIsHidden` | `Spec => []RestingIsListed` |
| `RollbackIsFinal` | `Spec => []RollbackLeavesNothing` |
| `WalkIsThorough` | `Spec => []WalkTakesAllOff` |
| `PriceChangeKeepsExposure` | `Spec => []ModifyKeepsExposure`, for requests served one at a time |
| `FillsWereExecuted` | `Spec => []FillsHappened`, likewise, without IOC orders and atomic batches |
| `OpenEntriesAreAlive` | `Spec => []OpenIsAlive`, under the same conditions |

The book and `state.orders` are two stores that no lock covers together. The
inductive invariant `IInv` has the first properties themselves and says what makes them
last: `Balance`, that an order never executes more than was asked for; `Fresh`, that an id
not used yet left no trace; `Jobs`, what each handler knows at each label of the
orders it holds, above all that an order it is about to take out of
`state.orders` is off the book; and `Alone`, that an order about to be tracked is in no
other handler's hands and in no batch, which is what keeps a rollback final.

The last three theorems have hypotheses because with threads they are false: TLC refutes
each of the three properties when any of its hypotheses is dropped (`OneAtATime`, and in
`Plainly` no `"ioc"` and no `"bulk_submit_atomic"`), and section 5 says which
code does it. Their invariants are `Exposure`, and `Sound`: an entry's
fill was executed, a resting order accounts for all that was asked, and an order
that neither rests nor was executed whole is leaving `state.orders`.

### The order book feed

`FeedProofs` proves, for any number of handlers, clients and levels, any
capacity of the channel and any bounds:

| Theorem | Statement |
|---|---|
| `FeedTypeCorrect` | `FeedSpec => []FeedTypeOK` |
| `TruthIsTold` | `FeedSpec => []TruthWasTold` |
| `NothingIsMissed` | `FeedSpec => []NothingMissedAfterSnapshot` |
| `FeedInvHolds` | `FeedSpec => []FeedInv`, the inductive invariant |

`TruthWasTold` speaks of clients that are up to date; the invariant must say what is
still to come for those that are not. `Informed`: of every level, a client that has a
snapshot or is about to be sent one has the present state among what it was sent or its
receiver holds, or a handler is about to publish it (`WillTell`), or it is in the snapshot
being sent. `Kept`: a receiver that did not lag has every delta numbered after
the last snapshot, or after the one about to be sent; it holds because the
subscription is recorded before the number is taken. `Entered` and `Numbered` say that a
client asking for a snapshot is subscribed and that numbers are taken before they are
used.

### The price simulator

`PriceFeedProofs` proves, for any number of assets, operators, prices, inserts
and restarts:

| Theorem | Statement |
|---|---|
| `TypeCorrect` | `Spec => []TypeOK` |
| `EngineFollows` | `Spec => []EngineFollowsSimulator` |
| `AnswersAreGenuine` | `Spec => []AnswerWasInForce` |
| `StormIsGuarded` | `Spec => []StormGuard`, when no asset is named twice |

Assumption: `FeedAssumption`; that there is an asset is what `Config::validate` makes
sure of (`src/src/config.rs:522`). `Carried` says that the price the loop holds is the one
the simulator stored. `Genuine` says that rows, and the prices of requests that have
written the engine and not yet the database, were in force. `BackOff` relates the
ticks an asset has rested to its counter, with one more while the tick under way has
still to come to it (`ToCome`). It needs that no asset is named twice
(`OncePerTick`), which `Config::validate` does not ask for: the walk of an asset that is
named twice moves twice in a tick and wakes after half the ticks.

### The rate limiter

`ServerProofs` proves, for any number of threads and keys, any limits, window,
cap and size of a sample, and a clock without bound:

| Theorem | Statement |
|---|---|
| `LimiterTypeCorrect` | `LimiterSpec => []LimiterTypeOK` |
| `LimiterInvHolds` | `LimiterSpec => []LimiterInv`, the inductive invariant |
| `LimitKept` | `LimiterSpec => []LimitHolds` |
| `Implements` | `LimiterSpec => KeepsPromise`, that is, `RateLimiter` implements `LimitedAdmission` |
| `CounterIsEnough` | `LimiterSpec => []CounterCovers` |

Assumptions: `LimitAssumption` and `CapAssumption` (limits, window, cap, attempts and modulus are
numbers, as the types of the code make them), `ThreadsAssumption` (finitely many
threads). `LimiterTypeOK` is about types only: that the counter is a number says nothing,
since a decrement of zero wraps. How much a bucket holds is in the inductive invariant
`LimiterInv`, four parts:

* `Typed`: the types, and that the map is finite;
* `Calls`: a call's reading of the clock lies in the past, however long ago it was made;
* `Logged`: so do the timestamps of admissions;
* `Buckets`: what a bucket forgot is out of the window, and what it holds is no more
  than the limit.

`LimitHolds` counts admissions of the last window, but the code decides by a bucket
that forgets: that nothing which still counts was forgotten is `Buckets`, and pruning
keeps it because of `Calls`. The refinement maps clock and log to themselves
(`Promise == INSTANCE LimitedAdmission`); a step that records is an admission below
the limit (`RecordingAdmits`), one that evicts forgets a key, every other stutters.
`CounterCovers` adds the keys of the map to the slots held by insertions and refunds
under way, and is preserved step by step on top of `LimiterInv`.

### Sockets and access

`ServerProofs` also proves, for any numbers of requests, sockets, subjects, channels,
contracts and background tasks, any permissions and any cap:

| Theorem | Statement |
|---|---|
| `TypeCorrect` | `Spec => []TypeOK` |
| `CapKept` | `Spec => []CapHolds` |
| `OnlySubscribersAreWritten` | `Spec => []WrittenIsSubscribed` |
| `OnlyAdminsControl` | `Spec => ControlsOnlyByAdmin`, an action property |

Assumptions: `KindsAssumption`, `PermissionsAssumption`, `WildcardAssumption`,
`BoundsAssumption`. The inductive invariant is `AccessInv`, `SocketInv` and that
only background tasks run. In `SocketInv`, `Room` says that what `CheckCap` found out
is true until `Insert`, since no other task writes the sets; that is why a cap checked
under one lock and used under another holds. `Guards` says that a sending task between
two events has let go of its read guard, without which the client of a message just
matched might have unsubscribed. In `AccessInv`, `Asked` says that a request for
a control carries a subject that may control.

### The SDK's socket

`FeedProofs` also proves, for queues, wires and numbers of commands and messages of
any size:

| Theorem | Statement |
|---|---|
| `TypeCorrect` | `Spec => []TypeOK` |
| `NothingIsLostHolds` | `Spec => []NothingIsLost` |

`NothingIsLost` speaks of one sequence each way, put together from a queue, a task's
hand and the wire. The invariant says of each place on its own which numbers stand
there (`Inbound`, `Outbound`), which each step preserves because it moves one element
from the end of one place to the beginning of the next; that the places joined make
one run of numbers follows.

### Records of matches

`LedgerProofs` proves, for any requests, symbols, prices and quantities, any lengths of
bars, any cap on a series and any interleaving:

| Theorem | Statement |
|---|---|
| `TypeCorrect` | `Spec => []TypeOK` |
| `GainsAreTheFills` | `Spec => []GainsAreAccounted` |
| `BarsTellAll` | `Spec => []BarsAreComplete` |

Assumption: `LedgerAssumption`, what the integer types of the code and its constants are.
The properties compare stores with sums over the fills they were given, and a fill may
be in one store and not yet in the next. `IInv` is:

* `Typed` and `Jobs`: the types, and what a request holds at each store: fills while it
  records them, intervals only while it writes bars;
* `Numbered` and `Apart`: a fill has a number of its own, one that is still to be recorded
  is not among the executions, and no two requests hold the same. This is why a store
  takes each fill once, so that its sum grows by that fill;
* `Balanced`: the quantity is the sum of the fills booked, and `Worth`, what was realized
  less what the holding cost, is the cash they moved up to `slack`. An average rounded
  down loses less than one per unit held (`AverageWorth`, `AddedWorth`), a closing
  fill loses nothing, whether it closes a part, all or flips the position (`GainClosed`);
* `Traded`: a last trade is an execution or about to be one;
* `Barred`: the bars kept are those of the newest times that were charted, and each has
  the volume, the count, the extremes and the ends of all fills of its time. That
  retention, bar by bar, keeps the newest of all times ever charted, so that a late
  fill never opens anew a bar that was dropped, is a lemma on sets of integers.

Reports follow: realized and unrealized gains of a position at a mark are its `Worth` and
the mark times what is held.

### Sums

The totals of `Ledger` and `BookQueries` are sums over sets, which the community module
`Functions` defines by recursion on a set (`SumFunction`). `SumLemmas` proves what
they need of it, for any finite set: there is a function that adds up, of which there is
one (`SumExists`, `SumUnique`); a sum splits at any element, not just the one that is
chosen (`SumSplits`), and grows by an element that is added (`SumGrowsBy`). Induction is
out of reach as a rule of inference, so these go by the least counterexample: a non-empty
family of subsets of a finite set has a least member (`LeastSet`, by the well-foundedness
of strict inclusion, which the library proves).

### Snapshots and look-ups

`SnapshotsProofs` proves, for any orders, dates, day counts, numbers of requests and
cap, and however books trade, are deleted and made anew, snapshots are taken and
restored, and days go by:

| Theorem | Statement |
|---|---|
| `TypeCorrect` | `Spec => []TypeOK` |
| `NothingThatStayedIsMissed` | `Spec => []SnapshotIsComplete`: it is there, or its book is counted as failed |
| `NothingIsMadeUp` | `Spec => []SnapshotIsGenuine` |
| `RetentionKeepsToItsCap` | `Spec => []RetentionHolds` |
| `OrdersAreReached` | `Spec => []PlacedIsReached` |
| `SocketFindsTheSame` | `Spec => []SocketAgrees` |
| `PlacedOrdersAreFound` | `Spec => []PlacedIsFound` |

`PlacedIsReached` and `SocketAgrees` are the parts of `PlacedIsFound` that are about
look-ups; the third part is what eleven queries tell of an order they find (`Shown`). The
segment finds one book only (`ExpectedIsFound`), so each query has one answer to
look into. That its depth has the order's quantity is `QuantityOf`, from `SumLemmas`; that
the quote is at the order's price or better needs a greatest price among the finitely many
of a side (`OrderInQuote`); and that as many levels as there are orders are all of them,
the order's own included, is a count (`OrderInLevels`).

Assumptions: `CalendarAssumption`, `TermsAssumption`, `CapAssumption`. The first two say that
there are finitely many orders, dates and numbers of days, as in any
execution of the program: it has served finitely many requests, and a map of books has
finitely many keys. How many is left open. Without it a sum or a count would mean nothing.
`IInv` is:

* `Books`: what rests is at the strike it asked for (`InPlace`), and where it was placed
  unless it was written back from a snapshot (`AsPlaced`). The first makes the book of
  an order the same throughout a walk; the second is what a look-up relies on;
* `Requests`: types, those of what a snapshot or a request holds among them;
* `Walks`: an order that has rested since a walk began is saved, or its book is still
  to be visited or counted as failed (`Complete`), and whatever is saved or can still be read from a
  deleted hierarchy has rested (`Genuine`);
* `Numbered` and `Counted`: a number is taken once and stored once, and as many
  snapshots are stored or about to be as there are numbers. That numbers are unique is
  why dropping the oldest drops one;
* `Retained`: with somebody evicting there may be too many; the only one to
  evict has found too many, and with two of them this need not be so any more, hence
  `overlapped`.

### Only model-checked

* Liveness: `KillTakesEffect`, `VictimLeavesBook`, `DriftHeals`, `DormantIsRetried` and the
  other temporal properties, which are beyond the prover, and what they need of `ENABLED`.
* The assumptions of `Routes`, which are about finitely many calls; TLC evaluates them.

## 5. What the models showed

Where the code and its words disagree, or a reader may be surprised. The runs avoid
these cases by what they assume, each named there; to see one, change the
configuration as said.

Engine:

* `requote_all`, which every parameter change calls, asks for the symbol's switch only.
  With quoting disabled, changing the spread puts quotes on the books, and the REST
  kill switch, which does nothing when quoting is already disabled, does not take them
  off (`src/README.md`: "Disable all quoting"). `KilledMeansQuiet` fails in `mm_kill`
  with `Ops <- SerialOps`, `MaxGen = 1`, `Prices = {1}`, `NoQuote = {}`.
* With two threads it fails too (`Workers = {w1, w2}`): a requote past the gate rests
  quotes after the cancel-all took its snapshot.
* A requote overwrites the slots of an instrument whatever is in them, so that of two
  concurrent requotes one leaves quotes the index does not name, which only
  a cancel-all reaches. `TrackedIsIndexed` fails in `mm_serial` with two threads.
* An instrument that gets no quote at a price is skipped before its old quotes are
  cancelled, so they stay at the price before (`NoQuote`).

Orders:

* `cancel_order` takes a tracked order that does not rest for a filled one. An order
  the rollback left as `Canceled`, filled in part, becomes a completely filled one:
  `FillsHappened` fails in `ot_serial` with `Ops <- AllOps` and `MaxBatch = 2`.
* Cancel-all collects entries with the status `Active`; an order filled in part on
  arrival is `Partial`, rests, and is passed over.
* `OpenIsAlive` fails with two threads (an order whose id a trade disclosed can be
  cancelled before `add_order` inserts its entry), and with `Tifs = {"gtc", "ioc"}`: an
  IOC order filled in part is tracked as `Partial` although nothing of it rests, and
  `cleanup_old_orders` never drops it.
* `modify_order` takes the quantity of the replacement before it cancels: with two
  threads what is filled in between is granted again (`ModifyKeepsExposure` fails).

Feed and socket:

* A level is read before its number is taken; with two handlers the older reading can
  have the higher number.
* A snapshot is numbered and sent after it was read; a delta it does not contain may
  have a lower number and arrive earlier, so applying the deltas that follow it leaves
  a stale level.
* A receiver that lags loses deltas, and its client is neither told nor sent a snapshot.
* A socket keeps the permissions of its upgrade after the token has expired.
* Sockets are told of a shutdown only after `serve()` has returned, so that the
  comments by which the signal lets `serve()` return (`src/src/main.rs:366`,
  `src/src/api/websocket.rs:558`) describe something that has already happened; the
  process may end before the `Close` frame is sent.
* A client that neither reads nor disconnects holds both tasks of its connection.

Fills and their records:

* `last_trades` keeps the last writer, not the latest trade.
* `record_fills` casts quantities to `i64` without a check.
* Recordings are keyed by the expiration of the request's path. A position recorded
  under the date of a book keyed by a number of days is unpriced, and the chain looks
  for the last trade under the name it was asked by.
* `list_executions` ends a `to` date at 23:59:59.000, its `underlying` is a prefix, and
  pages may overlap among executions of one millisecond.

Limiter:

* `tracked` may drift below the size of the map when a sweep stores a length that
  other calls have outdated; until the next sweep the map can then exceed the cap
  (`src/src/auth.rs:141` says it cannot).
* Evicting a key forgets its window. A request that is refused for lack of
  permission has been charged first.

Books and snapshots:

* A book keyed by a number of days is saved under the date it reads as and restored
  under that date, beside the book it came from, whose orders then rest twice. From
  then on the date's name finds either.
* Restoring does not touch `state.orders` or the engine.
* A snapshot is dated before it walks the books and numbered before it is stored, so
  with two creations the one just stored may be the one evicted
  (`src/src/state.rs:342` says that a tie never does that).
* Two creations at the cap may evict one snapshot more than they must, which is the
  exception in `RetentionHolds`.
* The volatility surface is answered from a cache for up to two seconds while the spot
  does not move (`SURFACE_CACHE_TTL_MS`), so a strike made since is missing from it. It
  has its time from after the computation, so mids in it may be older than it says; an
  older computation may overwrite a newer one, and a deleted underlying leaves its
  surface behind.
* A book that fails to serialize is left out of a snapshot, which is stored, and can be
  restored, all the same; the answer says `success: false` and how many failed, the list
  of snapshots does not.

SDK:

* A client that sends more than `Queue + Wire + 1` commands ahead of what it has
  received may wait for ever for a server that waits for it: `SentIsRead` fails in
  `client` with `Ahead = 4` and `MaxSent = 5` once its assumption is lifted.
* `WsClient::subscribe(symbol)` sends no channel, and the server only logs it. Dropping
  the client aborts commands still queued.
* `AddOrderRequest` of the SDK has no time in force, so its orders are all GTC;
  `AddOrderResponse` drops status and quantities; `OhlcQuery` may leave out the
  interval, which the server requires.
* An order id spelled like a route ("market", "bulk", "cancel-all") would be
  dispatched to that route; ids are made by the server and are never so spelled.

Configuration: a file that does not parse silently yields the defaults;
`AUTH_DEFAULT_TTL_SECS` is not validated as the file's value is; an asset may be named
twice, and then moves twice in every tick (`StormIsGuarded` assumes none is).

## 6. What is not modelled

* Arithmetic in floating point: Black-Scholes, spreads and skew, volatilities, Greeks,
  VWAP, market impact. It has no state; the engine's quotes are modelled up to their
  prices.
* The volatility surface: what it answers is what its cache holds, or was computed from
  what was collected off the books before a wait. Nothing but the query itself reads the
  cache, and the code says that it may be stale (`src/src/api/handlers.rs:1415`).
* Saturation and overflow of quantities and prices, but for the counter of the
  limiter, which wraps.
* The read of a toggle apart from its write: nothing says what two toggles at once
  must come to.
* Configuration and the start-up that parses it, before anything runs; signatures of
  tokens; rate-limit headers and the choice of a key for an anonymous request.
* The pool and the schema of the database; rows of inserted prices are modelled.
* The option book and the manager of books, external crates: what their callers rely
  on is modelled, and marked so.
* Of the SDK, the shapes of requests and answers, the mapping of HTTP errors and the
  timeouts of its HTTP library: a call is one request and is never retried.
* Two combinations: an order handler that finds its underlying deleted after it
  placed an order, and the restoration of a snapshot beside `state.orders`.

`PROJECT.json`, "components", has the status of each part.

## 7. What could follow

* The toggle as two steps, should the code come to promise something of it.
* An abstract feed, a client that sees a subsequence of the book's history, for
  `DeltaFeed` to implement; an abstract quote board for `MarketMaker` with one thread,
  whose invariants are proved.
