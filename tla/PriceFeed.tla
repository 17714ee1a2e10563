------------------------------- MODULE PriceFeed -------------------------------
(***************************************************************************)
(* Where prices of underlyings come from and who sees them: the simulator  *)
(* (src/src/simulation.rs), whose loop walks one random path per asset and *)
(* pushes each price to the market maker engine; operators who insert      *)
(* prices straight into the engine (src/src/api/controls.rs), with a       *)
(* best-effort row in the database; readers of the latest price, who are   *)
(* served from the engine or, when it has none, from the database; and     *)
(* shutdowns and crashes, after which only the database is left.           *)
(*                                                                         *)
(* A path is its length and the position on it: the values are chosen when *)
(* they are reached.  Everything the loop does between two awaits of a     *)
(* price is a step of its own, for operators write to the engine too.      *)
(***************************************************************************)
EXTENDS Integers, Sequences, FiniteSets

CONSTANTS
    Assets,       \* the configured assets, a sequence of symbols
    Unlisted,     \* symbols that only operators give a price
    Operators,    \* requests inserting or reading prices
    Cents,        \* prices
    PathLen,      \* WALK_STEPS
    Retry,        \* DORMANT_RETRY_TICKS
    NoPrice,
    MaxInserts,   \* bound on inserted prices
    MaxRestarts   \* bound on restarts

\* Config::validate refuses a configuration without assets; one that names an
\* asset twice it lets pass.
ASSUME FeedAssumption ==
    /\ Len(Assets) \in Nat \ {0} /\ DOMAIN Assets = 1..Len(Assets)
    /\ Unlisted \cap {Assets[i] : i \in DOMAIN Assets} = {}
    /\ Cents \subseteq Nat
    /\ NoPrice \notin Nat
    /\ PathLen \in Nat /\ PathLen >= 2
    /\ Retry \in Nat \ {0}

VARIABLES
    walk,         \* AssetSimulation of each asset, or unregistered
    simPrice,     \* PriceSimulator::prices
    loop,         \* the task that runs PriceSimulator::run
    stopping,     \* the shutdown signal
    mmPrice,      \* MarketMakerEngine::prices
    told,         \* the last PriceUpdated event of each symbol
    request,      \* the operators' requests
    rows,         \* underlying_prices in the database
    stamps,       \* inserts so far: their timestamps
    restarts,
    held,         \* history: prices the engine has held
    answer,       \* history: the last answer of GET /prices/{symbol}
    inserted,     \* history: assets written by an operator since their last tick
    rest          \* history: ticks since each walk's last failed generation

vars == <<walk, simPrice, loop, stopping, mmPrice, told, request, rows,
          stamps, restarts, held, answer, inserted, rest>>
feed == <<walk, simPrice, loop, rest>>
engine == <<mmPrice, told, held, inserted>>
store == <<rows, stamps, answer>>

Listed == {Assets[i] : i \in DOMAIN Assets}
Symbols == Listed \cup Unlisted
Price == Cents \cup {NoPrice}

Unregistered == [index |-> -1, len |-> 0, dormant |-> 0]
Walking(i, n) == [index |-> i, len |-> n, dormant |-> 0]

Dormant(w) == [w EXCEPT !.dormant = Retry]

Between == [pc |-> "select", at |-> 0, price |-> NoPrice]
NoAnswer == [symbol |-> Assets[1], price |-> NoPrice]
NoRequest == [pc |-> "none", symbol |-> Assets[1], price |-> NoPrice, stamp |-> 0]

\* PriceSimulator::new: an asset whose first walk fails is registered dormant,
\* and one whose parameters the library refuses not at all.
FirstWalks == [Listed -> {Walking(0, PathLen), Dormant(Walking(0, 0)), Unregistered}]

\* The initial prices that a configuration may have: no asset is without one
\* (Config::validate).
FirstPrices == [Listed -> Cents]

\* The engine is told the initial prices before it has subscribers.
Seeded(prices) == [s \in Symbols |-> IF s \in Listed THEN prices[s] ELSE NoPrice]

Init ==
    /\ walk \in FirstWalks
    /\ simPrice \in FirstPrices
    /\ loop = Between
    /\ rest = [s \in Listed |-> Retry]
    /\ stopping = FALSE
    /\ mmPrice = Seeded(simPrice)
    /\ told = [s \in Symbols |-> NoPrice]
    /\ request = [o \in Operators |-> NoRequest]
    /\ rows = {} /\ stamps = 0 /\ restarts = 0
    /\ held = [s \in Symbols |-> {mmPrice[s]} \ {NoPrice}]
    /\ answer = NoAnswer
    /\ inserted = {}

-----------------------------------------------------------------------------
(* The loop of the simulator.                                              *)

Asset == Assets[loop.at]

Push(p) == loop' = [loop EXCEPT !.pc = "push", !.price = p]

\* select! polls its ready branches in random order: a tick that is due may win
\* over the shutdown signal.
Tick ==
    /\ loop.pc = "select"
    /\ loop' = [pc |-> "advance", at |-> 1, price |-> NoPrice]
    /\ rest' = [s \in Listed |-> IF rest[s] < Retry THEN rest[s] + 1 ELSE Retry]
    /\ UNCHANGED <<walk, simPrice, stopping, request, restarts, engine, store>>

\* The loop breaks between ticks, or in a tick that awaits a regeneration.
Stop ==
    /\ stopping
    /\ loop.pc \in {"select", "regenerate"}
    /\ loop' = [Between EXCEPT !.pc = "stopped"]
    /\ UNCHANGED <<walk, simPrice, rest, stopping, request, restarts, engine, store>>

\* A value of the walk is stored (store_walk_price), at least a cent; one that
\* has no cents is replaced by the last stored price.
StoreWalkPrice(s) ==
    \E p \in {c \in Cents : c > 0} \cup {simPrice[s]} :
        /\ simPrice' = [simPrice EXCEPT ![s] = p]
        /\ Push(p)

\* advance_step, and what get_next_price does with a walk it need not regenerate.
WalkOn ==
    /\ loop.pc = "advance"
    /\ walk[Asset] # Unregistered
    /\ walk[Asset].dormant = 0
    /\ walk[Asset].index + 1 < walk[Asset].len
    /\ walk' = [walk EXCEPT ![Asset].index = @ + 1]
    /\ StoreWalkPrice(Asset)
    /\ UNCHANGED <<rest, stopping, request, restarts, engine, store>>

\* An exhausted walk, or one whose back-off runs out with this tick, is
\* regenerated from the price read now, in a blocking task.
NeedsRegen ==
    /\ loop.pc = "advance"
    /\ walk[Asset] # Unregistered
    /\ \/ /\ walk[Asset].dormant = 1
          /\ walk' = [walk EXCEPT ![Asset].dormant = 0]
       \/ /\ walk[Asset].dormant = 0
          /\ walk[Asset].index + 1 >= walk[Asset].len
          /\ walk' = [walk EXCEPT ![Asset].index = walk[Asset].len]
    /\ loop' = [loop EXCEPT !.pc = "regenerate", !.price = simPrice[Asset]]
    /\ UNCHANGED <<simPrice, rest, stopping, request, restarts, engine, store>>

\* Mutant: the back-off does not count down.
RepeatForever ==
    /\ loop.pc = "advance"
    /\ walk[Asset] = Unregistered \/ walk[Asset].dormant > 1
    /\ Push(simPrice[Asset])
    /\ UNCHANGED <<walk, simPrice, rest, stopping, request, restarts, engine, store>>

\* A dormant walk costs a tick nothing; an unregistered asset has no walk.
Repeat ==
    /\ loop.pc = "advance"
    /\ \/ /\ walk[Asset].dormant > 1
          /\ walk' = [walk EXCEPT ![Asset].dormant = @ - 1]
       \/ /\ walk[Asset] = Unregistered
          /\ walk' = walk
    /\ Push(simPrice[Asset])
    /\ UNCHANGED <<simPrice, rest, stopping, request, restarts, engine, store>>

Regenerated ==
    /\ loop.pc = "regenerate"
    /\ walk' = [walk EXCEPT ![Asset] = [@ EXCEPT !.index = 1, !.len = PathLen]]
    /\ StoreWalkPrice(Asset)
    /\ UNCHANGED <<rest, stopping, request, restarts, engine, store>>

\* Mutant: a failed generation leaves the walk exhausted.
GenerationFailsAwake ==
    /\ loop.pc = "regenerate"
    /\ rest' = [rest EXCEPT ![Asset] = 0]
    /\ Push(loop.price)
    /\ UNCHANGED <<walk, simPrice, stopping, request, restarts, engine, store>>

\* Mutant: a failed generation has no price to give.
GenerationFailsWithZero ==
    /\ loop.pc = "regenerate"
    /\ walk' = [walk EXCEPT ![Asset] = Dormant(@)]
    /\ rest' = [rest EXCEPT ![Asset] = 0]
    /\ Push(0)
    /\ UNCHANGED <<simPrice, stopping, request, restarts, engine, store>>

\* mark_dormant: an error, a panic, or a path too short to walk on.
GenerationFails ==
    /\ loop.pc = "regenerate"
    /\ walk' = [walk EXCEPT ![Asset] = Dormant(@)]
    /\ rest' = [rest EXCEPT ![Asset] = 0]
    /\ Push(loop.price)
    /\ UNCHANGED <<simPrice, stopping, request, restarts, engine, store>>

\* The blocking task is cancelled: only a runtime that shuts down does that.
GenerationCancelled ==
    /\ loop.pc = "regenerate"
    /\ stopping
    /\ Push(loop.price)
    /\ UNCHANGED <<walk, simPrice, rest, stopping, request, restarts, engine, store>>

\* update_price: the price is written under a lock and announced after it.
Write(s, p) ==
    /\ mmPrice' = [mmPrice EXCEPT ![s] = p]
    /\ held' = [held EXCEPT ![s] = @ \cup {p}]

PushPrice ==
    /\ loop.pc = "push"
    /\ Write(Asset, loop.price)
    /\ inserted' = inserted \ {Asset}
    /\ loop' = [loop EXCEPT !.pc = "tell"]
    /\ UNCHANGED <<walk, simPrice, rest, stopping, request, restarts, told, store>>

\* Mutant: the loop's writes are not announced.
TellNothing ==
    /\ loop.pc = "tell"
    /\ loop' = IF loop.at < Len(Assets)
               THEN [pc |-> "advance", at |-> loop.at + 1, price |-> NoPrice]
               ELSE Between
    /\ UNCHANGED <<walk, simPrice, rest, stopping, request, restarts, engine, store>>

TellPrice ==
    /\ loop.pc = "tell"
    /\ told' = [told EXCEPT ![Asset] = loop.price]
    /\ loop' = IF loop.at < Len(Assets)
               THEN [pc |-> "advance", at |-> loop.at + 1, price |-> NoPrice]
               ELSE Between
    /\ UNCHANGED <<walk, simPrice, rest, stopping, request, restarts, mmPrice,
                   held, inserted, store>>

Loop ==
    \/ Tick \/ WalkOn \/ NeedsRegen \/ Repeat \/ Regenerated \/ GenerationFails
    \/ GenerationCancelled \/ PushPrice \/ TellPrice

-----------------------------------------------------------------------------
(* Requests: insert_price and get_latest_price.                            *)

Become(o, r) == request' = [request EXCEPT ![o] = r]

\* Mutant: the row is written first.
InsertPriceRowFirst(o, s, p) ==
    /\ request[o].pc = "none"
    /\ stamps < MaxInserts
    /\ stamps' = stamps + 1
    /\ rows' = rows \cup {[symbol |-> s, price |-> p, stamp |-> stamps + 1]}
    /\ Become(o, [pc |-> "write", symbol |-> s, price |-> p, stamp |-> stamps + 1])
    /\ UNCHANGED <<feed, stopping, restarts, engine, answer>>

\* Every amount of the request is valid, or it is refused and changes nothing.
\* The timestamp of the row is taken here, before the price is written.
InsertPrice(o, s, p) ==
    /\ request[o].pc = "none"
    /\ stamps < MaxInserts
    /\ stamps' = stamps + 1
    /\ Become(o, [pc |-> "write", symbol |-> s, price |-> p, stamp |-> stamps + 1])
    /\ UNCHANGED <<feed, stopping, restarts, engine, rows, answer>>

WriteInserted(o) ==
    /\ request[o].pc = "write"
    /\ Write(request[o].symbol, request[o].price)
    /\ inserted' = inserted \cup ({request[o].symbol} \cap Listed)
    /\ Become(o, [request[o] EXCEPT !.pc = "tell"])
    /\ UNCHANGED <<feed, stopping, restarts, told, store>>

TellInserted(o) ==
    /\ request[o].pc = "tell"
    /\ told' = [told EXCEPT ![request[o].symbol] = request[o].price]
    /\ Become(o, [request[o] EXCEPT !.pc = "persist"])
    /\ UNCHANGED <<feed, stopping, restarts, mmPrice, held, inserted, store>>

\* The row is written, or the failure is logged, or there is no database.
Persist(o) ==
    /\ request[o].pc = "persist"
    /\ \/ rows' = rows
       \/ rows' = rows \cup {[symbol |-> request[o].symbol, price |-> request[o].price,
                              stamp |-> request[o].stamp]}
    /\ Become(o, NoRequest)
    /\ UNCHANGED <<feed, stopping, restarts, engine, stamps, answer>>

GetLatestPrice(o, s) ==
    /\ request[o].pc = "none"
    /\ IF mmPrice[s] # NoPrice
       THEN /\ answer' = [symbol |-> s, price |-> mmPrice[s]]
            /\ request' = request
       ELSE /\ Become(o, [NoRequest EXCEPT !.pc = "query", !.symbol = s])
            /\ answer' = answer
    /\ UNCHANGED <<feed, stopping, restarts, engine, rows, stamps>>

\* ORDER BY timestamp DESC LIMIT 1; no row is a 404.
QueryRows(o) ==
    /\ request[o].pc = "query"
    /\ LET mine == {r \in rows : r.symbol = request[o].symbol}
       IN  \/ /\ mine = {}
              /\ answer' = answer
           \/ \E r \in mine :
                /\ \A q \in mine : q.stamp <= r.stamp
                /\ answer' = [symbol |-> r.symbol, price |-> r.price]
    /\ Become(o, NoRequest)
    /\ UNCHANGED <<feed, stopping, restarts, engine, rows, stamps>>

Serve(o) == WriteInserted(o) \/ TellInserted(o) \/ Persist(o) \/ QueryRows(o)

-----------------------------------------------------------------------------
(* The process.                                                            *)

Shutdown ==
    /\ ~stopping
    /\ stopping' = TRUE
    /\ UNCHANGED <<feed, request, restarts, engine, store>>

\* The process ends, orderly or not, and starts again, its configuration edited
\* or not: what was in memory is gone, requests under way included.
Restart ==
    /\ restarts < MaxRestarts
    /\ restarts' = restarts + 1
    /\ walk' \in FirstWalks
    /\ simPrice' \in FirstPrices
    /\ loop' = Between
    /\ rest' = [s \in Listed |-> Retry]
    /\ stopping' = FALSE
    /\ mmPrice' = Seeded(simPrice')
    /\ told' = [s \in Symbols |-> NoPrice]
    /\ request' = [o \in Operators |-> NoRequest]
    /\ held' = [s \in Symbols |-> held[s] \cup ({mmPrice'[s]} \ {NoPrice})]
    /\ inserted' = {}
    /\ UNCHANGED store

Next ==
    \/ Loop \/ Stop \/ Shutdown \/ Restart
    \/ \E o \in Operators :
         \/ Serve(o)
         \/ \E s \in Symbols : GetLatestPrice(o, s) \/ \E p \in Cents : InsertPrice(o, s, p)

\* The interval keeps ticking, every poll ends, and a generation does: it is a
\* computation without input or output.  A loop told to stop may take its time.
Fairness ==
    /\ WF_vars(Loop)
    /\ \A o \in Operators : WF_vars(Serve(o))

Spec == Init /\ [][Next]_vars /\ Fairness

-----------------------------------------------------------------------------
TypeOK ==
    /\ \A s \in Listed : walk[s] = Unregistered \/
          /\ walk[s].len \in {0, PathLen}
          /\ walk[s].index \in 0..walk[s].len
          /\ walk[s].dormant \in 0..Retry
    /\ simPrice \in [Listed -> Cents]
    /\ loop.pc \in {"select", "advance", "regenerate", "push", "tell", "stopped"}
    /\ loop.pc \in {"advance", "regenerate", "push", "tell"} => loop.at \in DOMAIN Assets
    /\ loop.pc \in {"push", "tell"} => loop.price \in Cents
    /\ mmPrice \in [Symbols -> Price]
    /\ told \in [Symbols -> Price]
    /\ answer \in [symbol : Symbols, price : Price]

\* The engine and the simulator agree on an asset's price, so quotes and the
\* option chain are built on the same spot, unless an operator has written the
\* engine's price since the last tick (insert_price never tells the simulator)
\* or the tick under way has yet to push what it stored.
EngineFollowsSimulator ==
    \A s \in Listed :
        mmPrice[s] # simPrice[s] =>
            \/ s \in inserted
            \/ loop.pc = "push" /\ Asset = s

\* The heavy generation that failed is not run again before DORMANT_RETRY_TICKS
\* further ticks, whatever happens to the other assets (the "storm guard").
StormGuard == loop.pc = "regenerate" => rest[Asset] = Retry

\* A price answered to a reader is one that the engine held, in this run of the
\* process or, through a row of the database, in an earlier one: a request that
\* a crash cuts short leaves no row for a price that never was in force.
AnswerWasInForce == answer # NoAnswer => answer.price \in held[answer.symbol]

\* A walk that sleeps after a failed generation is retried, unless the loop is
\* told to stop or the process restarts.
DormantIsRetried ==
    \A s \in Listed :
        walk[s].dormant > 0 ~> walk[s].dormant = 0 \/ stopping

\* Events of the same asset sent by the loop and by operators can arrive in the
\* other order than the writes; the ticks that follow repair what subscribers
\* believe.
SubscribersCatchUp ==
    \A s \in Listed :
        told[s] # mmPrice[s] ~> told[s] = mmPrice[s] \/ stopping
=============================================================================
