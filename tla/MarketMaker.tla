----------------------------- MODULE MarketMaker -----------------------------
(***************************************************************************)
(* The quoting engine of src/src/market_maker/engine.rs, with the handlers *)
(* that drive it from src/src/api (controls.rs, handlers.rs, websocket.rs) *)
(* and the price feed of src/src/simulation.rs.                            *)
(*                                                                         *)
(* Every operation is synchronous code on a thread of the tokio runtime    *)
(* and takes its locks one after the other, never nested: a step of this   *)
(* module is one critical section, and operations running on different     *)
(* threads interleave between them.  Workers is the set of those threads:  *)
(* with a single one an operation, which never awaits, runs to its end     *)
(* before the next one begins.                                             *)
(*                                                                         *)
(* A quote is Size contracts on one leg of one instrument.  book[o] is the *)
(* set of contracts of order o that still rest on the option book (the     *)
(* matching engine is an external crate); active[o] is the quantity the    *)
(* engine tracks for it in active_orders, 0 when it is not tracked.        *)
(***************************************************************************)
EXTENDS Integers, FiniteSets

CONSTANTS
  Workers,      \* threads of the runtime, each running one operation at a time
  Symbols,      \* underlyings
  Instruments,  \* option books: one per expiration, strike and style
  SymbolOf,     \* the underlying of each instrument
  Prices,       \* spot prices the feed may report
  NoQuote,      \* <<i, p>> for which generate_quote finds no finite value
  Size,         \* contracts of a quote
  MaxOrders,    \* bound: quotes ever placed
  MaxGen,       \* bound: times an underlying is deleted
  NoInfo,       \* metadata of an order id that was never used
  Ops           \* operations the clients invoke

AllOps == {"update_price", "set_enabled", "set_symbol_enabled",
           "set_parameter", "fill", "create_book", "delete_underlying"}

ASSUME SymbolOfAssumption == /\ Symbols # {} /\ Instruments # {}
                             /\ SymbolOf \in [Instruments -> Symbols]
ASSUME PricesAssumption   == Prices \subseteq Nat \ {0}
ASSUME SizeAssumption     == Size \in Nat \ {0}
ASSUME BoundsAssumption   == MaxOrders \in Nat /\ MaxGen \in Nat
ASSUME OpsAssumption      == Ops \subseteq AllOps

NoPrice  == 0
NoOrder  == 0
OrderIds == 1 .. MaxOrders
Legs     == {"bid", "ask"}
Contracts == 1 .. Size
Of(s)    == {i \in Instruments : SymbolOf[i] = s}

\* ActiveOrderInfo: the instrument and leg of an order, the spot its price was
\* computed from, and the generation of the option book it was placed on.
OrderInfo == [inst : Instruments, leg : Legs, spot : Prices \cup {NoPrice},
              gen : 0 .. MaxGen]
ASSUME NoInfoAssumption == NoInfo \notin OrderInfo

EmptySlots == [l \in Legs |-> NoOrder]

VARIABLES
  enabled,        \* config.enabled
  symbolEnabled,  \* config.symbol_enabled
  prices,         \* symbol -> latest price
  active,         \* active_orders: order -> tracked quantity, 0 if absent
  index,          \* instrument_orders: instrument -> leg -> order
  info,           \* order -> its ActiveOrderInfo
  nextId,         \* the next unused OrderId
  book,           \* order -> contracts resting on the option book
  open,           \* instruments that have an option book now
  gen,            \* how often the book of an instrument was deleted
  pc,             \* worker -> the critical section it enters next
  job,            \* worker -> locals of the requote it runs
  purge,          \* worker -> locals of the cancellation it runs
  hit             \* worker -> the fill it reports

engineVars == <<enabled, symbolEnabled, prices>>
bookVars   == <<info, nextId, book, open, gen>>
locals     == <<job, purge, hit>>
vars == <<engineVars, active, index, bookVars, pc, locals>>

JobType == [syms : SUBSET Symbols, todo : SUBSET Instruments,
            sym : Symbols, inst : Instruments, spot : Prices \cup {NoPrice},
            gen : 0 .. MaxGen, stale : [Legs -> OrderIds \cup {NoOrder}],
            leg : Legs, fresh : OrderIds \cup {NoOrder},
            placed : [Legs -> OrderIds \cup {NoOrder}]]
PurgeType == [victims : SUBSET OrderIds, order : OrderIds \cup {NoOrder},
              all : BOOLEAN]
HitType == [order : OrderIds \cup {NoOrder}, lot : SUBSET Contracts]

NoJob == [syms |-> {}, todo |-> {}, sym |-> CHOOSE s \in Symbols : TRUE,
          inst |-> CHOOSE i \in Instruments : TRUE, spot |-> NoPrice, gen |-> 0,
          stale |-> EmptySlots, leg |-> "bid", fresh |-> NoOrder,
          placed |-> EmptySlots]
NoPurge == [victims |-> {}, order |-> NoOrder, all |-> FALSE]
NoHit   == [order |-> NoOrder, lot |-> {}]

Labels == {"idle", "gate_enabled", "gate_symbol", "next_symbol", "start",
           "next_instrument", "read_stale", "cancel_stale", "prune_active",
           "prune_index", "add", "track", "record", "snapshot_orders",
           "next_victim", "clear_slot", "cancel_victim", "clear_index",
           "report", "clear_filled_slot"}

Init ==
  /\ enabled = TRUE
  /\ symbolEnabled = [s \in Symbols |-> TRUE]
  /\ prices = [s \in Symbols |-> NoPrice]
  /\ active = [o \in OrderIds |-> 0]
  /\ index  = [i \in Instruments |-> EmptySlots]
  /\ info   = [o \in OrderIds |-> NoInfo]
  /\ nextId = 1
  /\ book   = [o \in OrderIds |-> {}]
  /\ open   = Instruments
  /\ gen    = [i \in Instruments |-> 0]
  /\ pc     = [w \in Workers |-> "idle"]
  /\ job    = [w \in Workers |-> NoJob]
  /\ purge  = [w \in Workers |-> NoPurge]
  /\ hit    = [w \in Workers |-> NoHit]

-----------------------------------------------------------------------------
At(w, label)   == pc[w] = label
Goto(w, label) == pc' = [pc EXCEPT ![w] = label]
SetJob(w, j)   == job' = [job EXCEPT ![w] = j]
SetPurge(w, p) == purge' = [purge EXCEPT ![w] = p]
SetHit(w, h)   == hit' = [hit EXCEPT ![w] = h]
Begin(w, op)   == At(w, "idle") /\ op \in Ops

\* An order rests where takers can reach it: its contracts are on the book that
\* is registered for its instrument now.
Attached(o) == /\ info[o] # NoInfo
               /\ info[o].inst \in open
               /\ info[o].gen = gen[info[o].inst]
Rests(o) == book[o] # {} /\ Attached(o)

\* clear_instrument_slot: whatever order the slot names now, it is forgotten.
ClearSlot(o) == index' = [index EXCEPT ![info[o].inst][info[o].leg] = NoOrder]

-----------------------------------------------------------------------------
(* update_price *)

\* Mutant: the gate forgets the kill switch.
AlwaysMayRequote == TRUE
MayRequote == enabled

\* Mutant: the per-symbol switch is not read.
EverySymbolMayQuote(s) == TRUE
SymbolMayQuote(s) == symbolEnabled[s]

UpdatePrice(w, s, p) ==
  /\ Begin(w, "update_price")
  /\ prices' = [prices EXCEPT ![s] = p]
  /\ SetJob(w, [job[w] EXCEPT !.sym = s])
  /\ Goto(w, "gate_enabled")
  /\ UNCHANGED <<enabled, symbolEnabled, active, index, bookVars, purge, hit>>

\* is_enabled() && ...: a disabled engine records the price and stops there.
GateEnabled(w) ==
  /\ At(w, "gate_enabled")
  /\ IF MayRequote
     THEN Goto(w, "gate_symbol") /\ UNCHANGED job
     ELSE Goto(w, "idle") /\ SetJob(w, NoJob)
  /\ UNCHANGED <<engineVars, active, index, bookVars, purge, hit>>

\* ... && is_symbol_enabled(symbol), a second read of the configuration.
GateSymbol(w) ==
  /\ At(w, "gate_symbol")
  /\ IF SymbolMayQuote(job[w].sym)
     THEN Goto(w, "start") /\ UNCHANGED job
     ELSE Goto(w, "idle") /\ SetJob(w, NoJob)
  /\ UNCHANGED <<engineVars, active, index, bookVars, purge, hit>>

-----------------------------------------------------------------------------
(* requote_all and requote_symbol *)

\* set_spread_multiplier, set_size_scalar and set_directional_skew store the
\* clamped value and call requote_all, which asks is_symbol_enabled of every
\* underlying and never is_enabled.
SetParameter(w) ==
  /\ Begin(w, "set_parameter")
  /\ SetJob(w, [job[w] EXCEPT !.syms = {SymbolOf[i] : i \in open}])
  /\ Goto(w, "next_symbol")
  /\ UNCHANGED <<engineVars, active, index, bookVars, purge, hit>>

NextSymbol(w) ==
  /\ At(w, "next_symbol")
  /\ \/ /\ job[w].syms = {}
        /\ Goto(w, "idle")
        /\ SetJob(w, NoJob)
     \/ \E s \in job[w].syms :
          /\ SetJob(w, [job[w] EXCEPT !.sym = s, !.syms = @ \ {s}])
          /\ IF SymbolMayQuote(s) THEN Goto(w, "start") ELSE UNCHANGED pc
  /\ UNCHANGED <<engineVars, active, index, bookVars, purge, hit>>

\* requote_symbol copies the price and walks the books the underlying has; with
\* no price it returns.
StartRequote(w) ==
  LET s == job[w].sym
  IN  /\ At(w, "start")
      /\ IF prices[s] = NoPrice
         THEN Goto(w, "next_symbol") /\ UNCHANGED job
         ELSE /\ SetJob(w, [job[w] EXCEPT !.spot = prices[s], !.todo = Of(s) \cap open])
              /\ Goto(w, "next_instrument")
      /\ UNCHANGED <<engineVars, active, index, bookVars, purge, hit>>

\* The next instrument of the walk.  update_quote skips it when generate_quote
\* has no finite value or when its path is no longer registered, and else holds
\* on to the option book it resolved.
NextInstrument(w) ==
  /\ At(w, "next_instrument")
  /\ \/ /\ job[w].todo = {}
        /\ Goto(w, "next_symbol")
        /\ UNCHANGED job
     \/ \E i \in job[w].todo :
          IF <<i, job[w].spot>> \notin NoQuote /\ i \in open
          THEN /\ SetJob(w, [job[w] EXCEPT !.todo = @ \ {i}, !.inst = i,
                                           !.gen = gen[i]])
               /\ Goto(w, "read_stale")
          ELSE /\ SetJob(w, [job[w] EXCEPT !.todo = @ \ {i}])
               /\ UNCHANGED pc
  /\ UNCHANGED <<engineVars, active, index, bookVars, purge, hit>>

-----------------------------------------------------------------------------
(* update_quote: replace the quotes of one instrument *)

\* Mutants: an instrument that has quotes is left alone; its quotes leave
\* tracking without being cancelled on the book.
KeepQuoted(slots)   == IF slots = EmptySlots THEN "add" ELSE "record"
ForgetQuoted(slots) == IF slots = EmptySlots THEN "add" ELSE "prune_active"
AfterRead(slots)    == IF slots = EmptySlots THEN "add" ELSE "cancel_stale"

ReadStale(w) ==
  LET slots == index[job[w].inst]
  IN  /\ At(w, "read_stale")
      /\ SetJob(w, [job[w] EXCEPT !.stale = slots, !.leg = "bid",
                                   !.placed = EmptySlots])
      /\ Goto(w, AfterRead(slots))
      /\ UNCHANGED <<engineVars, active, index, bookVars, purge, hit>>

StaleOf(w) == {job[w].stale[l] : l \in Legs} \ {NoOrder}

\* The two legs are cancelled on the book this requote resolved: an order that
\* was placed on another generation of it is not found there.
CancelStale(w) ==
  /\ At(w, "cancel_stale")
  /\ book' = [o \in OrderIds |->
                IF o \in StaleOf(w) /\ info[o].gen = job[w].gen THEN {} ELSE book[o]]
  /\ Goto(w, "prune_active")
  /\ UNCHANGED <<engineVars, active, index, info, nextId, open, gen, locals>>

PruneActive(w) ==
  /\ At(w, "prune_active")
  /\ active' = [o \in OrderIds |-> IF o \in StaleOf(w) THEN 0 ELSE active[o]]
  /\ Goto(w, "prune_index")
  /\ UNCHANGED <<engineVars, index, bookVars, locals>>

PruneIndex(w) ==
  /\ At(w, "prune_index")
  /\ index' = [index EXCEPT ![job[w].inst] = EmptySlots]
  /\ Goto(w, "add")
  /\ UNCHANGED <<engineVars, active, bookVars, locals>>

\* After the bid comes the ask, after the ask the index entry.
AfterLeg(w) == IF job[w].leg = "bid" THEN "add" ELSE "record"

\* add_limit_order: the contracts that cross resting orders of users trade at
\* once, the rest of them rests.  The book may refuse the order.
AddLeg(w) ==
  /\ At(w, "add")
  /\ \/ /\ nextId \in OrderIds
        /\ \E n \in 0 .. Size : book' = [book EXCEPT ![nextId] = 1 .. n]
        /\ info' = [info EXCEPT ![nextId] =
                      [inst |-> job[w].inst, leg |-> job[w].leg,
                       spot |-> job[w].spot, gen |-> job[w].gen]]
        /\ nextId' = nextId + 1
        /\ SetJob(w, [job[w] EXCEPT !.fresh = nextId])
        /\ Goto(w, "track")
     \/ /\ SetJob(w, [job[w] EXCEPT !.leg = "ask"])
        /\ Goto(w, AfterLeg(w))
        /\ UNCHANGED <<book, info, nextId>>
  /\ UNCHANGED <<engineVars, active, index, open, gen, purge, hit>>

\* Mutant: the order is tracked with what rests of it at this moment.
QuantityAtRest(o)  == Cardinality(book[o])
TrackedQuantity(o) == Size

\* Only now, after the book accepted it, does the order enter active_orders.
TrackLeg(w) ==
  /\ At(w, "track")
  /\ active' = [active EXCEPT ![job[w].fresh] = TrackedQuantity(job[w].fresh)]
  /\ SetJob(w, [job[w] EXCEPT !.placed[job[w].leg] = job[w].fresh,
                               !.fresh = NoOrder, !.leg = "ask"])
  /\ Goto(w, AfterLeg(w))
  /\ UNCHANGED <<engineVars, index, bookVars, purge, hit>>

\* Mutant: the entry is written only when both legs were placed.
RecordedPair(w) ==
  IF \E l \in Legs : job[w].placed[l] = NoOrder THEN index
  ELSE [index EXCEPT ![job[w].inst] = job[w].placed]
Recorded(w) ==
  IF job[w].placed = EmptySlots THEN index
  ELSE [index EXCEPT ![job[w].inst] = job[w].placed]

\* The entry is written whole: what another thread recorded there is lost.
RecordLegs(w) ==
  /\ At(w, "record")
  /\ index' = Recorded(w)
  /\ SetJob(w, [job[w] EXCEPT !.stale = EmptySlots, !.placed = EmptySlots,
                               !.leg = "bid"])
  /\ Goto(w, "next_instrument")
  /\ UNCHANGED <<engineVars, active, bookVars, purge, hit>>

-----------------------------------------------------------------------------
(* set_enabled, set_symbol_enabled, cancel_all_orders, cancel_symbol_orders *)

SetEnabled(w, value) ==
  /\ Begin(w, "set_enabled")
  /\ enabled' = value
  /\ IF value
     THEN UNCHANGED <<pc, purge>>
     ELSE /\ SetPurge(w, [purge[w] EXCEPT !.all = TRUE])
          /\ Goto(w, "snapshot_orders")
  /\ UNCHANGED <<symbolEnabled, prices, active, index, bookVars, job, hit>>

SetSymbolEnabled(w, s, value) ==
  /\ Begin(w, "set_symbol_enabled")
  /\ symbolEnabled' = [symbolEnabled EXCEPT ![s] = value]
  /\ IF value
     THEN UNCHANGED <<pc, job>>
     ELSE /\ SetJob(w, [job[w] EXCEPT !.sym = s])
          /\ Goto(w, "snapshot_orders")
  /\ UNCHANGED <<enabled, prices, active, index, bookVars, purge, hit>>

\* Mutant: the walk over active_orders sees the bids only.
VictimBids(w) == {o \in OrderIds : active[o] > 0 /\ info[o].leg = "bid"}
VictimsOf(w) ==
  {o \in OrderIds : /\ active[o] > 0
                    /\ purge[w].all \/ SymbolOf[info[o].inst] = job[w].sym}

SnapshotOrders(w) ==
  /\ At(w, "snapshot_orders")
  /\ SetPurge(w, [purge[w] EXCEPT !.victims = VictimsOf(w)])
  /\ Goto(w, "next_victim")
  /\ UNCHANGED <<engineVars, active, index, bookVars, job, hit>>

\* cancel_order: an order that left active_orders meanwhile is passed over.
NextVictim(w) ==
  /\ At(w, "next_victim")
  /\ \/ /\ purge[w].victims = {}
        /\ IF purge[w].all
           THEN Goto(w, "clear_index") /\ UNCHANGED <<purge, job>>
           ELSE /\ Goto(w, "idle")
                /\ SetPurge(w, NoPurge)
                /\ SetJob(w, NoJob)
        /\ UNCHANGED active
     \/ \E o \in purge[w].victims :
          /\ active' = [active EXCEPT ![o] = 0]
          /\ IF active[o] > 0
             THEN /\ SetPurge(w, [purge[w] EXCEPT !.victims = @ \ {o}, !.order = o])
                  /\ Goto(w, "clear_slot")
             ELSE /\ SetPurge(w, [purge[w] EXCEPT !.victims = @ \ {o}])
                  /\ UNCHANGED pc
          /\ UNCHANGED job
  /\ UNCHANGED <<engineVars, index, bookVars, hit>>

ClearVictimSlot(w) ==
  /\ At(w, "clear_slot")
  /\ ClearSlot(purge[w].order)
  /\ Goto(w, "cancel_victim")
  /\ UNCHANGED <<engineVars, active, bookVars, locals>>

\* Mutant: the order is looked up by the slot that was cleared just before.
FoundBySlot(o) == Attached(o) /\ index[info[o].inst][info[o].leg] = o
Found(o) == Attached(o)

\* The book is looked up through the manager: only an attached order is found.
CancelVictim(w) ==
  LET o == purge[w].order
  IN  /\ At(w, "cancel_victim")
      /\ book' = IF Found(o) THEN [book EXCEPT ![o] = {}] ELSE book
      /\ SetPurge(w, [purge[w] EXCEPT !.order = NoOrder])
      /\ Goto(w, "next_victim")
      /\ UNCHANGED <<engineVars, active, index, info, nextId, open, gen, job, hit>>

ClearIndex(w) ==
  /\ At(w, "clear_index")
  /\ index' = [i \in Instruments |-> EmptySlots]
  /\ SetPurge(w, NoPurge)
  /\ Goto(w, "idle")
  /\ UNCHANGED <<engineVars, active, bookVars, job, hit>>

-----------------------------------------------------------------------------
(* A taker trades with a resting quote *)

\* The match consumes contracts of the quote.  add_order, submit_market_order
\* and the bulk path report the fill to the engine afterwards; the replacement
\* order of modify_order does not capture its fills.
Match(w) ==
  /\ Begin(w, "fill")
  /\ \E o \in OrderIds : \E lot \in (SUBSET book[o]) \ {{}} :
       /\ Rests(o)
       /\ book' = [book EXCEPT ![o] = @ \ lot]
       /\ \/ /\ SetHit(w, [order |-> o, lot |-> lot])
             /\ Goto(w, "report")
          \/ UNCHANGED <<hit, pc>>
  /\ UNCHANGED <<engineVars, active, index, info, nextId, open, gen, job, purge>>

Remaining(tracked, n) == IF n >= tracked THEN 0 ELSE tracked - n

\* on_order_filled: ignored for an order that is not tracked (yet, or any more);
\* a fill of everything tracked removes the order, a smaller one reduces it.
ReportFill(w) ==
  LET o == hit[w].order
      n == Cardinality(hit[w].lot)
  IN  /\ At(w, "report")
      /\ active' = [active EXCEPT ![o] = Remaining(@, n)]
      /\ IF active[o] > 0 /\ n >= active[o]
         THEN /\ SetHit(w, [hit[w] EXCEPT !.lot = {}])
              /\ Goto(w, "clear_filled_slot")
         ELSE /\ SetHit(w, NoHit)
              /\ Goto(w, "idle")
      /\ UNCHANGED <<engineVars, index, bookVars, job, purge>>

ClearFilledSlot(w) ==
  /\ At(w, "clear_filled_slot")
  /\ ClearSlot(hit[w].order)
  /\ SetHit(w, NoHit)
  /\ Goto(w, "idle")
  /\ UNCHANGED <<engineVars, active, bookVars, job, purge>>

-----------------------------------------------------------------------------
(* Option books come and go with their underlying *)

CreateBook(w, i) ==
  /\ Begin(w, "create_book")
  /\ i \notin open
  /\ open' = open \cup {i}
  /\ UNCHANGED <<engineVars, active, index, info, nextId, book, gen, pc, locals>>

\* delete_underlying removes the books; the engine is not told.
DeleteUnderlying(w, s) ==
  /\ Begin(w, "delete_underlying")
  /\ Of(s) \cap open # {}
  /\ \A i \in Of(s) : gen[i] < MaxGen
  /\ open' = open \ Of(s)
  /\ gen' = [i \in Instruments |-> IF i \in Of(s) THEN gen[i] + 1 ELSE gen[i]]
  /\ UNCHANGED <<engineVars, active, index, info, nextId, book, pc, locals>>

-----------------------------------------------------------------------------
\* A client, the feed or a taker calls an operation on an idle worker.
Call(w) ==
  \/ \E s \in Symbols, p \in Prices : UpdatePrice(w, s, p)
  \/ SetParameter(w)
  \/ \E v \in BOOLEAN : SetEnabled(w, v)
  \/ \E s \in Symbols, v \in BOOLEAN : SetSymbolEnabled(w, s, v)
  \/ Match(w)
  \/ \E i \in Instruments : CreateBook(w, i)
  \/ \E s \in Symbols : DeleteUnderlying(w, s)

\* A worker goes on with the operation it runs.
Continue(w) ==
  \/ GateEnabled(w) \/ GateSymbol(w)
  \/ NextSymbol(w) \/ StartRequote(w) \/ NextInstrument(w)
  \/ ReadStale(w) \/ CancelStale(w) \/ PruneActive(w) \/ PruneIndex(w)
  \/ AddLeg(w) \/ TrackLeg(w) \/ RecordLegs(w)
  \/ SnapshotOrders(w) \/ NextVictim(w) \/ ClearVictimSlot(w)
  \/ CancelVictim(w) \/ ClearIndex(w)
  \/ ReportFill(w) \/ ClearFilledSlot(w)

Next == \E w \in Workers : Call(w) \/ Continue(w)

Spec == Init /\ [][Next]_vars

\* An operation that began runs on: its code neither blocks nor awaits.
Fairness == \A w \in Workers : WF_vars(Continue(w))
FairSpec == Spec /\ Fairness
-----------------------------------------------------------------------------
(* Properties *)

\* The variables of the engine, of the option books and of the workers have
\* their types: ids are ids, a tracked quantity is at most a quote's size.
TypeOK ==
  /\ enabled \in BOOLEAN
  /\ symbolEnabled \in [Symbols -> BOOLEAN]
  /\ prices \in [Symbols -> Prices \cup {NoPrice}]
  /\ active \in [OrderIds -> 0 .. Size]
  /\ index \in [Instruments -> [Legs -> OrderIds \cup {NoOrder}]]
  /\ info \in [OrderIds -> OrderInfo \cup {NoInfo}]
  /\ nextId \in 1 .. MaxOrders + 1
  /\ book \in [OrderIds -> SUBSET Contracts]
  /\ open \subseteq Instruments
  /\ gen \in [Instruments -> 0 .. MaxGen]
  /\ pc \in [Workers -> Labels]
  /\ job \in [Workers -> JobType]
  /\ purge \in [Workers -> PurgeType]
  /\ hit \in [Workers -> HitType]

Quiet == \A w \in Workers : At(w, "idle")

\* A worker is about to track the order it has just placed.
BeingTracked(o) == \E w \in Workers : At(w, "track") /\ job[w].fresh = o

\* A worker took the order out of active_orders and is about to cancel it on
\* the book (cancel_order).
BeingCancelled(o) ==
  \E w \in Workers : pc[w] \in {"clear_slot", "cancel_victim"} /\ purge[w].order = o

\* No quote is ever out of the engine's reach: one that rests on a book is in
\* active_orders, which is what cancel_all_orders walks, or a worker is between
\* the two steps that place or cancel it (update_quote, cancel_order,
\* on_order_filled).
NoOrphanQuote ==
  \A o \in OrderIds : Rests(o) => active[o] > 0 \/ BeingTracked(o) \/ BeingCancelled(o)

\* The contracts of an order that are not accounted for in active_orders yet:
\* those that rest and those of matched fills still to be reported.
Outstanding(o) ==
  book[o] \cup UNION {hit[w].lot : w \in {v \in Workers : hit[v].order = o}}

\* The tracked quantity covers the outstanding contracts, so that a fill never
\* takes an order out of tracking while part of it still rests
\* (on_order_filled, whatever the order in which fills are reported).
TrackedCoversOutstanding ==
  \A o \in OrderIds : active[o] > 0 => active[o] >= Cardinality(Outstanding(o))

\* "Every tracked order's leg is recorded here" (instrument_orders), once no
\* operation is under way.
TrackedIsIndexed ==
  Quiet => \A o \in OrderIds : active[o] > 0 => index[info[o].inst][info[o].leg] = o

\* The kill switch: with quoting disabled and no operation under way, no quote
\* rests on any book (set_enabled, kill_switch).
KilledMeansQuiet == Quiet /\ ~enabled => \A o \in OrderIds : ~Rests(o)

\* The same of one underlying (set_symbol_enabled).
SymbolOffMeansQuiet ==
  Quiet => \A o \in OrderIds : Rests(o) => symbolEnabled[SymbolOf[info[o].inst]]

\* A quote at rest was computed from the latest price of its underlying, unless
\* that price gives its instrument no quote (update_price, update_quote).
QuotesFollowPrice ==
  Quiet => \A o \in OrderIds :
    LET i == info[o].inst
    IN  Rests(o) => \/ info[o].spot = prices[SymbolOf[i]]
                    \/ <<i, prices[SymbolOf[i]]>> \in NoQuote

\* Disabling quoting empties the books at some moment, unless quoting is enabled
\* again (set_enabled, cancel_all_orders).
KillTakesEffect == ~enabled ~> (enabled \/ \A o \in OrderIds : ~Rests(o))

\* Every order cancel_all_orders or cancel_symbol_orders found leaves the book,
\* even when another thread took it out of active_orders first.
VictimLeavesBook ==
  \A o \in OrderIds : (\E w \in Workers : o \in purge[w].victims) ~> ~Rests(o)
=============================================================================
