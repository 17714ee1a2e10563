---------------------------- MODULE OrderTracking ----------------------------
(***************************************************************************)
(* The life of a user's order in src/src/api/handlers.rs: the handlers     *)
(* that place, cancel, modify and bulk-submit orders, and the entry they   *)
(* keep for it in state.orders beside the option book it rests on.         *)
(*                                                                         *)
(* The book (an external crate) and state.orders (a concurrent map) are    *)
(* two stores that no lock covers together.  A handler never awaits        *)
(* between them, but handlers on different threads interleave: a step of   *)
(* this module is one call of the book or one access of the map.           *)
(*                                                                         *)
(* One option book.  Prices are abstracted: a placement crosses any        *)
(* choice of resting orders of the other side that price and time priority *)
(* could produce.                                                          *)
(***************************************************************************)
EXTENDS Integers, FiniteSets, FiniteSetsExt

CONSTANTS
  Workers,    \* threads of the runtime, each running one handler at a time
  MaxOrders,  \* bound: orders ever placed
  Size,       \* bound: quantity of an order
  MaxBatch,   \* bound: items of a bulk request
  Tifs,       \* times in force the clients use: "gtc", "ioc", "fok"
  Ops,        \* handlers the clients call
  NoEntry     \* no entry in state.orders

AllOps == {"add_order", "submit_market_order", "cancel_order", "modify_order",
           "bulk_submit", "bulk_submit_atomic", "bulk_cancel", "cancel_all",
           "cleanup"}

ASSUME BoundsAssumption == /\ MaxOrders \in Nat /\ Size \in Nat \ {0}
                           /\ MaxBatch \in Nat
ASSUME OpsAssumption    == Ops \subseteq AllOps /\ Tifs \subseteq {"gtc", "ioc", "fok"}

NoOrder    == 0
OrderIds   == 1 .. MaxOrders
Sides      == {"buy", "sell"}
Quantities == 1 .. Size
Open       == {"active", "partial"}
Terminal   == {"filled", "canceled"}

\* OrderInfo, as far as the book can contradict it.
Entry == [original : Quantities, remaining : 0 .. Size, filled : 0 .. Size,
          status : Open \cup Terminal]
ASSUME NoEntryAssumption == NoEntry \notin Entry

VARIABLES
  nextId,   \* the next unused order id
  side,     \* order -> its side
  asked,    \* order -> the quantity it was placed with
  book,     \* order -> quantity resting on the option book
  done,     \* order -> quantity executed by the book
  orders,   \* state.orders
  fate,     \* order -> what an atomic bulk response reports of it
  heirOf,   \* order -> the order it replaces with the price alone changed
  pc,       \* worker -> the step it takes next
  job       \* worker -> locals of the handler it runs

bookVars == <<nextId, side, asked, book, done>>
vars == <<bookVars, orders, fate, heirOf, pc, job>>

Job == [order : OrderIds \cup {NoOrder}, quantity : 0 .. Size, filled : 0 .. Size,
        success : BOOLEAN, kind : {"single", "plain", "atomic", "replace"}, items : 0 .. MaxBatch,
        accepted : SUBSET (OrderIds \X (0 .. Size)), victims : SUBSET OrderIds,
        found : SUBSET OrderIds, keep : BOOLEAN]
NoJob == [order |-> NoOrder, quantity |-> 0, filled |-> 0, success |-> FALSE,
          kind |-> "single", items |-> 0, accepted |-> {}, victims |-> {},
          found |-> {}, keep |-> FALSE]
Labels == {"idle", "track", "reconcile", "modify_cancel", "modify_untrack",
           "replace", "item", "rollback", "rollback_reconcile", "untrack",
           "walk", "walk_untrack"}
Fates  == {"none", "clean", "phantom", "live"}

Init ==
  /\ nextId = 1
  /\ side   = [o \in OrderIds |-> "buy"]
  /\ asked  = [o \in OrderIds |-> 0]
  /\ book   = [o \in OrderIds |-> 0]
  /\ done   = [o \in OrderIds |-> 0]
  /\ orders = [o \in OrderIds |-> NoEntry]
  /\ fate   = [o \in OrderIds |-> "none"]
  /\ heirOf = [o \in OrderIds |-> NoOrder]
  /\ pc     = [w \in Workers |-> "idle"]
  /\ job    = [w \in Workers |-> NoJob]

-----------------------------------------------------------------------------
At(w, label)   == pc[w] = label
Goto(w, label) == pc' = [pc EXCEPT ![w] = label]
SetJob(w, j)   == job' = [job EXCEPT ![w] = j]
Begin(w, op)   == At(w, "idle") /\ op \in Ops
Return(w)      == Goto(w, "idle") /\ SetJob(w, NoJob)
Tracked(o)     == orders[o] # NoEntry

\* Mutant: an entry with fills is kept.
UntrackUnfilled(o) ==
  orders' = [orders EXCEPT ![o] = IF @ # NoEntry /\ @.filled > 0 THEN @ ELSE NoEntry]
Untrack(o) == orders' = [orders EXCEPT ![o] = NoEntry]

\* The requests of a client that are bulk submissions.
Batched(j) == j.kind \in {"plain", "atomic"}

\* A client learns an id from the response, from state.orders or, before both,
\* from a published trade: one that took from the order, or one of a bulk item,
\* whose trades are published before it is tracked.
Known(o) ==
  /\ o < nextId
  /\ \A w \in Workers : At(w, "track") /\ job[w].order = o =>
       done[o] > job[w].filled \/ (Batched(job[w]) /\ job[w].filled > 0)

-----------------------------------------------------------------------------
(* The option book *)

Total(takes) == MapThenSumSet(LAMBDA o : takes[o], OrderIds)

\* What an order of this side and quantity may take from the resting orders:
\* one of them at most is taken in part, and none when the order is not used up.
Matches(s, q) ==
  {takes \in [OrderIds -> 0 .. Size] :
     /\ \A o \in OrderIds : takes[o] <= IF side[o] # s THEN book[o] ELSE 0
     /\ Total(takes) \in 0 .. q
     /\ LET inPart == {o \in OrderIds : takes[o] > 0 /\ takes[o] < book[o]}
        IN  Cardinality(inPart) <= (IF Total(takes) = q THEN 1 ELSE 0)}

\* The book matches a new order and lets rest of it what it is told to.
Place(s, q, takes, rest) ==
  /\ nextId \in OrderIds
  /\ nextId' = nextId + 1
  /\ side'  = [side EXCEPT ![nextId] = s]
  /\ asked' = [asked EXCEPT ![nextId] = q]
  /\ book'  = [o \in OrderIds |-> IF o = nextId THEN rest ELSE book[o] - takes[o]]
  /\ done'  = [o \in OrderIds |-> IF o = nextId THEN Total(takes) ELSE done[o] + takes[o]]

\* cancel_order of the book: true when the order was resting.
TakeOff(o) == /\ book' = [book EXCEPT ![o] = 0]
              /\ UNCHANGED <<nextId, side, asked, done>>

-----------------------------------------------------------------------------
(* add_order and submit_market_order *)

\* Mutant: any fill counts as a complete one.
StatusOfFill(q, filled) == IF filled > 0 THEN "filled" ELSE "active"
Status(q, filled) ==
  IF filled = q THEN "filled" ELSE IF filled > 0 THEN "partial" ELSE "active"

\* IOC rests nothing and FOK fills whole; an order of either kind that cannot be
\* filled is rejected and leaves no trace.
AddOrder(w, s, q, tif) ==
  /\ Begin(w, "add_order")
  /\ \E takes \in Matches(s, q) :
       LET filled == Total(takes)
       IN  /\ tif = "ioc" => filled > 0
           /\ tif = "fok" => filled = q
           /\ Place(s, q, takes, IF tif = "gtc" THEN q - filled ELSE 0)
           /\ SetJob(w, [NoJob EXCEPT !.order = nextId, !.quantity = q, !.filled = filled])
  /\ Goto(w, "track")
  /\ UNCHANGED <<orders, fate, heirOf>>

\* The entry is made from the match result, after the book call returned; the
\* replacement that modify_order places is tracked as untouched.
Track(w) ==
  LET j      == job[w]
      filled == IF j.kind = "replace" THEN 0 ELSE j.filled
  IN  /\ At(w, "track")
      /\ orders' = [orders EXCEPT ![j.order] =
                      [original |-> j.quantity, remaining |-> j.quantity - filled,
                       filled |-> filled, status |-> Status(j.quantity, filled)]]
      /\ IF Batched(j)
         THEN /\ Goto(w, "item")
              /\ SetJob(w, [j EXCEPT !.accepted = @ \cup {<<j.order, j.filled>>}])
         ELSE Return(w)
      /\ UNCHANGED <<bookVars, fate, heirOf>>

\* A market order is never tracked.
SubmitMarketOrder(w, s, q) ==
  /\ Begin(w, "submit_market_order")
  /\ \E takes \in Matches(s, q) :
       /\ Total(takes) > 0
       /\ book' = [o \in OrderIds |-> book[o] - takes[o]]
       /\ done' = [o \in OrderIds |-> done[o] + takes[o]]
  /\ UNCHANGED <<nextId, side, asked, orders, fate, heirOf, pc, job>>

-----------------------------------------------------------------------------
(* cancel_order *)

\* Mutant: the remainder of an order that was filled in part does not count.
CanceledUntouched(o) == book[o] > 0 /\ done[o] = 0
Canceled(o) == book[o] > 0

CancelOrder(w, o) ==
  /\ Begin(w, "cancel_order")
  /\ Known(o)
  /\ TakeOff(o)
  /\ SetJob(w, [NoJob EXCEPT !.order = o, !.success = Canceled(o)])
  /\ Goto(w, "reconcile")
  /\ UNCHANGED <<orders, fate, heirOf>>

FilledEntry(e) == [e EXCEPT !.filled = e.original, !.remaining = 0, !.status = "filled"]

\* A cancelled order leaves state.orders; one that did not rest is taken for
\* filled.
Reconcile(w) ==
  LET o == job[w].order
  IN  /\ At(w, "reconcile")
      /\ \/ job[w].success /\ Untrack(o)
         \/ ~job[w].success /\ Tracked(o)
              /\ orders' = [orders EXCEPT ![o] = FilledEntry(@)]
         \/ ~job[w].success /\ ~Tracked(o) /\ UNCHANGED orders
      /\ Return(w)
      /\ UNCHANGED <<bookVars, fate, heirOf>>

-----------------------------------------------------------------------------
(* modify_order: cancel and replace *)

\* Mutant: the quantity is taken from the original request.
QuantityAsked(o) == asked[o]
QuantityLeft(o)  == book[o]

\* The order is read first; without a new quantity the replacement has what
\* rests of the order at this moment.
ModifyOrder(w, o, q) ==
  /\ Begin(w, "modify_order")
  /\ Known(o)
  /\ book[o] > 0
  /\ SetJob(w, [NoJob EXCEPT !.order = o, !.keep = (q = 0),
                             !.quantity = IF q = 0 THEN QuantityLeft(o) ELSE q])
  /\ Goto(w, "modify_cancel")
  /\ UNCHANGED <<bookVars, orders, fate, heirOf>>

\* An order that left the book in between is not replaced.
ModifyCancel(w) ==
  LET o == job[w].order
  IN  /\ At(w, "modify_cancel")
      /\ TakeOff(o)
      /\ IF book[o] > 0
         THEN Goto(w, "modify_untrack") /\ UNCHANGED job
         ELSE Return(w)
      /\ UNCHANGED <<orders, fate, heirOf>>

ModifyUntrack(w) ==
  /\ At(w, "modify_untrack")
  /\ Untrack(job[w].order)
  /\ Goto(w, "replace")
  /\ UNCHANGED <<bookVars, fate, heirOf, job>>

\* When the book refuses the replacement the order is gone.
Replace(w) ==
  LET j == job[w]
  IN  /\ At(w, "replace")
      /\ \/ /\ \E takes \in Matches(side[j.order], j.quantity) :
                 /\ Place(side[j.order], j.quantity, takes, j.quantity - Total(takes))
                 /\ SetJob(w, [j EXCEPT !.order = nextId, !.kind = "replace",
                                         !.filled = Total(takes)])
            /\ heirOf' = IF j.keep THEN [heirOf EXCEPT ![nextId] = j.order] ELSE heirOf
            /\ Goto(w, "track")
         \/ Return(w) /\ UNCHANGED <<bookVars, heirOf>>
      /\ UNCHANGED <<orders, fate>>

-----------------------------------------------------------------------------
(* bulk_submit_orders *)

BulkSubmit(w, kind) ==
  /\ Begin(w, IF kind = "atomic" THEN "bulk_submit_atomic" ELSE "bulk_submit")
  /\ SetJob(w, [NoJob EXCEPT !.kind = kind])
  /\ Goto(w, "item")
  /\ UNCHANGED <<bookVars, orders, fate, heirOf>>

\* submit_single_order: a plain limit order, tracked after its fills were
\* published.
SubmitItem(w, s, q) ==
  /\ At(w, "item")
  /\ job[w].items < MaxBatch
  /\ \E takes \in Matches(s, q) :
       /\ Place(s, q, takes, q - Total(takes))
       /\ SetJob(w, [job[w] EXCEPT !.order = nextId, !.quantity = q,
                                   !.filled = Total(takes), !.items = @ + 1])
  /\ Goto(w, "track")
  /\ UNCHANGED <<orders, fate, heirOf>>

\* An item whose book cannot be made, or that the book refuses: an atomic batch
\* ends and is rolled back, any other goes on with the next item.
FailItem(w) ==
  /\ At(w, "item")
  /\ job[w].items < MaxBatch
  /\ \/ job[w].kind = "atomic" /\ Goto(w, "rollback") /\ UNCHANGED job
     \/ /\ job[w].kind = "plain"
        /\ SetJob(w, [job[w] EXCEPT !.items = @ + 1])
        /\ UNCHANGED pc
  /\ UNCHANGED <<bookVars, orders, fate, heirOf>>

FinishBatch(w) ==
  /\ At(w, "item")
  /\ job[w].items > 0
  /\ Return(w)
  /\ UNCHANGED <<bookVars, orders, fate, heirOf>>

\* Mutant: the remainder of an order that was filled in part stays.
RollsBackUnfilled(filled) == filled = 0
RollsBack(filled) == TRUE

\* rollback_atomic_bulk takes the accepted orders one by one off the book ...
RollbackCancel(w) ==
  /\ At(w, "rollback")
  /\ \/ job[w].accepted = {} /\ Return(w) /\ UNCHANGED bookVars
     \/ \E a \in job[w].accepted :
          /\ \A b \in job[w].accepted : a[1] <= b[1]
          /\ IF RollsBack(a[2]) THEN TakeOff(a[1]) ELSE UNCHANGED bookVars
          /\ SetJob(w, [job[w] EXCEPT !.order = a[1], !.filled = a[2],
                                      !.success = book[a[1]] > 0,
                                      !.accepted = @ \ {a}])
          /\ Goto(w, "rollback_reconcile")
  /\ UNCHANGED <<orders, fate, heirOf>>

\* ... and classifies each by the fill captured when it was submitted.
RollbackReconcile(w) ==
  LET j == job[w]
      o == j.order
  IN  /\ At(w, "rollback_reconcile")
      /\ IF j.filled > 0
         THEN /\ fate' = [fate EXCEPT ![o] = "live"]
              /\ orders' = IF Tracked(o)
                           THEN [orders EXCEPT ![o].filled = j.filled,
                                  ![o].remaining = 0,
                                  ![o].status = IF j.filled >= orders[o].original
                                                THEN "filled" ELSE "canceled"]
                           ELSE orders
         ELSE /\ fate' = [fate EXCEPT ![o] = IF j.success THEN "clean" ELSE "phantom"]
              /\ Untrack(o)
      /\ Goto(w, "rollback")
      /\ UNCHANGED <<bookVars, heirOf, job>>

-----------------------------------------------------------------------------
(* bulk_cancel_orders, cancel_all_orders and cleanup_old_orders *)

\* One id of a bulk cancellation.  The entry stays locked while the book is
\* called; an order that does not rest keeps its entry.
BulkCancelOne(w, o) ==
  /\ Begin(w, "bulk_cancel")
  /\ Tracked(o)
  /\ book[o] > 0
  /\ TakeOff(o)
  /\ SetJob(w, [NoJob EXCEPT !.order = o])
  /\ Goto(w, "untrack")
  /\ UNCHANGED <<orders, fate, heirOf>>

UntrackOne(w) ==
  /\ At(w, "untrack")
  /\ Untrack(job[w].order)
  /\ Return(w)
  /\ UNCHANGED <<bookVars, fate, heirOf>>

\* cancel_all_orders collects the entries whose status is Active.
CancelAll(w) ==
  LET found == {o \in OrderIds : Tracked(o) /\ orders[o].status = "active"}
  IN  /\ Begin(w, "cancel_all")
      /\ SetJob(w, [NoJob EXCEPT !.victims = found, !.found = found])
      /\ Goto(w, "walk")
      /\ UNCHANGED <<bookVars, orders, fate, heirOf>>

\* Mutant: an order that was filled in part meanwhile is passed over.
RestsWhole(o) == book[o] > 0 /\ book[o] = asked[o]
StillRests(o) == book[o] > 0

WalkCancel(w) ==
  /\ At(w, "walk")
  /\ \/ job[w].victims = {} /\ Return(w) /\ UNCHANGED bookVars
     \/ \E o \in job[w].victims :
          /\ SetJob(w, [job[w] EXCEPT !.victims = @ \ {o}, !.order = o])
          /\ IF StillRests(o)
             THEN TakeOff(o) /\ Goto(w, "walk_untrack")
             ELSE UNCHANGED <<bookVars, pc>>
  /\ UNCHANGED <<orders, fate, heirOf>>

WalkUntrack(w) ==
  /\ At(w, "walk_untrack")
  /\ Untrack(job[w].order)
  /\ Goto(w, "walk")
  /\ UNCHANGED <<bookVars, fate, heirOf, job>>

\* Entries that are filled or canceled are dropped once they are old enough.
CleanUp(w) ==
  /\ Begin(w, "cleanup")
  /\ \E old \in SUBSET {o \in OrderIds : Tracked(o) /\ orders[o].status \in Terminal} :
       orders' = [o \in OrderIds |-> IF o \in old THEN NoEntry ELSE orders[o]]
  /\ UNCHANGED <<bookVars, fate, heirOf, pc, job>>

-----------------------------------------------------------------------------
(* What clients are told *)

\* get_order_status: one entry or none.
GetOrderStatus(o) == {e \in {orders[o]} : e # NoEntry}

\* list_orders, of one side or both, with one status or all.
ListOrders(sides, statuses) ==
  {o \in OrderIds : Tracked(o) /\ side[o] \in sides /\ orders[o].status \in statuses}

-----------------------------------------------------------------------------
Call(w) ==
  \/ \E s \in Sides, q \in Quantities, tif \in Tifs : AddOrder(w, s, q, tif)
  \/ \E s \in Sides, q \in Quantities : SubmitMarketOrder(w, s, q)
  \/ \E o \in OrderIds : CancelOrder(w, o)
  \/ \E o \in OrderIds, q \in 0 .. Size : ModifyOrder(w, o, q)
  \/ \E kind \in {"plain", "atomic"} : BulkSubmit(w, kind)
  \/ \E o \in OrderIds : BulkCancelOne(w, o)
  \/ CancelAll(w) \/ CleanUp(w)

Continue(w) ==
  \/ Track(w) \/ Reconcile(w)
  \/ ModifyCancel(w) \/ ModifyUntrack(w) \/ Replace(w)
  \/ \E s \in Sides, q \in Quantities : SubmitItem(w, s, q)
  \/ FailItem(w) \/ FinishBatch(w) \/ RollbackCancel(w) \/ RollbackReconcile(w)
  \/ UntrackOne(w) \/ WalkCancel(w) \/ WalkUntrack(w)

Next == \E w \in Workers : Call(w) \/ Continue(w)

Spec == Init /\ [][Next]_vars

-----------------------------------------------------------------------------
(* Properties *)

\* The types of the book, of state.orders and of the handlers' locals.
TypeOK ==
  /\ nextId \in 1 .. MaxOrders + 1
  /\ side \in [OrderIds -> Sides]
  /\ asked \in [OrderIds -> 0 .. Size]
  /\ book \in [OrderIds -> 0 .. Size]
  /\ done \in [OrderIds -> 0 .. Size]
  /\ orders \in [OrderIds -> Entry \cup {NoEntry}]
  /\ fate \in [OrderIds -> Fates]
  /\ heirOf \in [OrderIds -> OrderIds \cup {NoOrder}]
  /\ pc \in [Workers -> Labels]
  /\ job \in [Workers -> Job]

Quiet == \A w \in Workers : At(w, "idle")

BeingTracked(o) == \E w \in Workers : At(w, "track") /\ job[w].order = o

\* Every user order that rests is listed as open in state.orders, where GET
\* /orders and the cancel handlers look for it, or is about to be (add_order,
\* modify_order, submit_single_order, rollback_atomic_bulk).
RestingIsListed ==
  \A o \in OrderIds : book[o] > 0 =>
    BeingTracked(o) \/ \E open \in Open : o \in ListOrders({side[o]}, {open})

\* What an entry reports as filled was executed by the book: an order is not
\* taken for filled because it was cancelled (cancel_order, handlers.rs).
FillsHappened ==
  Quiet => \A o \in OrderIds : \A e \in GetOrderStatus(o) : e.filled <= done[o]

\* An entry that is still open belongs to an order that rests or that was
\* executed whole: a cancelled order is not shown as open (cancel_order).
OpenIsAlive ==
  Quiet => \A o \in ListOrders(Sides, Open) : book[o] > 0 \/ done[o] = asked[o]

\* After an atomic batch was rolled back none of its orders is left resting, and
\* those reported as rejected are not tracked (rollback_atomic_bulk).
RollbackLeavesNothing ==
  \A o \in OrderIds : fate[o] # "none" =>
    book[o] = 0 /\ (fate[o] # "live" => ~Tracked(o))

\* When the walk of cancel_all_orders ends, none of the orders it found rests.
WalkTakesAllOff ==
  \A w \in Workers : At(w, "walk") =>
    \A o \in job[w].found \ job[w].victims : book[o] = 0

\* Changing the price alone does not raise what a client can trade: the
\* replacement has what its predecessor left (modify_order).
ModifyKeepsExposure ==
  \A o \in OrderIds : LET p == heirOf[o]
                      IN  p # NoOrder => done[p] + asked[o] <= asked[p]
=============================================================================
