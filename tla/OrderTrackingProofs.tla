------------------------- MODULE OrderTrackingProofs -------------------------
(***************************************************************************)
(* Theorems about OrderTracking: what holds of state.orders and the option *)
(* book for any number of threads, orders and quantities, and what holds   *)
(* while one request is served at a time.                                  *)
(*                                                                         *)
(* The stores are two and no lock covers both, so between a call of the    *)
(* book and the access of the map that follows it the two disagree.  The   *)
(* invariant says for every such place what the handler that is there knows*)
(* about its order: that it is off the book, or that no other handler and  *)
(* no batch has heard of it yet.                                           *)
(***************************************************************************)
EXTENDS OrderTracking, TLAPS

\* An order never executes more than was asked, and an id that is not used yet
\* has left no trace.
Balance ==
  \A o \in OrderIds :
    /\ book[o] + done[o] <= asked[o]
    /\ o >= nextId => book[o] = 0 /\ done[o] = 0 /\ asked[o] = 0

Fresh ==
  \A o \in OrderIds : o >= nextId =>
    orders[o] = NoEntry /\ fate[o] = "none" /\ heirOf[o] = NoOrder

Placed(o) == o \in OrderIds /\ o < nextId
Off(o)    == Placed(o) /\ book[o] = 0

\* What the handler of a worker knows about the orders it holds.
JobOK(w) ==
  /\ pc[w] \in {"track", "modify_cancel", "modify_untrack", "replace"} =>
       Placed(job[w].order) /\ job[w].quantity \in Quantities
  /\ pc[w] = "track" =>
       /\ job[w].filled <= job[w].quantity
       /\ job[w].filled = job[w].quantity => book[job[w].order] = 0
  /\ pc[w] \in {"reconcile", "modify_untrack", "replace", "rollback_reconcile",
                "untrack", "walk_untrack"} => Off(job[w].order)
  /\ \A a \in job[w].accepted : Placed(a[1])
  /\ job[w].victims \subseteq job[w].found
  /\ \A o \in job[w].found : Placed(o)
  /\ pc[w] \in {"walk", "walk_untrack"} =>
       \A o \in job[w].found \ job[w].victims : book[o] = 0

Jobs == \A w \in Workers : JobOK(w)

\* An order that is about to be tracked is nobody else's: not of a batch that
\* was accepted, not of a rollback.
Apart(w, v) ==
  pc[w] = "track" =>
    /\ fate[job[w].order] = "none"
    /\ v # w /\ pc[v] = "track" => job[v].order # job[w].order
    /\ pc[v] = "rollback_reconcile" => job[v].order # job[w].order
    /\ \A a \in job[v].accepted : a[1] # job[w].order

Alone == \A w, v \in Workers : Apart(w, v)

IInv == /\ TypeOK /\ Balance /\ Fresh /\ Jobs /\ Alone
        /\ RestingIsListed /\ RollbackLeavesNothing

-----------------------------------------------------------------------------
(* One step *)

Step(w) == Call(w) \/ Continue(w)

\* Every worker but w stays where it is.
Turn(w) ==
  /\ pc' = [pc EXCEPT ![w] = pc'[w]] /\ job' = [job EXCEPT ![w] = job'[w]]
  /\ \A v \in Workers \ {w} : pc'[v] = pc[v] /\ job'[v] = job[v]

\* The three ways a step changes the book.
MarketTakes ==
  \E s \in Sides, q \in Quantities : \E takes \in Matches(s, q) :
    /\ book' = [o \in OrderIds |-> book[o] - takes[o]]
    /\ done' = [o \in OrderIds |-> done[o] + takes[o]]
    /\ UNCHANGED <<nextId, side, asked>>

Places ==
  \E s \in Sides, q \in Quantities : \E takes \in Matches(s, q) :
    \E rest \in {0, q - Total(takes)} : Place(s, q, takes, rest)

TakesOff == \E o \in OrderIds : TakeOff(o)

\* What every step does to the orders that were there before it.
BookShrinks ==
  /\ nextId \in Nat /\ nextId' \in Nat /\ nextId' >= nextId
  /\ \A o \in OrderIds : o < nextId =>
       /\ book'[o] <= book[o] /\ done'[o] >= done[o]
       /\ book'[o] + done'[o] <= book[o] + done[o]
       /\ asked'[o] = asked[o] /\ side'[o] = side[o]

\* Matching moves quantity from resting to executed.
SumsKept ==
  \A o \in OrderIds : o < nextId => book'[o] + done'[o] = book[o] + done[o]

BookTyped ==
  /\ nextId \in 1 .. MaxOrders + 1
  /\ side \in [OrderIds -> Sides]
  /\ asked \in [OrderIds -> 0 .. Size]
  /\ book \in [OrderIds -> 0 .. Size]
  /\ done \in [OrderIds -> 0 .. Size]

LEMMA MatchBounds ==
  ASSUME BookTyped, NEW s \in Sides, NEW q \in 0 .. Size, NEW takes \in Matches(s, q)
  PROVE  /\ Total(takes) \in 0 .. q
         /\ \A o \in OrderIds : takes[o] \in 0 .. book[o]
BY BoundsAssumption DEF Matches, BookTyped

LEMMA PlaceEffect ==
  ASSUME BookTyped, Balance, NEW s \in Sides, NEW q \in 0 .. Size,
         NEW takes \in Matches(s, q), NEW rest \in {0, q - Total(takes)},
         Place(s, q, takes, rest)
  PROVE  /\ BookTyped' /\ Balance' /\ BookShrinks /\ SumsKept
         /\ nextId \in OrderIds /\ nextId' = nextId + 1
         /\ book'[nextId] = rest /\ done'[nextId] = Total(takes) /\ asked'[nextId] = q
         /\ side'[nextId] = s
<1>1. Total(takes) \in 0 .. q /\ rest \in 0 .. q /\ rest + Total(takes) <= q
  BY MatchBounds, BoundsAssumption
<1>2. \A o \in OrderIds : takes[o] \in 0 .. book[o]
  BY MatchBounds
<1>3. /\ nextId \in OrderIds /\ nextId' = nextId + 1
      /\ book'[nextId] = rest /\ done'[nextId] = Total(takes)
      /\ asked'[nextId] = q /\ side'[nextId] = s
      /\ \A o \in OrderIds : o # nextId =>
           /\ book'[o] = book[o] - takes[o] /\ done'[o] = done[o] + takes[o]
           /\ asked'[o] = asked[o] /\ side'[o] = side[o]
  BY DEF Place, BookTyped
<1>4. /\ book' = [o \in OrderIds |-> book'[o]] /\ done' = [o \in OrderIds |-> done'[o]]
      /\ asked' = [o \in OrderIds |-> asked'[o]] /\ side' = [o \in OrderIds |-> side'[o]]
  BY DEF Place, BookTyped
<1>5. \A o \in OrderIds : o # nextId =>
        /\ book'[o] \in 0 .. Size /\ done'[o] \in 0 .. Size /\ asked'[o] \in 0 .. Size
        /\ book'[o] + done'[o] = book[o] + done[o]
        /\ book'[o] <= book[o] /\ done'[o] >= done[o] /\ side'[o] \in Sides
  BY <1>2, <1>3, BoundsAssumption DEF BookTyped, Balance
<1>6. \A o \in OrderIds :
        book'[o] \in 0 .. Size /\ done'[o] \in 0 .. Size /\ asked'[o] \in 0 .. Size
        /\ side'[o] \in Sides
  <2> SUFFICES ASSUME NEW o \in OrderIds
               PROVE  book'[o] \in 0 .. Size /\ done'[o] \in 0 .. Size
                      /\ asked'[o] \in 0 .. Size /\ side'[o] \in Sides
    OBVIOUS
  <2>1. CASE o = nextId
    BY <2>1, <1>1, <1>3, BoundsAssumption
  <2>2. CASE o # nextId
    BY <2>2, <1>5
  <2> QED
    BY <2>1, <2>2
<1>typed. BookTyped'
  <2>1. nextId' \in 1 .. MaxOrders + 1
    BY <1>3, BoundsAssumption DEF OrderIds
  <2> QED
    BY <1>4, <1>6, <2>1 DEF BookTyped
<1>balance. Balance'
  <2> SUFFICES ASSUME NEW o \in OrderIds
               PROVE  /\ book'[o] + done'[o] <= asked'[o]
                      /\ o >= nextId' => book'[o] = 0 /\ done'[o] = 0 /\ asked'[o] = 0
    BY DEF Balance
  <2>1. CASE o = nextId
    BY <2>1, <1>1, <1>3, BoundsAssumption DEF OrderIds
  <2>2. CASE o # nextId
    <3>1. book'[o] + done'[o] <= asked'[o]
      BY <2>2, <1>3, <1>5, BoundsAssumption DEF Balance, BookTyped
    <3>2. ASSUME o >= nextId' PROVE book'[o] = 0 /\ done'[o] = 0 /\ asked'[o] = 0
      <4>1. o >= nextId
        BY <3>2, <1>3, BoundsAssumption DEF OrderIds
      <4>2. book[o] = 0 /\ done[o] = 0 /\ asked[o] = 0
        BY <4>1 DEF Balance
      <4>3. takes[o] = 0
        BY <4>2, <1>2
      <4> QED
        BY <2>2, <4>2, <4>3, <1>3
    <3> QED
      BY <3>1, <3>2
  <2> QED
    BY <2>1, <2>2
<1>shrinks. BookShrinks
  BY <1>3, <1>5, BoundsAssumption DEF BookTyped, BookShrinks, OrderIds
<1>sums. SumsKept
  BY <1>3, <1>5, BoundsAssumption DEF SumsKept, OrderIds
<1> QED
  BY <1>3, <1>typed, <1>balance, <1>shrinks, <1>sums

LEMMA MarketEffect ==
  ASSUME BookTyped, Balance, MarketTakes
  PROVE  BookTyped' /\ Balance' /\ BookShrinks /\ SumsKept /\ nextId' = nextId
<1> PICK s \in Sides, q \in Quantities : \E takes \in Matches(s, q) :
           /\ book' = [o \in OrderIds |-> book[o] - takes[o]]
           /\ done' = [o \in OrderIds |-> done[o] + takes[o]]
           /\ UNCHANGED <<nextId, side, asked>>
  BY DEF MarketTakes
<1> PICK takes \in Matches(s, q) :
           /\ book' = [o \in OrderIds |-> book[o] - takes[o]]
           /\ done' = [o \in OrderIds |-> done[o] + takes[o]]
           /\ UNCHANGED <<nextId, side, asked>>
  OBVIOUS
<1>1. \A o \in OrderIds : takes[o] \in 0 .. book[o]
  BY MatchBounds, BoundsAssumption DEF Quantities
<1>2. \A o \in OrderIds :
        /\ book'[o] \in 0 .. Size /\ done'[o] \in 0 .. Size
        /\ book'[o] + done'[o] = book[o] + done[o]
        /\ book'[o] <= book[o] /\ done'[o] >= done[o]
        /\ o >= nextId => book'[o] = 0 /\ done'[o] = 0
  BY <1>1, BoundsAssumption DEF BookTyped, Balance
<1> QED
  BY <1>2, BoundsAssumption DEF BookTyped, Balance, BookShrinks, SumsKept

LEMMA TakeOffEffect ==
  ASSUME BookTyped, Balance, NEW o \in OrderIds, TakeOff(o)
  PROVE  /\ BookTyped' /\ Balance' /\ BookShrinks /\ nextId' = nextId
         /\ book'[o] = 0
<1>1. /\ book' = [book EXCEPT ![o] = 0] /\ nextId' = nextId /\ side' = side
      /\ asked' = asked /\ done' = done
  BY DEF TakeOff
<1>2. \A p \in OrderIds : book'[p] \in 0 .. Size /\ book'[p] <= book[p]
  BY <1>1, BoundsAssumption DEF BookTyped
<1> QED
  BY <1>1, <1>2, BoundsAssumption DEF BookTyped, Balance, BookShrinks

\* The steps that leave the book alone.
Bookless(w) ==
  \/ Track(w) \/ Reconcile(w) \/ ModifyUntrack(w) \/ FailItem(w) \/ FinishBatch(w)
  \/ RollbackReconcile(w) \/ UntrackOne(w) \/ WalkUntrack(w) \/ CancelAll(w) \/ CleanUp(w)
  \/ \E o \in OrderIds, q \in 0 .. Size : ModifyOrder(w, o, q)
  \/ \E kind \in {"plain", "atomic"} : BulkSubmit(w, kind)

\* The steps that take an order off the book, or find that it is not there.
Cancels(w) ==
  \/ ModifyCancel(w) \/ RollbackCancel(w) \/ WalkCancel(w)
  \/ \E o \in OrderIds : CancelOrder(w, o) \/ BulkCancelOne(w, o)

\* The steps that place an order; a replacement may be refused.
Submits(w) ==
  \/ Replace(w)
  \/ \E s \in Sides, q \in Quantities : SubmitItem(w, s, q)
  \/ \E s \in Sides, q \in Quantities, tif \in Tifs : AddOrder(w, s, q, tif)

Markets(w) == \E s \in Sides, q \in Quantities : SubmitMarketOrder(w, s, q)

LEMMA StepKinds ==
  ASSUME NEW w \in Workers, Step(w)
  PROVE  Bookless(w) \/ Cancels(w) \/ Submits(w) \/ Markets(w)
BY DEF Step, Call, Continue, Bookless, Cancels, Submits, Markets

LEMMA Turns ==
  ASSUME NEW w \in Workers, IInv, Step(w)
  PROVE  Turn(w)
<1>0. pc \in [Workers -> Labels] /\ job \in [Workers -> Job]
  BY DEF IInv, TypeOK
<1>1. CASE Bookless(w)
  BY <1>0, <1>1 DEF Bookless, Turn, Track, Reconcile, ModifyUntrack, FailItem, FinishBatch,
       RollbackReconcile, UntrackOne, WalkUntrack, CancelAll, CleanUp, ModifyOrder, BulkSubmit,
       Goto, SetJob, Return
<1>2. CASE Cancels(w)
  BY <1>0, <1>2 DEF Cancels, Turn, ModifyCancel, RollbackCancel, WalkCancel, CancelOrder,
       BulkCancelOne, Goto, SetJob, Return
<1>3. CASE Submits(w)
  BY <1>0, <1>3 DEF Submits, Turn, Replace, SubmitItem, AddOrder, Goto, SetJob, Return
<1>4. CASE Markets(w)
  BY <1>0, <1>4 DEF Markets, Turn, SubmitMarketOrder
<1> QED
  BY <1>1, <1>2, <1>3, <1>4, StepKinds

LEMMA BookIdle ==
  ASSUME BookTyped, Balance, UNCHANGED bookVars
  PROVE  BookTyped' /\ Balance' /\ BookShrinks /\ SumsKept /\ nextId' = nextId
BY BoundsAssumption DEF BookTyped, Balance, BookShrinks, SumsKept, bookVars

\* A cancellation takes one order off the book, or none.
LEMMA CancelTakesOff ==
  ASSUME NEW w \in Workers, IInv, Cancels(w)
  PROVE  TakesOff \/ UNCHANGED bookVars
<1>1. ASSUME ModifyCancel(w) PROVE TakesOff
  BY <1>1 DEF ModifyCancel, At, TakesOff, IInv, Jobs, JobOK, Placed
<1>2. ASSUME RollbackCancel(w) PROVE TakesOff \/ UNCHANGED bookVars
  BY <1>2 DEF RollbackCancel, RollsBack, TakesOff, IInv, Jobs, JobOK, Placed
<1>3. ASSUME WalkCancel(w) PROVE TakesOff \/ UNCHANGED bookVars
  <2>1. job[w].victims \subseteq OrderIds
    BY DEF IInv, Jobs, JobOK, Placed
  <2> QED
    BY <1>3, <2>1 DEF WalkCancel, TakesOff
<1>4. ASSUME NEW o \in OrderIds, CancelOrder(w, o) \/ BulkCancelOne(w, o) PROVE TakesOff
  BY <1>4 DEF CancelOrder, BulkCancelOne, TakesOff
<1> QED
  BY <1>1, <1>2, <1>3, <1>4 DEF Cancels

\* What a step that places an order leaves behind: the order rests with what
\* was not executed, or not at all, and waits to be tracked.
Newborn(w, kind) ==
  /\ nextId \in OrderIds /\ nextId' = nextId + 1
  /\ pc' = [pc EXCEPT ![w] = "track"]
  /\ job'[w].order = nextId /\ job'[w].quantity \in Quantities
  /\ job'[w].filled \in 0 .. job'[w].quantity
  /\ job'[w].filled = done'[nextId]
  /\ book'[nextId] \in {0, job'[w].quantity - job'[w].filled}
  /\ asked'[nextId] = job'[w].quantity
  /\ "ioc" \notin Tifs => book'[nextId] + done'[nextId] = asked'[nextId]
  /\ job'[w].kind = kind
  /\ UNCHANGED <<orders, fate>>

LEMMA SubmitEffect ==
  ASSUME NEW w \in Workers, IInv, Submits(w)
  PROVE  /\ BookTyped' /\ Balance' /\ BookShrinks /\ SumsKept
         /\ \/ /\ pc[w] = "idle" /\ Newborn(w, "single")
               /\ job' = [job EXCEPT ![w] = job'[w]]
               /\ job'[w] \in Job
               /\ job'[w].accepted = {} /\ job'[w].victims = {} /\ job'[w].found = {}
               /\ heirOf' = heirOf
            \/ /\ pc[w] = "item" /\ Newborn(w, job[w].kind)
               /\ job' = [job EXCEPT ![w] = job'[w]]
               /\ job'[w] \in Job
               /\ job'[w].accepted = job[w].accepted
               /\ job'[w].victims = job[w].victims /\ job'[w].found = job[w].found
               /\ heirOf' = heirOf
            \/ /\ pc[w] = "replace" /\ Newborn(w, "replace")
               /\ job' = [job EXCEPT ![w] = job'[w]]
               /\ job'[w] \in Job
               /\ job'[w].accepted = job[w].accepted
               /\ job'[w].victims = job[w].victims /\ job'[w].found = job[w].found
               /\ job'[w].quantity = job[w].quantity
               /\ heirOf' = IF job[w].keep THEN [heirOf EXCEPT ![nextId] = job[w].order]
                            ELSE heirOf
            \/ /\ pc[w] = "replace" /\ Return(w)
               /\ UNCHANGED <<bookVars, orders, fate, heirOf>>
<1>0. /\ BookTyped /\ Balance
      /\ pc \in [Workers -> Labels] /\ job \in [Workers -> Job] /\ job[w] \in Job
      /\ NoJob \in Job
  BY BoundsAssumption DEF IInv, TypeOK, BookTyped, Job, NoJob
<1>add. ASSUME NEW s \in Sides, NEW q \in Quantities, NEW tif \in Tifs, AddOrder(w, s, q, tif)
        PROVE  /\ BookTyped' /\ Balance' /\ BookShrinks /\ SumsKept
               /\ pc[w] = "idle" /\ Newborn(w, "single")
               /\ job' = [job EXCEPT ![w] = job'[w]]
               /\ job'[w] \in Job
               /\ job'[w].accepted = {} /\ job'[w].victims = {} /\ job'[w].found = {}
               /\ heirOf' = heirOf
  <2>0. q \in 0 .. Size
    BY BoundsAssumption DEF Quantities
  <2>1. PICK takes \in Matches(s, q) :
          /\ Place(s, q, takes, IF tif = "gtc" THEN q - Total(takes) ELSE 0)
          /\ tif = "fok" => Total(takes) = q
          /\ SetJob(w, [NoJob EXCEPT !.order = nextId, !.quantity = q, !.filled = Total(takes)])
    BY <1>add DEF AddOrder
  <2>2. PICK rest \in {0, q - Total(takes)} :
          Place(s, q, takes, rest) /\ rest = IF tif = "gtc" THEN q - Total(takes) ELSE 0
    BY <2>1
  <2>3. /\ BookTyped' /\ Balance' /\ BookShrinks /\ SumsKept
        /\ nextId \in OrderIds /\ nextId' = nextId + 1
        /\ book'[nextId] = rest /\ done'[nextId] = Total(takes) /\ asked'[nextId] = q
    BY <1>0, <2>0, <2>2, PlaceEffect
  <2>4. Total(takes) \in 0 .. q /\ Total(takes) \in 0 .. Size
    BY <1>0, <2>0, MatchBounds, BoundsAssumption
  <2>5. /\ job' = [job EXCEPT ![w] = job'[w]]
        /\ job'[w] = [NoJob EXCEPT !.order = nextId, !.quantity = q, !.filled = Total(takes)]
    BY <1>0, <2>1 DEF SetJob
  <2>6. /\ job'[w].order = nextId /\ job'[w].quantity = q /\ job'[w].filled = Total(takes)
        /\ job'[w].kind = "single"
        /\ job'[w].accepted = {} /\ job'[w].victims = {} /\ job'[w].found = {}
    BY <2>5 DEF NoJob
  <2>7. job'[w] \in Job
    BY <1>0, <2>0, <2>3, <2>4, <2>5 DEF Job
  <2>8. /\ pc[w] = "idle" /\ pc' = [pc EXCEPT ![w] = "track"]
        /\ UNCHANGED <<orders, fate, heirOf>>
    BY <1>add DEF AddOrder, Begin, At, Goto
  <2>9. "ioc" \notin Tifs => rest + Total(takes) = q
    <3>1. "ioc" \notin Tifs => tif \in {"gtc", "fok"}
      BY OpsAssumption
    <3> QED
      BY <2>1, <2>2, <2>4, <3>1, BoundsAssumption DEF Quantities
  <2>10. Newborn(w, "single")
    BY <2>2, <2>3, <2>4, <2>6, <2>8, <2>9 DEF Newborn
  <2> QED
    BY <2>3, <2>5, <2>6, <2>7, <2>8, <2>10
<1>item. ASSUME NEW s \in Sides, NEW q \in Quantities, SubmitItem(w, s, q)
         PROVE  /\ BookTyped' /\ Balance' /\ BookShrinks /\ SumsKept
                /\ pc[w] = "item" /\ Newborn(w, job[w].kind)
                /\ job' = [job EXCEPT ![w] = job'[w]]
                /\ job'[w] \in Job
                /\ job'[w].accepted = job[w].accepted
                /\ job'[w].victims = job[w].victims /\ job'[w].found = job[w].found
                /\ heirOf' = heirOf
  <2>0. q \in 0 .. Size
    BY BoundsAssumption DEF Quantities
  <2>1. PICK takes \in Matches(s, q) :
          /\ Place(s, q, takes, q - Total(takes))
          /\ SetJob(w, [job[w] EXCEPT !.order = nextId, !.quantity = q,
                                      !.filled = Total(takes), !.items = @ + 1])
    BY <1>item DEF SubmitItem
  <2>2. PICK rest \in {0, q - Total(takes)} :
          Place(s, q, takes, rest) /\ rest = q - Total(takes)
    BY <2>1
  <2>3. /\ BookTyped' /\ Balance' /\ BookShrinks /\ SumsKept
        /\ nextId \in OrderIds /\ nextId' = nextId + 1
        /\ book'[nextId] = rest /\ done'[nextId] = Total(takes) /\ asked'[nextId] = q
    BY <1>0, <2>0, <2>2, PlaceEffect
  <2>4. Total(takes) \in 0 .. q /\ Total(takes) \in 0 .. Size
    BY <1>0, <2>0, MatchBounds, BoundsAssumption
  <2>5. /\ job' = [job EXCEPT ![w] = job'[w]]
        /\ job'[w] = [job[w] EXCEPT !.order = nextId, !.quantity = q,
                                    !.filled = Total(takes), !.items = @ + 1]
    BY <1>0, <2>1 DEF SetJob
  <2>6. /\ job'[w].order = nextId /\ job'[w].quantity = q /\ job'[w].filled = Total(takes)
        /\ job'[w].kind = job[w].kind /\ job'[w].accepted = job[w].accepted
        /\ job'[w].victims = job[w].victims /\ job'[w].found = job[w].found
    BY <1>0, <2>5 DEF Job
  <2>7. job'[w] \in Job
    <3>1. job[w].items + 1 \in 0 .. MaxBatch
      BY <1>0, <1>item, BoundsAssumption DEF Job, SubmitItem
    <3> QED
      BY <1>0, <2>0, <2>3, <2>4, <2>5, <3>1 DEF Job
  <2>8. /\ pc[w] = "item" /\ pc' = [pc EXCEPT ![w] = "track"]
        /\ UNCHANGED <<orders, fate, heirOf>>
    BY <1>item DEF SubmitItem, At, Goto
  <2>sum. rest + Total(takes) = q
    BY <2>2, <2>4, BoundsAssumption DEF Quantities
  <2>9. Newborn(w, job[w].kind)
    BY <2>sum, <2>2, <2>3, <2>4, <2>6, <2>8 DEF Newborn
  <2> QED
    BY <2>3, <2>5, <2>6, <2>7, <2>8, <2>9
<1>refused. ASSUME Replace(w), Return(w), UNCHANGED <<bookVars, heirOf>>
            PROVE  /\ BookTyped' /\ Balance' /\ BookShrinks /\ SumsKept
                   /\ pc[w] = "replace" /\ Return(w)
                   /\ UNCHANGED <<bookVars, orders, fate, heirOf>>
  BY <1>0, <1>refused, BookIdle DEF Replace, At
<1>replace. ASSUME Replace(w), ~ (Return(w) /\ UNCHANGED <<bookVars, heirOf>>)
            PROVE  /\ BookTyped' /\ Balance' /\ BookShrinks /\ SumsKept
                   /\ pc[w] = "replace" /\ Newborn(w, "replace")
                   /\ job' = [job EXCEPT ![w] = job'[w]]
                   /\ job'[w] \in Job
                   /\ job'[w].accepted = job[w].accepted
                   /\ job'[w].victims = job[w].victims /\ job'[w].found = job[w].found
                   /\ job'[w].quantity = job[w].quantity
                   /\ heirOf' = IF job[w].keep THEN [heirOf EXCEPT ![nextId] = job[w].order]
                                ELSE heirOf
  <2> DEFINE s == side[job[w].order]
             q == job[w].quantity
  <2>0. s \in Sides /\ q \in Quantities /\ q \in 0 .. Size
    <3>1. pc[w] = "replace"
      BY <1>replace DEF Replace, At
    <3>2. job[w].order \in OrderIds /\ q \in Quantities
      BY <3>1 DEF IInv, Jobs, JobOK, Placed
    <3> QED
      BY <1>0, <3>2, BoundsAssumption DEF BookTyped, Quantities
  <2>1. PICK takes \in Matches(s, q) :
          /\ Place(s, q, takes, q - Total(takes))
          /\ SetJob(w, [job[w] EXCEPT !.order = nextId, !.kind = "replace",
                                      !.filled = Total(takes)])
    BY <1>replace DEF Replace
  <2> HIDE DEF s, q
  <2>2. PICK rest \in {0, q - Total(takes)} :
          Place(s, q, takes, rest) /\ rest = q - Total(takes)
    BY <2>1
  <2>3. /\ BookTyped' /\ Balance' /\ BookShrinks /\ SumsKept
        /\ nextId \in OrderIds /\ nextId' = nextId + 1
        /\ book'[nextId] = rest /\ done'[nextId] = Total(takes) /\ asked'[nextId] = q
    BY <1>0, <2>0, <2>2, PlaceEffect
  <2>4. Total(takes) \in 0 .. q /\ Total(takes) \in 0 .. Size
    BY <1>0, <2>0, MatchBounds, BoundsAssumption
  <2>5. /\ job' = [job EXCEPT ![w] = job'[w]]
        /\ job'[w] = [job[w] EXCEPT !.order = nextId, !.kind = "replace",
                                    !.filled = Total(takes)]
    BY <1>0, <2>1 DEF SetJob
  <2>6. /\ job'[w].order = nextId /\ job'[w].quantity = q /\ job'[w].filled = Total(takes)
        /\ job'[w].kind = "replace" /\ job'[w].accepted = job[w].accepted
        /\ job'[w].victims = job[w].victims /\ job'[w].found = job[w].found
    BY <1>0, <2>5 DEF Job, q
  <2>7. job'[w] \in Job
    BY <1>0, <2>0, <2>3, <2>4, <2>5 DEF Job
  <2>8. /\ pc[w] = "replace" /\ pc' = [pc EXCEPT ![w] = "track"]
        /\ UNCHANGED <<orders, fate>>
        /\ heirOf' = IF job[w].keep THEN [heirOf EXCEPT ![nextId] = job[w].order] ELSE heirOf
    BY <1>replace DEF Replace, At, Goto
  <2>sum. rest + Total(takes) = q
    BY <2>0, <2>2, <2>4, BoundsAssumption DEF Quantities
  <2>9. Newborn(w, "replace")
    BY <2>sum, <2>0, <2>2, <2>3, <2>4, <2>6, <2>8 DEF Newborn
  <2> QED
    BY <2>3, <2>5, <2>6, <2>7, <2>8, <2>9 DEF q
<1> QED
  BY <1>add, <1>item, <1>replace, <1>refused DEF Submits

LEMMA BookEffect ==
  ASSUME NEW w \in Workers, IInv, Step(w)
  PROVE  BookTyped' /\ Balance' /\ BookShrinks
<1>0. BookTyped /\ Balance
  BY DEF IInv, TypeOK, BookTyped
<1>1. CASE Bookless(w)
  <2>1. UNCHANGED bookVars
    BY <1>1 DEF Bookless, Track, Reconcile, ModifyUntrack, FailItem, FinishBatch,
       RollbackReconcile, UntrackOne, WalkUntrack, CancelAll, CleanUp, ModifyOrder, BulkSubmit
  <2> QED
    BY <1>0, <2>1, BookIdle
<1>2. CASE Cancels(w)
  BY <1>0, <1>2, CancelTakesOff, BookIdle, TakeOffEffect DEF TakesOff
<1>3. CASE Submits(w)
  BY <1>3, SubmitEffect
<1>4. CASE Markets(w)
  <2>1. MarketTakes
    BY <1>4 DEF Markets, SubmitMarketOrder, MarketTakes
  <2> QED
    BY <1>0, <2>1, MarketEffect
<1> QED
  BY <1>1, <1>2, <1>3, <1>4, StepKinds

-----------------------------------------------------------------------------
(* What handlers know of their orders *)

LEMMA OffStays ==
  ASSUME BookTyped, BookTyped', BookShrinks, NEW o, Off(o)
  PROVE  Off(o)'
<1>1. o \in OrderIds /\ o < nextId /\ book[o] = 0 /\ book'[o] <= book[o] /\ o < nextId'
  BY BoundsAssumption DEF BookShrinks, Off, Placed, OrderIds
<1>2. book'[o] \in 0 .. Size
  BY <1>1 DEF BookTyped
<1> QED
  BY <1>1, <1>2, BoundsAssumption DEF Off, Placed

LEMMA PlacedStays ==
  ASSUME BookShrinks, NEW o, Placed(o)
  PROVE  Placed(o)'
BY BoundsAssumption DEF BookShrinks, Placed, OrderIds

LEMMA JobStays ==
  ASSUME IInv, BookTyped', BookShrinks, NEW v \in Workers, pc'[v] = pc[v], job'[v] = job[v]
  PROVE  JobOK(v)'
<1>0. BookTyped /\ JobOK(v)
  BY DEF IInv, TypeOK, BookTyped, Jobs
<1>1. \A o : Placed(o) => Placed(o)'
  BY PlacedStays
<1>2. \A o : Off(o) => Off(o)'
  BY <1>0, OffStays
<1>3. ASSUME pc[v] = "track", job[v].filled = job[v].quantity PROVE book'[job[v].order] = 0
  <2>1. Off(job[v].order)
    BY <1>0, <1>3 DEF JobOK, Off
  <2> QED
    BY <1>2, <2>1 DEF Off
<1>4. ASSUME pc[v] \in {"walk", "walk_untrack"}, NEW o \in job[v].found \ job[v].victims
      PROVE  book'[o] = 0
  <2>1. Off(o)
    BY <1>0, <1>4 DEF JobOK, Off
  <2> QED
    BY <1>2, <2>1 DEF Off
<1> QED
  BY <1>0, <1>1, <1>2, <1>3, <1>4 DEF JobOK

\* How a worker comes to an order that it is to track, and a batch to an order
\* that it may roll back.
Heard(w) ==
  /\ pc'[w] = "track" =>
       \/ pc[w] = "track" /\ job'[w] = job[w]
       \/ job'[w].order = nextId /\ nextId' = nextId + 1
  /\ \A a \in job'[w].accepted :
       \/ a \in job[w].accepted
       \/ pc[w] = "track" /\ pc'[w] # "track" /\ a[1] = job[w].order
  /\ pc'[w] = "rollback_reconcile" =>
       \/ pc[w] = "rollback_reconcile" /\ job'[w] = job[w]
       \/ \E a \in job[w].accepted : a[1] = job'[w].order

Holds(w) == pc'[w] \in Labels /\ job'[w] \in Job /\ JobOK(w)' /\ Heard(w)

LEMMA IdleHolds ==
  ASSUME NEW w \in Workers, pc'[w] = "idle", job'[w] = NoJob
  PROVE  Holds(w)
BY BoundsAssumption DEF Holds, Labels, Job, NoJob, JobOK, Heard, NoOrder

LEMMA StayHolds ==
  ASSUME IInv, BookTyped', BookShrinks, NEW w \in Workers, pc'[w] = pc[w], job'[w] = job[w]
  PROVE  Holds(w)
BY JobStays DEF Holds, Heard, IInv, TypeOK

\* The worker keeps its locals and goes on to a step at which it knows no more.
LEMMA GoesOnHolds ==
  ASSUME IInv, BookTyped', BookShrinks, NEW w \in Workers, job'[w] = job[w],
         pc'[w] \in {"item", "rollback"}
  PROVE  Holds(w)
<1>1. JobOK(w) /\ \A o : Placed(o) => Placed(o)'
  BY PlacedStays DEF IInv, Jobs
<1> QED
  BY <1>1 DEF Holds, Heard, JobOK, Labels, IInv, TypeOK

LEMMA BooklessHolds ==
  ASSUME IInv, NEW w \in Workers, Bookless(w), BookTyped', BookShrinks
  PROVE  Holds(w)
<1>0. /\ pc \in [Workers -> Labels] /\ job \in [Workers -> Job] /\ job[w] \in Job
      /\ JobOK(w) /\ BookTyped /\ NoJob \in Job
  BY BoundsAssumption DEF IInv, TypeOK, Jobs, BookTyped, NoJob, Job
<1>bookless. UNCHANGED bookVars
  BY DEF Bookless, Track, Reconcile, ModifyUntrack, FailItem, FinishBatch,
       RollbackReconcile, UntrackOne, WalkUntrack, CancelAll, CleanUp, ModifyOrder, BulkSubmit
<1>same. book' = book /\ nextId' = nextId
  BY <1>bookless DEF bookVars
<1>tracked. \A o \in OrderIds : Tracked(o) => Placed(o)
  BY <1>0 DEF IInv, Fresh, Tracked, Placed, BookTyped, OrderIds
<1>returns. ASSUME Return(w) PROVE Holds(w)
  BY <1>0, <1>returns, IdleHolds DEF Return, Goto, SetJob
<1>track. ASSUME Track(w) PROVE Holds(w)
  <2>1. pc[w] = "track" /\ Placed(job[w].order) /\ job[w].order \in OrderIds
    BY <1>0, <1>track DEF Track, At, JobOK, Placed
  <2>2. CASE Batched(job[w])
    <3>1. /\ pc'[w] = "item"
          /\ job'[w] = [job[w] EXCEPT !.accepted = @ \cup {<<job[w].order, job[w].filled>>}]
      BY <1>0, <1>track, <2>2 DEF Track, Goto, SetJob
    <3>2. /\ job'[w].accepted = job[w].accepted \cup {<<job[w].order, job[w].filled>>}
          /\ job'[w].victims = job[w].victims /\ job'[w].found = job[w].found
          /\ job'[w] \in Job
      BY <1>0, <2>1, <3>1 DEF Job
    <3>3. JobOK(w)'
      BY <1>0, <1>same, <2>1, <3>1, <3>2 DEF JobOK, Placed
    <3>4. Heard(w)
      BY <2>1, <3>1, <3>2 DEF Heard
    <3> QED
      BY <3>1, <3>2, <3>3, <3>4 DEF Holds, Labels
  <2> QED
    BY <1>returns, <1>track, <2>2 DEF Track
<1>ends. ASSUME Reconcile(w) \/ FinishBatch(w) \/ UntrackOne(w) PROVE Holds(w)
  BY <1>returns, <1>ends DEF Reconcile, FinishBatch, UntrackOne
<1>stays. ASSUME CleanUp(w) PROVE Holds(w)
  BY <1>stays, StayHolds DEF CleanUp
<1>rolled. ASSUME RollbackReconcile(w) PROVE Holds(w)
  BY <1>0, <1>rolled, GoesOnHolds DEF RollbackReconcile, Goto
<1>untracked. ASSUME ModifyUntrack(w) PROVE Holds(w)
  <2>1. pc[w] = "modify_untrack" /\ pc'[w] = "replace" /\ job'[w] = job[w]
    BY <1>0, <1>untracked DEF ModifyUntrack, At, Goto
  <2> QED
    BY <1>0, <1>same, <2>1 DEF Holds, Labels, Heard, JobOK, Placed, Off
<1>walks. ASSUME WalkUntrack(w) PROVE Holds(w)
  <2>1. pc[w] = "walk_untrack" /\ pc'[w] = "walk" /\ job'[w] = job[w]
    BY <1>0, <1>walks DEF WalkUntrack, At, Goto
  <2> QED
    BY <1>0, <1>same, <2>1 DEF Holds, Labels, Heard, JobOK, Placed, Off
<1>fails. ASSUME FailItem(w) PROVE Holds(w)
  <2>1. CASE pc'[w] = "rollback" /\ job'[w] = job[w]
    BY <2>1, GoesOnHolds
  <2>2. CASE pc'[w] = "item" /\ job'[w] = [job[w] EXCEPT !.items = @ + 1]
    <3>1. job[w].items + 1 \in 0 .. MaxBatch
      BY <1>0, <1>fails, BoundsAssumption DEF FailItem, Job
    <3>2. /\ job'[w].accepted = job[w].accepted
          /\ job'[w].victims = job[w].victims /\ job'[w].found = job[w].found
          /\ job'[w] \in Job
      BY <1>0, <2>2, <3>1 DEF Job
    <3> QED
      BY <1>0, <1>same, <2>2, <3>2 DEF Holds, Labels, Heard, JobOK, Placed
  <2> QED
    BY <1>0, <1>fails, <2>1, <2>2 DEF FailItem, Goto, SetJob, At
<1>modify. ASSUME NEW o \in OrderIds, NEW q \in 0 .. Size, ModifyOrder(w, o, q) PROVE Holds(w)
  <2>1. /\ o < nextId /\ book[o] > 0 /\ pc'[w] = "modify_cancel"
        /\ job'[w] = [NoJob EXCEPT !.order = o, !.keep = (q = 0),
                                   !.quantity = IF q = 0 THEN book[o] ELSE q]
    BY <1>0, <1>modify DEF ModifyOrder, Known, Goto, SetJob, QuantityLeft
  <2>2. (IF q = 0 THEN book[o] ELSE q) \in 1 .. Size
    BY <1>0, <2>1, BoundsAssumption DEF BookTyped
  <2>3. /\ job'[w].order = o /\ job'[w].quantity \in Quantities
        /\ job'[w].accepted = {} /\ job'[w].victims = {} /\ job'[w].found = {}
    BY <2>1, <2>2 DEF NoJob, Quantities
  <2>4. NoJob \in Job /\ (IF q = 0 THEN book[o] ELSE q) \in 0 .. Size
    BY <2>2, BoundsAssumption DEF NoJob, Job
  <2>5. job'[w] \in Job
    BY <2>1, <2>4 DEF Job
  <2> QED
    BY <1>same, <2>1, <2>3, <2>5 DEF Holds, Labels, Heard, JobOK, Placed
<1>bulk. ASSUME NEW kind \in {"plain", "atomic"}, BulkSubmit(w, kind) PROVE Holds(w)
  <2>1. pc'[w] = "item" /\ job'[w] = [NoJob EXCEPT !.kind = kind]
    BY <1>0, <1>bulk DEF BulkSubmit, Goto, SetJob
  <2>2. job'[w].accepted = {} /\ job'[w].victims = {} /\ job'[w].found = {}
    BY <2>1 DEF NoJob
  <2>3. job'[w] \in Job
    BY <1>0, <2>1 DEF Job
  <2> QED
    BY <2>1, <2>2, <2>3 DEF Holds, Labels, Heard, JobOK
<1>all. ASSUME CancelAll(w) PROVE Holds(w)
  <2> DEFINE found == {o \in OrderIds : Tracked(o) /\ orders[o].status = "active"}
  <2>1. pc'[w] = "walk" /\ job'[w] = [NoJob EXCEPT !.victims = found, !.found = found]
    BY <1>0, <1>all DEF CancelAll, Goto, SetJob
  <2>2. \A o \in found : Placed(o)
    BY <1>tracked
  <2>3. found \subseteq OrderIds
    OBVIOUS
  <2> HIDE DEF found
  <2>4. /\ job'[w].accepted = {} /\ job'[w].victims = found /\ job'[w].found = found
    BY <2>1 DEF NoJob
  <2>5. job'[w] \in Job
    BY <1>0, <2>1, <2>3 DEF Job
  <2> QED
    BY <1>same, <2>1, <2>2, <2>4, <2>5 DEF Holds, Labels, Heard, JobOK, Placed
<1> QED
  BY <1>track, <1>ends, <1>stays, <1>rolled, <1>untracked, <1>walks, <1>fails, <1>modify,
     <1>bulk, <1>all DEF Bookless

LEMMA CancelsHolds ==
  ASSUME IInv, NEW w \in Workers, Cancels(w), BookTyped', BookShrinks
  PROVE  Holds(w)
<1>0. /\ pc \in [Workers -> Labels] /\ job \in [Workers -> Job] /\ job[w] \in Job
      /\ JobOK(w) /\ BookTyped /\ Balance /\ NoJob \in Job
  BY BoundsAssumption DEF IInv, TypeOK, Jobs, BookTyped, NoJob, Job
<1>placed. \A o : Placed(o) => Placed(o)'
  BY PlacedStays
<1>off. \A o : Off(o) => Off(o)'
  BY <1>0, OffStays
<1>takes. ASSUME NEW o, Placed(o), TakeOff(o) PROVE Off(o)'
  BY <1>0, <1>placed, <1>takes DEF TakeOff, Off, Placed, BookTyped
<1>returns. ASSUME Return(w) PROVE Holds(w)
  BY <1>0, <1>returns, IdleHolds DEF Return, Goto, SetJob
<1>tracked. \A o \in OrderIds : Tracked(o) => Placed(o)
  BY <1>0 DEF IInv, Fresh, Tracked, Placed, BookTyped, OrderIds
<1>cancel. ASSUME NEW o \in OrderIds, CancelOrder(w, o) PROVE Holds(w)
  <2>1. /\ Placed(o) /\ TakeOff(o) /\ pc'[w] = "reconcile"
        /\ job'[w] = [NoJob EXCEPT !.order = o, !.success = Canceled(o)]
    BY <1>0, <1>cancel DEF CancelOrder, Known, Placed, Goto, SetJob
  <2>2. Off(o)' /\ Canceled(o) \in BOOLEAN
    BY <1>takes, <2>1 DEF Canceled
  <2>3. /\ job'[w].order = o
        /\ job'[w].accepted = {} /\ job'[w].victims = {} /\ job'[w].found = {}
    BY <2>1 DEF NoJob
  <2>4. job'[w] \in Job
    BY <1>0, <2>1, <2>2 DEF Job
  <2> QED
    BY <2>1, <2>2, <2>3, <2>4 DEF Holds, Labels, Heard, JobOK
<1>one. ASSUME NEW o \in OrderIds, BulkCancelOne(w, o) PROVE Holds(w)
  <2>1. /\ Placed(o) /\ TakeOff(o) /\ pc'[w] = "untrack"
        /\ job'[w] = [NoJob EXCEPT !.order = o]
    BY <1>0, <1>one, <1>tracked DEF BulkCancelOne, Goto, SetJob
  <2>2. Off(o)'
    BY <1>takes, <2>1
  <2>3. /\ job'[w].order = o
        /\ job'[w].accepted = {} /\ job'[w].victims = {} /\ job'[w].found = {}
    BY <2>1 DEF NoJob
  <2>4. job'[w] \in Job
    BY <1>0, <2>1 DEF Job
  <2> QED
    BY <2>1, <2>2, <2>3, <2>4 DEF Holds, Labels, Heard, JobOK
<1>modify. ASSUME ModifyCancel(w) PROVE Holds(w)
  <2>1. pc[w] = "modify_cancel" /\ Placed(job[w].order) /\ TakeOff(job[w].order)
    BY <1>0, <1>modify DEF ModifyCancel, At, JobOK
  <2>2. CASE pc'[w] = "modify_untrack" /\ job'[w] = job[w]
    <3>1. PICK o : o = job[w].order
      OBVIOUS
    <3>2. Off(o)'
      BY <1>takes, <2>1, <3>1
    <3> QED
      BY <1>0, <1>placed, <2>1, <2>2, <3>1, <3>2 DEF Holds, Labels, Heard, JobOK, Off
  <2> QED
    BY <1>0, <1>modify, <1>returns, <2>2 DEF ModifyCancel, Goto
<1>rollback. ASSUME RollbackCancel(w) PROVE Holds(w)
  <2>1. CASE Return(w)
    BY <2>1, <1>returns
  <2>2. ASSUME NEW a \in job[w].accepted, TakeOff(a[1]),
               pc'[w] = "rollback_reconcile",
               job'[w] = [job[w] EXCEPT !.order = a[1], !.filled = a[2],
                                        !.success = book[a[1]] > 0, !.accepted = @ \ {a}]
        PROVE  Holds(w)
    <3>1. Placed(a[1]) /\ a[1] \in OrderIds /\ a[2] \in 0 .. Size
      BY <1>0 DEF JobOK, Placed, Job
    <3>2. Off(a[1])'
      BY <1>takes, <2>2, <3>1
    <3>3. /\ job'[w].order = a[1] /\ job'[w].accepted = job[w].accepted \ {a}
          /\ job'[w].victims = job[w].victims /\ job'[w].found = job[w].found
      BY <1>0, <2>2 DEF Job
    <3>4. job'[w] \in Job
      <4>1. /\ (book[a[1]] > 0) \in BOOLEAN
            /\ job[w].accepted \ {a} \in SUBSET (OrderIds \X (0 .. Size))
        BY <1>0 DEF Job
      <4> QED
        BY <1>0, <2>2, <3>1, <4>1 DEF Job
    <3>5. Heard(w)
      BY <2>2, <3>3 DEF Heard
    <3> QED
      BY <1>0, <1>placed, <2>2, <3>2, <3>3, <3>4, <3>5 DEF Holds, Labels, JobOK
  <2> QED
    BY <1>0, <1>rollback, <2>1, <2>2 DEF RollbackCancel, RollsBack, Goto, SetJob
<1>walk. ASSUME WalkCancel(w) PROVE Holds(w)
  <2>0. pc[w] = "walk"
    BY <1>walk DEF WalkCancel, At
  <2>1. CASE Return(w)
    BY <2>1, <1>returns
  <2>2. ASSUME NEW o \in job[w].victims,
               job'[w] = [job[w] EXCEPT !.victims = @ \ {o}, !.order = o],
               \/ book[o] > 0 /\ TakeOff(o) /\ pc'[w] = "walk_untrack"
               \/ ~(book[o] > 0) /\ pc'[w] = pc[w]
        PROVE  Holds(w)
    <3>1. Placed(o) /\ o \in OrderIds
      BY <1>0 DEF JobOK, Placed
    <3>2. Off(o)'
      <4>1. CASE TakeOff(o)
        BY <1>takes, <3>1, <4>1
      <4>2. CASE ~(book[o] > 0)
        BY <1>0, <1>off, <3>1, <4>2, BoundsAssumption DEF Off, BookTyped
      <4> QED
        BY <2>2, <4>1, <4>2
    <3>3. /\ job'[w].order = o /\ job'[w].accepted = job[w].accepted
          /\ job'[w].victims = job[w].victims \ {o} /\ job'[w].found = job[w].found
      BY <1>0, <2>2 DEF Job
    <3>4. job'[w] \in Job
      BY <1>0, <2>2, <3>1 DEF Job
    <3>5. \A p \in job'[w].found \ job'[w].victims : Off(p)'
      BY <1>0, <1>off, <2>0, <3>2, <3>3 DEF JobOK, Off
    <3>6. Heard(w)
      BY <2>0, <2>2, <3>3 DEF Heard
    <3> QED
      BY <1>0, <1>placed, <2>0, <2>2, <3>2, <3>3, <3>4, <3>5, <3>6
         DEF Holds, Labels, JobOK, Off
  <2> QED
    BY <1>0, <1>walk, <2>1, <2>2 DEF WalkCancel, StillRests, Goto, SetJob
<1> QED
  BY <1>cancel, <1>one, <1>modify, <1>rollback, <1>walk DEF Cancels

LEMMA SubmitsHolds ==
  ASSUME IInv, NEW w \in Workers, Submits(w)
  PROVE  Holds(w)
<1>0. /\ pc \in [Workers -> Labels] /\ job \in [Workers -> Job] /\ JobOK(w) /\ BookTyped
      /\ BookTyped' /\ BookShrinks
  BY SubmitEffect DEF IInv, TypeOK, Jobs, BookTyped
<1>placed. \A o : Placed(o) => Placed(o)'
  BY <1>0, PlacedStays
<1>1. ASSUME NEW kind, Newborn(w, kind), job'[w] \in Job,
             \/ job'[w].accepted = {} /\ job'[w].victims = {} /\ job'[w].found = {}
             \/ /\ job'[w].accepted = job[w].accepted /\ job'[w].victims = job[w].victims
                /\ job'[w].found = job[w].found
      PROVE  Holds(w)
  <2>0. PICK n : n = nextId
    OBVIOUS
  <2>1. /\ pc'[w] = "track" /\ job'[w].order = n /\ job'[w].quantity \in Quantities
        /\ job'[w].filled \in 0 .. job'[w].quantity
        /\ book'[n] \in {0, job'[w].quantity - job'[w].filled}
        /\ n \in OrderIds /\ nextId' = n + 1
    BY <1>0, <1>1, <2>0 DEF Newborn
  <2>2. Placed(n)'
    BY <2>1, BoundsAssumption DEF Placed, OrderIds
  <2>3. /\ job'[w].filled <= job'[w].quantity
        /\ job'[w].filled = job'[w].quantity => book'[n] = 0
    BY <2>1, BoundsAssumption DEF Quantities
  <2>4. JobOK(w)'
    BY <1>0, <1>1, <1>placed, <2>1, <2>2, <2>3 DEF JobOK
  <2> QED
    BY <1>1, <2>0, <2>1, <2>4 DEF Holds, Labels, Heard
<1>2. CASE pc[w] = "replace" /\ Return(w)
  BY <1>0, <1>2, IdleHolds DEF Return, Goto, SetJob
<1> QED
  BY <1>1, <1>2, SubmitEffect

LEMMA JobsStep ==
  ASSUME IInv, NEW w \in Workers, Step(w)
  PROVE  pc' \in [Workers -> Labels] /\ job' \in [Workers -> Job] /\ Jobs' /\ Holds(w)
<1>0. BookTyped' /\ BookShrinks /\ Turn(w)
  BY BookEffect, Turns
<1>1. Holds(w)
  <2>1. ASSUME Markets(w) PROVE Holds(w)
    BY <1>0, <2>1, StayHolds DEF Markets, SubmitMarketOrder
  <2> QED
    BY <1>0, <2>1, StepKinds, BooklessHolds, CancelsHolds, SubmitsHolds
<1>2. Jobs'
  BY <1>0, <1>1, JobStays DEF Jobs, Turn, Holds
<1> QED
  BY <1>0, <1>1, <1>2 DEF Turn, Holds, IInv, TypeOK

-----------------------------------------------------------------------------
(* What handlers do to state.orders *)

\* An entry changes when its order is off the book, when it is tracked first,
\* or when it is dropped long after it ended.
EntryMoves(w, o) ==
  /\ orders'[o] # orders[o] =>
       /\ Placed(o)
       /\ \/ book[o] = 0
          \/ pc[w] = "track" /\ o = job[w].order
          \/ orders[o] # NoEntry /\ orders[o].status \in Terminal
       /\ orders[o] = NoEntry => pc[w] = "track" /\ o = job[w].order
  /\ pc[w] = "track" /\ o = job[w].order /\ book[o] > 0 =>
       orders'[o] # NoEntry /\ orders'[o].status \in Open
  /\ fate'[o] # fate[o] =>
       /\ pc[w] = "rollback_reconcile" /\ o = job[w].order
       /\ fate'[o] # "live" => orders'[o] = NoEntry
  /\ heirOf'[o] # heirOf[o] => o = nextId /\ nextId' = nextId + 1

StoreTyped ==
  /\ orders \in [OrderIds -> Entry \cup {NoEntry}]
  /\ fate \in [OrderIds -> Fates]
  /\ heirOf \in [OrderIds -> OrderIds \cup {NoOrder}]

Records(w) == StoreTyped' /\ \A o \in OrderIds : EntryMoves(w, o)

LEMMA NothingRecorded ==
  ASSUME IInv, NEW w \in Workers, pc[w] # "track", UNCHANGED <<orders, fate, heirOf>>
  PROVE  Records(w)
BY DEF Records, StoreTyped, EntryMoves, IInv, TypeOK

LEMMA UntrackRecords ==
  ASSUME IInv, NEW w \in Workers, pc[w] # "track", Off(job[w].order), Untrack(job[w].order),
         UNCHANGED <<fate, heirOf>>
  PROVE  Records(w)
<1>0. StoreTyped
  BY DEF IInv, TypeOK, StoreTyped
<1>1. /\ orders'[job[w].order] = NoEntry
      /\ \A o \in OrderIds : o # job[w].order => orders'[o] = orders[o]
      /\ orders' \in [OrderIds -> Entry \cup {NoEntry}]
  BY <1>0 DEF Untrack, StoreTyped, Off, Placed
<1> QED
  BY <1>0, <1>1 DEF Records, StoreTyped, EntryMoves, Off

LEMMA TrackRecords ==
  ASSUME IInv, NEW w \in Workers, Track(w)
  PROVE  Records(w)
<1> DEFINE o == job[w].order
           q == job[w].quantity
           filled == IF job[w].kind = "replace" THEN 0 ELSE job[w].filled
           entry == [original |-> q, remaining |-> q - filled, filled |-> filled,
                     status |-> Status(q, filled)]
<1>0. /\ pc[w] = "track" /\ o \in OrderIds /\ Placed(o) /\ q \in 1 .. Size
      /\ job[w].filled \in 0 .. Size /\ job[w].filled <= q
      /\ job[w].filled = q => book[o] = 0
      /\ StoreTyped
  BY DEF Track, At, IInv, Jobs, JobOK, Placed, Quantities, TypeOK, Job, StoreTyped
<1>1. orders' = [orders EXCEPT ![o] = entry] /\ UNCHANGED <<fate, heirOf>>
  BY DEF Track
<1>2. filled \in 0 .. Size /\ q - filled \in 0 .. Size
  BY <1>0, BoundsAssumption
<1>3. entry \in Entry
  BY <1>0, <1>2 DEF Entry, Status, Open, Terminal, Quantities
<1>4. book[o] > 0 => entry.status \in Open
  <2>1. ASSUME book[o] > 0 PROVE filled # q
    BY <1>0, <2>1, BoundsAssumption
  <2> QED
    BY <2>1 DEF Status, Open
<1>5. entry # NoEntry
  BY <1>3, NoEntryAssumption
<1> HIDE DEF entry
<1>6. /\ orders'[o] = entry /\ \A p \in OrderIds : p # o => orders'[p] = orders[p]
      /\ orders' \in [OrderIds -> Entry \cup {NoEntry}]
  BY <1>0, <1>1, <1>3 DEF StoreTyped
<1> QED
  BY <1>0, <1>1, <1>4, <1>5, <1>6 DEF Records, StoreTyped, EntryMoves

LEMMA ReconcileRecords ==
  ASSUME IInv, NEW w \in Workers, Reconcile(w)
  PROVE  Records(w)
<1> DEFINE o == job[w].order
<1>0. pc[w] = "reconcile" /\ Off(o) /\ o \in OrderIds /\ Placed(o) /\ StoreTyped
      /\ UNCHANGED <<fate, heirOf>>
  BY DEF Reconcile, At, IInv, Jobs, JobOK, Off, Placed, TypeOK, StoreTyped
<1>1. CASE Untrack(o)
  BY <1>0, <1>1, UntrackRecords
<1>2. CASE UNCHANGED orders
  BY <1>0, <1>2, NothingRecorded
<1>3. ASSUME Tracked(o), orders' = [orders EXCEPT ![o] = FilledEntry(@)]
      PROVE  Records(w)
  <2>1. FilledEntry(orders[o]) \in Entry
    <3>1. orders[o] \in Entry
      BY <1>0, <1>3 DEF StoreTyped, Tracked
    <3>2. 0 \in 0 .. Size /\ orders[o].original \in 0 .. Size
      BY <3>1, BoundsAssumption DEF Entry, Quantities
    <3> QED
      BY <3>1, <3>2 DEF FilledEntry, Entry, Terminal
  <2>2. /\ \A p \in OrderIds : p # o => orders'[p] = orders[p]
        /\ orders' \in [OrderIds -> Entry \cup {NoEntry}]
    BY <1>0, <1>3, <2>1 DEF StoreTyped
  <2> QED
    BY <1>0, <1>3, <2>2 DEF Records, StoreTyped, EntryMoves, Off, Tracked
<1> QED
  BY <1>1, <1>2, <1>3 DEF Reconcile

LEMMA RollbackRecords ==
  ASSUME IInv, NEW w \in Workers, RollbackReconcile(w)
  PROVE  Records(w)
<1> DEFINE o == job[w].order
<1>0. pc[w] = "rollback_reconcile" /\ Off(o) /\ o \in OrderIds /\ Placed(o) /\ StoreTyped
      /\ heirOf' = heirOf /\ job[w].filled \in 0 .. Size
  BY DEF RollbackReconcile, At, IInv, Jobs, JobOK, Off, Placed, TypeOK, StoreTyped, Job
<1>1. /\ \A p \in OrderIds : p # o => fate'[p] = fate[p] /\ orders'[p] = orders[p]
      /\ orders[o] = NoEntry => orders'[o] = NoEntry
      /\ fate'[o] # "live" => orders'[o] = NoEntry
      /\ fate' \in [OrderIds -> Fates]
  BY <1>0 DEF RollbackReconcile, Untrack, Tracked, StoreTyped, Fates
<1>2. orders' \in [OrderIds -> Entry \cup {NoEntry}]
  <2>1. CASE orders' = orders \/ Untrack(o)
    BY <1>0, <2>1 DEF StoreTyped, Untrack
  <2>2. CASE /\ Tracked(o)
             /\ orders' = [orders EXCEPT ![o].filled = job[w].filled, ![o].remaining = 0,
                             ![o].status = IF job[w].filled >= orders[o].original
                                           THEN "filled" ELSE "canceled"]
    <3>1. orders[o] \in Entry
      BY <1>0, <2>2 DEF StoreTyped, Tracked
    <3>2. 0 \in 0 .. Size
      BY BoundsAssumption
    <3>3. orders'[o] \in Entry
      BY <1>0, <2>2, <3>1, <3>2 DEF Entry, StoreTyped, Terminal
    <3>4. orders' = [orders EXCEPT ![o] = orders'[o]]
      BY <1>0, <2>2 DEF StoreTyped
    <3> QED
      BY <1>0, <3>3, <3>4 DEF StoreTyped
  <2> QED
    BY <2>1, <2>2 DEF RollbackReconcile
<1> QED
  BY <1>0, <1>1, <1>2 DEF Records, StoreTyped, EntryMoves, Off

LEMMA CleanUpRecords ==
  ASSUME IInv, NEW w \in Workers, CleanUp(w)
  PROVE  Records(w)
<1>0. pc[w] = "idle" /\ StoreTyped /\ UNCHANGED <<fate, heirOf>> /\ BookTyped
  BY DEF CleanUp, Begin, At, IInv, TypeOK, StoreTyped, BookTyped
<1>1. PICK old \in SUBSET {o \in OrderIds : Tracked(o) /\ orders[o].status \in Terminal} :
        orders' = [o \in OrderIds |-> IF o \in old THEN NoEntry ELSE orders[o]]
  BY DEF CleanUp
<1>2. \A o \in OrderIds : Tracked(o) => Placed(o)
  BY <1>0 DEF IInv, Fresh, Tracked, Placed, BookTyped, OrderIds
<1>3. orders' \in [OrderIds -> Entry \cup {NoEntry}]
  BY <1>0, <1>1 DEF StoreTyped
<1> QED
  BY <1>0, <1>1, <1>2, <1>3 DEF Records, StoreTyped, EntryMoves, Tracked

LEMMA SubmitRecords ==
  ASSUME IInv, NEW w \in Workers, Submits(w)
  PROVE  Records(w)
<1>0. StoreTyped /\ UNCHANGED <<orders, fate>> /\ pc[w] # "track"
  BY SubmitEffect DEF IInv, TypeOK, StoreTyped, Newborn
<1>1. CASE heirOf' = heirOf
  BY <1>0, <1>1, NothingRecorded
<1>2. ASSUME heirOf' # heirOf PROVE Records(w)
  <2>1. /\ pc[w] = "replace" /\ Newborn(w, "replace")
        /\ heirOf' = [heirOf EXCEPT ![nextId] = job[w].order]
    BY <1>2, SubmitEffect
  <2>2. nextId \in OrderIds /\ nextId' = nextId + 1 /\ job[w].order \in OrderIds
    BY <2>1 DEF Newborn, IInv, Jobs, JobOK, Placed
  <2> QED
    BY <1>0, <2>1, <2>2 DEF Records, StoreTyped, EntryMoves
<1> QED
  BY <1>1, <1>2

LEMMA RecordsStep ==
  ASSUME IInv, NEW w \in Workers, Step(w)
  PROVE  Records(w)
<1>1. CASE Markets(w) \/ Cancels(w)
  <2>1. UNCHANGED <<orders, fate, heirOf>>
    BY <1>1 DEF Markets, SubmitMarketOrder, Cancels, ModifyCancel, RollbackCancel, WalkCancel,
       CancelOrder, BulkCancelOne
  <2>2. pc[w] # "track"
    BY <1>1 DEF Markets, SubmitMarketOrder, Cancels, ModifyCancel, RollbackCancel, WalkCancel,
       CancelOrder, BulkCancelOne, Begin, At
  <2> QED
    BY <2>1, <2>2, NothingRecorded
<1>2. ASSUME ModifyUntrack(w) \/ UntrackOne(w) \/ WalkUntrack(w) PROVE Records(w)
  <2>1. /\ pc[w] \in {"modify_untrack", "untrack", "walk_untrack"} /\ Untrack(job[w].order)
        /\ UNCHANGED <<fate, heirOf>>
    BY <1>2 DEF ModifyUntrack, UntrackOne, WalkUntrack, At
  <2>2. Off(job[w].order)
    BY <2>1 DEF IInv, Jobs, JobOK
  <2> QED
    BY <2>1, <2>2, UntrackRecords
<1>3. ASSUME \/ FailItem(w) \/ FinishBatch(w) \/ CancelAll(w)
             \/ \E o \in OrderIds, q \in 0 .. Size : ModifyOrder(w, o, q)
             \/ \E kind \in {"plain", "atomic"} : BulkSubmit(w, kind)
      PROVE  Records(w)
  <2>1. UNCHANGED <<orders, fate, heirOf>> /\ pc[w] # "track"
    BY <1>3 DEF FailItem, FinishBatch, CancelAll, ModifyOrder, BulkSubmit, Begin, At
  <2> QED
    BY <2>1, NothingRecorded
<1> QED
  BY <1>1, <1>2, <1>3, StepKinds, TrackRecords, ReconcileRecords, RollbackRecords,
     CleanUpRecords, SubmitRecords DEF Bookless

-----------------------------------------------------------------------------
(* The invariant *)

\* An order that a step places is the one its worker goes on to track.
LEMMA Births ==
  ASSUME IInv, NEW w \in Workers, Step(w), nextId' # nextId
  PROVE  pc'[w] = "track" /\ job'[w].order = nextId /\ nextId' = nextId + 1
<1>0. BookTyped /\ Balance /\ pc \in [Workers -> Labels]
  BY DEF IInv, TypeOK, BookTyped
<1>1. ~Markets(w)
  BY DEF Markets, SubmitMarketOrder
<1>2. ~Bookless(w)
  BY DEF bookVars, Bookless, Track, Reconcile, ModifyUntrack, FailItem, FinishBatch,
       RollbackReconcile, UntrackOne, WalkUntrack, CancelAll, CleanUp, ModifyOrder, BulkSubmit
<1>3. ~Cancels(w)
  BY CancelTakesOff DEF TakesOff, TakeOff, bookVars
<1>4. Submits(w)
  BY <1>1, <1>2, <1>3, StepKinds
<1> QED
  BY <1>0, <1>4, SubmitEffect DEF Newborn, bookVars

LEMMA FreshStep ==
  ASSUME IInv, NEW w \in Workers, Records(w), BookShrinks
  PROVE  Fresh'
<1> SUFFICES ASSUME NEW o \in OrderIds, o >= nextId'
             PROVE  orders'[o] = NoEntry /\ fate'[o] = "none" /\ heirOf'[o] = NoOrder
  BY DEF Fresh
<1>1. o >= nextId /\ ~Placed(o) /\ (nextId' = nextId + 1 => o # nextId)
  BY BoundsAssumption DEF BookShrinks, Placed, OrderIds
<1>2. orders[o] = NoEntry /\ fate[o] = "none" /\ heirOf[o] = NoOrder
  BY <1>1 DEF IInv, Fresh
<1>3. pc[w] = "rollback_reconcile" => o # job[w].order
  BY <1>1 DEF IInv, Jobs, JobOK, Off
<1> QED
  BY <1>1, <1>2, <1>3 DEF Records, EntryMoves

LEMMA AloneStep ==
  ASSUME IInv, NEW w \in Workers, Step(w), Records(w), Holds(w), Turn(w)
  PROVE  Alone'
<1> SUFFICES ASSUME NEW u \in Workers, NEW v \in Workers, pc'[u] = "track"
             PROVE  Apart(u, v)'
  BY DEF Alone, Apart
<1>0. /\ \A x, y \in Workers : Apart(x, y)
      /\ \A x \in Workers : JobOK(x)
      /\ BookTyped
  BY DEF IInv, Alone, Jobs, TypeOK, BookTyped
<1>heard. Heard(w)
  BY DEF Holds
<1>fate. \A o \in OrderIds : fate'[o] # fate[o] =>
           pc[w] = "rollback_reconcile" /\ o = job[w].order
  BY DEF Records, EntryMoves
<1>held. \A x \in Workers : pc[x] \in {"track", "rollback_reconcile"} => Placed(job[x].order)
  BY <1>0 DEF JobOK, Off
<1>old. ASSUME pc[u] = "track", job'[u] = job[u]
        PROVE  Apart(u, v)'
  <2>0. Placed(job[u].order) /\ job[u].order \in OrderIds
    BY <1>held, <1>old DEF Placed
  <2>1. fate'[job'[u].order] = "none"
    BY <1>0, <1>old, <1>fate, <2>0 DEF Apart
  <2>2. CASE v # w
    BY <1>0, <1>old, <2>1, <2>2 DEF Apart, Turn
  <2>3. CASE v = w
    <3>1. ASSUME v # u, pc'[v] = "track" PROVE job'[v].order # job'[u].order
      BY <1>0, <1>old, <1>heard, <2>0, <2>3, <3>1 DEF Apart, Heard, Placed, BookTyped, OrderIds
    <3>2. ASSUME pc'[v] = "rollback_reconcile" PROVE job'[v].order # job'[u].order
      BY <1>0, <1>old, <1>heard, <2>3, <3>2 DEF Apart, Heard
    <3>3. ASSUME NEW a \in job'[v].accepted PROVE a[1] # job'[u].order
      BY <1>0, <1>old, <1>heard, <2>3, <3>3 DEF Apart, Heard
    <3> QED
      BY <2>1, <3>1, <3>2, <3>3 DEF Apart
  <2> QED
    BY <2>2, <2>3
<1>new. ASSUME u = w, job'[u].order = nextId, nextId' = nextId + 1
        PROVE  Apart(u, v)'
  <2>0. nextId \in OrderIds /\ ~Placed(nextId)
    <3>1. nextId \in Nat /\ nextId' \in 1 .. MaxOrders + 1
      BY <1>0, BookEffect, BoundsAssumption DEF BookTyped
    <3> QED
      BY <1>new, <1>0, <3>1, BoundsAssumption DEF BookTyped, OrderIds, Placed
  <2>1. fate'[nextId] = "none"
    <3>1. fate[nextId] = "none"
      BY <1>0, <2>0 DEF IInv, Fresh, BookTyped, OrderIds
    <3> QED
      BY <1>fate, <1>held, <2>0, <3>1
  <2>2. CASE v # w
    BY <1>0, <1>new, <1>held, <2>0, <2>1, <2>2 DEF Apart, Turn, JobOK
  <2>3. CASE v = w
    BY <1>0, <1>new, <1>heard, <2>0, <2>1, <2>3 DEF Apart, Heard, JobOK
  <2> QED
    BY <2>2, <2>3
<1> QED
  BY <1>heard, <1>old, <1>new DEF Heard, Turn

\* RestingIsListed without the query.
Listed(o) == orders[o] # NoEntry /\ orders[o].status \in Open

LEMMA ListedMeans ==
  ASSUME NEW o \in OrderIds
  PROVE  (\E open \in Open : o \in ListOrders({side[o]}, {open})) <=> Listed(o)
BY DEF ListOrders, Tracked, Listed

LEMMA ListedMeansNext ==
  ASSUME NEW o \in OrderIds
  PROVE  (\E open \in Open : o \in ListOrders({side[o]}, {open}))' <=> Listed(o)'
BY DEF ListOrders, Tracked, Listed

LEMMA RestingStep ==
  ASSUME IInv, NEW w \in Workers, Step(w), Records(w), Turn(w)
  PROVE  RestingIsListed'
<1> SUFFICES ASSUME NEW o \in OrderIds, book'[o] > 0
             PROVE  BeingTracked(o)' \/ Listed(o)'
  BY ListedMeansNext DEF RestingIsListed
<1>0. BookTyped /\ BookTyped' /\ Balance' /\ BookShrinks
  BY BookEffect DEF IInv, TypeOK, BookTyped
<1>1. CASE o < nextId
  <2>1. book[o] > 0
    BY <1>0, <1>1, BoundsAssumption DEF BookShrinks, BookTyped
  <2>2. BeingTracked(o) \/ Listed(o)
    BY <2>1, ListedMeans DEF IInv, RestingIsListed
  <2>3. CASE \E v \in Workers \ {w} : At(v, "track") /\ job[v].order = o
    BY <2>3 DEF Turn, BeingTracked, At
  <2>4. CASE pc[w] = "track" /\ job[w].order = o
    BY <2>1, <2>4 DEF Records, EntryMoves, Listed
  <2>5. CASE Listed(o) /\ ~(pc[w] = "track" /\ job[w].order = o)
    <3>1. ~(orders[o].status \in Terminal)
      BY <2>5 DEF Listed, Open, Terminal
    <3>2. orders'[o] = orders[o]
      BY <2>1, <2>5, <3>1 DEF Records, EntryMoves
    <3> QED
      BY <2>5, <3>2 DEF Listed
  <2> QED
    BY <2>2, <2>3, <2>4, <2>5 DEF BeingTracked, At
<1>2. CASE ~(o < nextId)
  <2>1. o < nextId'
    BY <1>0, BoundsAssumption DEF Balance, BookTyped, OrderIds
  <2>2. nextId' # nextId
    BY <1>2, <2>1
  <2>3. pc'[w] = "track" /\ job'[w].order = o
    <3>1. pc'[w] = "track" /\ job'[w].order = nextId /\ nextId' = nextId + 1
      BY <2>2, Births
    <3>2. o = nextId
      BY <1>0, <1>2, <2>1, <3>1, BoundsAssumption DEF BookTyped, OrderIds
    <3> QED
      BY <3>1, <3>2
  <2> QED
    BY <2>3 DEF BeingTracked, At
<1> QED
  BY <1>1, <1>2

LEMMA RollbackStep ==
  ASSUME IInv, NEW w \in Workers, Records(w), BookTyped', BookShrinks
  PROVE  RollbackLeavesNothing'
<1> SUFFICES ASSUME NEW o \in OrderIds, fate'[o] # "none"
             PROVE  book'[o] = 0 /\ (fate'[o] # "live" => orders'[o] = NoEntry)
  BY DEF RollbackLeavesNothing, Tracked
<1>0. BookTyped /\ EntryMoves(w, o)
  BY DEF IInv, TypeOK, BookTyped, Records
<1>1. CASE fate'[o] = fate[o]
  <2>1. book[o] = 0 /\ (fate[o] # "live" => orders[o] = NoEntry)
    BY <1>1 DEF IInv, RollbackLeavesNothing, Tracked
  <2>2. Off(o)
    BY <1>0, <1>1, <2>1 DEF IInv, Fresh, Off, Placed, BookTyped, OrderIds
  <2>3. book'[o] = 0
    BY <1>0, <2>2, OffStays DEF Off
  <2>4. ~(pc[w] = "track" /\ o = job[w].order)
    BY <1>1 DEF IInv, Alone, Apart
  <2> QED
    BY <1>0, <1>1, <2>1, <2>3, <2>4 DEF EntryMoves
<1>2. CASE fate'[o] # fate[o]
  <2>1. Off(o)
    BY <1>0, <1>2 DEF EntryMoves, IInv, Jobs, JobOK
  <2> QED
    BY <1>0, <1>2, <2>1, OffStays DEF EntryMoves, Off
<1> QED
  BY <1>1, <1>2

LEMMA InvInit == Init => IInv
<1> SUFFICES ASSUME Init PROVE IInv
  OBVIOUS
<1>1. NoJob \in Job
  BY BoundsAssumption DEF NoJob, Job
<1>2. TypeOK
  BY <1>1, BoundsAssumption DEF Init, TypeOK, Sides, Fates, Labels, OrderIds
<1>3. Balance /\ Fresh
  BY BoundsAssumption DEF Init, Balance, Fresh
<1>4. Jobs /\ Alone
  BY DEF Init, Jobs, JobOK, Alone, Apart, NoJob
<1>5. RestingIsListed /\ RollbackLeavesNothing
  BY DEF Init, RestingIsListed, RollbackLeavesNothing
<1> QED
  BY <1>2, <1>3, <1>4, <1>5 DEF IInv

LEMMA InvNext == IInv /\ [Next]_vars => IInv'
<1> SUFFICES ASSUME IInv, [Next]_vars PROVE IInv'
  OBVIOUS
<1>stutter. CASE UNCHANGED vars
  BY <1>stutter DEF vars, bookVars, IInv, TypeOK, Balance, Fresh, Jobs, JobOK, Placed, Off,
     Alone, Apart, RestingIsListed, RollbackLeavesNothing, BeingTracked, At, ListOrders, Tracked
<1>step. ASSUME NEW w \in Workers, Step(w) PROVE IInv'
  <2>1. BookTyped' /\ Balance' /\ BookShrinks /\ Turn(w) /\ Records(w) /\ Holds(w)
        /\ pc' \in [Workers -> Labels] /\ job' \in [Workers -> Job] /\ Jobs'
    BY <1>step, BookEffect, Turns, RecordsStep, JobsStep
  <2>2. TypeOK'
    BY <2>1 DEF TypeOK, BookTyped, Records, StoreTyped
  <2> QED
    BY <1>step, <2>1, <2>2, FreshStep, AloneStep, RestingStep, RollbackStep DEF IInv
<1> QED
  BY <1>stutter, <1>step DEF Next, Step

LEMMA InvHolds == Spec => []IInv
BY InvInit, InvNext, PTL DEF Spec

\* The book, state.orders, the reports of atomic batches and the locals of every
\* handler keep their types, and no quantity leaves 0 .. Size, whatever the
\* threads do and in whatever order (add_order, cancel_order, modify_order,
\* bulk_submit_orders, bulk_cancel_orders, cancel_all_orders, cleanup_old_orders).
THEOREM TypeCorrect == Spec => []TypeOK
<1>1. IInv => TypeOK
  BY DEF IInv
<1> QED
  BY <1>1, InvHolds, PTL

\* However the handlers of different threads interleave between the book and
\* state.orders, no order rests on the book without being listed as open or
\* about to be by the handler that placed it: a removal of an entry always comes
\* after the removal from the book, and no handler adds to what rests (add_order,
\* cancel_order, modify_order, rollback_atomic_bulk, cancel_all_orders).
THEOREM NoRestingOrderIsHidden == Spec => []RestingIsListed
<1>1. IInv => RestingIsListed
  BY DEF IInv
<1> QED
  BY <1>1, InvHolds, PTL

\* Once rollback_atomic_bulk has reported on an order, it never rests again, and
\* one reported as rejected is never tracked again, whoever else cancels,
\* modifies or fills it meanwhile.
THEOREM RollbackIsFinal == Spec => []RollbackLeavesNothing
<1>1. IInv => RollbackLeavesNothing
  BY DEF IInv
<1> QED
  BY <1>1, InvHolds, PTL

\* The walk of cancel_all_orders leaves none of the orders it found resting, also
\* when others were filled, cancelled or replaced while it went on.
THEOREM WalkIsThorough == Spec => []WalkTakesAllOff
<1>1. IInv => WalkTakesAllOff
  BY DEF IInv, Jobs, JobOK, WalkTakesAllOff, At
<1> QED
  BY <1>1, InvHolds, PTL

-----------------------------------------------------------------------------
(***************************************************************************)
(* One request at a time.  While requests are served one by one, the       *)
(* entries also tell the truth about fills.  The next three theorems assume*)
(* so; with two threads TLC finds each of the three properties violated.   *)
(***************************************************************************)
OneAtATime == \A v, w \in Workers : v = w

\* The only step that makes quantity disappear takes it off the book.
LEMMA BookLost ==
  ASSUME IInv, NEW w \in Workers, Step(w), NEW o \in OrderIds, o < nextId,
         book'[o] + done'[o] # book[o] + done[o]
  PROVE  Cancels(w) /\ TakeOff(o) /\ book[o] > 0
<1>0. BookTyped /\ Balance
  BY DEF IInv, TypeOK, BookTyped
<1>1. ~SumsKept
  BY DEF SumsKept
<1>2. ~Bookless(w)
  <2>1. Bookless(w) => UNCHANGED bookVars
    BY DEF Bookless, Track, Reconcile, ModifyUntrack, FailItem, FinishBatch,
       RollbackReconcile, UntrackOne, WalkUntrack, CancelAll, CleanUp, ModifyOrder, BulkSubmit
  <2> QED
    BY <1>0, <1>1, <2>1, BookIdle
<1>3. ~Markets(w)
  <2>1. Markets(w) => MarketTakes
    BY DEF Markets, SubmitMarketOrder, MarketTakes
  <2> QED
    BY <1>0, <1>1, <2>1, MarketEffect
<1>4. Cancels(w)
  BY <1>1, <1>2, <1>3, StepKinds, SubmitEffect
<1>5. TakesOff
  BY <1>0, <1>1, <1>4, CancelTakesOff, BookIdle
<1>6. PICK p \in OrderIds : TakeOff(p)
  BY <1>5 DEF TakesOff
<1>7. p = o /\ book[o] # 0
  BY <1>0, <1>6 DEF TakeOff, BookTyped
<1> QED
  BY <1>0, <1>4, <1>6, <1>7, BoundsAssumption DEF BookTyped

-----------------------------------------------------------------------------
(* A change of the price alone *)

\* What a replacement may trade is what its predecessor left when it went off
\* the book.
HeirOK(o) ==
  heirOf[o] # NoOrder =>
    Off(heirOf[o]) /\ done[heirOf[o]] + asked[o] <= asked[heirOf[o]]

KeepOK(w) ==
  pc[w] \in {"modify_cancel", "modify_untrack", "replace"} /\ job[w].keep =>
    done[job[w].order] + job[w].quantity <= asked[job[w].order]

Exposure == (\A o \in OrderIds : HeirOK(o)) /\ (\A w \in Workers : KeepOK(w))

LEMMA KeepStep ==
  ASSUME OneAtATime, IInv, Exposure, NEW w \in Workers, Step(w)
  PROVE  KeepOK(w)'
<1>0. /\ pc \in [Workers -> Labels] /\ job \in [Workers -> Job] /\ job[w] \in Job
      /\ BookTyped /\ Balance /\ JobOK(w) /\ KeepOK(w) /\ BookShrinks /\ Turn(w)
  BY BookEffect, Turns DEF IInv, TypeOK, BookTyped, Jobs, Exposure
<1> SUFFICES ASSUME pc'[w] \in {"modify_cancel", "modify_untrack", "replace"}, job'[w].keep
             PROVE  done'[job'[w].order] + job'[w].quantity <= asked'[job'[w].order]
  BY DEF KeepOK
<1>modify. ASSUME NEW o \in OrderIds, NEW q \in 0 .. Size, ModifyOrder(w, o, q)
           PROVE  done'[job'[w].order] + job'[w].quantity <= asked'[job'[w].order]
  <2> DEFINE n == IF q = 0 THEN book[o] ELSE q
             whole == (q = 0)
  <2>1. /\ job'[w] = [NoJob EXCEPT !.order = o, !.keep = whole, !.quantity = n]
        /\ done' = done /\ asked' = asked
    BY <1>0, <1>modify DEF ModifyOrder, SetJob, bookVars, QuantityLeft
  <2>2. (whole => n = book[o]) /\ whole \in BOOLEAN
    OBVIOUS
  <2> HIDE DEF n, whole
  <2>3. job'[w].order = o /\ job'[w].keep = whole /\ job'[w].quantity = n
    BY <2>1 DEF NoJob
  <2>4. n = book[o]
    BY <2>2, <2>3
  <2>5. book[o] + done[o] <= asked[o] /\ book[o] \in Int /\ done[o] \in Int
    BY <1>0 DEF Balance, BookTyped
  <2>6. done[o] + n <= asked[o]
    BY <2>4, <2>5
  <2> QED
    BY <2>1, <2>3, <2>6
<1>goes. ASSUME ModifyCancel(w) \/ ModifyUntrack(w)
         PROVE  done'[job'[w].order] + job'[w].quantity <= asked'[job'[w].order]
  BY <1>0, <1>goes DEF ModifyCancel, ModifyUntrack, At, Return, Goto, SetJob, TakeOff, bookVars,
     KeepOK
<1>others. ~(\E o \in OrderIds, q \in 0 .. Size : ModifyOrder(w, o, q))
           /\ ~ModifyCancel(w) /\ ~ModifyUntrack(w) => FALSE
  <2>1. ~Submits(w)
    BY <1>0, SubmitEffect DEF Newborn, Return, Goto
  <2>2. ~Markets(w)
    BY DEF Markets, SubmitMarketOrder, Begin, At
  <2>3. ASSUME Cancels(w), ~ModifyCancel(w) PROVE FALSE
    BY <1>0, <2>3 DEF Cancels, RollbackCancel, WalkCancel, CancelOrder, BulkCancelOne, At, Begin,
       Return, Goto
  <2>4. ASSUME Bookless(w), ~ModifyUntrack(w),
               ~(\E o \in OrderIds, q \in 0 .. Size : ModifyOrder(w, o, q)) PROVE FALSE
    BY <1>0, <2>4 DEF Bookless, Track, Reconcile, FailItem, FinishBatch, RollbackReconcile,
       UntrackOne, WalkUntrack, CancelAll, CleanUp, BulkSubmit, At, Begin, Return, Goto
  <2> QED
    BY <2>1, <2>2, <2>3, <2>4, StepKinds
<1> QED
  BY <1>modify, <1>goes, <1>others

LEMMA HeirStep ==
  ASSUME IInv, Exposure, NEW w \in Workers, Step(w), NEW o \in OrderIds
  PROVE  HeirOK(o)'
<1>0. /\ BookTyped /\ Balance /\ JobOK(w) /\ KeepOK(w) /\ HeirOK(o)
      /\ BookTyped' /\ BookShrinks /\ EntryMoves(w, o)
      /\ heirOf \in [OrderIds -> OrderIds \cup {NoOrder}]
      /\ heirOf' \in [OrderIds -> OrderIds \cup {NoOrder}]
  BY BookEffect, RecordsStep
     DEF IInv, TypeOK, BookTyped, Jobs, Exposure, Records, StoreTyped
<1>1. ASSUME NEW p, Off(p)
      PROVE  Off(p)' /\ done'[p] = done[p] /\ asked'[p] = asked[p]
  <2>1. Off(p)' /\ p \in OrderIds /\ p < nextId /\ book[p] = 0
    BY <1>0, <1>1, OffStays DEF Off, Placed
  <2>2. /\ done[p] \in 0 .. Size /\ done'[p] \in 0 .. Size /\ book'[p] = 0
        /\ done'[p] >= done[p] /\ book'[p] + done'[p] <= book[p] + done[p]
        /\ asked'[p] = asked[p]
    BY <1>0, <2>1 DEF BookTyped, BookShrinks, Off
  <2>3. done'[p] = done[p]
    BY <2>1, <2>2, BoundsAssumption
  <2> QED
    BY <2>1, <2>2, <2>3
<1>same. ASSUME heirOf'[o] = heirOf[o], heirOf[o] # NoOrder PROVE HeirOK(o)'
  <2>1. PICK p : p = heirOf[o]
    OBVIOUS
  <2>2. Off(p)' /\ done'[p] = done[p] /\ asked'[p] = asked[p]
        /\ done[p] + asked[o] <= asked[p]
    BY <1>0, <1>1, <1>same, <2>1 DEF HeirOK
  <2>3. o < nextId
    BY <1>0, <1>same DEF IInv, Fresh, BookTyped, OrderIds
  <2>4. asked'[o] = asked[o]
    BY <1>0, <2>3 DEF BookShrinks
  <2> QED
    BY <1>same, <2>1, <2>2, <2>4 DEF HeirOK
<1>new. ASSUME heirOf'[o] # heirOf[o] PROVE HeirOK(o)'
  <2>1. Submits(w)
    BY <1>new, StepKinds DEF Bookless, Track, Reconcile, ModifyUntrack, FailItem, FinishBatch,
       RollbackReconcile, UntrackOne, WalkUntrack, CancelAll, CleanUp, ModifyOrder, BulkSubmit,
       Cancels, ModifyCancel, RollbackCancel, WalkCancel, CancelOrder, BulkCancelOne,
       Markets, SubmitMarketOrder
  <2>2. /\ pc[w] = "replace" /\ Newborn(w, "replace") /\ job[w].keep
        /\ heirOf' = [heirOf EXCEPT ![nextId] = job[w].order]
        /\ job'[w].quantity = job[w].quantity
    BY <1>new, <2>1, SubmitEffect
  <2>3. PICK p : p = job[w].order
    OBVIOUS
  <2>4. Off(p) /\ done[p] + job[w].quantity <= asked[p] /\ o = nextId
    BY <1>0, <1>new, <2>2, <2>3 DEF JobOK, KeepOK, EntryMoves
  <2>5. heirOf'[o] = p /\ asked'[o] = job[w].quantity
    BY <1>0, <2>2, <2>3, <2>4 DEF Newborn
  <2> QED
    BY <1>1, <2>4, <2>5 DEF HeirOK
<1>none. CASE heirOf'[o] = NoOrder
  BY <1>none DEF HeirOK
<1> QED
  BY <1>same, <1>new, <1>none

LEMMA ExposureNext ==
  ASSUME OneAtATime
  PROVE  IInv /\ Exposure /\ [Next]_vars => Exposure'
<1> SUFFICES ASSUME IInv, Exposure, [Next]_vars PROVE Exposure'
  OBVIOUS
<1>stutter. CASE UNCHANGED vars
  BY <1>stutter DEF vars, bookVars, Exposure, HeirOK, KeepOK, Off, Placed
<1>step. ASSUME NEW w \in Workers, Step(w) PROVE Exposure'
  <2>1. \A v \in Workers : v = w
    BY DEF OneAtATime
  <2>2. KeepOK(w)' /\ \A o \in OrderIds : HeirOK(o)'
    BY <1>step, KeepStep, HeirStep
  <2> QED
    BY <2>1, <2>2 DEF Exposure
<1> QED
  BY <1>stutter, <1>step DEF Next, Step

\* While requests are served one at a time, changing only the price of an order
\* leaves the client with no more to trade than before: what the old order has
\* executed and what the new one asks for do not exceed what was asked first
\* (modify_order reads what rests, takes it off and places that much).
THEOREM PriceChangeKeepsExposure ==
  ASSUME OneAtATime
  PROVE  Spec => []ModifyKeepsExposure
<1>1. Init => Exposure
  BY DEF Init, Exposure, HeirOK, KeepOK
<1>2. IInv /\ Exposure /\ [Next]_vars => Exposure'
  BY ExposureNext
<1>3. Exposure => ModifyKeepsExposure
  BY DEF Exposure, HeirOK, ModifyKeepsExposure
<1> QED
  BY <1>1, <1>2, <1>3, InvHolds, PTL DEF Spec

-----------------------------------------------------------------------------
(* Entries and fills *)

\* An order that was tracked and is neither resting nor executed whole is being
\* taken out of state.orders.
Leaving(o) ==
  \E w \in Workers :
    /\ job[w].order = o
    /\ \/ pc[w] = "reconcile" /\ job[w].success
       \/ pc[w] \in {"modify_untrack", "untrack", "walk_untrack"}

EntryOK(o) ==
  orders[o] # NoEntry =>
    /\ orders[o].original = asked[o] /\ orders[o].filled <= done[o]
    /\ book[o] = 0 /\ done[o] # asked[o] => Leaving(o)

Accounted(o) == book[o] > 0 => book[o] + done[o] = asked[o]

TaskOK(w) ==
  /\ pc[w] = "track" =>
       /\ job[w].quantity = asked[job[w].order] /\ job[w].filled <= done[job[w].order]
       /\ book[job[w].order] + done[job[w].order] = asked[job[w].order]
  /\ pc[w] \notin {"rollback", "rollback_reconcile"} /\ job[w].kind # "atomic"

Sound == /\ \A o \in OrderIds : EntryOK(o) /\ Accounted(o)
         /\ \A w \in Workers : TaskOK(w)

\* One request at a time, no order that is cancelled by the book itself, and no
\* batch that is rolled back.
Plainly == OneAtATime /\ "ioc" \notin Tifs /\ "bulk_submit_atomic" \notin Ops

LEMMA TaskStep ==
  ASSUME Plainly, IInv, Sound, NEW w \in Workers, Step(w)
  PROVE  TaskOK(w)'
<1>0. /\ pc \in [Workers -> Labels] /\ job \in [Workers -> Job] /\ job[w] \in Job
      /\ BookTyped /\ TaskOK(w)
  BY DEF IInv, TypeOK, BookTyped, Sound
<1>1. ASSUME Submits(w) PROVE TaskOK(w)'
  <2>1. CASE Return(w)
    BY <1>0, <2>1 DEF Return, Goto, SetJob, TaskOK, NoJob
  <2>2. ASSUME NEW kind \in {"single", "replace", job[w].kind}, Newborn(w, kind)
        PROVE  TaskOK(w)'
    <3>1. /\ pc'[w] = "track" /\ job'[w].order = nextId
          /\ job'[w].quantity = asked'[nextId] /\ job'[w].filled = done'[nextId]
          /\ book'[nextId] + done'[nextId] = asked'[nextId] /\ job'[w].kind # "atomic"
          /\ job'[w].filled \in Int
      BY <1>0, <2>2 DEF Newborn, TaskOK, Plainly
    <3> QED
      BY <3>1 DEF TaskOK
  <2> QED
    BY <1>1, <2>1, <2>2, SubmitEffect
<1>2. ASSUME Markets(w) PROVE TaskOK(w)'
  BY <1>0, <1>2 DEF Markets, SubmitMarketOrder, Begin, At, TaskOK
<1>3. ASSUME Cancels(w) PROVE TaskOK(w)'
  <2>1. ~RollbackCancel(w)
    BY <1>0 DEF RollbackCancel, At, TaskOK
  <2>2. ASSUME ModifyCancel(w) PROVE TaskOK(w)'
    BY <1>0, <2>2 DEF ModifyCancel, Return, Goto, SetJob, TaskOK, NoJob
  <2>3. ASSUME NEW o \in OrderIds, CancelOrder(w, o) \/ BulkCancelOne(w, o) PROVE TaskOK(w)'
    BY <1>0, <2>3 DEF CancelOrder, BulkCancelOne, Goto, SetJob, TaskOK, NoJob
  <2>4. ASSUME WalkCancel(w) PROVE TaskOK(w)'
    <3>1. pc'[w] \in {"idle", "walk", "walk_untrack"}
      BY <1>0, <2>4 DEF WalkCancel, At, Return, Goto
    <3>2. job'[w].kind \in {"single", job[w].kind}
      <4>1. CASE Return(w)
        BY <1>0, <4>1 DEF Return, SetJob, NoJob
      <4>2. ASSUME NEW o, SetJob(w, [job[w] EXCEPT !.victims = @ \ {o}, !.order = o])
            PROVE  job'[w].kind = job[w].kind
        BY <1>0, <4>2 DEF SetJob, Job
      <4> QED
        BY <2>4, <4>1, <4>2 DEF WalkCancel
    <3> QED
      BY <1>0, <3>1, <3>2 DEF TaskOK
  <2> QED
    BY <1>3, <2>1, <2>2, <2>3, <2>4 DEF Cancels
<1>4. ASSUME Bookless(w) PROVE TaskOK(w)'
  <2>1. ASSUME NEW kind \in {"plain", "atomic"}, BulkSubmit(w, kind) PROVE TaskOK(w)'
    BY <1>0, <2>1 DEF BulkSubmit, Begin, Goto, SetJob, TaskOK, NoJob, Plainly
  <2>2. ASSUME \/ Track(w) \/ Reconcile(w) \/ FinishBatch(w) \/ UntrackOne(w)
        PROVE  TaskOK(w)'
    BY <1>0, <2>2 DEF Track, Reconcile, FinishBatch, UntrackOne, At, Return, Goto, SetJob,
       TaskOK, NoJob, Job
  <2>3. ASSUME ModifyUntrack(w) \/ WalkUntrack(w) \/ CancelAll(w) \/ CleanUp(w)
        PROVE  TaskOK(w)'
    BY <1>0, <2>3 DEF ModifyUntrack, WalkUntrack, CancelAll, CleanUp, Begin, At, Goto, SetJob,
       TaskOK, NoJob
  <2>fails. ASSUME FailItem(w) PROVE TaskOK(w)'
    <3>1. pc[w] = "item" /\ job[w].kind # "atomic" /\ pc' = pc
      BY <1>0, <2>fails DEF FailItem, At, TaskOK
    <3>2. job'[w].kind = job[w].kind
      BY <1>0, <2>fails DEF FailItem, SetJob, Job
    <3> QED
      BY <1>0, <3>1, <3>2 DEF TaskOK
  <2>rolls. ~RollbackReconcile(w)
    BY <1>0 DEF RollbackReconcile, At, TaskOK
  <2>4. ASSUME NEW o \in OrderIds, NEW q \in 0 .. Size, ModifyOrder(w, o, q)
        PROVE  TaskOK(w)'
    BY <1>0, <2>4 DEF ModifyOrder, Goto, SetJob, TaskOK, NoJob
  <2> QED
    BY <1>4, <2>1, <2>2, <2>3, <2>4, <2>fails, <2>rolls DEF Bookless
<1> QED
  BY <1>1, <1>2, <1>3, <1>4, StepKinds

\* A worker that takes an order off the book goes on to take it out of
\* state.orders.
LEMMA TakenIsLeaving ==
  ASSUME IInv, Sound, NEW w \in Workers, Cancels(w), NEW o \in OrderIds, TakeOff(o),
         book[o] > 0
  PROVE  Leaving(o)'
<1>0. /\ pc \in [Workers -> Labels] /\ job \in [Workers -> Job] /\ job[w] \in Job
      /\ BookTyped /\ TaskOK(w)
  BY DEF IInv, TypeOK, BookTyped, Sound
<1>1. \A p \in OrderIds : book'[p] # book[p] => p = o
  BY <1>0 DEF TakeOff, BookTyped
<1>2. book'[o] = 0 /\ book[o] # 0 /\ book[o] \in Int
  BY <1>0, BoundsAssumption DEF TakeOff, BookTyped
<1>3. ~RollbackCancel(w)
  BY <1>0 DEF RollbackCancel, At, TaskOK
<1>same. ASSUME NEW p, TakeOff(p) PROVE p = o
  BY <1>0, <1>2, <1>same DEF TakeOff, BookTyped
<1>4. ASSUME NEW p \in OrderIds, CancelOrder(w, p) PROVE Leaving(o)'
  <2>1. p = o
    BY <1>same, <1>4 DEF CancelOrder
  <2>2. /\ pc'[w] = "reconcile"
        /\ job'[w] = [NoJob EXCEPT !.order = o, !.success = Canceled(o)]
    BY <1>0, <1>4, <2>1 DEF CancelOrder, Goto, SetJob
  <2>3. Canceled(o)
    BY DEF Canceled
  <2>4. job'[w].order = o /\ job'[w].success
    BY <2>2, <2>3 DEF NoJob
  <2> QED
    BY <2>2, <2>4 DEF Leaving
<1>5. ASSUME NEW p \in OrderIds, BulkCancelOne(w, p) PROVE Leaving(o)'
  <2>1. p = o
    BY <1>same, <1>5 DEF BulkCancelOne
  <2> QED
    BY <1>0, <1>5, <2>1 DEF BulkCancelOne, Goto, SetJob, NoJob, Leaving
<1>6. ASSUME ModifyCancel(w) PROVE Leaving(o)'
  <2>1. job[w].order = o
    BY <1>same, <1>6 DEF ModifyCancel
  <2> QED
    BY <1>0, <1>6, <2>1 DEF ModifyCancel, Goto, Leaving
<1>7. ASSUME WalkCancel(w) PROVE Leaving(o)'
  <2>1. bookVars' # bookVars
    BY <1>2 DEF bookVars
  <2>2. PICK p \in job[w].victims :
          /\ SetJob(w, [job[w] EXCEPT !.victims = @ \ {p}, !.order = p])
          /\ TakeOff(p) /\ Goto(w, "walk_untrack")
    BY <1>7, <2>1 DEF WalkCancel
  <2>3. p = o
    BY <1>same, <2>2
  <2> QED
    BY <1>0, <2>2, <2>3 DEF Goto, SetJob, Job, Leaving
<1> QED
  BY <1>3, <1>4, <1>5, <1>6, <1>7 DEF Cancels

\* A worker that holds a leaving order takes its entry out next.
LEMMA LeavingIsGone ==
  ASSUME Plainly, IInv, Sound, NEW w \in Workers, Step(w), NEW o \in OrderIds, Leaving(o)
  PROVE  orders'[o] = NoEntry
<1>0. /\ pc \in [Workers -> Labels] /\ orders \in [OrderIds -> Entry \cup {NoEntry}]
      /\ TaskOK(w)
  BY DEF IInv, TypeOK, Sound
<1>1. /\ job[w].order = o
      /\ \/ pc[w] = "reconcile" /\ job[w].success
         \/ pc[w] \in {"modify_untrack", "untrack", "walk_untrack"}
  BY DEF Leaving, Plainly, OneAtATime
<1>2. ~Submits(w) /\ ~Markets(w)
  BY <1>1, SubmitEffect DEF Markets, SubmitMarketOrder, Begin, At
<1>3. ~Cancels(w)
  BY <1>1 DEF Cancels, ModifyCancel, RollbackCancel, WalkCancel, CancelOrder, BulkCancelOne,
     Begin, At
<1>4. Reconcile(w) \/ ModifyUntrack(w) \/ UntrackOne(w) \/ WalkUntrack(w)
  BY <1>1, <1>2, <1>3, StepKinds DEF Bookless, Track, FailItem, FinishBatch,
     RollbackReconcile, CancelAll, CleanUp, ModifyOrder, BulkSubmit, Begin, At
<1>5. Untrack(o)
  BY <1>1, <1>4 DEF Reconcile, ModifyUntrack, UntrackOne, WalkUntrack, At
<1> QED
  BY <1>0, <1>5 DEF Untrack

LEMMA EntryStep ==
  ASSUME Plainly, IInv, Sound, NEW w \in Workers, Step(w), NEW o \in OrderIds
  PROVE  EntryOK(o)'
<1>0. /\ pc \in [Workers -> Labels] /\ job \in [Workers -> Job] /\ job[w] \in Job
      /\ orders \in [OrderIds -> Entry \cup {NoEntry}]
      /\ BookTyped /\ BookTyped' /\ Balance /\ BookShrinks /\ EntryMoves(w, o)
      /\ EntryOK(o) /\ Accounted(o) /\ TaskOK(w) /\ JobOK(w)
  BY BookEffect, RecordsStep DEF IInv, TypeOK, BookTyped, Sound, Records, Jobs
<1> SUFFICES ASSUME orders'[o] # NoEntry PROVE EntryOK(o)'
  BY DEF EntryOK
<1>stays. ASSUME orders'[o] = orders[o] PROVE EntryOK(o)'
  <2>1. orders[o] # NoEntry /\ o < nextId
    BY <1>0, <1>stays DEF IInv, Fresh, BookTyped, OrderIds
  <2>2. orders[o] \in Entry /\ orders[o].filled \in Int
    BY <1>0, <2>1 DEF Entry
  <2>3. /\ orders[o].original = asked[o] /\ orders[o].filled <= done[o]
        /\ asked'[o] = asked[o] /\ done'[o] >= done[o] /\ book'[o] <= book[o]
        /\ book'[o] + done'[o] <= book[o] + done[o]
        /\ done[o] \in 0 .. Size /\ done'[o] \in 0 .. Size
        /\ book[o] \in 0 .. Size /\ book'[o] \in 0 .. Size
    BY <1>0, <2>1 DEF EntryOK, BookShrinks, BookTyped
  <2>4. orders'[o].original = asked'[o] /\ orders'[o].filled <= done'[o]
    BY <1>stays, <2>2, <2>3, BoundsAssumption
  <2>5. ASSUME book'[o] = 0, done'[o] # asked'[o] PROVE Leaving(o)'
    <3>1. CASE book[o] = 0
      <4>1. done[o] # asked[o]
        BY <2>3, <2>5, <3>1, BoundsAssumption
      <4>2. Leaving(o)
        BY <1>0, <2>1, <3>1, <4>1 DEF EntryOK
      <4> QED
        BY <4>2, LeavingIsGone
    <3>2. CASE book[o] > 0
      <4>1. book[o] + done[o] = asked[o]
        BY <1>0, <3>2 DEF Accounted
      <4>2. book'[o] + done'[o] # book[o] + done[o]
        BY <2>3, <2>5, <4>1, BoundsAssumption
      <4> QED
        BY <2>1, <4>2, BookLost, TakenIsLeaving
    <3> QED
      BY <2>3, <3>1, <3>2, BoundsAssumption
  <2> QED
    BY <2>4, <2>5 DEF EntryOK
<1>moves. ASSUME orders'[o] # orders[o] PROVE EntryOK(o)'
  <2>1. Bookless(w)
    BY <1>moves, StepKinds, SubmitEffect DEF Newborn, Markets, SubmitMarketOrder, Cancels,
       ModifyCancel, RollbackCancel, WalkCancel, CancelOrder, BulkCancelOne
  <2>2. UNCHANGED bookVars
    BY <2>1 DEF Bookless, Track, Reconcile, ModifyUntrack, FailItem, FinishBatch,
       RollbackReconcile, UntrackOne, WalkUntrack, CancelAll, CleanUp, ModifyOrder, BulkSubmit
  <2>3. book' = book /\ done' = done /\ asked' = asked
    BY <2>2 DEF bookVars
  <2>4. ASSUME Track(w) PROVE EntryOK(o)'
    <3>1. pc[w] = "track" /\ job[w].order \in OrderIds
      BY <1>0, <2>4 DEF Track, At, JobOK, Placed
    <3>2. job[w].order = o
      BY <1>0, <1>moves, <2>4, <3>1 DEF Track
    <3>3. /\ job[w].quantity = asked[o] /\ job[w].filled <= done[o]
          /\ book[o] + done[o] = asked[o] /\ done[o] \in 0 .. Size
          /\ asked[o] \in 0 .. Size
      BY <1>0, <3>1, <3>2 DEF TaskOK, BookTyped
    <3>4. /\ orders'[o].original = job[w].quantity
          /\ orders'[o].filled \in {0, job[w].filled}
      BY <1>0, <2>4, <3>2 DEF Track
    <3>5. book[o] = 0 => done[o] = asked[o]
      BY <3>3, BoundsAssumption
    <3>6. orders'[o].filled <= done[o]
      BY <3>3, <3>4, BoundsAssumption
    <3> QED
      BY <2>3, <3>3, <3>4, <3>5, <3>6 DEF EntryOK
  <2>5. ASSUME Reconcile(w) PROVE EntryOK(o)'
    <3>1. /\ pc[w] = "reconcile" /\ job[w].order = o /\ ~job[w].success /\ orders[o] # NoEntry
          /\ orders'[o] = FilledEntry(orders[o])
      BY <1>0, <1>moves, <2>5 DEF Reconcile, At, Untrack, Tracked
    <3>2. book[o] = 0 /\ ~Leaving(o)
      BY <1>0, <3>1 DEF JobOK, Off, Leaving, Plainly, OneAtATime
    <3>3. done[o] = asked[o] /\ orders[o].original = asked[o]
      BY <1>0, <3>1, <3>2 DEF EntryOK
    <3>4. orders[o] \in Entry /\ done[o] \in 0 .. Size
      BY <1>0, <3>1 DEF BookTyped
    <3>5. orders'[o].original = orders[o].original /\ orders'[o].filled = orders[o].original
      BY <3>1, <3>4 DEF FilledEntry, Entry
    <3> QED
      BY <2>3, <3>3, <3>4, <3>5, BoundsAssumption DEF EntryOK
  <2>6. ASSUME ModifyUntrack(w) \/ UntrackOne(w) \/ WalkUntrack(w) \/ CleanUp(w)
        PROVE  FALSE
    BY <1>0, <1>moves, <2>6 DEF ModifyUntrack, UntrackOne, WalkUntrack, CleanUp, Untrack
  <2>7. ~RollbackReconcile(w)
    BY <1>0 DEF RollbackReconcile, At, TaskOK
  <2> QED
    BY <1>moves, <2>1, <2>4, <2>5, <2>6, <2>7 DEF Bookless, FailItem, FinishBatch, CancelAll,
       ModifyOrder, BulkSubmit
<1> QED
  BY <1>stays, <1>moves

LEMMA AccountedStep ==
  ASSUME Plainly, IInv, Sound, NEW w \in Workers, Step(w), NEW o \in OrderIds
  PROVE  Accounted(o)'
<1>0. BookTyped /\ BookTyped' /\ Balance /\ Balance' /\ BookShrinks /\ Accounted(o)
  BY BookEffect DEF IInv, TypeOK, BookTyped, Sound
<1> SUFFICES ASSUME book'[o] > 0 PROVE book'[o] + done'[o] = asked'[o]
  BY DEF Accounted
<1>1. CASE o < nextId
  <2>1. book[o] > 0 /\ asked'[o] = asked[o]
    BY <1>0, <1>1, BoundsAssumption DEF BookShrinks, BookTyped
  <2>2. book'[o] + done'[o] = book[o] + done[o]
    BY <1>0, <1>1, BookLost, BoundsAssumption DEF TakeOff, BookTyped
  <2> QED
    BY <1>0, <2>1, <2>2 DEF Accounted
<1>2. CASE ~(o < nextId)
  <2>1. o < nextId'
    BY <1>0, BoundsAssumption DEF Balance, BookTyped, OrderIds
  <2>2. nextId' # nextId
    BY <1>2, <2>1
  <2>3. nextId' = nextId + 1
    BY <2>2, Births
  <2>4. o = nextId
    BY <1>0, <1>2, <2>1, <2>3, BoundsAssumption DEF BookTyped, OrderIds
  <2>5. Submits(w)
    <3>1. ~Cancels(w)
      BY <2>2, CancelTakesOff DEF TakesOff, TakeOff, bookVars
    <3> QED
      BY <2>2, <3>1, StepKinds DEF Markets, SubmitMarketOrder, bookVars, Bookless, Track,
         Reconcile, ModifyUntrack, FailItem, FinishBatch, RollbackReconcile, UntrackOne,
         WalkUntrack, CancelAll, CleanUp, ModifyOrder, BulkSubmit
  <2> QED
    BY <2>2, <2>4, <2>5, SubmitEffect DEF Newborn, Plainly, bookVars
<1> QED
  BY <1>1, <1>2

LEMMA SoundHolds ==
  ASSUME Plainly
  PROVE  Spec => []Sound
<1>1. Init => Sound
  BY DEF Init, Sound, EntryOK, Accounted, TaskOK, NoJob
<1>2. IInv /\ Sound /\ [Next]_vars => Sound'
  <2> SUFFICES ASSUME IInv, Sound, [Next]_vars PROVE Sound'
    OBVIOUS
  <2>1. CASE UNCHANGED vars
    BY <2>1 DEF vars, bookVars, Sound, EntryOK, Accounted, TaskOK, Leaving
  <2>2. ASSUME NEW w \in Workers, Step(w) PROVE Sound'
    <3>1. \A v \in Workers : v = w
      BY DEF Plainly, OneAtATime
    <3>2. TaskOK(w)' /\ \A o \in OrderIds : EntryOK(o)' /\ Accounted(o)'
      BY <2>2, TaskStep, EntryStep, AccountedStep
    <3> QED
      BY <3>1, <3>2 DEF Sound
  <2> QED
    BY <2>1, <2>2 DEF Next, Step
<1> QED
  BY <1>1, <1>2, InvHolds, PTL DEF Spec

\* While requests are served one at a time, and clients neither place
\* immediate-or-cancel orders nor submit atomic batches, what an entry reports as
\* filled was executed: cancel_order takes an order that does not rest for
\* filled, and it is, for nothing else takes an order off the book and leaves its
\* entry behind.
THEOREM FillsWereExecuted ==
  ASSUME Plainly
  PROVE  Spec => []FillsHappened
<1>1. IInv /\ Sound => FillsHappened
  BY DEF IInv, Sound, EntryOK, FillsHappened, GetOrderStatus
<1> QED
  BY <1>1, InvHolds, SoundHolds, PTL

\* Under the same conditions an entry that is open between two requests belongs to
\* an order that rests, or that was executed whole: no cancellation is shown as
\* an open order (cancel_order, modify_order, bulk_cancel_orders,
\* cancel_all_orders).
THEOREM OpenEntriesAreAlive ==
  ASSUME Plainly
  PROVE  Spec => []OpenIsAlive
<1>1. IInv /\ Sound => OpenIsAlive
  <2> SUFFICES ASSUME IInv, Sound, Quiet, NEW o \in ListOrders(Sides, Open)
               PROVE  book[o] > 0 \/ done[o] = asked[o]
    BY DEF OpenIsAlive
  <2>1. o \in OrderIds /\ orders[o] # NoEntry
    BY DEF ListOrders, Tracked
  <2>2. ~Leaving(o)
    BY DEF Leaving, Quiet, At
  <2>3. book[o] \in 0 .. Size
    BY <2>1 DEF IInv, TypeOK
  <2> QED
    BY <2>1, <2>2, <2>3, BoundsAssumption DEF Sound, EntryOK
<1> QED
  BY <1>1, InvHolds, SoundHolds, PTL
=============================================================================
