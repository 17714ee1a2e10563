-------------------------- MODULE MarketMakerProofs --------------------------
(***************************************************************************)
(* What TLAPS proves of the quoting engine, for any underlyings,           *)
(* instruments, orders and contracts: first for any number of threads, then*)
(* for one.                                                                *)
(***************************************************************************)
EXTENDS MarketMaker, FiniteSetTheorems, TLAPS

LEMMA ConstantsOK ==
  /\ NoJob \in JobType
  /\ NoPurge \in PurgeType
  /\ NoHit \in HitType
  BY SymbolOfAssumption, BoundsAssumption
     DEF NoJob, NoPurge, NoHit, JobType, PurgeType, HitType, EmptySlots, Legs,
         NoOrder, NoPrice

LEMMA LotsAreFinite ==
  ASSUME NEW lot \in SUBSET Contracts
  PROVE  IsFiniteSet(lot) /\ Cardinality(lot) \in Nat
<1>1. IsFiniteSet(Contracts)
  BY SizeAssumption, FS_Interval DEF Contracts
<1>2. QED
  BY <1>1, FS_Subset, FS_CardinalityType

LEMMA TypeInit == Init => TypeOK
  BY ConstantsOK, SymbolOfAssumption, SizeAssumption, BoundsAssumption
     DEF Init, TypeOK, EmptySlots, Labels, NoOrder, NoPrice

\* The types of MarketMaker hold in every state (engine.rs and the books).
THEOREM TypeCorrect == Spec => []TypeOK
<1>1. Init => TypeOK
  BY TypeInit
<1>2. TypeOK /\ [Next]_vars => TypeOK'
  <2> SUFFICES ASSUME TypeOK, [Next]_vars PROVE TypeOK'
    OBVIOUS
  <2> USE ConstantsOK, SymbolOfAssumption, SizeAssumption, BoundsAssumption, PricesAssumption
      DEF TypeOK, Labels, At, Goto, Begin, SetJob, SetPurge, SetHit, engineVars, bookVars, locals
  <2>1. ASSUME NEW w \in Workers, NEW s \in Symbols, NEW p \in Prices, UpdatePrice(w, s, p) PROVE TypeOK'
    <3>1. job[w] \in JobType
      OBVIOUS
    <3>2. [job[w] EXCEPT !.sym = s] \in JobType
      BY <3>1 DEF JobType
    <3>3. job' \in [Workers -> JobType]
      BY <2>1, <3>2 DEF UpdatePrice
    <3>4. QED
      BY <2>1, <3>3 DEF UpdatePrice
  <2>2. ASSUME NEW w \in Workers, GateEnabled(w) PROVE TypeOK'
    BY <2>2 DEF GateEnabled
  <2>3. ASSUME NEW w \in Workers, GateSymbol(w) PROVE TypeOK'
    BY <2>3 DEF GateSymbol
  <2>4. ASSUME NEW w \in Workers, SetParameter(w) PROVE TypeOK'
    <3>0. job[w] \in JobType
      OBVIOUS
    <3>a. {SymbolOf[i] : i \in open} \in SUBSET Symbols
      OBVIOUS
    <3>1. [job[w] EXCEPT !.syms = {SymbolOf[i] : i \in open}] \in JobType
      BY <3>0, <3>a DEF JobType
    <3>2. job' \in [Workers -> JobType]
      BY <3>1, <2>4 DEF SetParameter
    <3>3. QED
      BY <3>2, <2>4 DEF SetParameter
  <2>5. ASSUME NEW w \in Workers, NextSymbol(w) PROVE TypeOK'
    <3>0. job[w] \in JobType
      OBVIOUS
    <3>1. ASSUME NEW s \in job[w].syms
          PROVE  [job[w] EXCEPT !.sym = s, !.syms = @ \ {s}] \in JobType
      BY <3>0 DEF JobType
    <3>2. job' \in [Workers -> JobType]
      BY <3>1, <2>5 DEF NextSymbol
    <3>3. pc' \in [Workers -> Labels]
      BY <2>5 DEF NextSymbol
    <3>4. QED
      BY <3>2, <3>3, <2>5 DEF NextSymbol
  <2>6. ASSUME NEW w \in Workers, StartRequote(w) PROVE TypeOK'
    <3>0. job[w] \in JobType
      OBVIOUS
    <3>1. prices[job[w].sym] \in Prices \cup {NoPrice}
      BY <3>0 DEF JobType
    <3>2. [job[w] EXCEPT !.spot = prices[job[w].sym], !.todo = Of(job[w].sym) \cap open] \in JobType
      BY <3>0, <3>1 DEF JobType
    <3>3. job' \in [Workers -> JobType]
      BY <3>2, <2>6 DEF StartRequote
    <3>4. pc' \in [Workers -> Labels]
      BY <2>6 DEF StartRequote
    <3>5. QED
      BY <3>3, <3>4, <2>6 DEF StartRequote
  <2>7. ASSUME NEW w \in Workers, NextInstrument(w) PROVE TypeOK'
    <3>0. job[w] \in JobType
      OBVIOUS
    <3>1. ASSUME NEW i \in job[w].todo
          PROVE  /\ [job[w] EXCEPT !.todo = @ \ {i}, !.inst = i, !.gen = gen[i]] \in JobType
                 /\ [job[w] EXCEPT !.todo = @ \ {i}] \in JobType
      BY <3>0 DEF JobType
    <3>2. job' \in [Workers -> JobType]
      <4>1. \/ UNCHANGED job
            \/ \E i \in job[w].todo :
                 \/ job' = [job EXCEPT ![w] = [job[w] EXCEPT !.todo = @ \ {i}, !.inst = i,
                                                            !.gen = gen[i]]]
                 \/ job' = [job EXCEPT ![w] = [job[w] EXCEPT !.todo = @ \ {i}]]
        BY <2>7 DEF NextInstrument
      <4>2. QED
        BY <3>1, <4>1
    <3>3. pc' \in [Workers -> Labels]
      BY <2>7 DEF NextInstrument
    <3>4. QED
      BY <3>2, <3>3, <2>7 DEF NextInstrument
  <2>8. ASSUME NEW w \in Workers, ReadStale(w) PROVE TypeOK'
    <3>1. job[w] \in JobType /\ job[w].inst \in Instruments
      BY DEF JobType
    <3>2. index[job[w].inst] \in [Legs -> OrderIds \cup {NoOrder}]
      BY <3>1
    <3>3. EmptySlots \in [Legs -> OrderIds \cup {NoOrder}]
      BY DEF EmptySlots
    <3>4. [job[w] EXCEPT !.stale = index[job[w].inst], !.leg = "bid",
                         !.placed = EmptySlots] \in JobType
      BY <3>1, <3>2, <3>3 DEF JobType, Legs
    <3>5. job' \in [Workers -> JobType]
      BY <2>8, <3>4 DEF ReadStale
    <3>6. QED
      BY <2>8, <3>5 DEF ReadStale, AfterRead
  <2>9. ASSUME NEW w \in Workers, CancelStale(w) PROVE TypeOK'
    BY <2>9 DEF CancelStale, Contracts
  <2>10. ASSUME NEW w \in Workers, PruneActive(w) PROVE TypeOK'
    BY <2>10 DEF PruneActive
  <2>11. ASSUME NEW w \in Workers, PruneIndex(w) PROVE TypeOK'
    BY <2>11 DEF PruneIndex, EmptySlots, NoOrder
  <2>12. ASSUME NEW w \in Workers, AddLeg(w) PROVE TypeOK'
    <3>0. job[w] \in JobType
      OBVIOUS
    <3>1. /\ [job[w] EXCEPT !.leg = "ask"] \in JobType
          /\ \A o \in OrderIds : [job[w] EXCEPT !.fresh = o] \in JobType
      BY <3>0 DEF JobType, Legs
    <3>2. job' \in [Workers -> JobType]
      <4>1. \/ \E o \in OrderIds : SetJob(w, [job[w] EXCEPT !.fresh = o])
            \/ SetJob(w, [job[w] EXCEPT !.leg = "ask"])
        BY <2>12 DEF AddLeg
      <4>2. QED
        BY <3>1, <4>1
    <3>3. [inst |-> job[w].inst, leg |-> job[w].leg,
           spot |-> job[w].spot, gen |-> job[w].gen] \in OrderInfo
      BY <3>0 DEF JobType, OrderInfo
    <3>4. info' \in [OrderIds -> OrderInfo \cup {NoInfo}] /\ nextId' \in 1 .. MaxOrders + 1
      <4>1. CASE UNCHANGED <<info, nextId>>
        BY <4>1
      <4>2. CASE /\ nextId \in OrderIds
                 /\ info' = [info EXCEPT ![nextId] =
                      [inst |-> job[w].inst, leg |-> job[w].leg,
                       spot |-> job[w].spot, gen |-> job[w].gen]]
                 /\ nextId' = nextId + 1
        BY <3>3, <4>2 DEF OrderIds
      <4>3. QED
        BY <4>1, <4>2, <2>12 DEF AddLeg
    <3>5. book' \in [OrderIds -> SUBSET Contracts]
      <4>1. \A n \in 0 .. Size : 1 .. n \in SUBSET Contracts
        BY DEF Contracts
      <4>2. \/ UNCHANGED book
            \/ \E n \in 0 .. Size : book' = [book EXCEPT ![nextId] = 1 .. n]
        BY <2>12 DEF AddLeg
      <4>3. QED
        BY <4>1, <4>2
    <3>6. pc' \in [Workers -> Labels]
      BY <2>12 DEF AddLeg, AfterLeg
    <3>7. QED
      BY <3>2, <3>4, <3>5, <3>6, <2>12 DEF AddLeg
  <2>13. ASSUME NEW w \in Workers, TrackLeg(w) PROVE TypeOK'
    <3>0. job[w] \in JobType
      OBVIOUS
    <3>1. [job[w] EXCEPT !.placed[job[w].leg] = job[w].fresh,
                         !.fresh = NoOrder, !.leg = "ask"] \in JobType
      <4>1. job[w].placed \in [Legs -> OrderIds \cup {NoOrder}]
            /\ job[w].fresh \in OrderIds \cup {NoOrder}
        BY <3>0 DEF JobType
      <4>2. [job[w].placed EXCEPT ![job[w].leg] = job[w].fresh]
              \in [Legs -> OrderIds \cup {NoOrder}]
        BY <4>1
      <4>3. QED
        BY <3>0, <4>2 DEF JobType, Legs
    <3>2. job' \in [Workers -> JobType]
      BY <3>1, <2>13 DEF TrackLeg
    <3>3. active' \in [OrderIds -> 0 .. Size]
      <4>1. Size \in 0 .. Size
        OBVIOUS
      <4>2. QED
        BY <4>1, <2>13 DEF TrackLeg, TrackedQuantity
    <3>4. pc' \in [Workers -> Labels]
      BY <2>13 DEF TrackLeg, AfterLeg
    <3>5. QED
      BY <3>2, <3>3, <3>4, <2>13 DEF TrackLeg
  <2>14. ASSUME NEW w \in Workers, RecordLegs(w) PROVE TypeOK'
    <3>1. job[w] \in JobType /\ job[w].inst \in Instruments
          /\ job[w].placed \in [Legs -> OrderIds \cup {NoOrder}]
      BY DEF JobType
    <3>2. EmptySlots \in [Legs -> OrderIds \cup {NoOrder}]
      BY DEF EmptySlots
    <3>3. [job[w] EXCEPT !.stale = EmptySlots, !.placed = EmptySlots, !.leg = "bid"] \in JobType
      BY <3>1, <3>2 DEF JobType, Legs
    <3>4. job' \in [Workers -> JobType]
      BY <2>14, <3>3 DEF RecordLegs
    <3>5. index' \in [Instruments -> [Legs -> OrderIds \cup {NoOrder}]]
      BY <2>14, <3>1 DEF RecordLegs, Recorded
    <3>6. QED
      BY <2>14, <3>4, <3>5 DEF RecordLegs
  <2>15. ASSUME NEW w \in Workers, NEW v \in BOOLEAN, SetEnabled(w, v) PROVE TypeOK'
    <3>0. purge[w] \in PurgeType
      OBVIOUS
    <3>1. [purge[w] EXCEPT !.all = TRUE] \in PurgeType
      BY <3>0 DEF PurgeType
    <3>2. purge' \in [Workers -> PurgeType] /\ pc' \in [Workers -> Labels]
      BY <3>1, <2>15 DEF SetEnabled
    <3>3. QED
      BY <3>2, <2>15 DEF SetEnabled
  <2>16. ASSUME NEW w \in Workers, NEW s \in Symbols, NEW v \in BOOLEAN, SetSymbolEnabled(w, s, v) PROVE TypeOK'
    <3>0. job[w] \in JobType
      OBVIOUS
    <3>1. [job[w] EXCEPT !.sym = s] \in JobType
      BY <3>0 DEF JobType
    <3>2. job' \in [Workers -> JobType] /\ pc' \in [Workers -> Labels]
      BY <3>1, <2>16 DEF SetSymbolEnabled
    <3>3. QED
      BY <3>2, <2>16 DEF SetSymbolEnabled
  <2>17. ASSUME NEW w \in Workers, SnapshotOrders(w) PROVE TypeOK'
    BY <2>17 DEF SnapshotOrders, PurgeType, VictimsOf
  <2>18. ASSUME NEW w \in Workers, NextVictim(w) PROVE TypeOK'
    <3>0. purge[w] \in PurgeType
      OBVIOUS
    <3>1. ASSUME NEW o \in purge[w].victims
          PROVE  /\ [purge[w] EXCEPT !.victims = @ \ {o}, !.order = o] \in PurgeType
                 /\ [purge[w] EXCEPT !.victims = @ \ {o}] \in PurgeType
      BY <3>0 DEF PurgeType
    <3>2. purge' \in [Workers -> PurgeType]
      <4>1. \/ UNCHANGED purge
            \/ SetPurge(w, NoPurge)
            \/ \E o \in purge[w].victims :
                 \/ SetPurge(w, [purge[w] EXCEPT !.victims = @ \ {o}, !.order = o])
                 \/ SetPurge(w, [purge[w] EXCEPT !.victims = @ \ {o}])
        BY <2>18 DEF NextVictim
      <4>2. QED
        BY <3>1, <4>1
    <3>3. job' \in [Workers -> JobType]
      BY <2>18 DEF NextVictim
    <3>4. active' \in [OrderIds -> 0 .. Size]
      <4>1. UNCHANGED active \/ \E o \in purge[w].victims : active' = [active EXCEPT ![o] = 0]
        BY <2>18 DEF NextVictim
      <4>2. QED
        BY <4>1
    <3>5. pc' \in [Workers -> Labels]
      BY <2>18 DEF NextVictim
    <3>6. QED
      BY <3>2, <3>3, <3>4, <3>5, <2>18 DEF NextVictim
  <2>19. ASSUME NEW w \in Workers, ClearVictimSlot(w) PROVE TypeOK'
    BY <2>19 DEF ClearVictimSlot, ClearSlot, NoOrder
  <2>20. ASSUME NEW w \in Workers, CancelVictim(w) PROVE TypeOK'
    BY <2>20 DEF CancelVictim, PurgeType, NoOrder
  <2>21. ASSUME NEW w \in Workers, ClearIndex(w) PROVE TypeOK'
    BY <2>21 DEF ClearIndex, EmptySlots, NoOrder
  <2>22. ASSUME NEW w \in Workers, Match(w) PROVE TypeOK'
    <3>1. PICK o \in OrderIds, lot \in SUBSET Contracts :
            /\ book' = [book EXCEPT ![o] = @ \ lot]
            /\ \/ SetHit(w, [order |-> o, lot |-> lot]) /\ Goto(w, "report")
               \/ UNCHANGED <<hit, pc>>
      BY <2>22 DEF Match
    <3>2. [order |-> o, lot |-> lot] \in HitType
      BY <3>1 DEF HitType
    <3>3. hit' \in [Workers -> HitType] /\ pc' \in [Workers -> Labels]
      BY <3>1, <3>2
    <3>4. book' \in [OrderIds -> SUBSET Contracts]
      BY <3>1
    <3>5. QED
      BY <3>3, <3>4, <2>22 DEF Match
  <2>23. ASSUME NEW w \in Workers, ReportFill(w) PROVE TypeOK'
    <3>0. hit[w] \in HitType
      OBVIOUS
    <3>1. /\ hit[w].lot \in SUBSET Contracts
          /\ [hit[w] EXCEPT !.lot = {}] \in HitType
      BY <3>0 DEF HitType
    <3>2. hit' \in [Workers -> HitType] /\ pc' \in [Workers -> Labels]
      BY <3>1, <2>23 DEF ReportFill
    <3>3. Cardinality(hit[w].lot) \in Nat
      BY <3>1, LotsAreFinite
    <3>4. active' \in [OrderIds -> 0 .. Size]
      <4>1. \A q \in 0 .. Size, n \in Nat : Remaining(q, n) \in 0 .. Size
        BY DEF Remaining
      <4>2. QED
        BY <3>3, <4>1, <2>23 DEF ReportFill
    <3>5. QED
      BY <3>2, <3>4, <2>23 DEF ReportFill
  <2>24. ASSUME NEW w \in Workers, ClearFilledSlot(w) PROVE TypeOK'
    BY <2>24 DEF ClearFilledSlot, ClearSlot, NoOrder
  <2>25. ASSUME NEW w \in Workers, NEW i \in Instruments, CreateBook(w, i) PROVE TypeOK'
    BY <2>25 DEF CreateBook
  <2>26. ASSUME NEW w \in Workers, NEW s \in Symbols, DeleteUnderlying(w, s) PROVE TypeOK'
    BY <2>26 DEF DeleteUnderlying
  <2>27. CASE UNCHANGED vars
    BY <2>27 DEF vars
  <2>28. QED
    BY <2>1, <2>2, <2>3, <2>4, <2>5, <2>6, <2>7, <2>8, <2>9, <2>10, <2>11, <2>12, <2>13, <2>14, <2>15, <2>16, <2>17, <2>18, <2>19, <2>20, <2>21, <2>22, <2>23, <2>24, <2>25, <2>26, <2>27 DEF Next, Call, Continue
<1>3. QED
  BY <1>1, <1>2, PTL DEF Spec

-----------------------------------------------------------------------------
(***************************************************************************)
(* No quote is out of reach, as long as no underlying is deleted.          *)
(*                                                                         *)
(* NoOrphanQuote alone is not inductive.  A requote forgets its stale ids  *)
(* because it cancelled them before: StaleIsGone.  A fill forgets an order *)
(* because the tracked quantity covers what is left of it, which needs the *)
(* lots of unreported fills to be disjoint: LotsApart, Covered.  And ids   *)
(* that were never used are nowhere: UsedIds.                              *)
(***************************************************************************)
Used(o) == o < nextId

BooksStay ==
  /\ open = Instruments
  /\ \A i \in Instruments : gen[i] = 0
  /\ \A o \in OrderIds : Used(o) => info[o] # NoInfo /\ info[o].gen = 0
  /\ \A w \in Workers : job[w].gen = 0

UsedInBooks ==
  /\ \A o \in OrderIds : active[o] > 0 \/ book[o] # {} => Used(o)
  /\ \A i \in Instruments, l \in Legs : Used(index[i][l])

UsedInJobs ==
  \A w \in Workers :
    /\ Used(job[w].fresh)
    /\ \A l \in Legs : Used(job[w].stale[l]) /\ Used(job[w].placed[l])

UsedInLocals ==
  \A w \in Workers : Used(purge[w].order) /\ Used(hit[w].order)

UsedIds == UsedInBooks /\ UsedInJobs /\ UsedInLocals

StaleIsGone ==
  \A w \in Workers : At(w, "prune_active") =>
    \A o \in OrderIds : o \in StaleOf(w) => book[o] = {}

LotsApart ==
  \A w \in Workers :
    /\ \A o \in OrderIds : hit[w].order = o => book[o] \cap hit[w].lot = {}
    /\ \A v \in Workers \ {w} :
         hit[v].order = hit[w].order => hit[v].lot \cap hit[w].lot = {}

Covered == TrackedCoversOutstanding

Reachable ==
  \A o \in OrderIds :
    book[o] # {} => active[o] > 0 \/ BeingTracked(o) \/ BeingCancelled(o)

IInv == TypeOK /\ BooksStay /\ UsedIds /\ StaleIsGone /\ LotsApart /\ Covered /\ Reachable

\* A requote's locals after a step name no order they did not name before.
KeepsOrders(j, k) ==
  /\ k.fresh \in {j.fresh, NoOrder}
  /\ \A l \in Legs : /\ k.stale[l] \in {j.stale[l], NoOrder}
                     /\ k.placed[l] \in {j.placed[l], NoOrder}

\* The updates of a requote's locals that keep its orders.
LEMMA JobUpdates ==
  ASSUME NEW j \in JobType, NEW s, NEW a, NEW b, NEW c
  PROVE  /\ KeepsOrders(j, j)
         /\ KeepsOrders(j, NoJob)
         /\ KeepsOrders(j, [j EXCEPT !.sym = s])
         /\ KeepsOrders(j, [j EXCEPT !.syms = s])
         /\ KeepsOrders(j, [j EXCEPT !.sym = s, !.syms = @ \ {a}])
         /\ KeepsOrders(j, [j EXCEPT !.spot = a, !.todo = b])
         /\ KeepsOrders(j, [j EXCEPT !.todo = @ \ {a}])
         /\ KeepsOrders(j, [j EXCEPT !.todo = @ \ {a}, !.inst = b, !.gen = c])
         /\ KeepsOrders(j, [j EXCEPT !.stale = EmptySlots, !.placed = EmptySlots,
                                     !.leg = "bid"])
         /\ KeepsOrders(j, [j EXCEPT !.leg = "ask"])
  BY DEF JobType, KeepsOrders, NoJob, EmptySlots
\* The steps after which no requote names an order it did not name before.
KeepsJob(w) ==
  \/ \E s \in Symbols, p \in Prices : UpdatePrice(w, s, p)
  \/ GateEnabled(w) \/ GateSymbol(w) \/ SetParameter(w)
  \/ NextSymbol(w) \/ StartRequote(w) \/ NextInstrument(w) \/ RecordLegs(w)
  \/ \E s \in Symbols, v \in BOOLEAN : SetSymbolEnabled(w, s, v)
  \/ NextVictim(w)

\* Those steps keep the orders of every requote, and touch one requote only.
LEMMA JobKeeps ==
  ASSUME TypeOK, NEW w \in Workers, KeepsJob(w)
  PROVE  /\ \A v \in Workers : KeepsOrders(job[v], job'[v])
         /\ \A v \in Workers \ {w} : job'[v] = job[v]
<1>1. \A v \in Workers : KeepsOrders(job[v], job[v])
  BY JobUpdates DEF TypeOK
<1>2. job[w] \in JobType /\ job \in [Workers -> JobType]
  BY DEF TypeOK
<1>3. \E k : /\ KeepsOrders(job[w], k) 
             /\ SetJob(w, k) \/ UNCHANGED job
  <2>1. CASE \E s \in Symbols, p \in Prices : UpdatePrice(w, s, p)
    BY <2>1, <1>2, JobUpdates DEF UpdatePrice
  <2>2. CASE GateEnabled(w) \/ GateSymbol(w)
    BY <2>2, <1>1, <1>2, JobUpdates DEF GateEnabled, GateSymbol
  <2>3. CASE SetParameter(w)
    BY <2>3, <1>2, JobUpdates DEF SetParameter
  <2>4. CASE NextSymbol(w)
    BY <2>4, <1>2, JobUpdates DEF NextSymbol
  <2>5. CASE StartRequote(w)
    BY <2>5, <1>1, <1>2, JobUpdates DEF StartRequote
  <2>6. CASE NextInstrument(w)
    BY <2>6, <1>1, <1>2, JobUpdates DEF NextInstrument
  <2>7. CASE RecordLegs(w)
    BY <2>7, <1>2, JobUpdates DEF RecordLegs
  <2>8. CASE \E s \in Symbols, v \in BOOLEAN : SetSymbolEnabled(w, s, v)
    BY <2>8, <1>1, <1>2, JobUpdates DEF SetSymbolEnabled
  <2>9. CASE NextVictim(w)
    BY <2>9, <1>1, <1>2, JobUpdates DEF NextVictim
  <2>10. QED
    BY <2>1, <2>2, <2>3, <2>4, <2>5, <2>6, <2>7, <2>8, <2>9 DEF KeepsJob
<1>4. QED
  BY <1>1, <1>2, <1>3 DEF SetJob
\* Those steps leave the books and the fills alone, and none of them leads to a
\* label at which the invariant says something of the worker.
LEMMA KeepsBooks ==
  ASSUME TypeOK, NEW w \in Workers, KeepsJob(w)
  PROVE  /\ UNCHANGED <<info, nextId, book, open, gen, hit>>
         /\ \A v \in Workers \ {w} : pc'[v] = pc[v]
         /\ pc'[w] \in Labels \ {"prune_active", "track", "cancel_victim", "report"}
<1>1. pc \in [Workers -> Labels]
  BY DEF TypeOK
<1>2. CASE \E s \in Symbols, p \in Prices : UpdatePrice(w, s, p)
  BY <1>1, <1>2 DEF UpdatePrice, Goto, Labels, bookVars
<1>3. CASE GateEnabled(w) \/ GateSymbol(w) \/ SetParameter(w)
  BY <1>1, <1>3 DEF GateEnabled, GateSymbol, SetParameter, Goto, Labels, bookVars
<1>4. CASE NextSymbol(w)
  BY <1>1, <1>4 DEF NextSymbol, At, Goto, Labels, bookVars
<1>5. CASE StartRequote(w)
  BY <1>1, <1>5 DEF StartRequote, Goto, Labels, bookVars
<1>6. CASE NextInstrument(w)
  BY <1>1, <1>6 DEF NextInstrument, At, Goto, Labels, bookVars
<1>7. CASE RecordLegs(w)
  BY <1>1, <1>7 DEF RecordLegs, Goto, Labels, bookVars
<1>8. CASE \E s \in Symbols, v \in BOOLEAN : SetSymbolEnabled(w, s, v)
  BY <1>1, <1>8 DEF SetSymbolEnabled, Begin, At, Goto, Labels, bookVars
<1>9. CASE NextVictim(w)
  BY <1>1, <1>9 DEF NextVictim, At, Goto, Labels, bookVars
<1>10. QED
  BY <1>2, <1>3, <1>4, <1>5, <1>6, <1>7, <1>8, <1>9 DEF KeepsJob

\* The book accepts the order of a leg, or refuses it.
Accepted(w) ==
  /\ nextId \in OrderIds
  /\ \E n \in 0 .. Size : book' = [book EXCEPT ![nextId] = 1 .. n]
  /\ info' = [info EXCEPT ![nextId] = [inst |-> job[w].inst, leg |-> job[w].leg,
                                      spot |-> job[w].spot, gen |-> job[w].gen]]
  /\ nextId' = nextId + 1
  /\ job'[w].fresh = nextId
  /\ pc' = [pc EXCEPT ![w] = "track"]

Refused(w) ==
  /\ UNCHANGED <<book, info, nextId>>
  /\ job'[w].fresh = job[w].fresh
  /\ \E label \in {"add", "record"} : pc' = [pc EXCEPT ![w] = label]

LEMMA AddLegCases ==
  ASSUME TypeOK, NEW w \in Workers, AddLeg(w)
  PROVE  /\ Accepted(w) \/ Refused(w)
         /\ \A v \in Workers \ {w} : job'[v] = job[v]
         /\ /\ job'[w].gen = job[w].gen
            /\ job'[w].stale = job[w].stale
            /\ job'[w].placed = job[w].placed
         /\ UNCHANGED <<active, index, open, gen, purge, hit>>
<1>1. job[w] \in JobType /\ job \in [Workers -> JobType]
  BY DEF TypeOK
<1>2. \A o : LET j == [job[w] EXCEPT !.fresh = o]
             IN  j.fresh = o /\ j.gen = job[w].gen /\ j.stale = job[w].stale
                             /\ j.placed = job[w].placed
  BY <1>1 DEF JobType
<1>3. LET j == [job[w] EXCEPT !.leg = "ask"]
      IN  j.fresh = job[w].fresh /\ j.gen = job[w].gen /\ j.stale = job[w].stale
                                 /\ j.placed = job[w].placed
  BY <1>1 DEF JobType
<1>4. CASE UNCHANGED <<book, info, nextId>> /\ SetJob(w, [job[w] EXCEPT !.leg = "ask"])
           /\ Goto(w, AfterLeg(w))
  BY <1>1, <1>3, <1>4 DEF AddLeg, Refused, SetJob, Goto, AfterLeg
<1>5. CASE /\ nextId \in OrderIds
           /\ \E n \in 0 .. Size : book' = [book EXCEPT ![nextId] = 1 .. n]
           /\ info' = [info EXCEPT ![nextId] =
                         [inst |-> job[w].inst, leg |-> job[w].leg,
                          spot |-> job[w].spot, gen |-> job[w].gen]]
           /\ nextId' = nextId + 1
           /\ SetJob(w, [job[w] EXCEPT !.fresh = nextId])
           /\ Goto(w, "track")
  <2>1. job'[w] = [job[w] EXCEPT !.fresh = nextId] /\ \A v \in Workers \ {w} : job'[v] = job[v]
    BY <1>1, <1>5 DEF SetJob
  <2>2. UNCHANGED <<active, index, open, gen, purge, hit>>
    BY DEF AddLeg
  <2>3. Accepted(w)
    BY <1>2, <1>5, <2>1 DEF Accepted, Goto
  <2>4. QED
    BY <1>2, <2>1, <2>2, <2>3
<1>6. QED
  BY <1>4, <1>5 DEF AddLeg

\* What the steps of KeepsJob do to the engine's tracking: only cancel_order
\* takes an order out of active_orders, only the end of a requote writes the
\* index, and only NextVictim goes on to another order.
LEMMA NextVictimCases ==
  ASSUME TypeOK, NEW w \in Workers, NextVictim(w)
  PROVE  /\ \A v \in Workers : \/ purge'[v].order = purge[v].order
                             \/ purge'[v].order = NoOrder
                             \/ /\ purge'[v].order \in OrderIds
                                /\ active[purge'[v].order] > 0
         /\ \A o \in OrderIds : \/ active'[o] = active[o]
                              \/ /\ active'[o] = 0 /\ active[o] > 0
                                 /\ purge'[w].order = o /\ pc'[w] = "clear_slot"
         /\ \A v \in Workers \ {w} : purge'[v] = purge[v]
         /\ UNCHANGED index
<1>1. /\ purge[w] \in PurgeType /\ purge \in [Workers -> PurgeType]
      /\ active \in [OrderIds -> 0 .. Size] /\ pc \in [Workers -> Labels]
  BY DEF TypeOK
<1>2. UNCHANGED index
  BY DEF NextVictim
<1>3. CASE /\ purge[w].victims = {}
           /\ UNCHANGED active
           /\ UNCHANGED purge \/ SetPurge(w, NoPurge)
  BY <1>1, <1>2, <1>3 DEF SetPurge, NoPurge
<1>4. CASE \E o \in purge[w].victims :
             /\ active' = [active EXCEPT ![o] = 0]
             /\ IF active[o] > 0
                THEN /\ SetPurge(w, [purge[w] EXCEPT !.victims = @ \ {o}, !.order = o])
                     /\ Goto(w, "clear_slot")
                ELSE SetPurge(w, [purge[w] EXCEPT !.victims = @ \ {o}])
  <2>1. PICK o \in purge[w].victims :
             /\ active' = [active EXCEPT ![o] = 0]
             /\ IF active[o] > 0
                THEN /\ SetPurge(w, [purge[w] EXCEPT !.victims = @ \ {o}, !.order = o])
                     /\ Goto(w, "clear_slot")
                ELSE SetPurge(w, [purge[w] EXCEPT !.victims = @ \ {o}])
    BY <1>4
  <2>2. o \in OrderIds
    BY <1>1 DEF PurgeType
  <2>3. /\ [purge[w] EXCEPT !.victims = @ \ {o}, !.order = o].order = o
        /\ [purge[w] EXCEPT !.victims = @ \ {o}].order = purge[w].order
    BY <1>1 DEF PurgeType
  <2>4. CASE active[o] > 0
    <3>1. purge' = [purge EXCEPT ![w] = [purge[w] EXCEPT !.victims = @ \ {o}, !.order = o]]
          /\ pc' = [pc EXCEPT ![w] = "clear_slot"]
      BY <2>1, <2>4 DEF SetPurge, Goto
    <3>2. purge'[w].order = o /\ pc'[w] = "clear_slot"
          /\ \A v \in Workers \ {w} : purge'[v] = purge[v]
      BY <1>1, <2>3, <3>1
    <3>3. QED
      BY <1>1, <1>2, <2>1, <2>2, <2>4, <3>2
  <2>5. CASE ~ (active[o] > 0)
    <3>1. purge' = [purge EXCEPT ![w] = [purge[w] EXCEPT !.victims = @ \ {o}]]
      BY <2>1, <2>5 DEF SetPurge
    <3>2. purge'[w].order = purge[w].order
          /\ \A v \in Workers \ {w} : purge'[v] = purge[v]
      BY <1>1, <2>3, <3>1
    <3>3. active' = active
      BY <1>1, <2>1, <2>2, <2>5
    <3>4. QED
      BY <1>1, <1>2, <3>2, <3>3
  <2>6. QED
    BY <2>4, <2>5
<1>5. QED
  BY <1>3, <1>4 DEF NextVictim

LEMMA PurgeKeeps ==
  ASSUME NEW w \in Workers, KeepsJob(w), ~ NextVictim(w)
  PROVE  /\ UNCHANGED <<active, purge>>
         /\ pc[w] \in {"idle", "gate_enabled", "gate_symbol", "next_symbol", "start",
                       "next_instrument", "record"}
         /\ index' = index \/ index' = [index EXCEPT ![job[w].inst] = job[w].placed]
<1>1. CASE \E s \in Symbols, p \in Prices : UpdatePrice(w, s, p)
  BY <1>1 DEF UpdatePrice, Begin, At
<1>2. CASE GateEnabled(w) \/ GateSymbol(w) \/ SetParameter(w)
  BY <1>2 DEF GateEnabled, GateSymbol, SetParameter, Begin, At
<1>3. CASE NextSymbol(w) \/ StartRequote(w) \/ NextInstrument(w)
  BY <1>3 DEF NextSymbol, StartRequote, NextInstrument, At
<1>4. CASE RecordLegs(w)
  BY <1>4 DEF RecordLegs, Recorded, bookVars, At
<1>5. CASE \E s \in Symbols, v \in BOOLEAN : SetSymbolEnabled(w, s, v)
  BY <1>5 DEF SetSymbolEnabled, Begin, At
<1>6. QED
  BY <1>1, <1>2, <1>3, <1>4, <1>5 DEF KeepsJob

LEMMA TrackedShrinks ==
  ASSUME TypeOK, NEW w \in Workers, KeepsJob(w)
  PROVE  \A o \in OrderIds : active'[o] = active[o] \/ active'[o] = 0
BY NextVictimCases, PurgeKeeps

LEMMA IndexKeeps ==
  ASSUME TypeOK, NEW w \in Workers, KeepsJob(w)
  PROVE  index' = index \/ index' = [index EXCEPT ![job[w].inst] = job[w].placed]
BY NextVictimCases, PurgeKeeps

\* The types the step lemmas below rest on.
Typed ==
  /\ book \in [OrderIds -> SUBSET Contracts]
  /\ pc \in [Workers -> Labels]
  /\ job \in [Workers -> JobType]
  /\ purge \in [Workers -> PurgeType]
  /\ hit \in [Workers -> HitType]
  /\ active \in [OrderIds -> 0 .. Size]
  /\ nextId \in Nat

\* A requote resolves the book that is open when it starts on an instrument.
LEMMA GenKeeps ==
  ASSUME TypeOK, NEW w \in Workers, KeepsJob(w)
  PROVE  \A v \in Workers : job'[v].gen \in {job[v].gen, 0} \cup {gen[i] : i \in Instruments}
<1>1. job[w] \in JobType /\ job \in [Workers -> JobType]
  BY DEF TypeOK
<1>2. \/ UNCHANGED job
      \/ \E k : k.gen \in {job[w].gen, 0} \cup {gen[i] : i \in Instruments} /\ SetJob(w, k)
  BY <1>1 DEF KeepsJob, UpdatePrice, GateEnabled, GateSymbol, SetParameter, NextSymbol,
     StartRequote, NextInstrument, RecordLegs, SetSymbolEnabled, NextVictim, JobType, NoJob
<1>3. QED
  BY <1>1, <1>2 DEF SetJob

\* The books stay where they are as long as no underlying is deleted.
LEMMA BooksStayStep ==
  ASSUME "delete_underlying" \notin Ops, TypeOK, BooksStay, UsedIds, [Next]_vars
  PROVE  BooksStay'
<1> USE DEF TypeOK, BooksStay, Used, At, Goto, Begin, SetJob, SetPurge, SetHit,
   engineVars, bookVars, locals
<1>1. ASSUME NEW w \in Workers, KeepsJob(w)
      PROVE  BooksStay'
  BY <1>1, GenKeeps, KeepsBooks
<1>2. ASSUME NEW w \in Workers, ReadStale(w)
      PROVE  BooksStay'
  BY <1>2 DEF ReadStale, JobType
<1>3. ASSUME NEW w \in Workers, CancelStale(w)
      PROVE  BooksStay'
  BY <1>3 DEF CancelStale
<1>4. ASSUME NEW w \in Workers, PruneActive(w)
      PROVE  BooksStay'
  BY <1>4 DEF PruneActive
<1>5. ASSUME NEW w \in Workers, PruneIndex(w)
      PROVE  BooksStay'
  BY <1>5 DEF PruneIndex
<1>6. ASSUME NEW w \in Workers, AddLeg(w)
      PROVE  BooksStay'
  <2>1. \A v \in Workers : job'[v].gen = 0
    BY <1>6, AddLegCases
  <2>2. CASE Accepted(w)
    <3>1. info'[nextId] # NoInfo /\ info'[nextId].gen = 0
      <4> DEFINE r == [inst |-> job[w].inst, leg |-> job[w].leg,
                       spot |-> job[w].spot, gen |-> job[w].gen]
      <4>1. r \in OrderInfo /\ r.gen = 0
        BY DEF OrderInfo, JobType
      <4>2. r # NoInfo
        BY <4>1, NoInfoAssumption
      <4>3. info'[nextId] = r
        BY <2>2 DEF Accepted
      <4>4. QED
        BY <4>1, <4>2, <4>3
    <3>2. \A o \in OrderIds : o < nextId + 1 => o = nextId \/ o < nextId
      BY DEF OrderIds
    <3>3. \A o \in OrderIds \ {nextId} : info'[o] = info[o]
      BY <2>2 DEF Accepted
    <3>4. nextId' = nextId + 1
      BY <2>2 DEF Accepted
    <3>5. QED
      BY <2>1, <3>1, <3>2, <3>3, <3>4, <1>6, AddLegCases
  <2>3. CASE Refused(w)
    BY <1>6, <2>1, <2>3, AddLegCases DEF Refused
  <2>4. QED
    BY <1>6, <2>2, <2>3, AddLegCases
<1>7. ASSUME NEW w \in Workers, TrackLeg(w)
      PROVE  BooksStay'
  BY <1>7 DEF TrackLeg, JobType
<1>8. ASSUME NEW w \in Workers, NEW v \in BOOLEAN, SetEnabled(w, v)
      PROVE  BooksStay'
  BY <1>8 DEF SetEnabled
<1>9. ASSUME NEW w \in Workers, SnapshotOrders(w)
      PROVE  BooksStay'
  BY <1>9 DEF SnapshotOrders
<1>10. ASSUME NEW w \in Workers, ClearVictimSlot(w)
      PROVE  BooksStay'
  BY <1>10 DEF ClearVictimSlot
<1>11. ASSUME NEW w \in Workers, CancelVictim(w)
      PROVE  BooksStay'
  BY <1>11 DEF CancelVictim
<1>12. ASSUME NEW w \in Workers, ClearIndex(w)
      PROVE  BooksStay'
  BY <1>12 DEF ClearIndex
<1>13. ASSUME NEW w \in Workers, Match(w)
      PROVE  BooksStay'
  BY <1>13 DEF Match
<1>14. ASSUME NEW w \in Workers, ReportFill(w)
      PROVE  BooksStay'
  BY <1>14 DEF ReportFill
<1>15. ASSUME NEW w \in Workers, ClearFilledSlot(w)
      PROVE  BooksStay'
  BY <1>15 DEF ClearFilledSlot
<1>16. ASSUME NEW w \in Workers, NEW i \in Instruments, CreateBook(w, i)
      PROVE  BooksStay'
  BY <1>16 DEF CreateBook
<1>17. ASSUME NEW w \in Workers, NEW s \in Symbols, DeleteUnderlying(w, s)
      PROVE  BooksStay'
  BY <1>17 DEF DeleteUnderlying
<1>18. CASE UNCHANGED vars
  BY <1>18 DEF vars
<1>19. QED
  BY <1>1, <1>2, <1>3, <1>4, <1>5, <1>6, <1>7, <1>8, <1>9, <1>10, <1>11, <1>12,
     <1>13, <1>14, <1>15, <1>16, <1>17, <1>18 DEF Next, Call, Continue, KeepsJob


\* Only orders that were placed are tracked, rest or are in the index.
LEMMA UsedInBooksStep ==
  ASSUME TypeOK, UsedIds, [Next]_vars
  PROVE  UsedInBooks'
<1> USE DEF TypeOK, UsedIds, UsedInBooks, Used, At, Goto, Begin, SetJob, SetPurge,
   SetHit, engineVars, bookVars, locals
<1>1. ASSUME NEW w \in Workers, KeepsJob(w)
      PROVE  UsedInBooks'
  <2>1. \A o \in OrderIds : active'[o] > 0 => active[o] > 0
    BY <1>1, TrackedShrinks
  <2>2. index' = index \/ index' = [index EXCEPT ![job[w].inst] = job[w].placed]
    BY <1>1, IndexKeeps
  <2>3. nextId' = nextId /\ book' = book
    BY <1>1, KeepsBooks
  <2>4. \A l \in Legs : job[w].placed[l] < nextId
    BY DEF UsedInJobs
  <2>5. \A i \in Instruments, l \in Legs : index'[i][l] < nextId
    BY <2>2, <2>4
  <2>6. QED
    BY <2>1, <2>3, <2>5
<1>2. ASSUME NEW w \in Workers, ReadStale(w)
      PROVE  UsedInBooks'
  BY <1>2 DEF ReadStale
<1>3. ASSUME NEW w \in Workers, CancelStale(w)
      PROVE  UsedInBooks'
  BY <1>3 DEF CancelStale
<1>4. ASSUME NEW w \in Workers, PruneActive(w)
      PROVE  UsedInBooks'
  BY <1>4 DEF PruneActive
<1>5. ASSUME NEW w \in Workers, PruneIndex(w)
      PROVE  UsedInBooks'
  BY <1>5 DEF PruneIndex, EmptySlots, NoOrder
<1>6. ASSUME NEW w \in Workers, AddLeg(w)
      PROVE  UsedInBooks'
  <2>1. nextId' \in Nat /\ nextId' >= nextId
    BY <1>6, AddLegCases DEF Accepted, Refused
  <2>2. \A i \in Instruments, l \in Legs : index'[i][l] < nextId'
    BY <1>6, <2>1, AddLegCases DEF OrderIds, NoOrder
  <2>3. \A o \in OrderIds : active'[o] > 0 => o < nextId'
    <3>1. active' = active
      BY <1>6, AddLegCases
    <3>2. QED
      BY <2>1, <3>1 DEF OrderIds
  <2>4. \A o \in OrderIds : book'[o] # {} => o < nextId'
    <3>1. CASE Accepted(w)
      <4>1. \A o \in OrderIds \ {nextId} : book'[o] = book[o]
        <5>1. \E n \in 0 .. Size : book' = [book EXCEPT ![nextId] = 1 .. n]
          BY <3>1 DEF Accepted
        <5>2. QED
          BY <5>1
      <4>2. nextId' = nextId + 1
        BY <3>1 DEF Accepted
      <4>3. ASSUME NEW o \in OrderIds, o # nextId, book'[o] # {}
            PROVE  o < nextId
        <5>1. book[o] # {}
          BY <4>1, <4>3
        <5>2. QED
          BY <5>1
      <4>4. nextId \in Nat /\ OrderIds \subseteq Nat
        BY DEF OrderIds
      <4>5. QED
        BY <4>2, <4>3, <4>4
    <3>2. CASE Refused(w)
      BY <3>2 DEF Refused
    <3>3. QED
      BY <1>6, <3>1, <3>2, AddLegCases
  <2>5. QED
    BY <2>2, <2>3, <2>4
<1>7. ASSUME NEW w \in Workers, TrackLeg(w)
      PROVE  UsedInBooks'
  BY <1>7 DEF TrackLeg, UsedInJobs, TrackedQuantity
<1>8. ASSUME NEW w \in Workers, NEW v \in BOOLEAN, SetEnabled(w, v)
      PROVE  UsedInBooks'
  BY <1>8 DEF SetEnabled
<1>9. ASSUME NEW w \in Workers, SnapshotOrders(w)
      PROVE  UsedInBooks'
  BY <1>9 DEF SnapshotOrders
<1>10. ASSUME NEW w \in Workers, ClearVictimSlot(w)
      PROVE  UsedInBooks'
  BY <1>10 DEF ClearVictimSlot, ClearSlot, NoOrder
<1>11. ASSUME NEW w \in Workers, CancelVictim(w)
      PROVE  UsedInBooks'
  BY <1>11 DEF CancelVictim
<1>12. ASSUME NEW w \in Workers, ClearIndex(w)
      PROVE  UsedInBooks'
  BY <1>12 DEF ClearIndex, EmptySlots, NoOrder
<1>13. ASSUME NEW w \in Workers, Match(w)
      PROVE  UsedInBooks'
  BY <1>13 DEF Match
<1>14. ASSUME NEW w \in Workers, ReportFill(w)
      PROVE  UsedInBooks'
  <2>1. \A o \in OrderIds : active'[o] > 0 => active[o] > 0
    <3>1. \A n \in Nat : Remaining(0, n) = 0
      BY DEF Remaining
    <3>2. Cardinality(hit[w].lot) \in Nat
      BY LotsAreFinite DEF HitType
    <3>3. QED
      BY <1>14, <3>1, <3>2 DEF ReportFill
  <2>2. QED
    BY <1>14, <2>1 DEF ReportFill
<1>15. ASSUME NEW w \in Workers, ClearFilledSlot(w)
      PROVE  UsedInBooks'
  BY <1>15 DEF ClearFilledSlot, ClearSlot, NoOrder
<1>16. ASSUME NEW w \in Workers, NEW i \in Instruments, CreateBook(w, i)
      PROVE  UsedInBooks'
  BY <1>16 DEF CreateBook
<1>17. ASSUME NEW w \in Workers, NEW s \in Symbols, DeleteUnderlying(w, s)
      PROVE  UsedInBooks'
  BY <1>17 DEF DeleteUnderlying
<1>18. CASE UNCHANGED vars
  BY <1>18 DEF vars
<1>19. QED
  BY <1>1, <1>2, <1>3, <1>4, <1>5, <1>6, <1>7, <1>8, <1>9, <1>10, <1>11, <1>12,
     <1>13, <1>14, <1>15, <1>16, <1>17, <1>18 DEF Next, Call, Continue, KeepsJob


\* The requotes name only orders that were placed.
LEMMA UsedInJobsStep ==
  ASSUME TypeOK, UsedIds, [Next]_vars
  PROVE  UsedInJobs'
<1> USE DEF TypeOK, UsedIds, UsedInJobs, Used, At, Goto, Begin, SetJob, SetPurge,
   SetHit, engineVars, bookVars, locals
<1>1. ASSUME NEW w \in Workers, KeepsJob(w)
      PROVE  UsedInJobs'
  <2>1. NoOrder < nextId
    BY DEF NoOrder
  <2>2. nextId' = nextId
    BY <1>1, KeepsBooks
  <2>3. \A v \in Workers : KeepsOrders(job[v], job'[v])
    BY <1>1, JobKeeps
  <2>4. ASSUME NEW v \in Workers
        PROVE  /\ job'[v].fresh < nextId
               /\ \A l \in Legs : job'[v].stale[l] < nextId /\ job'[v].placed[l] < nextId
    <3>1. /\ job'[v].fresh \in {job[v].fresh, NoOrder}
          /\ \A l \in Legs : /\ job'[v].stale[l] \in {job[v].stale[l], NoOrder}
                             /\ job'[v].placed[l] \in {job[v].placed[l], NoOrder}
      BY <2>3 DEF KeepsOrders
    <3>2. /\ job[v].fresh < nextId
          /\ \A l \in Legs : job[v].stale[l] < nextId /\ job[v].placed[l] < nextId
      OBVIOUS
    <3>3. QED
      BY <2>1, <3>1, <3>2
  <2>5. QED
    BY <2>2, <2>4
<1>2. ASSUME NEW w \in Workers, ReadStale(w)
      PROVE  UsedInJobs'
  <2>1. job[w] \in JobType /\ job[w].inst \in Instruments
    BY DEF JobType
  <2>2. /\ job'[w].fresh = job[w].fresh
        /\ job'[w].stale = index[job[w].inst]
        /\ job'[w].placed = EmptySlots
    BY <1>2, <2>1 DEF ReadStale, JobType
  <2>3. \A v \in Workers \ {w} : job'[v] = job[v]
    BY <1>2 DEF ReadStale
  <2>4. UNCHANGED nextId
    BY <1>2 DEF ReadStale
  <2>5. \A l \in Legs : EmptySlots[l] < nextId
    BY DEF EmptySlots, NoOrder
  <2>6. QED
    BY <2>2, <2>3, <2>4, <2>5, <2>1 DEF UsedInBooks
<1>3. ASSUME NEW w \in Workers, CancelStale(w)
      PROVE  UsedInJobs'
  BY <1>3 DEF CancelStale
<1>4. ASSUME NEW w \in Workers, PruneActive(w)
      PROVE  UsedInJobs'
  BY <1>4 DEF PruneActive
<1>5. ASSUME NEW w \in Workers, PruneIndex(w)
      PROVE  UsedInJobs'
  BY <1>5 DEF PruneIndex
<1>6. ASSUME NEW w \in Workers, AddLeg(w)
      PROVE  UsedInJobs'
  <2>1. nextId' \in Nat /\ nextId' >= nextId
    BY <1>6, AddLegCases DEF Accepted, Refused
  <2>2. \A v \in Workers :
          /\ job[v].fresh \in OrderIds \cup {NoOrder}
          /\ \A l \in Legs : /\ job[v].stale[l] \in OrderIds \cup {NoOrder}
                             /\ job[v].placed[l] \in OrderIds \cup {NoOrder}
    BY DEF JobType
  <2>3. \A k \in OrderIds \cup {NoOrder} : k < nextId => k < nextId'
    BY <2>1 DEF OrderIds, NoOrder
  <2>4. \A v \in Workers : /\ job[v].fresh < nextId'
                           /\ \A l \in Legs : /\ job[v].stale[l] < nextId'
                                              /\ job[v].placed[l] < nextId'
    BY <2>2, <2>3
  <2>5. job'[w].fresh < nextId'
    <3>1. CASE Accepted(w)
      <4>1. job'[w].fresh = nextId /\ nextId' = nextId + 1
        BY <3>1 DEF Accepted
      <4>2. QED
        BY <4>1
    <3>2. CASE Refused(w)
      <4>1. job'[w].fresh = job[w].fresh
        BY <3>2 DEF Refused
      <4>2. QED
        BY <2>4, <4>1
    <3>3. QED
      BY <1>6, <3>1, <3>2, AddLegCases
  <2>6. \A v \in Workers \ {w} : job'[v] = job[v]
    BY <1>6, AddLegCases
  <2>7. job'[w].stale = job[w].stale /\ job'[w].placed = job[w].placed
    BY <1>6, AddLegCases
  <2>8. QED
    BY <2>4, <2>5, <2>6, <2>7
<1>7. ASSUME NEW w \in Workers, TrackLeg(w)
      PROVE  UsedInJobs'
  <2>1. job[w] \in JobType /\ job[w].leg \in Legs
    BY DEF JobType
  <2>2. /\ job'[w].fresh = NoOrder
        /\ job'[w].stale = job[w].stale
        /\ job'[w].placed = [job[w].placed EXCEPT ![job[w].leg] = job[w].fresh]
    BY <1>7, <2>1 DEF TrackLeg, JobType
  <2>3. \A v \in Workers \ {w} : job'[v] = job[v]
    BY <1>7 DEF TrackLeg
  <2>4. UNCHANGED nextId
    BY <1>7 DEF TrackLeg
  <2>5. \A l \in Legs : job'[w].placed[l] < nextId
    BY <2>1, <2>2 DEF JobType
  <2>6. NoOrder < nextId
    BY DEF NoOrder
  <2>7. QED
    BY <2>1, <2>2, <2>3, <2>4, <2>5, <2>6
<1>8. ASSUME NEW w \in Workers, NEW v \in BOOLEAN, SetEnabled(w, v)
      PROVE  UsedInJobs'
  BY <1>8 DEF SetEnabled
<1>9. ASSUME NEW w \in Workers, SnapshotOrders(w)
      PROVE  UsedInJobs'
  BY <1>9 DEF SnapshotOrders
<1>10. ASSUME NEW w \in Workers, ClearVictimSlot(w)
      PROVE  UsedInJobs'
  BY <1>10 DEF ClearVictimSlot
<1>11. ASSUME NEW w \in Workers, CancelVictim(w)
      PROVE  UsedInJobs'
  BY <1>11 DEF CancelVictim
<1>12. ASSUME NEW w \in Workers, ClearIndex(w)
      PROVE  UsedInJobs'
  BY <1>12 DEF ClearIndex
<1>13. ASSUME NEW w \in Workers, Match(w)
      PROVE  UsedInJobs'
  BY <1>13 DEF Match
<1>14. ASSUME NEW w \in Workers, ReportFill(w)
      PROVE  UsedInJobs'
  BY <1>14 DEF ReportFill
<1>15. ASSUME NEW w \in Workers, ClearFilledSlot(w)
      PROVE  UsedInJobs'
  BY <1>15 DEF ClearFilledSlot
<1>16. ASSUME NEW w \in Workers, NEW i \in Instruments, CreateBook(w, i)
      PROVE  UsedInJobs'
  BY <1>16 DEF CreateBook
<1>17. ASSUME NEW w \in Workers, NEW s \in Symbols, DeleteUnderlying(w, s)
      PROVE  UsedInJobs'
  BY <1>17 DEF DeleteUnderlying
<1>18. CASE UNCHANGED vars
  BY <1>18 DEF vars
<1>19. QED
  BY <1>1, <1>2, <1>3, <1>4, <1>5, <1>6, <1>7, <1>8, <1>9, <1>10, <1>11, <1>12,
     <1>13, <1>14, <1>15, <1>16, <1>17, <1>18 DEF Next, Call, Continue, KeepsJob


\* The cancellations and the reported fills name only orders that were placed.
LEMMA UsedInLocalsStep ==
  ASSUME TypeOK, UsedIds, [Next]_vars
  PROVE  UsedInLocals'
<1> USE DEF TypeOK, UsedIds, UsedInLocals, Used, At, Goto, Begin, SetJob, SetPurge,
   SetHit, engineVars, bookVars, locals
<1>1. ASSUME NEW w \in Workers, KeepsJob(w)
      PROVE  UsedInLocals'
  <2>1. CASE NextVictim(w)
    <3>1. UNCHANGED <<hit, nextId>>
      BY <1>1, KeepsBooks
    <3>2. \A v \in Workers : \/ purge'[v].order = purge[v].order
                             \/ purge'[v].order = NoOrder
                             \/ /\ purge'[v].order \in OrderIds
                                /\ active[purge'[v].order] > 0
      BY <2>1, NextVictimCases
    <3>3. NoOrder < nextId
      BY DEF NoOrder
    <3>4. QED
      BY <3>1, <3>2, <3>3 DEF UsedInBooks
  <2>2. CASE ~ NextVictim(w)
    BY <1>1, <2>2, KeepsBooks, PurgeKeeps
  <2>3. QED
    BY <2>1, <2>2
<1>2. ASSUME NEW w \in Workers, ReadStale(w)
      PROVE  UsedInLocals'
  BY <1>2 DEF ReadStale
<1>3. ASSUME NEW w \in Workers, CancelStale(w)
      PROVE  UsedInLocals'
  BY <1>3 DEF CancelStale
<1>4. ASSUME NEW w \in Workers, PruneActive(w)
      PROVE  UsedInLocals'
  BY <1>4 DEF PruneActive
<1>5. ASSUME NEW w \in Workers, PruneIndex(w)
      PROVE  UsedInLocals'
  BY <1>5 DEF PruneIndex
<1>6. ASSUME NEW w \in Workers, AddLeg(w)
      PROVE  UsedInLocals'
  <2>1. nextId' \in Nat /\ nextId' >= nextId
    BY <1>6, AddLegCases DEF Accepted, Refused
  <2>2. \A v \in Workers : /\ purge[v].order \in OrderIds \cup {NoOrder}
                           /\ hit[v].order \in OrderIds \cup {NoOrder}
    BY DEF PurgeType, HitType
  <2>3. UNCHANGED <<purge, hit>>
    BY <1>6, AddLegCases
  <2>4. \A k \in OrderIds \cup {NoOrder} : k < nextId => k < nextId'
    BY <2>1 DEF OrderIds, NoOrder
  <2>5. QED
    BY <2>2, <2>3, <2>4
<1>7. ASSUME NEW w \in Workers, TrackLeg(w)
      PROVE  UsedInLocals'
  BY <1>7 DEF TrackLeg
<1>8. ASSUME NEW w \in Workers, NEW v \in BOOLEAN, SetEnabled(w, v)
      PROVE  UsedInLocals'
  <2>1. \A u \in Workers : purge'[u].order = purge[u].order
    <3>1. [purge[w] EXCEPT !.all = TRUE].order = purge[w].order
      BY DEF PurgeType
    <3>2. purge' = purge \/ purge' = [purge EXCEPT ![w] = [purge[w] EXCEPT !.all = TRUE]]
      BY <1>8 DEF SetEnabled
    <3>3. QED
      BY <3>1, <3>2
  <2>2. QED
    BY <1>8, <2>1 DEF SetEnabled
<1>9. ASSUME NEW w \in Workers, SnapshotOrders(w)
      PROVE  UsedInLocals'
  BY <1>9 DEF SnapshotOrders, PurgeType
<1>10. ASSUME NEW w \in Workers, ClearVictimSlot(w)
      PROVE  UsedInLocals'
  BY <1>10 DEF ClearVictimSlot
<1>11. ASSUME NEW w \in Workers, CancelVictim(w)
      PROVE  UsedInLocals'
  BY <1>11 DEF CancelVictim, PurgeType, NoOrder
<1>12. ASSUME NEW w \in Workers, ClearIndex(w)
      PROVE  UsedInLocals'
  BY <1>12 DEF ClearIndex, NoPurge, NoOrder
<1>13. ASSUME NEW w \in Workers, Match(w)
      PROVE  UsedInLocals'
  <2>1. \A u \in Workers :
          \/ hit'[u].order = hit[u].order
          \/ hit'[u].order \in OrderIds /\ book[hit'[u].order] # {}
    <3>1. PICK o \in OrderIds :
            \E lot \in (SUBSET book[o]) \ {{}} :
              \/ hit' = [hit EXCEPT ![w] = [order |-> o, lot |-> lot]]
              \/ hit' = hit
      BY <1>13 DEF Match
    <3>2. book[o] # {}
      <4>1. PICK lot \in SUBSET book[o] : lot # {}
        BY <3>1
      <4>2. PICK c : c \in lot
        BY <4>1
      <4>3. QED
        BY <4>1, <4>2
    <3>3. hit \in [Workers -> HitType]
      OBVIOUS
    <3>4. QED
      BY <3>1, <3>2, <3>3
  <2>2. QED
    BY <1>13, <2>1 DEF Match, UsedInBooks
<1>14. ASSUME NEW w \in Workers, ReportFill(w)
      PROVE  UsedInLocals'
  <2>1. \A u \in Workers : hit'[u].order \in {hit[u].order, NoOrder}
    <3>1. /\ [hit[w] EXCEPT !.lot = {}].order = hit[w].order
          /\ NoHit.order = NoOrder
      BY DEF HitType, NoHit
    <3>2. \/ hit' = [hit EXCEPT ![w] = [hit[w] EXCEPT !.lot = {}]]
          \/ hit' = [hit EXCEPT ![w] = NoHit]
      BY <1>14 DEF ReportFill
    <3>3. hit \in [Workers -> HitType]
      OBVIOUS
    <3>4. QED
      BY <3>1, <3>2, <3>3
  <2>2. NoOrder < nextId
    BY DEF NoOrder
  <2>3. QED
    BY <1>14, <2>1, <2>2 DEF ReportFill
<1>15. ASSUME NEW w \in Workers, ClearFilledSlot(w)
      PROVE  UsedInLocals'
  BY <1>15 DEF ClearFilledSlot, NoHit, NoOrder
<1>16. ASSUME NEW w \in Workers, NEW i \in Instruments, CreateBook(w, i)
      PROVE  UsedInLocals'
  BY <1>16 DEF CreateBook
<1>17. ASSUME NEW w \in Workers, NEW s \in Symbols, DeleteUnderlying(w, s)
      PROVE  UsedInLocals'
  BY <1>17 DEF DeleteUnderlying
<1>18. CASE UNCHANGED vars
  BY <1>18 DEF vars
<1>19. QED
  BY <1>1, <1>2, <1>3, <1>4, <1>5, <1>6, <1>7, <1>8, <1>9, <1>10, <1>11, <1>12,
     <1>13, <1>14, <1>15, <1>16, <1>17, <1>18 DEF Next, Call, Continue, KeepsJob


\* What a requote is about to forget no longer rests.
LEMMA StaleIsGoneStep ==
  ASSUME "delete_underlying" \notin Ops, TypeOK, BooksStay, UsedIds, StaleIsGone,
     [Next]_vars
  PROVE  StaleIsGone'
<1> USE DEF StaleIsGone, StaleOf, Typed, At, Goto, Begin, SetJob, SetPurge, SetHit,
   engineVars, bookVars, locals
<1>0. Typed
  BY DEF TypeOK, Typed
<1>1. ASSUME NEW w \in Workers, KeepsJob(w)
      PROVE  StaleIsGone'
  BY <1>0, <1>1, JobKeeps, KeepsBooks
<1>2. ASSUME NEW w \in Workers, ReadStale(w)
      PROVE  StaleIsGone'
  <2>1. pc'[w] # "prune_active"
    BY <1>0, <1>2 DEF ReadStale, AfterRead
  <2>2. QED
    BY <1>0, <1>2, <2>1 DEF ReadStale
<1>3. ASSUME NEW w \in Workers, CancelStale(w)
      PROVE  StaleIsGone'
  <2>1. \A o \in OrderIds : o \in StaleOf(w) => info[o].gen = job[w].gen
    BY <1>0 DEF UsedIds, UsedInJobs, BooksStay, Used
  <2>2. \A o \in OrderIds : book'[o] = IF o \in StaleOf(w) THEN {} ELSE book[o]
    BY <1>0, <1>3, <2>1 DEF CancelStale
  <2>3. QED
    BY <1>0, <1>3, <2>2 DEF CancelStale
<1>4. ASSUME NEW w \in Workers, PruneActive(w)
      PROVE  StaleIsGone'
  BY <1>0, <1>4 DEF PruneActive
<1>5. ASSUME NEW w \in Workers, PruneIndex(w)
      PROVE  StaleIsGone'
  BY <1>0, <1>5 DEF PruneIndex
<1>6. ASSUME NEW w \in Workers, AddLeg(w)
      PROVE  StaleIsGone'
  <2>1. pc'[w] # "prune_active" /\ \A v \in Workers \ {w} : pc'[v] = pc[v]
    BY <1>0, <1>6, AddLegCases DEF Accepted, Refused
  <2>2. \A v \in Workers, o \in OrderIds : o \in StaleOf(v) => o # nextId
    BY <1>0 DEF UsedIds, UsedInJobs, Used
  <2>3. \A o \in OrderIds \ {nextId} : book'[o] = book[o]
    BY <1>0, <1>6, AddLegCases DEF Accepted, Refused
  <2>4. \A v \in Workers \ {w} : job'[v] = job[v]
    BY <1>0, <1>6, AddLegCases
  <2>5. QED
    BY <1>0, <2>1, <2>2, <2>3, <2>4
<1>7. ASSUME NEW w \in Workers, TrackLeg(w)
      PROVE  StaleIsGone'
  <2>1. pc'[w] # "prune_active"
    BY <1>0, <1>7 DEF TrackLeg, AfterLeg
  <2>2. QED
    BY <1>0, <1>7, <2>1 DEF TrackLeg
<1>8. ASSUME NEW w \in Workers, NEW v \in BOOLEAN, SetEnabled(w, v)
      PROVE  StaleIsGone'
  BY <1>0, <1>8 DEF SetEnabled
<1>9. ASSUME NEW w \in Workers, SnapshotOrders(w)
      PROVE  StaleIsGone'
  BY <1>0, <1>9 DEF SnapshotOrders
<1>10. ASSUME NEW w \in Workers, ClearVictimSlot(w)
      PROVE  StaleIsGone'
  BY <1>0, <1>10 DEF ClearVictimSlot
<1>11. ASSUME NEW w \in Workers, CancelVictim(w)
      PROVE  StaleIsGone'
  <2>1. \A o \in OrderIds : book'[o] \in {book[o], {}}
    BY <1>0, <1>11 DEF CancelVictim
  <2>2. QED
    BY <1>0, <1>11, <2>1 DEF CancelVictim
<1>12. ASSUME NEW w \in Workers, ClearIndex(w)
      PROVE  StaleIsGone'
  BY <1>0, <1>12 DEF ClearIndex
<1>13. ASSUME NEW w \in Workers, Match(w)
      PROVE  StaleIsGone'
  <2>1. \A o \in OrderIds : book'[o] \subseteq book[o]
    BY <1>0, <1>13 DEF Match
  <2>2. /\ UNCHANGED job
        /\ \A v \in Workers : At(v, "prune_active")' => At(v, "prune_active")
    BY <1>0, <1>13 DEF Match
  <2>3. QED
    BY <1>0, <2>1, <2>2
<1>14. ASSUME NEW w \in Workers, ReportFill(w)
      PROVE  StaleIsGone'
  BY <1>0, <1>14 DEF ReportFill
<1>15. ASSUME NEW w \in Workers, ClearFilledSlot(w)
      PROVE  StaleIsGone'
  BY <1>0, <1>15 DEF ClearFilledSlot
<1>16. ASSUME NEW w \in Workers, NEW i \in Instruments, CreateBook(w, i)
      PROVE  StaleIsGone'
  BY <1>0, <1>16 DEF CreateBook
<1>17. ASSUME NEW w \in Workers, NEW s \in Symbols, DeleteUnderlying(w, s)
      PROVE  StaleIsGone'
  BY <1>0, <1>17 DEF DeleteUnderlying
<1>18. CASE UNCHANGED vars
  BY <1>0, <1>18 DEF vars
<1>19. QED
  BY <1>1, <1>2, <1>3, <1>4, <1>5, <1>6, <1>7, <1>8, <1>9, <1>10, <1>11, <1>12,
     <1>13, <1>14, <1>15, <1>16, <1>17, <1>18 DEF Next, Call, Continue, KeepsJob


\* The lots of unreported fills are apart from each other and from what rests.
LEMMA LotsApartStep ==
  ASSUME TypeOK, UsedIds, LotsApart, [Next]_vars
  PROVE  LotsApart'
<1> USE DEF LotsApart, Typed, At, Goto, Begin, SetJob, SetPurge, SetHit, engineVars,
   bookVars, locals
<1>0. Typed
  BY DEF TypeOK, Typed
<1>1. ASSUME NEW w \in Workers, KeepsJob(w)
      PROVE  LotsApart'
  BY <1>0, <1>1, KeepsBooks
<1>2. ASSUME NEW w \in Workers, ReadStale(w)
      PROVE  LotsApart'
  BY <1>0, <1>2 DEF ReadStale
<1>3. ASSUME NEW w \in Workers, CancelStale(w)
      PROVE  LotsApart'
  <2>1. \A o \in OrderIds : book'[o] \in {book[o], {}}
    BY <1>0, <1>3 DEF CancelStale
  <2>2. UNCHANGED hit
    BY <1>0, <1>3 DEF CancelStale
  <2>3. QED
    BY <1>0, <2>1, <2>2
<1>4. ASSUME NEW w \in Workers, PruneActive(w)
      PROVE  LotsApart'
  BY <1>0, <1>4 DEF PruneActive
<1>5. ASSUME NEW w \in Workers, PruneIndex(w)
      PROVE  LotsApart'
  BY <1>0, <1>5 DEF PruneIndex
<1>6. ASSUME NEW w \in Workers, AddLeg(w)
      PROVE  LotsApart'
  <2>1. \A v \in Workers : hit[v].order # nextId
    BY <1>0 DEF UsedIds, UsedInLocals, Used
  <2>2. \A o \in OrderIds \ {nextId} : book'[o] = book[o]
    BY <1>0, <1>6, AddLegCases DEF Accepted, Refused
  <2>3. UNCHANGED hit
    BY <1>0, <1>6, AddLegCases
  <2>4. QED
    BY <1>0, <2>1, <2>2, <2>3
<1>7. ASSUME NEW w \in Workers, TrackLeg(w)
      PROVE  LotsApart'
  BY <1>0, <1>7 DEF TrackLeg
<1>8. ASSUME NEW w \in Workers, NEW v \in BOOLEAN, SetEnabled(w, v)
      PROVE  LotsApart'
  BY <1>0, <1>8 DEF SetEnabled
<1>9. ASSUME NEW w \in Workers, SnapshotOrders(w)
      PROVE  LotsApart'
  BY <1>0, <1>9 DEF SnapshotOrders
<1>10. ASSUME NEW w \in Workers, ClearVictimSlot(w)
      PROVE  LotsApart'
  BY <1>0, <1>10 DEF ClearVictimSlot
<1>11. ASSUME NEW w \in Workers, CancelVictim(w)
      PROVE  LotsApart'
  <2>1. \A o \in OrderIds : book'[o] \in {book[o], {}}
    BY <1>0, <1>11 DEF CancelVictim
  <2>2. UNCHANGED hit
    BY <1>0, <1>11 DEF CancelVictim
  <2>3. QED
    BY <1>0, <2>1, <2>2
<1>12. ASSUME NEW w \in Workers, ClearIndex(w)
      PROVE  LotsApart'
  BY <1>0, <1>12 DEF ClearIndex
<1>13. ASSUME NEW w \in Workers, Match(w)
      PROVE  LotsApart'
  <2>1. PICK o \in OrderIds : \E lot \in SUBSET book[o] :
          /\ book' = [book EXCEPT ![o] = @ \ lot]
          /\ \/ hit' = [hit EXCEPT ![w] = [order |-> o, lot |-> lot]]
             \/ UNCHANGED hit
    BY <1>0, <1>13 DEF Match
  <2>2. PICK lot \in SUBSET book[o] :
          /\ book' = [book EXCEPT ![o] = @ \ lot]
          /\ \/ hit' = [hit EXCEPT ![w] = [order |-> o, lot |-> lot]]
             \/ UNCHANGED hit
    BY <1>0, <2>1
  <2>3. book'[o] = book[o] \ lot /\ \A p \in OrderIds \ {o} : book'[p] = book[p]
    BY <1>0, <2>2
  <2>4. CASE UNCHANGED hit
    BY <1>0, <2>3, <2>4
  <2>5. CASE hit' = [hit EXCEPT ![w] = [order |-> o, lot |-> lot]]
    <3>1. /\ hit'[w].order = o /\ hit'[w].lot = lot
          /\ \A v \in Workers \ {w} : hit'[v] = hit[v]
      BY <1>0, <2>5
    <3>2. QED
      BY <1>0, <2>3, <3>1
  <2>6. QED
    BY <1>0, <2>2, <2>4, <2>5
<1>14. ASSUME NEW w \in Workers, ReportFill(w)
      PROVE  LotsApart'
  <2>1. /\ [hit[w] EXCEPT !.lot = {}].lot = {}
        /\ NoHit.lot = {}
    BY <1>0 DEF HitType, NoHit
  <2>2. hit'[w].lot = {} /\ \A v \in Workers \ {w} : hit'[v] = hit[v]
    BY <1>0, <1>14, <2>1 DEF ReportFill
  <2>3. UNCHANGED book
    BY <1>0, <1>14 DEF ReportFill
  <2>4. QED
    BY <1>0, <2>2, <2>3
<1>15. ASSUME NEW w \in Workers, ClearFilledSlot(w)
      PROVE  LotsApart'
  <2>1. hit'[w].lot = {} /\ \A v \in Workers \ {w} : hit'[v] = hit[v]
    BY <1>0, <1>15 DEF ClearFilledSlot, NoHit
  <2>2. UNCHANGED book
    BY <1>0, <1>15 DEF ClearFilledSlot
  <2>3. QED
    BY <1>0, <2>1, <2>2
<1>16. ASSUME NEW w \in Workers, NEW i \in Instruments, CreateBook(w, i)
      PROVE  LotsApart'
  BY <1>0, <1>16 DEF CreateBook
<1>17. ASSUME NEW w \in Workers, NEW s \in Symbols, DeleteUnderlying(w, s)
      PROVE  LotsApart'
  BY <1>0, <1>17 DEF DeleteUnderlying
<1>18. CASE UNCHANGED vars
  BY <1>0, <1>18 DEF vars
<1>19. QED
  BY <1>1, <1>2, <1>3, <1>4, <1>5, <1>6, <1>7, <1>8, <1>9, <1>10, <1>11, <1>12,
     <1>13, <1>14, <1>15, <1>16, <1>17, <1>18 DEF Next, Call, Continue, KeepsJob


\* What is outstanding of an order did not grow, nor did what is tracked of it.
Less(o) == Outstanding(o)' \subseteq Outstanding(o) /\ active'[o] \in {active[o], 0}

LEMMA OutstandingIsSmall ==
  ASSUME TypeOK
  PROVE  \A o \in OrderIds : /\ Outstanding(o) \subseteq Contracts
                            /\ IsFiniteSet(Outstanding(o))
                            /\ Cardinality(Outstanding(o)) \in Nat
                            /\ Cardinality(Outstanding(o)) <= Size
<1>1. ASSUME NEW o \in OrderIds PROVE Outstanding(o) \subseteq Contracts
  BY DEF TypeOK, HitType, Outstanding
<1>2. IsFiniteSet(Contracts) /\ Cardinality(Contracts) = Size
  BY SizeAssumption, FS_Interval DEF Contracts
<1>3. QED
  BY <1>1, <1>2, FS_Subset, FS_CardinalityType

LEMMA SmallerOutstanding ==
  ASSUME TypeOK, NEW o \in OrderIds
  PROVE  /\ IsFiniteSet(Outstanding(o))
         /\ Cardinality(Outstanding(o)) \in Nat
         /\ \A S \in SUBSET Outstanding(o) :
              /\ Cardinality(S) \in Nat
              /\ Cardinality(S) <= Cardinality(Outstanding(o))
  BY OutstandingIsSmall, FS_Subset, FS_CardinalityType

\* Taking a lot away takes away as many contracts.
LEMMA WithoutLot ==
  ASSUME TypeOK, NEW o \in OrderIds, NEW lot \in SUBSET Outstanding(o),
         NEW S \in SUBSET (Outstanding(o) \ lot)
  PROVE  Cardinality(S) <= Cardinality(Outstanding(o)) - Cardinality(lot)
<1>1. IsFiniteSet(Outstanding(o))
  BY OutstandingIsSmall
<1>2. IsFiniteSet(Outstanding(o) \ lot)
      /\ Cardinality(Outstanding(o) \ lot) =
           Cardinality(Outstanding(o)) - Cardinality(Outstanding(o) \cap lot)
  BY <1>1, FS_Difference
<1>3. Outstanding(o) \cap lot = lot
  OBVIOUS
<1>4. Cardinality(S) <= Cardinality(Outstanding(o) \ lot)
  BY <1>2, FS_Subset
<1>5. QED
  BY <1>2, <1>3, <1>4

LEMMA CoveredWhenLess ==
  ASSUME TypeOK, Covered, \A o \in OrderIds : Less(o)
  PROVE  Covered'
<1>1. SUFFICES ASSUME NEW o \in OrderIds, active'[o] > 0
               PROVE  active'[o] >= Cardinality(Outstanding(o)')
  BY DEF Covered, TrackedCoversOutstanding
<1>2. active'[o] = active[o]
  BY <1>1 DEF Less
<1>3. active[o] \in Nat /\ active[o] >= Cardinality(Outstanding(o))
  BY <1>1, <1>2 DEF Covered, TrackedCoversOutstanding, TypeOK
<1>4. Outstanding(o)' \in SUBSET Outstanding(o)
  BY DEF Less
<1>5. QED
  BY <1>2, <1>3, <1>4, SmallerOutstanding

LEMMA Untouched ==
  ASSUME UNCHANGED <<book, hit>>, \A o \in OrderIds : active'[o] \in {active[o], 0}
  PROVE  \A o \in OrderIds : Less(o)
  BY DEF Less, Outstanding

\* The tracked quantity still covers what is outstanding.
LEMMA CoveredStep ==
  ASSUME TypeOK, TypeOK', UsedIds, LotsApart, Covered, [Next]_vars
  PROVE  Covered'
<1> USE DEF At, Goto, Begin, SetJob, SetPurge, SetHit, engineVars, bookVars, locals
<1>0. Typed
  BY DEF TypeOK, Typed
<1> USE DEF Typed
<1>1. ASSUME NEW w \in Workers, KeepsJob(w)
      PROVE  Covered'
  <2>1. UNCHANGED <<book, hit>>
    BY <1>1, KeepsBooks
  <2>2. \A o \in OrderIds : active'[o] \in {active[o], 0}
    BY <1>1, TrackedShrinks
  <2>3. QED
    BY <2>1, <2>2, Untouched, CoveredWhenLess
<1>2. ASSUME NEW w \in Workers, ReadStale(w)
      PROVE  Covered'
  <2>1. UNCHANGED <<book, hit, active>>
    BY <1>2 DEF ReadStale
  <2>2. QED
    BY <2>1, Untouched, CoveredWhenLess
<1>3. ASSUME NEW w \in Workers, CancelStale(w)
      PROVE  Covered'
  <2>1. \A o \in OrderIds : book'[o] \subseteq book[o] /\ active'[o] = active[o]
    BY <1>3 DEF CancelStale
  <2>2. UNCHANGED hit
    BY <1>3 DEF CancelStale
  <2>3. QED
    BY <2>1, <2>2, CoveredWhenLess DEF Less, Outstanding
<1>4. ASSUME NEW w \in Workers, PruneActive(w)
      PROVE  Covered'
  <2>1. UNCHANGED <<book, hit>>
    BY <1>4 DEF PruneActive
  <2>2. \A o \in OrderIds : active'[o] \in {active[o], 0}
    BY <1>4 DEF PruneActive
  <2>3. QED
    BY <2>1, <2>2, Untouched, CoveredWhenLess
<1>5. ASSUME NEW w \in Workers, PruneIndex(w)
      PROVE  Covered'
  <2>1. UNCHANGED <<book, hit, active>>
    BY <1>5 DEF PruneIndex
  <2>2. QED
    BY <2>1, Untouched, CoveredWhenLess
<1>6. ASSUME NEW w \in Workers, AddLeg(w)
      PROVE  Covered'
  <2>1. UNCHANGED <<active, hit>>
    BY <1>6, AddLegCases
  <2>2. \A o \in OrderIds : active[o] > 0 => book'[o] = book[o]
    <3>1. \A o \in OrderIds \ {nextId} : book'[o] = book[o]
      BY <1>6, <1>0, AddLegCases DEF Accepted, Refused
    <3>2. ~ (nextId < nextId)
      BY <1>0
    <3>3. QED
      BY <3>1, <3>2 DEF UsedIds, UsedInBooks, Used
  <2>3. \A o \in OrderIds : active[o] > 0 => Outstanding(o)' = Outstanding(o)
    BY <2>1, <2>2 DEF Outstanding
  <2>4. QED
    BY <2>1, <2>3 DEF Covered, TrackedCoversOutstanding
<1>7. ASSUME NEW w \in Workers, TrackLeg(w)
      PROVE  Covered'
  <2>1. UNCHANGED <<book, hit>>
    BY <1>7 DEF TrackLeg
  <2>2. \A o \in OrderIds : Outstanding(o)' = Outstanding(o)
    BY <2>1 DEF Outstanding
  <2>3. \A o \in OrderIds : active'[o] \in {active[o], Size}
    BY <1>7, <1>0 DEF TrackLeg, TrackedQuantity
  <2>4. \A o \in OrderIds : Cardinality(Outstanding(o)) <= Size
    BY OutstandingIsSmall
  <2>5. QED
    BY <2>2, <2>3, <2>4 DEF Covered, TrackedCoversOutstanding
<1>8. ASSUME NEW w \in Workers, NEW v \in BOOLEAN, SetEnabled(w, v)
      PROVE  Covered'
  <2>1. UNCHANGED <<book, hit, active>>
    BY <1>8 DEF SetEnabled
  <2>2. QED
    BY <2>1, Untouched, CoveredWhenLess
<1>9. ASSUME NEW w \in Workers, SnapshotOrders(w)
      PROVE  Covered'
  <2>1. UNCHANGED <<book, hit, active>>
    BY <1>9 DEF SnapshotOrders
  <2>2. QED
    BY <2>1, Untouched, CoveredWhenLess
<1>10. ASSUME NEW w \in Workers, ClearVictimSlot(w)
      PROVE  Covered'
  <2>1. UNCHANGED <<book, hit, active>>
    BY <1>10 DEF ClearVictimSlot
  <2>2. QED
    BY <2>1, Untouched, CoveredWhenLess
<1>11. ASSUME NEW w \in Workers, CancelVictim(w)
      PROVE  Covered'
  <2>1. \A o \in OrderIds : book'[o] \subseteq book[o] /\ active'[o] = active[o]
    BY <1>11, <1>0 DEF CancelVictim
  <2>2. UNCHANGED hit
    BY <1>11 DEF CancelVictim
  <2>3. QED
    BY <2>1, <2>2, CoveredWhenLess DEF Less, Outstanding
<1>12. ASSUME NEW w \in Workers, ClearIndex(w)
      PROVE  Covered'
  <2>1. UNCHANGED <<book, hit, active>>
    BY <1>12 DEF ClearIndex
  <2>2. QED
    BY <2>1, Untouched, CoveredWhenLess
<1>13. ASSUME NEW w \in Workers, Match(w)
      PROVE  Covered'
  <2>1. PICK o \in OrderIds : \E lot \in SUBSET book[o] :
          /\ book' = [book EXCEPT ![o] = @ \ lot]
          /\ \/ hit' = [hit EXCEPT ![w] = [order |-> o, lot |-> lot]]
             \/ UNCHANGED hit
    BY <1>13 DEF Match
  <2>2. PICK lot \in SUBSET book[o] :
          /\ book' = [book EXCEPT ![o] = @ \ lot]
          /\ \/ hit' = [hit EXCEPT ![w] = [order |-> o, lot |-> lot]]
             \/ UNCHANGED hit
    BY <2>1
  <2>3. \A p \in OrderIds : book'[p] \subseteq book[p]
    BY <1>0, <2>2
  <2>4. \A p \in OrderIds, v \in Workers :
          hit'[v].order = p => hit'[v].lot \subseteq book[p] \/ hit'[v] = hit[v]
    <3>1. CASE UNCHANGED hit
      BY <3>1
    <3>2. CASE hit' = [hit EXCEPT ![w] = [order |-> o, lot |-> lot]]
      BY <1>0, <2>2, <3>2
    <3>3. QED
      BY <2>2, <3>1, <3>2
  <2>5. \A p \in OrderIds : Outstanding(p)' \subseteq Outstanding(p)
    BY <2>3, <2>4 DEF Outstanding
  <2>6. UNCHANGED active
    BY <1>13 DEF Match
  <2>7. QED
    BY <2>5, <2>6, CoveredWhenLess DEF Less
<1>14. ASSUME NEW w \in Workers, ReportFill(w)
      PROVE  Covered'
  <2> DEFINE o == hit[w].order
             n == Cardinality(hit[w].lot)
  <2>1. /\ hit[w].lot \in SUBSET Contracts /\ n \in Nat
        /\ active \in [OrderIds -> 0 .. Size]
    BY <1>0, LotsAreFinite DEF HitType, TypeOK
  <2>2. UNCHANGED book /\ active' = [active EXCEPT ![o] = Remaining(@, n)]
    BY <1>14 DEF ReportFill
  <2>3. /\ hit'[w].lot = {}
        /\ \A v \in Workers \ {w} : hit'[v] = hit[v]
    <3>1. [hit[w] EXCEPT !.lot = {}].lot = {} /\ NoHit.lot = {}
      BY <1>0 DEF HitType, NoHit
    <3>2. QED
      BY <1>0, <1>14, <3>1 DEF ReportFill
  <2>4. \A p \in OrderIds : Outstanding(p)' \subseteq Outstanding(p)
    BY <2>2, <2>3 DEF Outstanding
  <2>5. ASSUME NEW p \in OrderIds, p # o
        PROVE  active'[p] = active[p]
    BY <2>1, <2>2, <2>5
  <2>6. ASSUME NEW p \in OrderIds, p = o, active'[p] > 0
        PROVE  active'[p] >= Cardinality(Outstanding(p)')
    <3>1. n < active[p] /\ active'[p] = active[p] - n /\ active[p] \in Nat
      BY <2>1, <2>2, <2>6 DEF Remaining
    <3>2. hit[w].lot \subseteq Outstanding(p)
      BY <2>6 DEF Outstanding
    <3>3. ASSUME NEW c \in Outstanding(p)'
          PROVE  c \in Outstanding(p) \ hit[w].lot
      <4>1. CASE c \in book[p]
        BY <2>6, <4>1 DEF Outstanding, LotsApart
      <4>2. CASE \E v \in Workers \ {w} : hit[v].order = p /\ c \in hit[v].lot
        BY <2>6, <4>2 DEF Outstanding, LotsApart
      <4>3. QED
        BY <2>2, <2>3, <4>1, <4>2 DEF Outstanding
    <3>4. Outstanding(p)' \in SUBSET (Outstanding(p) \ hit[w].lot)
      BY <3>3
    <3>5. Cardinality(Outstanding(p)') <= Cardinality(Outstanding(p)) - n
      BY <3>2, <3>4, WithoutLot
    <3>6. active[p] >= Cardinality(Outstanding(p))
      BY <2>1, <3>1 DEF Covered, TrackedCoversOutstanding
    <3>7. Cardinality(Outstanding(p)) \in Nat
      BY OutstandingIsSmall
    <3>8. Cardinality(Outstanding(p)') \in Nat
      BY <2>4, SmallerOutstanding
    <3> HIDE DEF n
    <3>9. QED
      BY <2>1, <3>1, <3>5, <3>6, <3>7, <3>8
  <2>7. ASSUME NEW p \in OrderIds, p # o, active'[p] > 0
        PROVE  active'[p] >= Cardinality(Outstanding(p)')
    <3>1. active[p] \in Nat /\ active[p] >= Cardinality(Outstanding(p))
      BY <2>1, <2>5, <2>7 DEF Covered, TrackedCoversOutstanding
    <3>2. QED
      BY <2>4, <2>5, <2>7, <3>1, SmallerOutstanding
  <2>8. \A p \in OrderIds : active'[p] > 0 => active'[p] >= Cardinality(Outstanding(p)')
    BY <2>6, <2>7
  <2>9. QED
    BY <2>8 DEF Covered, TrackedCoversOutstanding
<1>15. ASSUME NEW w \in Workers, ClearFilledSlot(w)
      PROVE  Covered'
  <2>1. UNCHANGED <<book, active>>
    BY <1>15 DEF ClearFilledSlot
  <2>2. hit'[w].lot = {} /\ \A v \in Workers \ {w} : hit'[v] = hit[v]
    BY <1>0, <1>15 DEF ClearFilledSlot, NoHit
  <2>3. QED
    BY <2>1, <2>2, CoveredWhenLess DEF Less, Outstanding
<1>16. ASSUME NEW w \in Workers, NEW i \in Instruments, CreateBook(w, i)
      PROVE  Covered'
  <2>1. UNCHANGED <<book, hit, active>>
    BY <1>16 DEF CreateBook
  <2>2. QED
    BY <2>1, Untouched, CoveredWhenLess
<1>17. ASSUME NEW w \in Workers, NEW s \in Symbols, DeleteUnderlying(w, s)
      PROVE  Covered'
  <2>1. UNCHANGED <<book, hit, active>>
    BY <1>17 DEF DeleteUnderlying
  <2>2. QED
    BY <2>1, Untouched, CoveredWhenLess
<1>18. CASE UNCHANGED vars
  <2>1. UNCHANGED <<book, hit, active>>
    BY <1>18 DEF vars
  <2>2. QED
    BY <2>1, Untouched, CoveredWhenLess
<1>19. QED
  BY <1>1, <1>2, <1>3, <1>4, <1>5, <1>6, <1>7, <1>8, <1>9, <1>10, <1>11, <1>12,
     <1>13, <1>14, <1>15, <1>16, <1>17, <1>18 DEF Next, Call, Continue, KeepsJob


\* An order that a fill takes out of tracking rests no more.
LEMMA FilledIsGone ==
  ASSUME TypeOK, LotsApart, Covered, NEW w \in Workers, ReportFill(w)
  PROVE  \A p \in OrderIds : active[p] > 0 => active'[p] > 0 \/ book[p] = {}
<1> DEFINE o == hit[w].order
           n == Cardinality(hit[w].lot)
<1>1. /\ hit[w].lot \in SUBSET Contracts /\ n \in Nat
      /\ active \in [OrderIds -> 0 .. Size] /\ book \in [OrderIds -> SUBSET Contracts]
  BY LotsAreFinite DEF HitType, TypeOK
<1>2. active' = [active EXCEPT ![o] = Remaining(@, n)]
  BY DEF ReportFill
<1>3. ASSUME o \in OrderIds, active[o] > 0, ~ (active'[o] > 0)
      PROVE  book[o] = {}
  <2>1. n >= active[o] /\ active[o] \in Nat
    BY <1>1, <1>2, <1>3 DEF Remaining
  <2>2. active[o] >= Cardinality(Outstanding(o))
    BY <1>3 DEF Covered, TrackedCoversOutstanding
  <2>3. hit[w].lot \subseteq Outstanding(o)
    BY DEF Outstanding
  <2>4. book[o] \subseteq Outstanding(o) \ hit[w].lot
    BY <1>3 DEF Outstanding, LotsApart
  <2>5. Cardinality(book[o]) <= Cardinality(Outstanding(o)) - n
    BY <1>3, <2>3, <2>4, WithoutLot
  <2>6. /\ Cardinality(Outstanding(o)) \in Nat
        /\ IsFiniteSet(book[o]) /\ Cardinality(book[o]) \in Nat
    BY <1>1, <1>3, SmallerOutstanding, LotsAreFinite
  <2>7. Cardinality(book[o]) = 0
    BY <1>1, <2>1, <2>2, <2>5, <2>6
  <2> QED
    BY <2>6, <2>7, FS_EmptySet
<1>4. \A p \in OrderIds : p # o => active'[p] = active[p]
  BY <1>1, <1>2
<1> QED
  BY <1>3, <1>4

\* What rests is tracked, or is being tracked or cancelled.
LEMMA ReachableStep ==
  ASSUME "delete_underlying" \notin Ops, TypeOK, TypeOK', BooksStay, UsedIds,
     StaleIsGone, LotsApart, Covered, Reachable, [Next]_vars
  PROVE  Reachable'
<1> USE DEF At, Goto, Begin, SetJob, SetPurge, SetHit, engineVars, bookVars, locals
<1>0. Typed
  BY DEF TypeOK, Typed
<1> USE DEF Typed
<1>1. ASSUME NEW w \in Workers, KeepsJob(w)
      PROVE  Reachable'
  <2>1. UNCHANGED book /\ \A v \in Workers \ {w} : pc'[v] = pc[v]
    BY <1>1, KeepsBooks
  <2>2. \A v \in Workers \ {w} : job'[v] = job[v]
    BY <1>1, JobKeeps
  <2>3. CASE NextVictim(w)
    <3>1. ~ At(w, "track") /\ pc[w] \notin {"clear_slot", "cancel_victim"}
      BY <2>3 DEF NextVictim
    <3>2. \A v \in Workers \ {w} : purge'[v] = purge[v]
      BY <2>3, NextVictimCases
    <3>3. ASSUME NEW o \in OrderIds, active'[o] # active[o]
          PROVE  purge'[w].order = o /\ pc'[w] = "clear_slot"
      BY <2>3, <3>3, NextVictimCases
    <3>4. QED
      BY <2>1, <2>2, <3>1, <3>2, <3>3 DEF Reachable, BeingTracked, BeingCancelled
  <2>4. CASE ~ NextVictim(w)
    <3>1. /\ UNCHANGED <<active, purge>>
          /\ ~ At(w, "track") /\ pc[w] \notin {"clear_slot", "cancel_victim"}
      BY <1>1, <2>4, PurgeKeeps
    <3>2. QED
      BY <2>1, <2>2, <3>1 DEF Reachable, BeingTracked, BeingCancelled
  <2>5. QED
    BY <2>3, <2>4
<1>2. ASSUME NEW w \in Workers, ReadStale(w)
      PROVE  Reachable'
  <2>1. UNCHANGED <<book, active, purge>> /\ ~ At(w, "track")
        /\ pc[w] \notin {"clear_slot", "cancel_victim"}
    BY <1>2 DEF ReadStale
  <2>2. \A v \in Workers \ {w} : pc'[v] = pc[v] /\ job'[v] = job[v]
    BY <1>2, <1>0 DEF ReadStale
  <2>3. QED
    BY <2>1, <2>2 DEF Reachable, BeingTracked, BeingCancelled
<1>3. ASSUME NEW w \in Workers, CancelStale(w)
      PROVE  Reachable'
  BY <1>3, <1>0 DEF CancelStale, Reachable, BeingTracked, BeingCancelled
<1>4. ASSUME NEW w \in Workers, PruneActive(w)
      PROVE  Reachable'
  <2>1. \A o \in OrderIds : book[o] # {} => active'[o] = active[o]
    BY <1>4 DEF PruneActive, StaleIsGone
  <2>2. UNCHANGED <<book, job, purge>> /\ ~ At(w, "track")
        /\ pc[w] \notin {"clear_slot", "cancel_victim"}
    BY <1>4 DEF PruneActive
  <2>3. \A v \in Workers \ {w} : pc'[v] = pc[v]
    BY <1>4, <1>0 DEF PruneActive
  <2>4. QED
    BY <2>1, <2>2, <2>3 DEF Reachable, BeingTracked, BeingCancelled
<1>5. ASSUME NEW w \in Workers, PruneIndex(w)
      PROVE  Reachable'
  BY <1>5, <1>0 DEF PruneIndex, Reachable, BeingTracked, BeingCancelled
<1>6. ASSUME NEW w \in Workers, AddLeg(w)
      PROVE  Reachable'
  <2>1. UNCHANGED <<active, purge>> /\ ~ At(w, "track")
        /\ pc[w] \notin {"clear_slot", "cancel_victim"}
    BY <1>6, AddLegCases DEF AddLeg
  <2>2. \A v \in Workers \ {w} : pc'[v] = pc[v] /\ job'[v] = job[v]
    BY <1>6, <1>0, AddLegCases DEF Accepted, Refused
  <2>3. CASE Refused(w)
    BY <2>1, <2>2, <2>3 DEF Refused, Reachable, BeingTracked, BeingCancelled
  <2>4. CASE Accepted(w)
    <3>1. /\ job'[w].fresh = nextId /\ pc'[w] = "track"
          /\ \A o \in OrderIds \ {nextId} : book'[o] = book[o]
      BY <1>0, <2>4 DEF Accepted
    <3>2. QED
      BY <2>1, <2>2, <3>1 DEF Reachable, BeingTracked, BeingCancelled
  <2>5. QED
    BY <1>6, <2>3, <2>4, AddLegCases
<1>7. ASSUME NEW w \in Workers, TrackLeg(w)
      PROVE  Reachable'
  <2>1. UNCHANGED <<book, purge>> /\ pc[w] \notin {"clear_slot", "cancel_victim"}
    BY <1>7 DEF TrackLeg
  <2>2. \A v \in Workers \ {w} : pc'[v] = pc[v] /\ job'[v] = job[v]
    BY <1>7, <1>0 DEF TrackLeg
  <2>3. /\ active' = [active EXCEPT ![job[w].fresh] = Size]
        /\ active \in [OrderIds -> 0 .. Size] /\ Size > 0
    BY <1>7, SizeAssumption DEF TrackLeg, TrackedQuantity, TypeOK
  <2>4. \A o \in OrderIds : active'[o] = active[o] \/ active'[o] > 0
    BY <2>3
  <2>5. \A o \in OrderIds : job[w].fresh = o => active'[o] > 0
    BY <2>3
  <2>6. QED
    BY <2>1, <2>2, <2>4, <2>5 DEF Reachable, BeingTracked, BeingCancelled
<1>8. ASSUME NEW w \in Workers, NEW v \in BOOLEAN, SetEnabled(w, v)
      PROVE  Reachable'
  <2>1. UNCHANGED <<book, active, job>> /\ ~ At(w, "track")
        /\ pc[w] \notin {"clear_slot", "cancel_victim"}
    BY <1>8 DEF SetEnabled
  <2>2. \A u \in Workers \ {w} : pc'[u] = pc[u] /\ purge'[u] = purge[u]
    BY <1>8, <1>0 DEF SetEnabled
  <2>3. QED
    BY <2>1, <2>2 DEF Reachable, BeingTracked, BeingCancelled
<1>9. ASSUME NEW w \in Workers, SnapshotOrders(w)
      PROVE  Reachable'
  BY <1>9, <1>0 DEF SnapshotOrders, Reachable, BeingTracked, BeingCancelled
<1>10. ASSUME NEW w \in Workers, ClearVictimSlot(w)
      PROVE  Reachable'
  BY <1>10, <1>0 DEF ClearVictimSlot, Reachable, BeingTracked, BeingCancelled
<1>11. ASSUME NEW w \in Workers, CancelVictim(w)
      PROVE  Reachable'
  <2>1. UNCHANGED <<active, job>> /\ ~ At(w, "track")
    BY <1>11 DEF CancelVictim
  <2>2. \A v \in Workers \ {w} : pc'[v] = pc[v] /\ purge'[v] = purge[v]
    BY <1>11, <1>0 DEF CancelVictim
  <2>3. \A o \in OrderIds : book'[o] \subseteq book[o]
    BY <1>11, <1>0 DEF CancelVictim
  <2>4. \A o \in OrderIds : purge[w].order = o => book'[o] = {}
    <3>1. ASSUME NEW o \in OrderIds, purge[w].order = o PROVE book'[o] = {}
      <4>1. Attached(o)
        BY <3>1 DEF Attached, BooksStay, UsedIds, UsedInLocals, TypeOK, OrderInfo
      <4>2. book' = [book EXCEPT ![o] = {}]
        BY <1>11, <3>1, <4>1 DEF CancelVictim, Found
      <4>3. QED
        BY <1>0, <4>2
    <3>2. QED
      BY <3>1
  <2>5. QED
    BY <2>1, <2>2, <2>3, <2>4 DEF Reachable, BeingTracked, BeingCancelled
<1>12. ASSUME NEW w \in Workers, ClearIndex(w)
      PROVE  Reachable'
  BY <1>12, <1>0 DEF ClearIndex, Reachable, BeingTracked, BeingCancelled
<1>13. ASSUME NEW w \in Workers, Match(w)
      PROVE  Reachable'
  <2>1. UNCHANGED <<active, job, purge>> /\ ~ At(w, "track")
        /\ pc[w] \notin {"clear_slot", "cancel_victim"}
    BY <1>13 DEF Match
  <2>2. \A v \in Workers \ {w} : pc'[v] = pc[v]
    BY <1>13, <1>0 DEF Match
  <2>3. \A o \in OrderIds : book'[o] \subseteq book[o]
    BY <1>13, <1>0 DEF Match
  <2>4. QED
    BY <2>1, <2>2, <2>3 DEF Reachable, BeingTracked, BeingCancelled
<1>14. ASSUME NEW w \in Workers, ReportFill(w)
      PROVE  Reachable'
  <2>1. /\ UNCHANGED <<book, job, purge>> /\ ~ At(w, "track")
        /\ pc[w] \notin {"clear_slot", "cancel_victim"}
    BY <1>14 DEF ReportFill
  <2>2. \A v \in Workers \ {w} : pc'[v] = pc[v]
    BY <1>14, <1>0 DEF ReportFill
  <2> QED
    BY <1>14, <2>1, <2>2, FilledIsGone DEF Reachable, BeingTracked, BeingCancelled
<1>15. ASSUME NEW w \in Workers, ClearFilledSlot(w)
      PROVE  Reachable'
  BY <1>15, <1>0 DEF ClearFilledSlot, Reachable, BeingTracked, BeingCancelled
<1>16. ASSUME NEW w \in Workers, NEW i \in Instruments, CreateBook(w, i)
      PROVE  Reachable'
  BY <1>16, <1>0 DEF CreateBook, Reachable, BeingTracked, BeingCancelled
<1>17. ASSUME NEW w \in Workers, NEW s \in Symbols, DeleteUnderlying(w, s)
      PROVE  Reachable'
  BY <1>17, <1>0 DEF DeleteUnderlying, Reachable, BeingTracked, BeingCancelled
<1>18. CASE UNCHANGED vars
  BY <1>18 DEF vars, Reachable, BeingTracked, BeingCancelled
<1>19. QED
  BY <1>1, <1>2, <1>3, <1>4, <1>5, <1>6, <1>7, <1>8, <1>9, <1>10, <1>11, <1>12,
     <1>13, <1>14, <1>15, <1>16, <1>17, <1>18 DEF Next, Call, Continue, KeepsJob


Accounted == TypeOK /\ UsedIds /\ LotsApart /\ Covered

LEMMA AccountedHolds == Spec => []Accounted
<1>1. Init => Accounted
  <2> SUFFICES ASSUME Init PROVE Accounted
    OBVIOUS
  <2>1. TypeOK
    BY TypeInit
  <2>2. UsedIds
    BY ConstantsOK DEF Init, UsedIds, UsedInBooks, UsedInJobs, UsedInLocals, Used,
       NoJob, NoPurge, NoHit, EmptySlots, NoOrder, OrderIds
  <2>3. LotsApart /\ Covered
    BY DEF Init, LotsApart, NoHit, Covered, TrackedCoversOutstanding
  <2> QED
    BY <2>1, <2>2, <2>3 DEF Accounted
<1>2. Accounted /\ TypeOK' /\ [Next]_vars => Accounted'
  BY UsedInBooksStep, UsedInJobsStep, UsedInLocalsStep, LotsApartStep, CoveredStep
     DEF Accounted, UsedIds
<1> QED
  BY <1>1, <1>2, TypeCorrect, PTL DEF Spec

\* What is tracked of an order covers what rests of it and what unreported
\* fills took of it (on_order_filled), in whatever order fills are reported and
\* whatever books are deleted meanwhile.
THEOREM TrackedIsEnough == Spec => []TrackedCoversOutstanding
<1>1. Accounted => TrackedCoversOutstanding
  BY DEF Accounted, Covered
<1> QED
  BY <1>1, AccountedHolds, PTL

\* As long as no client deletes an underlying, whatever rests is tracked, or is
\* being tracked or cancelled by a worker, and the tracked quantity covers it:
\* the invariant, in every state of every instance.
THEOREM Inductive ==
  ASSUME "delete_underlying" \notin Ops
  PROVE  Spec => []IInv
<1>1. Init => BooksStay /\ StaleIsGone /\ Reachable
  BY ConstantsOK DEF Init, BooksStay, Used, NoJob, OrderIds, StaleIsGone, Reachable, At
<1>2. Accounted /\ Accounted' /\ BooksStay /\ StaleIsGone /\ Reachable /\ [Next]_vars
        => BooksStay' /\ StaleIsGone' /\ Reachable'
  BY BooksStayStep, StaleIsGoneStep, ReachableStep DEF Accounted
<1>3. Accounted /\ BooksStay /\ StaleIsGone /\ Reachable => IInv
  BY DEF Accounted, IInv
<1> QED
  BY <1>1, <1>2, <1>3, AccountedHolds, PTL DEF Spec

\* No quote is ever out of the engine's reach (update_quote, cancel_order,
\* on_order_filled), as long as no underlying is deleted.
THEOREM NoQuoteIsOrphaned ==
  ASSUME "delete_underlying" \notin Ops
  PROVE  Spec => []NoOrphanQuote
<1>1. IInv => NoOrphanQuote
  BY DEF IInv, Reachable, NoOrphanQuote, Rests
<1>2. QED
  BY <1>1, Inductive, PTL

-----------------------------------------------------------------------------
(***************************************************************************)
(* One thread.  When a single thread serves all requests, an operation     *)
(* runs to its end before the next begins: the tracking agrees with the    *)
(* index, the switches take effect and the quotes follow the price.        *)
(*                                                                         *)
(* The invariant comes in layers, each resting on those before it, and     *)
(* says for every label what an operation has done when it gets there.     *)
(***************************************************************************)
OneThread == \E w : Workers = {w}

-----------------------------------------------------------------------------
(***************************************************************************)
(* What the steps do to the fields of a worker's locals.                   *)
(***************************************************************************)
SameBooks == UNCHANGED <<info, nextId, book, open, gen>>
\* The fields of a requote that tell where its walk is.
SameWalk(w) == /\ job'[w].syms = job[w].syms /\ job'[w].todo = job[w].todo
               /\ job'[w].sym = job[w].sym /\ job'[w].spot = job[w].spot

\* The calls that touch neither orders nor books, and the steps to the walk.
Calm(w) ==
  \/ \E s \in Symbols, p \in Prices : UpdatePrice(w, s, p)
  \/ GateEnabled(w) \/ GateSymbol(w) \/ SetParameter(w)
  \/ NextSymbol(w) \/ StartRequote(w)
  \/ \E v \in BOOLEAN : SetEnabled(w, v)
  \/ \E s \in Symbols, v \in BOOLEAN : SetSymbolEnabled(w, s, v)

LEMMA CalmDoes ==
  ASSUME TypeOK, NEW w \in Workers, Calm(w)
  PROVE  /\ SameBooks /\ UNCHANGED <<active, index, hit>>
         /\ pc[w] \in {"idle", "gate_enabled", "gate_symbol", "next_symbol", "start"}
         /\ pc'[w] \in {"idle", "gate_enabled", "gate_symbol", "next_symbol", "start",
                        "next_instrument", "snapshot_orders"}
<1> USE DEF SameBooks, TypeOK, At, Goto, Begin, bookVars, engineVars
<1>1. CASE \E s \in Symbols, p \in Prices : UpdatePrice(w, s, p)
  BY <1>1 DEF UpdatePrice
<1>2. CASE GateEnabled(w) \/ GateSymbol(w) \/ SetParameter(w)
  BY <1>2 DEF GateEnabled, GateSymbol, SetParameter
<1>3. CASE NextSymbol(w)
  BY <1>3 DEF NextSymbol
<1>4. CASE StartRequote(w)
  BY <1>4 DEF StartRequote
<1>5. CASE \E v \in BOOLEAN : SetEnabled(w, v)
  BY <1>5 DEF SetEnabled
<1>6. CASE \E s \in Symbols, v \in BOOLEAN : SetSymbolEnabled(w, s, v)
  BY <1>6 DEF SetSymbolEnabled
<1> QED
  BY <1>1, <1>2, <1>3, <1>4, <1>5, <1>6 DEF Calm

LEMMA NextInstrumentDoes ==
  ASSUME TypeOK, NEW w \in Workers, NextInstrument(w)
  PROVE  /\ SameBooks /\ UNCHANGED <<engineVars, active, index, purge, hit>>
         /\ pc[w] = "next_instrument"
         /\ job'[w].syms = job[w].syms
         /\ job'[w].sym = job[w].sym /\ job'[w].spot = job[w].spot
         /\ \/ job[w].todo = {} /\ pc'[w] = "next_symbol"
            \/ \E i \in job[w].todo :
                 /\ job'[w].todo = job[w].todo \ {i}
                 /\ \/ /\ i \in open /\ pc'[w] = "read_stale"
                       /\ job'[w].inst = i /\ job'[w].gen = gen[i]
                    \/ /\ <<i, job[w].spot>> \in NoQuote \/ i \notin open
                       /\ pc'[w] = "next_instrument"
<1>0. job[w] \in JobType /\ job \in [Workers -> JobType] /\ pc \in [Workers -> Labels]
  BY DEF TypeOK
<1>1. SameBooks /\ UNCHANGED <<engineVars, active, index, purge, hit>> /\ pc[w] = "next_instrument"
  BY DEF NextInstrument, SameBooks, bookVars, At
<1>2. CASE /\ job[w].todo = {} /\ Goto(w, "next_symbol") /\ UNCHANGED job
  BY <1>0, <1>1, <1>2 DEF Goto
<1>3. CASE \E i \in job[w].todo :
          IF <<i, job[w].spot>> \notin NoQuote /\ i \in open
          THEN /\ SetJob(w, [job[w] EXCEPT !.todo = @ \ {i}, !.inst = i, !.gen = gen[i]])
               /\ Goto(w, "read_stale")
          ELSE /\ SetJob(w, [job[w] EXCEPT !.todo = @ \ {i}])
               /\ UNCHANGED pc
  <2>1. PICK i \in job[w].todo :
          IF <<i, job[w].spot>> \notin NoQuote /\ i \in open
          THEN /\ SetJob(w, [job[w] EXCEPT !.todo = @ \ {i}, !.inst = i, !.gen = gen[i]])
               /\ Goto(w, "read_stale")
          ELSE /\ SetJob(w, [job[w] EXCEPT !.todo = @ \ {i}])
               /\ UNCHANGED pc
    BY <1>3
  <2>2. CASE <<i, job[w].spot>> \notin NoQuote /\ i \in open
    <3>1. job'[w] = [job[w] EXCEPT !.todo = @ \ {i}, !.inst = i, !.gen = gen[i]]
      BY <1>0, <2>1, <2>2 DEF SetJob
    <3>2. pc'[w] = "read_stale"
      BY <1>0, <2>1, <2>2 DEF Goto
    <3> QED
      BY <1>0, <1>1, <2>2, <3>1, <3>2 DEF JobType
  <2>3. CASE ~ (<<i, job[w].spot>> \notin NoQuote /\ i \in open)
    <3>1. job'[w] = [job[w] EXCEPT !.todo = @ \ {i}]
      BY <1>0, <2>1, <2>3 DEF SetJob
    <3> QED
      BY <1>0, <1>1, <2>1, <2>3, <3>1 DEF JobType
  <2> QED
    BY <2>2, <2>3
<1> QED
  BY <1>2, <1>3 DEF NextInstrument

LEMMA ReadStaleDoes ==
  ASSUME TypeOK, NEW w \in Workers, ReadStale(w)
  PROVE  /\ SameBooks /\ UNCHANGED <<engineVars, active, index, purge, hit>>
         /\ SameWalk(w)
         /\ pc[w] = "read_stale"
         /\ job'[w].inst = job[w].inst /\ job'[w].gen = job[w].gen
         /\ job'[w].stale = index[job[w].inst]
         /\ job'[w].placed = EmptySlots
         /\ pc'[w] = IF index[job[w].inst] = EmptySlots THEN "add" ELSE "cancel_stale"
<1>0. job[w] \in JobType /\ job \in [Workers -> JobType] /\ pc \in [Workers -> Labels]
  BY DEF TypeOK
<1>1. job'[w] = [job[w] EXCEPT !.stale = index[job[w].inst], !.leg = "bid", !.placed = EmptySlots]
  BY <1>0 DEF ReadStale, SetJob
<1> QED
  BY <1>0, <1>1 DEF ReadStale, AfterRead, JobType, SameBooks, SameWalk, bookVars, At, Goto

\* The order of the leg comes to rest with the metadata of the requote.
Placed(w) ==
  /\ nextId \in OrderIds
  /\ \E n \in 0 .. Size : book' = [book EXCEPT ![nextId] = 1 .. n]
  /\ info' = [info EXCEPT ![nextId] = [inst |-> job[w].inst, leg |-> job[w].leg,
                                      spot |-> job[w].spot, gen |-> job[w].gen]]
  /\ nextId' = nextId + 1
  /\ job'[w].fresh = nextId /\ job'[w].leg = job[w].leg
  /\ pc'[w] = "track"
NotPlaced(w) ==
  /\ UNCHANGED <<book, info, nextId>>
  /\ job'[w].leg = "ask"
  /\ pc'[w] = IF job[w].leg = "bid" THEN "add" ELSE "record"

LEMMA AddLegDoes ==
  ASSUME TypeOK, NEW w \in Workers, AddLeg(w)
  PROVE  /\ UNCHANGED <<engineVars, active, index, open, gen, purge, hit>>
         /\ SameWalk(w)
         /\ pc[w] = "add"
         /\ job'[w].inst = job[w].inst /\ job'[w].gen = job[w].gen
         /\ job'[w].placed = job[w].placed
         /\ Placed(w) \/ NotPlaced(w)
<1>0. job[w] \in JobType /\ job \in [Workers -> JobType] /\ pc \in [Workers -> Labels]
  BY DEF TypeOK
<1>1. UNCHANGED <<engineVars, active, index, open, gen, purge, hit>> /\ pc[w] = "add"
  BY DEF AddLeg, At
<1>2. CASE UNCHANGED <<book, info, nextId>> /\ SetJob(w, [job[w] EXCEPT !.leg = "ask"])
           /\ Goto(w, AfterLeg(w))
  <2>1. job'[w] = [job[w] EXCEPT !.leg = "ask"]
    BY <1>0, <1>2 DEF SetJob
  <2> QED
    BY <1>0, <1>1, <1>2, <2>1 DEF JobType, SameWalk, NotPlaced, Goto, AfterLeg
<1>3. CASE /\ nextId \in OrderIds
           /\ \E n \in 0 .. Size : book' = [book EXCEPT ![nextId] = 1 .. n]
           /\ info' = [info EXCEPT ![nextId] =
                         [inst |-> job[w].inst, leg |-> job[w].leg,
                          spot |-> job[w].spot, gen |-> job[w].gen]]
           /\ nextId' = nextId + 1
           /\ SetJob(w, [job[w] EXCEPT !.fresh = nextId])
           /\ Goto(w, "track")
  <2>1. job'[w] = [job[w] EXCEPT !.fresh = nextId]
    BY <1>0, <1>3 DEF SetJob
  <2>2. /\ job'[w].fresh = nextId /\ job'[w].leg = job[w].leg /\ SameWalk(w)
        /\ job'[w].inst = job[w].inst /\ job'[w].gen = job[w].gen
        /\ job'[w].placed = job[w].placed
    BY <1>0, <2>1 DEF JobType, SameWalk
  <2>3. pc'[w] = "track"
    BY <1>0, <1>3 DEF Goto
  <2> QED
    BY <1>1, <1>3, <2>2, <2>3 DEF Placed
<1> QED
  BY <1>2, <1>3 DEF AddLeg

LEMMA TrackLegDoes ==
  ASSUME TypeOK, NEW w \in Workers, TrackLeg(w)
  PROVE  /\ SameBooks /\ UNCHANGED <<engineVars, index, purge, hit>>
         /\ SameWalk(w)
         /\ pc[w] = "track"
         /\ active' = [active EXCEPT ![job[w].fresh] = Size]
         /\ job'[w].inst = job[w].inst /\ job'[w].gen = job[w].gen
         /\ job'[w].placed = [job[w].placed EXCEPT ![job[w].leg] = job[w].fresh]
         /\ job'[w].leg = "ask"
         /\ pc'[w] = IF job[w].leg = "bid" THEN "add" ELSE "record"
<1>0. job[w] \in JobType /\ job \in [Workers -> JobType] /\ pc \in [Workers -> Labels]
  BY DEF TypeOK
<1>1. job'[w] = [job[w] EXCEPT !.placed[job[w].leg] = job[w].fresh, !.fresh = NoOrder, !.leg = "ask"]
  BY <1>0 DEF TrackLeg, SetJob
<1>2. /\ job'[w].inst = job[w].inst /\ job'[w].gen = job[w].gen
      /\ job'[w].placed = [job[w].placed EXCEPT ![job[w].leg] = job[w].fresh]
      /\ job'[w].leg = "ask" /\ SameWalk(w)
  BY <1>0, <1>1 DEF JobType, SameWalk
<1> QED
  BY <1>0, <1>2 DEF TrackLeg, TrackedQuantity, AfterLeg, SameBooks, bookVars, At, Goto

LEMMA RecordLegsDoes ==
  ASSUME TypeOK, NEW w \in Workers, RecordLegs(w)
  PROVE  /\ SameBooks /\ UNCHANGED <<engineVars, active, purge, hit>>
         /\ SameWalk(w)
         /\ pc[w] = "record" /\ pc'[w] = "next_instrument"
         /\ index' = IF job[w].placed = EmptySlots THEN index
                     ELSE [index EXCEPT ![job[w].inst] = job[w].placed]
<1>0. job[w] \in JobType /\ job \in [Workers -> JobType] /\ pc \in [Workers -> Labels]
  BY DEF TypeOK
<1>1. job'[w] = [job[w] EXCEPT !.stale = EmptySlots, !.placed = EmptySlots, !.leg = "bid"]
  BY <1>0 DEF RecordLegs, SetJob
<1>2. SameWalk(w)
  BY <1>0, <1>1 DEF JobType, SameWalk
<1> QED
  BY <1>0, <1>2 DEF RecordLegs, Recorded, SameBooks, bookVars, At, Goto

LEMMA SnapshotOrdersDoes ==
  ASSUME TypeOK, NEW w \in Workers, SnapshotOrders(w)
  PROVE  /\ SameBooks /\ UNCHANGED <<engineVars, active, index, job, hit>>
         /\ pc[w] = "snapshot_orders" /\ pc'[w] = "next_victim"
         /\ purge'[w].victims = VictimsOf(w)
         /\ purge'[w].all = purge[w].all
<1>0. purge[w] \in PurgeType /\ purge \in [Workers -> PurgeType] /\ pc \in [Workers -> Labels]
  BY DEF TypeOK
<1>1. purge'[w] = [purge[w] EXCEPT !.victims = VictimsOf(w)]
  BY <1>0 DEF SnapshotOrders, SetPurge
<1> QED
  BY <1>0, <1>1 DEF SnapshotOrders, PurgeType, SameBooks, bookVars, At, Goto

\* cancel_order takes an order out of tracking, or finds it gone.
Forget(w, o) ==
  /\ active[o] > 0
  /\ purge'[w].victims = purge[w].victims \ {o} /\ purge'[w].order = o
  /\ pc'[w] = "clear_slot"
PassOver(w, o) ==
  /\ ~ (active[o] > 0)
  /\ purge'[w].victims = purge[w].victims \ {o}
  /\ pc'[w] = "next_victim"
NoMoreVictims(w) ==
  /\ purge[w].victims = {} /\ UNCHANGED active
  /\ IF purge[w].all THEN pc'[w] = "clear_index" /\ UNCHANGED <<purge, job>>
     ELSE pc'[w] = "idle" /\ job'[w] = NoJob

LEMMA NextVictimDoes ==
  ASSUME TypeOK, NEW w \in Workers, NextVictim(w)
  PROVE  /\ SameBooks /\ UNCHANGED <<engineVars, index, hit>>
         /\ pc[w] = "next_victim"
         /\ \/ NoMoreVictims(w)
            \/ /\ UNCHANGED job /\ purge'[w].all = purge[w].all
               /\ \E o \in purge[w].victims :
                    active' = [active EXCEPT ![o] = 0] /\ (Forget(w, o) \/ PassOver(w, o))
<1>0. /\ purge[w] \in PurgeType /\ purge \in [Workers -> PurgeType]
      /\ pc \in [Workers -> Labels] /\ job \in [Workers -> JobType]
  BY DEF TypeOK
<1>1. SameBooks /\ UNCHANGED <<engineVars, index, hit>> /\ pc[w] = "next_victim"
  BY DEF NextVictim, SameBooks, bookVars, At
<1>2. CASE /\ purge[w].victims = {}
           /\ IF purge[w].all
              THEN Goto(w, "clear_index") /\ UNCHANGED <<purge, job>>
              ELSE Goto(w, "idle") /\ SetPurge(w, NoPurge) /\ SetJob(w, NoJob)
           /\ UNCHANGED active
  BY <1>0, <1>1, <1>2 DEF NoMoreVictims, Goto, SetJob
<1>3. CASE \E o \in purge[w].victims :
          /\ active' = [active EXCEPT ![o] = 0]
          /\ IF active[o] > 0
             THEN /\ SetPurge(w, [purge[w] EXCEPT !.victims = @ \ {o}, !.order = o])
                  /\ Goto(w, "clear_slot")
             ELSE /\ SetPurge(w, [purge[w] EXCEPT !.victims = @ \ {o}])
                  /\ UNCHANGED pc
          /\ UNCHANGED job
  <2>1. PICK o \in purge[w].victims :
          /\ active' = [active EXCEPT ![o] = 0]
          /\ IF active[o] > 0
             THEN /\ SetPurge(w, [purge[w] EXCEPT !.victims = @ \ {o}, !.order = o])
                  /\ Goto(w, "clear_slot")
             ELSE /\ SetPurge(w, [purge[w] EXCEPT !.victims = @ \ {o}])
                  /\ UNCHANGED pc
          /\ UNCHANGED job
    BY <1>3
  <2>2. CASE active[o] > 0
    <3>1. purge'[w] = [purge[w] EXCEPT !.victims = @ \ {o}, !.order = o]
      BY <1>0, <2>1, <2>2 DEF SetPurge
    <3>2. /\ purge'[w].victims = purge[w].victims \ {o} /\ purge'[w].order = o
          /\ purge'[w].all = purge[w].all
      BY <1>0, <3>1 DEF PurgeType
    <3>3. pc'[w] = "clear_slot"
      BY <1>0, <2>1, <2>2 DEF Goto
    <3> QED
      BY <1>1, <2>1, <2>2, <3>2, <3>3 DEF Forget
  <2>3. CASE ~ (active[o] > 0)
    <3>1. purge'[w] = [purge[w] EXCEPT !.victims = @ \ {o}]
      BY <1>0, <2>1, <2>3 DEF SetPurge
    <3>2. /\ purge'[w].victims = purge[w].victims \ {o}
          /\ purge'[w].all = purge[w].all
      BY <1>0, <3>1 DEF PurgeType
    <3> QED
      BY <1>1, <2>1, <2>3, <3>2 DEF PassOver
  <2> QED
    BY <2>2, <2>3
<1> QED
  BY <1>2, <1>3 DEF NextVictim

LEMMA CancelVictimDoes ==
  ASSUME TypeOK, NEW w \in Workers, CancelVictim(w)
  PROVE  /\ UNCHANGED <<engineVars, active, index, info, nextId, open, gen, job, hit>>
         /\ pc[w] = "cancel_victim" /\ pc'[w] = "next_victim"
         /\ book' = IF Attached(purge[w].order) THEN [book EXCEPT ![purge[w].order] = {}]
                    ELSE book
         /\ purge'[w].victims = purge[w].victims /\ purge'[w].all = purge[w].all
<1>0. purge[w] \in PurgeType /\ purge \in [Workers -> PurgeType] /\ pc \in [Workers -> Labels]
  BY DEF TypeOK
<1>1. purge'[w] = [purge[w] EXCEPT !.order = NoOrder]
  BY <1>0 DEF CancelVictim, SetPurge
<1> QED
  BY <1>0, <1>1 DEF CancelVictim, Found, PurgeType, At, Goto

LEMMA MatchDoes ==
  ASSUME TypeOK, NEW w \in Workers, Match(w)
  PROVE  /\ UNCHANGED <<engineVars, active, index, info, nextId, open, gen, job, purge>>
         /\ pc[w] = "idle" /\ pc'[w] \in {"idle", "report"}
         /\ \A o \in OrderIds : book'[o] \subseteq book[o]
         /\ pc'[w] = "report" => hit'[w].order \in OrderIds
<1>0. /\ hit \in [Workers -> HitType] /\ pc \in [Workers -> Labels]
      /\ book \in [OrderIds -> SUBSET Contracts]
  BY DEF TypeOK
<1>1. PICK o \in OrderIds : \E lot \in SUBSET book[o] :
        /\ book' = [book EXCEPT ![o] = @ \ lot]
        /\ \/ SetHit(w, [order |-> o, lot |-> lot]) /\ Goto(w, "report")
           \/ UNCHANGED <<hit, pc>>
  BY DEF Match
<1>2. \A p \in OrderIds : book'[p] \subseteq book[p]
  BY <1>0, <1>1
<1>3. pc'[w] \in {"idle", "report"} /\ (pc'[w] = "report" => hit'[w].order \in OrderIds)
  BY <1>0, <1>1 DEF SetHit, Goto, Match, Begin, At
<1> QED
  BY <1>2, <1>3 DEF Match, Begin, At

LEMMA ReportFillDoes ==
  ASSUME TypeOK, NEW w \in Workers, ReportFill(w)
  PROVE  /\ SameBooks /\ UNCHANGED <<engineVars, index, job, purge>>
         /\ pc[w] = "report"
         /\ active' = [active EXCEPT ![hit[w].order] = Remaining(@, Cardinality(hit[w].lot))]
         /\ Cardinality(hit[w].lot) \in Nat
         /\ IF active[hit[w].order] > 0 /\ Cardinality(hit[w].lot) >= active[hit[w].order]
            THEN pc'[w] = "clear_filled_slot" /\ hit'[w].order = hit[w].order
            ELSE pc'[w] = "idle"
<1>0. hit \in [Workers -> HitType] /\ hit[w] \in HitType /\ pc \in [Workers -> Labels]
  BY DEF TypeOK
<1>1. [hit[w] EXCEPT !.lot = {}].order = hit[w].order
  BY <1>0 DEF HitType
<1>2. Cardinality(hit[w].lot) \in Nat
  BY <1>0, LotsAreFinite DEF HitType
<1> QED
  BY <1>0, <1>1, <1>2 DEF ReportFill, SameBooks, SetHit, bookVars, At, Goto

\* The steps of the only thread.
LEMMA Steps ==
  ASSUME NEW w \in Workers, Workers = {w}, [Next]_vars
  PROVE  \/ Calm(w) \/ NextInstrument(w) \/ ReadStale(w) \/ CancelStale(w)
         \/ PruneActive(w) \/ PruneIndex(w) \/ AddLeg(w) \/ TrackLeg(w) \/ RecordLegs(w)
         \/ SnapshotOrders(w) \/ NextVictim(w) \/ ClearVictimSlot(w) \/ CancelVictim(w)
         \/ ClearIndex(w) \/ Match(w) \/ ReportFill(w) \/ ClearFilledSlot(w)
         \/ \E i \in Instruments : CreateBook(w, i)
         \/ \E s \in Symbols : DeleteUnderlying(w, s)
         \/ UNCHANGED vars
BY DEF Next, Call, Continue, Calm

-----------------------------------------------------------------------------
(***************************************************************************)
(* What the books, the index and a requote know of the orders they name.   *)
(***************************************************************************)
Requoting == {"read_stale", "cancel_stale", "prune_active", "prune_index", "add",
              "track", "record"}
Walking == Requoting \cup {"next_instrument"}
Placing == {"add", "track", "record"}
Purging == {"next_victim", "clear_slot", "cancel_victim"}

Inst(o) == info[o].inst
Sym(o)  == SymbolOf[Inst(o)]

\* An order that was placed has its metadata, and an order of a deleted book is
\* of an earlier generation.
Known ==
  \A o \in OrderIds : Used(o) =>
    /\ info[o] \in OrderInfo
    /\ info[o].gen <= gen[Inst(o)]
    /\ Inst(o) \notin open => info[o].gen < gen[Inst(o)]

\* The index, and what a requote is about to write to it, name orders of the
\* instrument.
Named(slots, i) == \A l \in Legs : slots[l] # NoOrder => Inst(slots[l]) = i
IndexNamed == \A i \in Instruments : Named(index[i], i)

\* What a requote knows of the book it resolved and of the slots it read.
RequoteOK(w) ==
  /\ pc[w] \in Requoting => job[w].inst \in open /\ job[w].gen = gen[job[w].inst]
  /\ pc[w] \in {"cancel_stale", "prune_active"} => job[w].stale = index[job[w].inst]
  /\ pc[w] \in {"cancel_stale", "prune_active", "prune_index"} => job[w].placed = EmptySlots
  /\ pc[w] \in {"add", "track"} =>
       \A l \in Legs : job[w].placed[l] # NoOrder => l = "bid" /\ job[w].leg = "ask"
  /\ pc[w] \in Placing => Named(job[w].placed, job[w].inst)
  /\ pc[w] = "track" => /\ job[w].fresh \in OrderIds
                        /\ Inst(job[w].fresh) = job[w].inst
                        /\ info[job[w].fresh].leg = job[w].leg
  /\ pc[w] = "report" => hit[w].order \in OrderIds

Resolved(w) == Known /\ IndexNamed /\ RequoteOK(w)

\* Only AddLeg, CreateBook and DeleteUnderlying touch what Known is about.
LEMMA BooksChange ==
  ASSUME TypeOK, NEW w \in Workers, Workers = {w}, [Next]_vars
  PROVE  \/ UNCHANGED <<info, nextId, open, gen>>
         \/ AddLeg(w)
         \/ \E i \in Instruments : CreateBook(w, i)
         \/ \E s \in Symbols : DeleteUnderlying(w, s)
<1> USE DEF bookVars, SameBooks
<1>1. CASE Calm(w)
  BY <1>1, CalmDoes
<1>2. CASE NextInstrument(w) \/ ReadStale(w) \/ CancelStale(w) \/ PruneActive(w)
           \/ PruneIndex(w) \/ TrackLeg(w) \/ RecordLegs(w)
  BY <1>2 DEF NextInstrument, ReadStale, CancelStale, PruneActive, PruneIndex, TrackLeg,
     RecordLegs
<1>3. CASE SnapshotOrders(w) \/ NextVictim(w) \/ ClearVictimSlot(w) \/ CancelVictim(w)
           \/ ClearIndex(w)
  BY <1>3 DEF SnapshotOrders, NextVictim, ClearVictimSlot, CancelVictim, ClearIndex
<1>4. CASE Match(w) \/ ReportFill(w) \/ ClearFilledSlot(w)
  BY <1>4 DEF Match, ReportFill, ClearFilledSlot
<1>5. CASE UNCHANGED vars
  BY <1>5 DEF vars
<1> QED
  BY <1>1, <1>2, <1>3, <1>4, <1>5, Steps

\* The metadata of an order that is placed now.
LEMMA PlacedInfo ==
  ASSUME TypeOK, NEW w \in Workers, Placed(w)
  PROVE  /\ info'[nextId] \in OrderInfo
         /\ info'[nextId].inst = job[w].inst /\ info'[nextId].leg = job[w].leg
         /\ info'[nextId].spot = job[w].spot /\ info'[nextId].gen = job[w].gen
         /\ \A o \in OrderIds \ {nextId} : info'[o] = info[o] /\ book'[o] = book[o]
<1>1. job[w] \in JobType /\ info \in [OrderIds -> OrderInfo \cup {NoInfo}]
      /\ book \in [OrderIds -> SUBSET Contracts]
  BY DEF TypeOK
<1>2. PICK r : r = [inst |-> job[w].inst, leg |-> job[w].leg, spot |-> job[w].spot,
                    gen |-> job[w].gen]
  OBVIOUS
<1>3. r \in OrderInfo /\ r.inst = job[w].inst /\ r.leg = job[w].leg
      /\ r.spot = job[w].spot /\ r.gen = job[w].gen
  BY <1>1, <1>2 DEF JobType, OrderInfo
<1>4. info' = [info EXCEPT ![nextId] = r] /\ nextId \in OrderIds
  BY <1>2 DEF Placed
<1>5. \A o \in OrderIds \ {nextId} : book'[o] = book[o]
  BY <1>1 DEF Placed
<1> QED
  BY <1>1, <1>3, <1>4, <1>5

LEMMA KnownStep ==
  ASSUME NEW w \in Workers, Workers = {w}, TypeOK, Known, RequoteOK(w), [Next]_vars
  PROVE  Known'
<1>0. /\ gen \in [Instruments -> 0 .. MaxGen] /\ open \subseteq Instruments
      /\ nextId \in 1 .. MaxOrders + 1 /\ info \in [OrderIds -> OrderInfo \cup {NoInfo}]
      /\ job[w] \in JobType /\ MaxOrders \in Nat /\ MaxGen \in Nat
  BY BoundsAssumption DEF TypeOK
<1>1. CASE UNCHANGED <<info, nextId, open, gen>>
  BY <1>1 DEF Known, Used, Inst
<1>2. CASE AddLeg(w)
  <2>1. UNCHANGED <<open, gen>> /\ pc[w] = "add"
    BY <1>2, AddLegDoes
  <2>2. CASE NotPlaced(w)
    BY <2>1, <2>2 DEF NotPlaced, Known, Used, Inst
  <2>3. CASE Placed(w)
    <3>1. job[w].inst \in open /\ job[w].gen = gen[job[w].inst]
      BY <2>1 DEF RequoteOK, Requoting
    <3>2. /\ info'[nextId] \in OrderInfo
          /\ info'[nextId].inst = job[w].inst /\ info'[nextId].gen = job[w].gen
          /\ \A o \in OrderIds \ {nextId} : info'[o] = info[o]
      BY <2>3, PlacedInfo
    <3>3. nextId' = nextId + 1
      BY <2>3 DEF Placed
    <3>4. gen[job[w].inst] \in Int
      BY <1>0, <3>1
    <3>5. ASSUME NEW o \in OrderIds, Used(o)'
          PROVE  o = nextId \/ Used(o)
      BY <1>0, <3>3, <3>5 DEF Used, OrderIds
    <3> QED
      BY <1>0, <2>1, <3>1, <3>2, <3>4, <3>5 DEF Known, Inst
  <2> QED
    BY <1>2, <2>2, <2>3, AddLegDoes
<1>3. CASE \E i \in Instruments : CreateBook(w, i)
  <2>1. open \subseteq open' /\ UNCHANGED <<info, nextId, gen>>
    BY <1>3 DEF CreateBook
  <2> QED
    BY <2>1 DEF Known, Used, Inst
<1>4. CASE \E s \in Symbols : DeleteUnderlying(w, s)
  <2>1. PICK s \in Symbols : DeleteUnderlying(w, s)
    BY <1>4
  <2>2. /\ open' = open \ Of(s) /\ UNCHANGED <<info, nextId>>
        /\ gen' = [i \in Instruments |-> IF i \in Of(s) THEN gen[i] + 1 ELSE gen[i]]
    BY <2>1 DEF DeleteUnderlying
  <2>3. ASSUME NEW o \in OrderIds, Used(o)
        PROVE  /\ info'[o] \in OrderInfo
               /\ info'[o].gen <= gen'[Inst(o)]
               /\ Inst(o) \notin open' => info'[o].gen < gen'[Inst(o)]
    <3>1. info[o] \in OrderInfo /\ Inst(o) \in Instruments /\ info[o].gen \in 0 .. MaxGen
          /\ info[o].gen <= gen[Inst(o)]
          /\ (Inst(o) \notin open => info[o].gen < gen[Inst(o)])
      BY <2>3 DEF Known, OrderInfo, Inst
    <3>2. gen[Inst(o)] \in Int /\ gen'[Inst(o)] = IF Inst(o) \in Of(s) THEN gen[Inst(o)] + 1
                                                ELSE gen[Inst(o)]
      BY <1>0, <2>2, <3>1
    <3> QED
      BY <1>0, <2>2, <3>1, <3>2
  <2> QED
    BY <2>2, <2>3 DEF Known, Used, Inst
<1> QED
  BY <1>1, <1>2, <1>3, <1>4, BooksChange

\* The index is written by the steps named here only.
LEMMA IndexChange ==
  ASSUME TypeOK, NEW w \in Workers, Workers = {w}, [Next]_vars
  PROVE  \/ UNCHANGED index
         \/ PruneIndex(w) \/ RecordLegs(w) \/ ClearIndex(w)
         \/ ClearVictimSlot(w) \/ ClearFilledSlot(w)
<1>1. CASE Calm(w)
  BY <1>1, CalmDoes
<1>2. CASE NextInstrument(w) \/ ReadStale(w) \/ CancelStale(w) \/ PruneActive(w)
           \/ AddLeg(w) \/ TrackLeg(w)
  BY <1>2 DEF NextInstrument, ReadStale, CancelStale, PruneActive, AddLeg, TrackLeg
<1>3. CASE SnapshotOrders(w) \/ NextVictim(w) \/ CancelVictim(w)
  BY <1>3 DEF SnapshotOrders, NextVictim, CancelVictim
<1>4. CASE \/ Match(w) \/ ReportFill(w) 
           \/ \E i \in Instruments : CreateBook(w, i)
           \/ \E s \in Symbols : DeleteUnderlying(w, s)
  BY <1>4 DEF Match, ReportFill, CreateBook, DeleteUnderlying
<1>5. CASE UNCHANGED vars
  BY <1>5 DEF vars
<1> QED
  BY <1>1, <1>2, <1>3, <1>4, <1>5, Steps

LEMMA IndexNamedStep ==
  ASSUME NEW w \in Workers, Workers = {w}, TypeOK, UsedIds, IndexNamed, RequoteOK(w),
         [Next]_vars
  PROVE  IndexNamed'
<1>0. /\ index \in [Instruments -> [Legs -> OrderIds \cup {NoOrder}]]
      /\ job[w] \in JobType /\ nextId \in 1 .. MaxOrders + 1
      /\ MaxOrders \in Nat
  BY BoundsAssumption DEF TypeOK
<1>1. CASE AddLeg(w)
  <2>1. UNCHANGED index
    BY <1>1, AddLegDoes
  <2>2. \A i \in Instruments, l \in Legs : index[i][l] < nextId
    BY DEF UsedIds, UsedInBooks, Used
  <2>3. \A i \in Instruments, l \in Legs :
          index[i][l] # NoOrder => index[i][l] \in OrderIds \ {nextId}
    BY <1>0, <2>2 DEF OrderIds
  <2>4. \A o \in OrderIds \ {nextId} : info'[o] = info[o]
    BY <1>1, AddLegDoes, PlacedInfo DEF NotPlaced
  <2> QED
    BY <2>1, <2>3, <2>4 DEF IndexNamed, Named, Inst
<1>2. CASE ~ AddLeg(w)
  <2>1. UNCHANGED info
    BY <1>2, BooksChange DEF CreateBook, DeleteUnderlying
  <2>2. CASE UNCHANGED index
    BY <2>1, <2>2 DEF IndexNamed, Named, Inst
  <2>3. CASE PruneIndex(w) \/ ClearIndex(w)
    <3>1. \A i \in Instruments : index'[i] \in {index[i], EmptySlots}
      BY <1>0, <2>3 DEF PruneIndex, ClearIndex
    <3> QED
      BY <2>1, <3>1 DEF IndexNamed, Named, Inst, EmptySlots
  <2>4. CASE RecordLegs(w)
    <3>1. pc[w] = "record" /\ \A i \in Instruments :
            index'[i] = index[i] \/ (i = job[w].inst /\ index'[i] = job[w].placed)
      BY <1>0, <2>4, RecordLegsDoes
    <3>2. Named(job[w].placed, job[w].inst)
      BY <3>1 DEF RequoteOK, Placing
    <3> QED
      BY <2>1, <3>1, <3>2 DEF IndexNamed, Named, Inst
  <2>5. CASE ClearVictimSlot(w) \/ ClearFilledSlot(w)
    <3>1. \A i \in Instruments, l \in Legs : index'[i][l] \in {index[i][l], NoOrder}
      BY <1>0, <2>5 DEF ClearVictimSlot, ClearFilledSlot, ClearSlot
    <3> QED
      BY <2>1, <3>1 DEF IndexNamed, Named, Inst
  <2> QED
    BY <2>2, <2>3, <2>4, <2>5, IndexChange
<1> QED
  BY <1>1, <1>2

\* A requote keeps what it knows from its first step on an instrument to the
\* last: nothing else runs meanwhile.
LEMMA RequoteOKStep ==
  ASSUME NEW w \in Workers, Workers = {w}, TypeOK, UsedIds, Resolved(w), [Next]_vars
  PROVE  RequoteOK(w)'
<1> USE DEF RequoteOK, Requoting, Placing, At, Goto
<1>0. /\ index \in [Instruments -> [Legs -> OrderIds \cup {NoOrder}]]
      /\ job[w] \in JobType /\ nextId \in 1 .. MaxOrders + 1
      /\ pc \in [Workers -> Labels] /\ MaxOrders \in Nat
      /\ gen \in [Instruments -> 0 .. MaxGen]
  BY BoundsAssumption DEF TypeOK
<1>a. RequoteOK(w)
  BY DEF Resolved
<1>1. CASE Calm(w)
  BY <1>1, CalmDoes
<1>2. CASE NextInstrument(w)
  BY <1>2, NextInstrumentDoes DEF SameBooks
<1>3. CASE ReadStale(w)
  BY <1>0, <1>a, <1>3, ReadStaleDoes DEF SameBooks, EmptySlots, Named
<1>4. CASE CancelStale(w)
  BY <1>0, <1>a, <1>4 DEF CancelStale, locals
<1>5. CASE PruneActive(w)
  BY <1>0, <1>a, <1>5 DEF PruneActive, locals, bookVars
<1>6. CASE PruneIndex(w)
  BY <1>0, <1>a, <1>6 DEF PruneIndex, locals, bookVars, Named, EmptySlots
<1>7. CASE AddLeg(w)
  <2>1. /\ UNCHANGED <<index, open, gen, hit>> /\ pc[w] = "add"
        /\ job'[w].inst = job[w].inst /\ job'[w].gen = job[w].gen
        /\ job'[w].placed = job[w].placed
    BY <1>7, AddLegDoes
  <2>2. job[w].placed \in [Legs -> OrderIds \cup {NoOrder}] /\ \A l \in Legs : job[w].placed[l] < nextId
    BY <1>0 DEF UsedIds, UsedInJobs, Used, JobType
  <2>3. CASE Placed(w)
    <3>1. /\ info'[nextId].inst = job[w].inst /\ info'[nextId].leg = job[w].leg
          /\ \A o \in OrderIds \ {nextId} : info'[o] = info[o]
      BY <2>3, PlacedInfo
    <3>2. Named(job[w].placed, job[w].inst)'
      <4>1. \A l \in Legs : job[w].placed[l] # NoOrder => job[w].placed[l] \in OrderIds \ {nextId}
        BY <1>0, <2>2 DEF OrderIds
      <4> QED
        BY <1>a, <2>1, <3>1, <4>1 DEF Named, Inst
    <3>3. pc'[w] = "track" /\ job'[w].fresh = nextId /\ nextId \in OrderIds
          /\ job'[w].leg = job[w].leg
      BY <2>3 DEF Placed
    <3> QED
      BY <1>a, <2>1, <3>1, <3>2, <3>3 DEF Inst
  <2>4. CASE NotPlaced(w)
    <3>1. UNCHANGED info /\ job'[w].leg = "ask" /\ pc'[w] \in {"add", "record"}
          /\ (pc'[w] = "add" => job[w].leg = "bid")
      BY <2>4 DEF NotPlaced
    <3> QED
      BY <1>a, <2>1, <3>1 DEF Named, Inst
  <2> QED
    BY <1>7, <2>3, <2>4, AddLegDoes
<1>8. CASE TrackLeg(w)
  <2>1. /\ SameBooks /\ UNCHANGED index /\ pc[w] = "track"
        /\ job'[w].inst = job[w].inst /\ job'[w].gen = job[w].gen
        /\ job'[w].placed = [job[w].placed EXCEPT ![job[w].leg] = job[w].fresh]
        /\ job'[w].leg = "ask"
        /\ pc'[w] = IF job[w].leg = "bid" THEN "add" ELSE "record"
    BY <1>8, TrackLegDoes
  <2>2. job[w].placed \in [Legs -> OrderIds \cup {NoOrder}] /\ job[w].leg \in Legs
    BY <1>0 DEF JobType
  <2>3. \A l \in Legs : job'[w].placed[l] = IF l = job[w].leg THEN job[w].fresh ELSE job[w].placed[l]
    BY <2>1, <2>2
  <2>4. Named(job[w].placed, job[w].inst)'
    BY <1>a, <2>1, <2>3 DEF Named, Inst, SameBooks
  <2>5. pc'[w] = "add" => \A l \in Legs : job'[w].placed[l] # NoOrder => l = "bid"
    BY <1>a, <2>1, <2>2, <2>3
  <2> QED
    BY <1>a, <2>1, <2>4, <2>5 DEF SameBooks
<1>9. CASE RecordLegs(w)
  BY <1>9, RecordLegsDoes
<1>10. CASE SnapshotOrders(w) \/ NextVictim(w) \/ CancelVictim(w)
  BY <1>10, SnapshotOrdersDoes, NextVictimDoes, CancelVictimDoes
     DEF Forget, PassOver, NoMoreVictims
<1>11. CASE ClearVictimSlot(w) \/ ClearIndex(w) \/ ClearFilledSlot(w)
  BY <1>0, <1>11 DEF ClearVictimSlot, ClearIndex, ClearFilledSlot
<1>12. CASE Match(w)
  BY <1>12, MatchDoes
<1>13. CASE ReportFill(w)
  BY <1>13, ReportFillDoes
<1>14. CASE \/ \E i \in Instruments : CreateBook(w, i)
            \/ \E s \in Symbols : DeleteUnderlying(w, s)
  BY <1>0, <1>14 DEF CreateBook, DeleteUnderlying, Begin
<1>15. CASE UNCHANGED vars
  BY <1>a, <1>15 DEF vars, bookVars, locals, Named, Inst
<1> QED
  BY <1>1, <1>2, <1>3, <1>4, <1>5, <1>6, <1>7, <1>8, <1>9, <1>10, <1>11, <1>12, <1>13,
     <1>14, <1>15, Steps

LEMMA ResolvedStep ==
  ASSUME NEW w \in Workers, Workers = {w}, TypeOK, UsedIds, Resolved(w), [Next]_vars
  PROVE  Resolved(w)'
BY KnownStep, IndexNamedStep, RequoteOKStep DEF Resolved

-----------------------------------------------------------------------------
(***************************************************************************)
(* What is tracked is indexed.                                             *)
(***************************************************************************)

\* The slot of the index an order belongs to, or what the requote that emptied
\* it is about to write there.
Slot(w, i, l) ==
  IF pc[w] \in Placing /\ i = job[w].inst THEN job[w].placed[l] ELSE index[i][l]

Indexed(w) == \A o \in OrderIds : active[o] > 0 => Slot(w, Inst(o), info[o].leg) = o

\* An order that has just left active_orders, and has its slot still.
Forgotten(o) ==
  o \in OrderIds /\ active[o] = 0 /\ index[Inst(o)][info[o].leg] = o

TrackingOK(w) ==
  /\ pc[w] = "prune_index" => \A o \in OrderIds : active[o] > 0 => Inst(o) # job[w].inst
  /\ pc[w] = "clear_slot" => Forgotten(purge[w].order)
  /\ pc[w] = "clear_filled_slot" => Forgotten(hit[w].order)
  /\ pc[w] \in Purging /\ purge[w].all =>
       \A o \in OrderIds : active[o] > 0 => o \in purge[w].victims
  /\ pc[w] = "clear_index" => \A o \in OrderIds : active[o] = 0

Tracking(w) == Indexed(w) /\ TrackingOK(w)

LEMMA TrackedIsKnown ==
  ASSUME TypeOK, UsedIds, Known, NEW o \in OrderIds, active[o] > 0 \/ book[o] # {}
  PROVE  /\ o < nextId /\ info[o] \in OrderInfo
         /\ Inst(o) \in Instruments /\ info[o].leg \in Legs
BY DEF UsedIds, UsedInBooks, Used, Known, OrderInfo, Inst

\* Taking one order out of the index costs no other order its slot.
LEMMA OwnSlotOnly ==
  ASSUME NEW w \in Workers, TypeOK, UsedIds, Known, Indexed(w), pc[w] \notin Placing,
         NEW o, Forgotten(o), ClearSlot(o), UNCHANGED <<active, info>>,
         pc'[w] \notin Placing
  PROVE  Indexed(w)'
<1>1. /\ index \in [Instruments -> [Legs -> OrderIds \cup {NoOrder}]]
      /\ active \in [OrderIds -> 0 .. Size]
  BY DEF TypeOK
<1>2. ASSUME NEW p \in OrderIds, active[p] > 0
      PROVE  index'[Inst(p)][info[p].leg] = p
  <2>1. Inst(p) \in Instruments /\ info[p].leg \in Legs /\ index[Inst(p)][info[p].leg] = p
    BY <1>2, TrackedIsKnown DEF Indexed, Slot
  <2>2. p # o
    BY <1>2 DEF Forgotten
  <2>3. ~ (Inst(p) = Inst(o) /\ info[p].leg = info[o].leg)
    BY <2>1, <2>2 DEF Forgotten
  <2> QED
    BY <1>1, <2>1, <2>3 DEF ClearSlot, Inst
<1> QED
  BY <1>2 DEF Indexed, Slot, Inst

\* Steps that touch neither tracking nor index, and read or write no slot.
LEMMA SameTracking ==
  ASSUME NEW w \in Workers, Indexed(w), UNCHANGED <<info, index>>,
         pc[w] \notin Placing, pc'[w] \notin Placing,
         \A o \in OrderIds : active'[o] > 0 => active[o] > 0
  PROVE  Indexed(w)'
BY DEF Indexed, Slot, Inst

LEMMA TrackingStep ==
  ASSUME NEW w \in Workers, Workers = {w}, TypeOK, UsedIds, Resolved(w), Tracking(w),
         [Next]_vars
  PROVE  Tracking(w)'
<1> USE DEF Placing, Purging, At, Goto
<1>0. /\ index \in [Instruments -> [Legs -> OrderIds \cup {NoOrder}]]
      /\ job[w] \in JobType /\ purge[w] \in PurgeType
      /\ pc \in [Workers -> Labels] /\ active \in [OrderIds -> 0 .. Size] /\ Size \in Nat
  BY SizeAssumption DEF TypeOK
<1>a. Known /\ IndexNamed /\ RequoteOK(w) /\ Indexed(w) /\ TrackingOK(w)
  BY DEF Resolved, Tracking
<1>b. \A o \in OrderIds : active[o] > 0 =>
         o < nextId /\ Inst(o) \in Instruments /\ info[o].leg \in Legs
  BY <1>a, TrackedIsKnown
<1>c. \A o \in OrderIds : o # NoOrder
  BY DEF OrderIds, NoOrder
<1>d. job[w].inst \in Instruments
  BY <1>0 DEF JobType
<1>1. CASE Calm(w)
  BY <1>a, <1>1, CalmDoes, SameTracking DEF Tracking, TrackingOK, SameBooks
<1>2. CASE NextInstrument(w)
  BY <1>a, <1>2, NextInstrumentDoes, SameTracking DEF Tracking, TrackingOK, SameBooks
<1>3. CASE ReadStale(w)
  <2>1. /\ SameBooks /\ UNCHANGED <<active, index>> /\ pc[w] = "read_stale"
        /\ job'[w].inst = job[w].inst /\ job'[w].placed = EmptySlots
        /\ pc'[w] = IF index[job[w].inst] = EmptySlots THEN "add" ELSE "cancel_stale"
    BY <1>3, ReadStaleDoes
  <2>2. ASSUME NEW o \in OrderIds, active[o] > 0
        PROVE  Slot(w, Inst(o), info[o].leg)' = o
    <3>1. index[Inst(o)][info[o].leg] = o
      BY <1>a, <2>1, <2>2 DEF Indexed, Slot
    <3>2. index[job[w].inst] = EmptySlots => Inst(o) # job[w].inst
      BY <1>b, <1>c, <2>2, <3>1 DEF EmptySlots
    <3> QED
      BY <2>1, <3>1, <3>2 DEF Slot, Inst, SameBooks
  <2> QED
    BY <2>1, <2>2 DEF Tracking, TrackingOK, Indexed, Inst, SameBooks
<1>4. CASE CancelStale(w)
  <2>1. UNCHANGED <<active, index, info>> /\ pc[w] = "cancel_stale" /\ pc'[w] = "prune_active"
    BY <1>0, <1>4 DEF CancelStale
  <2> QED
    BY <1>a, <2>1, SameTracking DEF Tracking, TrackingOK
<1>5. CASE PruneActive(w)
  <2>1. /\ UNCHANGED <<index, info, job>> /\ pc[w] = "prune_active" /\ pc'[w] = "prune_index"
        /\ active' = [o \in OrderIds |-> IF o \in StaleOf(w) THEN 0 ELSE active[o]]
    BY <1>0, <1>5 DEF PruneActive, bookVars, locals
  <2>2. Indexed(w)'
    BY <1>a, <2>1, SameTracking
  <2>3. ASSUME NEW o \in OrderIds, active'[o] > 0
        PROVE  Inst(o) # job[w].inst
    <3>1. active[o] > 0 /\ o \notin StaleOf(w)
      BY <2>1, <2>3
    <3>2. index[Inst(o)][info[o].leg] = o
      BY <1>a, <2>1, <3>1 DEF Indexed, Slot
    <3>3. job[w].stale = index[job[w].inst]
      BY <1>a, <2>1 DEF RequoteOK
    <3> QED
      BY <1>b, <1>c, <3>1, <3>2, <3>3 DEF StaleOf
  <2> QED
    BY <2>1, <2>2, <2>3 DEF Tracking, TrackingOK, Inst
<1>6. CASE PruneIndex(w)
  <2>1. /\ UNCHANGED <<active, info, job>> /\ pc[w] = "prune_index" /\ pc'[w] = "add"
        /\ index' = [index EXCEPT ![job[w].inst] = EmptySlots]
    BY <1>0, <1>6 DEF PruneIndex, bookVars, locals
  <2>2. ASSUME NEW o \in OrderIds, active[o] > 0
        PROVE  Slot(w, Inst(o), info[o].leg)' = o
    <3>1. index[Inst(o)][info[o].leg] = o /\ Inst(o) # job[w].inst
      BY <1>a, <2>1, <2>2 DEF Indexed, Slot, TrackingOK
    <3> QED
      BY <1>0, <1>b, <2>1, <2>2, <3>1 DEF Slot, Inst
  <2> QED
    BY <2>1, <2>2 DEF Tracking, TrackingOK, Indexed, Inst
<1>7. CASE AddLeg(w)
  <2>1. /\ UNCHANGED <<active, index>> /\ pc[w] = "add"
        /\ job'[w].inst = job[w].inst /\ job'[w].placed = job[w].placed
        /\ pc'[w] \in Placing
        /\ Placed(w) \/ NotPlaced(w)
    BY <1>7, AddLegDoes DEF Placed, NotPlaced
  <2>2. \A o \in OrderIds : o < nextId => info'[o] = info[o]
    <3>1. nextId \in Int
      BY DEF TypeOK
    <3> QED
      BY <2>1, <3>1, PlacedInfo DEF NotPlaced
  <2>3. ASSUME NEW o \in OrderIds, active[o] > 0
        PROVE  Slot(w, Inst(o), info[o].leg)' = o
    BY <1>a, <1>b, <2>1, <2>2, <2>3 DEF Slot, Inst, Indexed
  <2> QED
    BY <2>1, <2>3 DEF Tracking, TrackingOK, Indexed
<1>8. CASE TrackLeg(w)
  <2>1. /\ SameBooks /\ UNCHANGED index /\ pc[w] = "track"
        /\ active' = [active EXCEPT ![job[w].fresh] = Size]
        /\ job'[w].inst = job[w].inst
        /\ job'[w].placed = [job[w].placed EXCEPT ![job[w].leg] = job[w].fresh]
        /\ pc'[w] \in {"add", "record"}
    BY <1>8, TrackLegDoes
  <2>2. /\ job[w].placed \in [Legs -> OrderIds \cup {NoOrder}] /\ job[w].leg \in Legs
        /\ job[w].fresh \in OrderIds /\ Inst(job[w].fresh) = job[w].inst
        /\ info[job[w].fresh].leg = job[w].leg
        /\ job[w].placed[job[w].leg] = NoOrder
    BY <1>0, <1>a, <2>1 DEF JobType, RequoteOK
  <2>3. ASSUME NEW o \in OrderIds, active'[o] > 0
        PROVE  Slot(w, Inst(o), info[o].leg)' = o
    <3>1. CASE o = job[w].fresh
      BY <2>1, <2>2, <3>1 DEF Slot, Inst, SameBooks
    <3>2. CASE o # job[w].fresh
      <4>1. active[o] > 0
        BY <1>0, <2>1, <2>3, <3>2
      <4>2. Slot(w, Inst(o), info[o].leg) = o
        BY <1>a, <4>1 DEF Indexed
      <4>3. ~ (Inst(o) = job[w].inst /\ info[o].leg = job[w].leg)
        BY <1>c, <2>1, <2>2, <4>2 DEF Slot
      <4> QED
        BY <1>b, <2>1, <2>2, <4>1, <4>2, <4>3 DEF Slot, Inst, SameBooks
    <3> QED
      BY <3>1, <3>2
  <2> QED
    BY <2>1, <2>3 DEF Tracking, TrackingOK, Indexed
<1>9. CASE RecordLegs(w)
  <2>1. /\ SameBooks /\ UNCHANGED active
        /\ pc[w] = "record" /\ pc'[w] = "next_instrument"
        /\ index' = IF job[w].placed = EmptySlots THEN index
                    ELSE [index EXCEPT ![job[w].inst] = job[w].placed]
    BY <1>9, RecordLegsDoes
  <2>2. ASSUME NEW o \in OrderIds, active[o] > 0
        PROVE  index'[Inst(o)][info[o].leg] = o
    <3>1. Slot(w, Inst(o), info[o].leg) = o
      BY <1>a, <2>2 DEF Indexed
    <3>2. CASE Inst(o) = job[w].inst
      <4>1. job[w].placed[info[o].leg] = o
        BY <2>1, <3>1, <3>2 DEF Slot
      <4>2. job[w].placed # EmptySlots
        BY <1>b, <1>c, <2>2, <4>1 DEF EmptySlots
      <4> QED
        BY <1>0, <1>d, <2>1, <3>2, <4>1, <4>2
    <3>3. CASE Inst(o) # job[w].inst
      BY <1>0, <1>b, <2>1, <2>2, <3>1, <3>3 DEF Slot
    <3> QED
      BY <3>2, <3>3
  <2> QED
    BY <2>1, <2>2 DEF Tracking, TrackingOK, Indexed, Slot, Inst, SameBooks
<1>10. CASE SnapshotOrders(w)
  <2>1. /\ SameBooks /\ UNCHANGED <<active, index>>
        /\ pc[w] = "snapshot_orders" /\ pc'[w] = "next_victim"
        /\ purge'[w].victims = VictimsOf(w) /\ purge'[w].all = purge[w].all
    BY <1>10, SnapshotOrdersDoes
  <2>2. Indexed(w)'
    BY <1>a, <2>1, SameTracking DEF SameBooks
  <2> QED
    BY <2>1, <2>2 DEF Tracking, TrackingOK, VictimsOf
<1>11. CASE NextVictim(w)
  <2>1. SameBooks /\ UNCHANGED index /\ pc[w] = "next_victim"
    BY <1>11, NextVictimDoes
  <2>2. CASE NoMoreVictims(w)
    <3>1. UNCHANGED active /\ pc'[w] \in {"clear_index", "idle"} /\ purge[w].victims = {}
          /\ (pc'[w] = "clear_index" => purge[w].all)
      BY <2>2 DEF NoMoreVictims
    <3>2. Indexed(w)'
      BY <1>a, <2>1, <3>1, SameTracking DEF SameBooks
    <3>3. pc'[w] = "clear_index" => \A o \in OrderIds : active[o] = 0
      BY <1>0, <1>a, <2>1, <3>1 DEF TrackingOK
    <3> QED
      BY <3>1, <3>2, <3>3 DEF Tracking, TrackingOK
  <2>3. ASSUME NEW o \in purge[w].victims, purge'[w].all = purge[w].all,
               active' = [active EXCEPT ![o] = 0], Forget(w, o) \/ PassOver(w, o)
        PROVE  Tracking(w)'
    <3>1. o \in OrderIds
      BY <1>0, <2>3 DEF PurgeType
    <3>2. Indexed(w)'
      BY <1>0, <1>a, <2>1, <2>3, SameTracking DEF SameBooks, Forget, PassOver
    <3>3. purge'[w].all => \A p \in OrderIds : active'[p] > 0 => p \in purge'[w].victims
      BY <1>0, <1>a, <2>1, <2>3, <3>1 DEF TrackingOK, Forget, PassOver
    <3>4. pc'[w] = "clear_slot" => Forgotten(purge[w].order)'
      BY <1>0, <1>a, <2>1, <2>3, <3>1 DEF Forget, PassOver, Forgotten, Indexed, Slot,
         Inst, SameBooks
    <3> QED
      BY <2>3, <3>2, <3>3, <3>4 DEF Tracking, TrackingOK, Forget, PassOver
  <2> QED
    BY <1>11, <2>2, <2>3, NextVictimDoes
<1>12. CASE ClearVictimSlot(w)
  <2>1. /\ UNCHANGED <<active, info, purge>> /\ ClearSlot(purge[w].order)
        /\ pc[w] = "clear_slot" /\ pc'[w] = "cancel_victim"
    BY <1>0, <1>12 DEF ClearVictimSlot, bookVars, locals
  <2>2. Forgotten(purge[w].order)
    BY <1>a, <2>1 DEF TrackingOK
  <2>3. Indexed(w)'
    BY <1>a, <2>1, <2>2, OwnSlotOnly
  <2> QED
    BY <1>a, <2>1, <2>3 DEF Tracking, TrackingOK
<1>13. CASE CancelVictim(w)
  <2>1. /\ UNCHANGED <<active, info, index>>
        /\ purge'[w].victims = purge[w].victims /\ purge'[w].all = purge[w].all
        /\ pc[w] = "cancel_victim" /\ pc'[w] = "next_victim"
    BY <1>13, CancelVictimDoes
  <2>2. Indexed(w)'
    BY <1>a, <2>1, SameTracking
  <2> QED
    BY <1>a, <2>1, <2>2 DEF Tracking, TrackingOK
<1>14. CASE ClearIndex(w)
  <2>1. UNCHANGED active /\ pc[w] = "clear_index" /\ pc'[w] = "idle"
    BY <1>0, <1>14 DEF ClearIndex
  <2>2. \A o \in OrderIds : active[o] = 0
    BY <1>a, <2>1 DEF TrackingOK
  <2> QED
    BY <2>1, <2>2 DEF Tracking, TrackingOK, Indexed
<1>15. CASE Match(w)
  <2>1. /\ UNCHANGED <<active, info, index>> /\ pc[w] = "idle" /\ pc'[w] \in {"idle", "report"}
    BY <1>15, MatchDoes
  <2>2. Indexed(w)'
    BY <1>a, <2>1, SameTracking
  <2> QED
    BY <2>1, <2>2 DEF Tracking, TrackingOK
<1>16. CASE ReportFill(w)
  <2> DEFINE o == hit[w].order
             n == Cardinality(hit[w].lot)
  <2>1. /\ SameBooks /\ UNCHANGED index /\ pc[w] = "report" /\ n \in Nat
        /\ active' = [active EXCEPT ![o] = Remaining(@, n)]
        /\ IF active[o] > 0 /\ n >= active[o]
           THEN pc'[w] = "clear_filled_slot" /\ hit'[w].order = o
           ELSE pc'[w] = "idle"
    BY <1>16, ReportFillDoes
  <2>2. o \in OrderIds
    BY <1>a, <2>1 DEF RequoteOK
  <2> HIDE DEF n
  <2>3. \A p \in OrderIds : active'[p] > 0 => active[p] > 0
    BY <1>0, <2>1, <2>2 DEF Remaining
  <2>4. Indexed(w)'
    BY <1>a, <2>1, <2>3, SameTracking DEF SameBooks
  <2>5. pc'[w] = "clear_filled_slot" => Forgotten(hit[w].order)'
    BY <1>0, <1>a, <2>1, <2>2 DEF Forgotten, Remaining, Indexed, Slot, Inst, SameBooks
  <2> QED
    BY <2>1, <2>4, <2>5 DEF Tracking, TrackingOK
<1>17. CASE ClearFilledSlot(w)
  <2>1. /\ UNCHANGED <<active, info>> /\ ClearSlot(hit[w].order)
        /\ pc[w] = "clear_filled_slot" /\ pc'[w] = "idle"
    BY <1>0, <1>17 DEF ClearFilledSlot, bookVars
  <2>2. Forgotten(hit[w].order)
    BY <1>a, <2>1 DEF TrackingOK
  <2>3. Indexed(w)'
    BY <1>a, <2>1, <2>2, OwnSlotOnly
  <2> QED
    BY <2>1, <2>3 DEF Tracking, TrackingOK
<1>18. CASE \/ \E i \in Instruments : CreateBook(w, i)
            \/ \E s \in Symbols : DeleteUnderlying(w, s)
  <2>1. UNCHANGED <<active, info, index, pc>> /\ pc[w] = "idle"
    BY <1>18 DEF CreateBook, DeleteUnderlying, Begin
  <2> QED
    BY <1>a, <2>1, SameTracking DEF Tracking, TrackingOK
<1>19. CASE UNCHANGED vars
  BY <1>a, <1>19 DEF vars, bookVars, locals, Tracking, TrackingOK, Indexed, Slot, Inst,
     Forgotten
<1> QED
  BY <1>1, <1>2, <1>3, <1>4, <1>5, <1>6, <1>7, <1>8, <1>9, <1>10, <1>11, <1>12, <1>13,
     <1>14, <1>15, <1>16, <1>17, <1>18, <1>19, Steps

-----------------------------------------------------------------------------
(***************************************************************************)
(* What rests is tracked, whatever is deleted: nothing happens between the *)
(* look-up of a book and its use.                                          *)
(***************************************************************************)
Gone(w) ==
  pc[w] \in {"prune_active", "prune_index"} =>
    \A o \in OrderIds : Rests(o) => Inst(o) # job[w].inst

Held(w) ==
  \A o \in OrderIds : Rests(o) =>
    \/ active[o] > 0
    \/ pc[w] = "track" /\ job[w].fresh = o
    \/ pc[w] \in {"clear_slot", "cancel_victim"} /\ purge[w].order = o

Reaching(w) == Gone(w) /\ Held(w)

\* Only AddLeg adds to what rests on a book.
LEMMA BookShrinks ==
  ASSUME TypeOK, NEW w \in Workers, Workers = {w}, [Next]_vars, ~ AddLeg(w)
  PROVE  \A o \in OrderIds : book'[o] \subseteq book[o]
<1> USE DEF bookVars, SameBooks
<1>0. book \in [OrderIds -> SUBSET Contracts]
  BY DEF TypeOK
<1>1. CASE Calm(w)
  BY <1>1, CalmDoes
<1>2. CASE NextInstrument(w) \/ ReadStale(w) \/ PruneActive(w)
           \/ PruneIndex(w) \/ TrackLeg(w) \/ RecordLegs(w)
  BY <1>2 DEF NextInstrument, ReadStale, PruneActive, PruneIndex, TrackLeg, RecordLegs
<1>3. CASE CancelStale(w)
  BY <1>0, <1>3 DEF CancelStale
<1>4. CASE SnapshotOrders(w) \/ NextVictim(w) \/ ClearVictimSlot(w) \/ ClearIndex(w)
  BY <1>4 DEF SnapshotOrders, NextVictim, ClearVictimSlot, ClearIndex
<1>5. CASE CancelVictim(w)
  BY <1>0, <1>5, CancelVictimDoes
<1>6. CASE Match(w)
  BY <1>6, MatchDoes
<1>7. CASE ReportFill(w) \/ ClearFilledSlot(w)
  BY <1>7 DEF ReportFill, ClearFilledSlot
<1>8. CASE \/ \E i \in Instruments : CreateBook(w, i)
           \/ \E s \in Symbols : DeleteUnderlying(w, s)
  BY <1>8 DEF CreateBook, DeleteUnderlying
<1>9. CASE UNCHANGED vars
  BY <1>9 DEF vars
<1> QED
  BY <1>1, <1>2, <1>3, <1>4, <1>5, <1>6, <1>7, <1>8, <1>9, Steps

\* An order rests because it rested before or was placed now: a book made anew
\* has none of the orders of its predecessor.
LEMMA NoNewRest ==
  ASSUME NEW w \in Workers, Workers = {w}, TypeOK, UsedIds, Known, [Next]_vars,
         NEW o \in OrderIds, Rests(o)'
  PROVE  \/ Rests(o) /\ info'[o] = info[o] /\ o < nextId
         \/ AddLeg(w) /\ Placed(w) /\ o = nextId
<1>0. /\ gen \in [Instruments -> 0 .. MaxGen] /\ book \in [OrderIds -> SUBSET Contracts]
      /\ MaxGen \in Nat
  BY BoundsAssumption DEF TypeOK
<1>r. /\ book'[o] # {} /\ info'[o] # NoInfo /\ info'[o].inst \in open'
      /\ info'[o].gen = gen'[info'[o].inst]
  BY DEF Rests, Attached
<1>1. CASE AddLeg(w)
  <2>1. UNCHANGED <<open, gen>> /\ (Placed(w) \/ NotPlaced(w))
    BY <1>1, AddLegDoes
  <2>2. CASE o = nextId /\ Placed(w)
    BY <1>1, <2>2
  <2>3. CASE ~ (o = nextId /\ Placed(w))
    <3>1. info'[o] = info[o] /\ book'[o] = book[o]
      BY <2>1, <2>3, PlacedInfo DEF NotPlaced
    <3>2. o < nextId
      BY <1>r, <3>1, TrackedIsKnown
    <3> QED
      BY <1>r, <2>1, <3>1, <3>2 DEF Rests, Attached
  <2> QED
    BY <2>2, <2>3
<1>2. CASE ~ AddLeg(w)
  <2>1. book[o] # {}
    BY <1>r, <1>2, BookShrinks
  <2>2. o < nextId /\ info[o] \in OrderInfo /\ Inst(o) \in Instruments
    BY <2>1, TrackedIsKnown
  <2>3. /\ info[o].gen <= gen[Inst(o)] /\ (Inst(o) \notin open => info[o].gen < gen[Inst(o)])
        /\ info[o].gen \in Int /\ gen[Inst(o)] \in Int
    BY <1>0, <2>2 DEF Known, Used, OrderInfo
  <2>4. UNCHANGED info
    BY <1>2, BooksChange DEF CreateBook, DeleteUnderlying
  <2>5. info[o] # NoInfo /\ Inst(o) \in open'  /\ info[o].gen = gen'[Inst(o)]
    BY <1>r, <2>4 DEF Inst
  <2>6. gen'[Inst(o)] \in {gen[Inst(o)], gen[Inst(o)] + 1}
    <3>1. CASE \E s \in Symbols : DeleteUnderlying(w, s)
      BY <1>0, <2>2, <3>1 DEF DeleteUnderlying
    <3>2. CASE ~ \E s \in Symbols : DeleteUnderlying(w, s)
      BY <1>2, <3>2, BooksChange DEF CreateBook
    <3> QED
      BY <3>1, <3>2
  <2>7. info[o].gen = gen[Inst(o)] /\ Inst(o) \in open
    BY <2>3, <2>5, <2>6
  <2> QED
    BY <2>1, <2>2, <2>4, <2>5, <2>7 DEF Rests, Attached, Inst
<1> QED
  BY <1>1, <1>2

LEMMA ReachingStep ==
  ASSUME NEW w \in Workers, Workers = {w}, TypeOK, UsedIds, LotsApart, Covered,
         Resolved(w), Tracking(w), Reaching(w), [Next]_vars
  PROVE  Reaching(w)'
<1> USE DEF At, Goto
<1>0. /\ index \in [Instruments -> [Legs -> OrderIds \cup {NoOrder}]]
      /\ job[w] \in JobType /\ purge[w] \in PurgeType
      /\ pc \in [Workers -> Labels] /\ active \in [OrderIds -> 0 .. Size] /\ Size \in Nat \ {0}
      /\ book \in [OrderIds -> SUBSET Contracts]
  BY SizeAssumption DEF TypeOK
<1>a. Known /\ IndexNamed /\ RequoteOK(w) /\ Indexed(w) /\ TrackingOK(w) /\ Gone(w) /\ Held(w)
  BY DEF Resolved, Tracking, Reaching
<1>b. \A o \in OrderIds : Rests(o)' =>
        \/ Rests(o) /\ info'[o] = info[o] /\ o < nextId
        \/ AddLeg(w) /\ Placed(w) /\ o = nextId
  <2> SUFFICES ASSUME NEW o \in OrderIds, Rests(o)'
               PROVE  \/ Rests(o) /\ info'[o] = info[o] /\ o < nextId
                      \/ AddLeg(w) /\ Placed(w) /\ o = nextId
    OBVIOUS
  <2> QED
    BY <1>a, NoNewRest
\* A step that neither places nor forgets an order.
<1>c. ASSUME ~ AddLeg(w), UNCHANGED active,
             pc[w] \notin {"track", "clear_slot", "cancel_victim"},
             pc'[w] \notin {"prune_active", "prune_index"}
      PROVE  Reaching(w)'
  BY <1>a, <1>b, <1>c DEF Reaching, Gone, Held
<1>1. CASE Calm(w)
  <2>1. /\ UNCHANGED active /\ pc[w] \notin {"add", "track", "clear_slot", "cancel_victim"}
        /\ pc'[w] \notin {"prune_active", "prune_index"}
    BY <1>1, CalmDoes
  <2> QED
    BY <1>c, <2>1 DEF AddLeg
<1>2. CASE NextInstrument(w) \/ ReadStale(w)
  <2>1. /\ UNCHANGED active /\ pc[w] \notin {"add", "track", "clear_slot", "cancel_victim"}
        /\ pc'[w] \notin {"prune_active", "prune_index"}
    BY <1>2, NextInstrumentDoes, ReadStaleDoes
  <2> QED
    BY <1>c, <2>1 DEF AddLeg
<1>3. CASE CancelStale(w)
  <2>1. /\ UNCHANGED <<active, index, info, open, gen, job>> /\ pc[w] = "cancel_stale"
        /\ pc'[w] = "prune_active"
        /\ book' = [o \in OrderIds |->
             IF o \in StaleOf(w) /\ info[o].gen = job[w].gen THEN {} ELSE book[o]]
    BY <1>0, <1>3 DEF CancelStale, locals
  <2>2. ASSUME NEW o \in OrderIds, Rests(o)'
        PROVE  Rests(o) /\ active[o] > 0 /\ Inst(o) # job[w].inst
    <3>1. Rests(o) /\ active[o] > 0
      BY <1>a, <1>b, <2>1, <2>2 DEF Held, AddLeg
    <3>2. index[Inst(o)][info[o].leg] = o /\ info[o].leg \in Legs /\ o # NoOrder
      BY <1>a, <2>1, <3>1, TrackedIsKnown DEF Indexed, Slot, Placing, OrderIds, NoOrder
    <3>3. job[w].stale = index[job[w].inst] /\ job[w].gen = gen[job[w].inst]
      BY <1>a, <2>1 DEF RequoteOK, Requoting
    <3>4. ASSUME Inst(o) = job[w].inst PROVE FALSE
      <4>1. o \in StaleOf(w) /\ info[o].gen = job[w].gen
        BY <3>1, <3>2, <3>3, <3>4 DEF StaleOf, Rests, Attached, Inst
      <4>2. book'[o] = {}
        BY <2>1, <4>1
      <4> QED
        BY <2>2, <4>2 DEF Rests
    <3> QED
      BY <3>1, <3>4
  <2> QED
    BY <2>1, <2>2 DEF Reaching, Gone, Held, Inst
<1>4. CASE PruneActive(w)
  <2>1. /\ UNCHANGED <<book, index, info, open, gen, job>> /\ pc[w] = "prune_active"
        /\ pc'[w] = "prune_index"
        /\ active' = [o \in OrderIds |-> IF o \in StaleOf(w) THEN 0 ELSE active[o]]
    BY <1>0, <1>4 DEF PruneActive, bookVars, locals
  <2>2. ASSUME NEW o \in OrderIds, Rests(o)'
        PROVE  active'[o] > 0 /\ Inst(o) # job[w].inst
    <3>1. Rests(o) /\ active[o] > 0 /\ Inst(o) # job[w].inst
      BY <1>a, <2>1, <2>2 DEF Held, Gone, Rests, Attached
    <3>2. o \notin StaleOf(w)
      <4>1. job[w].stale = index[job[w].inst] /\ job[w].inst \in Instruments
        BY <1>0, <1>a, <2>1 DEF RequoteOK, JobType
      <4> QED
        BY <1>a, <3>1, <4>1 DEF StaleOf, IndexNamed, Named
    <3> QED
      BY <2>1, <3>1, <3>2
  <2> QED
    BY <2>1, <2>2 DEF Reaching, Gone, Held, Inst
<1>5. CASE PruneIndex(w)
  <2>1. UNCHANGED active /\ pc[w] = "prune_index" /\ pc'[w] = "add"
    BY <1>0, <1>5 DEF PruneIndex
  <2> QED
    BY <1>c, <2>1 DEF AddLeg
<1>6. CASE AddLeg(w)
  <2>1. UNCHANGED active /\ pc[w] = "add" /\ pc'[w] \in Placing
        /\ (Placed(w) => pc'[w] = "track" /\ job'[w].fresh = nextId)
    BY <1>6, AddLegDoes DEF Placed, NotPlaced, Placing
  <2> QED
    BY <1>a, <1>b, <2>1 DEF Reaching, Gone, Held, Placing
<1>7. CASE TrackLeg(w)
  <2>1. pc[w] = "track" /\ active' = [active EXCEPT ![job[w].fresh] = Size]
        /\ pc'[w] \in {"add", "record"}
    BY <1>7, TrackLegDoes
  <2>2. \A o \in OrderIds : active[o] > 0 \/ job[w].fresh = o => active'[o] > 0
    BY <1>0, <2>1
  <2> QED
    BY <1>a, <1>b, <2>1, <2>2 DEF Reaching, Gone, Held, AddLeg
<1>8. CASE RecordLegs(w) \/ SnapshotOrders(w)
  <2>1. /\ UNCHANGED active /\ pc[w] \in {"record", "snapshot_orders"}
        /\ pc'[w] \notin {"prune_active", "prune_index"}
    BY <1>8, RecordLegsDoes, SnapshotOrdersDoes
  <2> QED
    BY <1>c, <2>1 DEF AddLeg
<1>9. CASE NextVictim(w)
  <2>1. pc[w] = "next_victim"
    BY <1>9, NextVictimDoes
  <2>2. CASE NoMoreVictims(w)
    <3>1. UNCHANGED active /\ pc'[w] \in {"clear_index", "idle"}
      BY <2>2 DEF NoMoreVictims
    <3> QED
      BY <1>c, <2>1, <3>1 DEF AddLeg
  <2>3. ASSUME NEW o \in purge[w].victims,
               active' = [active EXCEPT ![o] = 0], Forget(w, o) \/ PassOver(w, o)
        PROVE  Reaching(w)'
    <3>1. \A p \in OrderIds : active[p] > 0 =>
             active'[p] > 0 \/ (pc'[w] = "clear_slot" /\ purge'[w].order = p)
      BY <1>0, <2>3 DEF Forget, PassOver
    <3>2. pc'[w] \in {"clear_slot", "next_victim"}
      BY <2>3 DEF Forget, PassOver
    <3> QED
      BY <1>a, <1>b, <2>1, <3>1, <3>2 DEF Reaching, Gone, Held, AddLeg
  <2> QED
    BY <1>9, <2>2, <2>3, NextVictimDoes
<1>10. CASE ClearVictimSlot(w)
  <2>1. UNCHANGED <<active, purge>> /\ pc[w] = "clear_slot" /\ pc'[w] = "cancel_victim"
    BY <1>0, <1>10 DEF ClearVictimSlot, locals
  <2> QED
    BY <1>a, <1>b, <2>1 DEF Reaching, Gone, Held, AddLeg
<1>11. CASE CancelVictim(w)
  <2>1. /\ UNCHANGED <<active, info, open, gen>> /\ pc[w] = "cancel_victim"
        /\ pc'[w] = "next_victim"
        /\ book' = IF Attached(purge[w].order) THEN [book EXCEPT ![purge[w].order] = {}]
                   ELSE book
    BY <1>11, CancelVictimDoes
  <2>2. ASSUME NEW o \in OrderIds, Rests(o)'
        PROVE  active[o] > 0
    <3>1. Rests(o)
      BY <1>b, <2>1, <2>2 DEF AddLeg
    <3>2. purge[w].order # o
      <4>1. ASSUME purge[w].order = o PROVE book'[o] = {}
        BY <1>0, <2>1, <3>1, <4>1 DEF Rests
      <4> QED
        BY <2>2, <4>1 DEF Rests
    <3> QED
      BY <1>a, <2>1, <3>1, <3>2 DEF Held
  <2> QED
    BY <2>1, <2>2 DEF Reaching, Gone, Held
<1>12. CASE ClearIndex(w) \/ Match(w) \/ ClearFilledSlot(w)
  <2>1. /\ UNCHANGED active /\ pc[w] \in {"clear_index", "idle", "clear_filled_slot"}
        /\ pc'[w] \notin {"prune_active", "prune_index"}
    BY <1>0, <1>12, MatchDoes DEF ClearIndex, ClearFilledSlot
  <2> QED
    BY <1>c, <2>1 DEF AddLeg
<1>13. CASE ReportFill(w)
  <2>1. UNCHANGED book /\ pc[w] = "report" /\ pc'[w] \in {"clear_filled_slot", "idle"}
    BY <1>13, ReportFillDoes DEF SameBooks
  <2>2. \A p \in OrderIds : active[p] > 0 => active'[p] > 0 \/ book[p] = {}
    BY <1>13, FilledIsGone
  <2> QED
    BY <1>a, <1>b, <2>1, <2>2 DEF Reaching, Gone, Held, AddLeg, Rests
<1>14. CASE \/ \E i \in Instruments : CreateBook(w, i)
            \/ \E s \in Symbols : DeleteUnderlying(w, s)
  <2>1. UNCHANGED <<active, pc>> /\ pc[w] = "idle"
    BY <1>14 DEF CreateBook, DeleteUnderlying, Begin
  <2> QED
    BY <1>c, <2>1 DEF AddLeg
<1>15. CASE UNCHANGED vars
  BY <1>a, <1>15 DEF vars, bookVars, locals, Reaching, Gone, Held, Rests, Attached, Inst
<1> QED
  BY <1>1, <1>2, <1>3, <1>4, <1>5, <1>6, <1>7, <1>8, <1>9, <1>10, <1>11, <1>12, <1>13,
     <1>14, <1>15, Steps

-----------------------------------------------------------------------------
(***************************************************************************)
(* The switches take effect.                                               *)
(***************************************************************************)
LEMMA UpdatePriceDoes ==
  ASSUME TypeOK, NEW w \in Workers, NEW s \in Symbols, NEW p \in Prices, UpdatePrice(w, s, p)
  PROVE  /\ SameBooks /\ UNCHANGED <<enabled, symbolEnabled, active, purge>>
         /\ pc[w] = "idle" /\ pc'[w] = "gate_enabled"
         /\ prices' = [prices EXCEPT ![s] = p]
         /\ job'[w].sym = s /\ job'[w].syms = job[w].syms
<1>0. job[w] \in JobType /\ job \in [Workers -> JobType] /\ pc \in [Workers -> Labels]
  BY DEF TypeOK
<1>1. job'[w] = [job[w] EXCEPT !.sym = s]
  BY <1>0 DEF UpdatePrice, SetJob
<1> QED
  BY <1>0, <1>1 DEF UpdatePrice, JobType, SameBooks, bookVars, Begin, At, Goto

LEMMA GatesDo ==
  ASSUME TypeOK, NEW w \in Workers, GateEnabled(w) \/ GateSymbol(w)
  PROVE  /\ SameBooks /\ UNCHANGED <<engineVars, active, purge>>
         /\ \/ pc[w] = "gate_enabled" /\ enabled /\ pc'[w] = "gate_symbol" /\ UNCHANGED job
            \/ /\ pc[w] = "gate_symbol" /\ symbolEnabled[job[w].sym]
               /\ pc'[w] = "start" /\ UNCHANGED job
            \/ /\ \/ pc[w] = "gate_enabled" /\ ~ enabled
                  \/ pc[w] = "gate_symbol" /\ ~ symbolEnabled[job[w].sym]
               /\ pc'[w] = "idle" /\ job'[w] = NoJob
<1>0. job \in [Workers -> JobType] /\ pc \in [Workers -> Labels]
  BY DEF TypeOK
<1>1. CASE GateEnabled(w)
  <2>1. CASE enabled
    BY <1>0, <1>1, <2>1 DEF GateEnabled, MayRequote, SameBooks, bookVars, At, Goto
  <2>2. CASE ~ enabled
    BY <1>0, <1>1, <2>2 DEF GateEnabled, MayRequote, SameBooks, bookVars, At, Goto, SetJob
  <2> QED
    BY <2>1, <2>2
<1>2. CASE GateSymbol(w)
  <2>1. CASE symbolEnabled[job[w].sym]
    BY <1>0, <1>2, <2>1 DEF GateSymbol, SymbolMayQuote, SameBooks, bookVars, At, Goto
  <2>2. CASE ~ symbolEnabled[job[w].sym]
    BY <1>0, <1>2, <2>2 DEF GateSymbol, SymbolMayQuote, SameBooks, bookVars, At, Goto, SetJob
  <2> QED
    BY <2>1, <2>2
<1> QED
  BY <1>1, <1>2

LEMMA NextSymbolDoes ==
  ASSUME TypeOK, NEW w \in Workers, NextSymbol(w)
  PROVE  /\ SameBooks /\ UNCHANGED <<engineVars, active, purge>>
         /\ pc[w] = "next_symbol"
         /\ \/ pc'[w] = "idle" /\ job'[w] = NoJob
            \/ \E s \in job[w].syms :
                 /\ job'[w].sym = s
                 /\ pc'[w] = "next_symbol" \/ (symbolEnabled[s] /\ pc'[w] = "start")
<1>0. job[w] \in JobType /\ job \in [Workers -> JobType] /\ pc \in [Workers -> Labels]
  BY DEF TypeOK
<1>1. SameBooks /\ UNCHANGED <<engineVars, active, purge>> /\ pc[w] = "next_symbol"
  BY DEF NextSymbol, SameBooks, bookVars, At
<1>2. CASE Goto(w, "idle") /\ SetJob(w, NoJob)
  BY <1>0, <1>1, <1>2 DEF Goto, SetJob
<1>3. CASE \E s \in job[w].syms :
          /\ SetJob(w, [job[w] EXCEPT !.sym = s, !.syms = @ \ {s}])
          /\ IF SymbolMayQuote(s) THEN Goto(w, "start") ELSE UNCHANGED pc
  <2>1. PICK s \in job[w].syms :
          /\ SetJob(w, [job[w] EXCEPT !.sym = s, !.syms = @ \ {s}])
          /\ IF SymbolMayQuote(s) THEN Goto(w, "start") ELSE UNCHANGED pc
    BY <1>3
  <2>2. job'[w] = [job[w] EXCEPT !.sym = s, !.syms = @ \ {s}]
    BY <1>0, <2>1 DEF SetJob
  <2>3. job'[w].sym = s
    BY <1>0, <2>2 DEF JobType
  <2>4. pc'[w] = "next_symbol" \/ (symbolEnabled[s] /\ pc'[w] = "start")
    <3>1. CASE symbolEnabled[s]
      BY <1>0, <2>1, <3>1 DEF SymbolMayQuote, Goto
    <3>2. CASE ~ symbolEnabled[s]
      BY <1>1, <2>1, <3>2 DEF SymbolMayQuote
    <3> QED
      BY <3>1, <3>2
  <2> QED
    BY <1>1, <2>3, <2>4
<1> QED
  BY <1>2, <1>3 DEF NextSymbol

LEMMA StartRequoteDoes ==
  ASSUME TypeOK, NEW w \in Workers, StartRequote(w)
  PROVE  /\ SameBooks /\ UNCHANGED <<engineVars, active, purge>>
         /\ pc[w] = "start"
         /\ job'[w].sym = job[w].sym /\ job'[w].syms = job[w].syms
         /\ \/ prices[job[w].sym] = NoPrice /\ pc'[w] = "next_symbol"
            \/ /\ job'[w].spot = prices[job[w].sym]
               /\ job'[w].todo = Of(job[w].sym) \cap open
               /\ pc'[w] = "next_instrument"
<1>0. job[w] \in JobType /\ job \in [Workers -> JobType] /\ pc \in [Workers -> Labels]
  BY DEF TypeOK
<1>1. SameBooks /\ UNCHANGED <<engineVars, active, purge>> /\ pc[w] = "start"
  BY DEF StartRequote, SameBooks, bookVars, At
<1>2. CASE prices[job[w].sym] = NoPrice
  BY <1>0, <1>1, <1>2 DEF StartRequote, Goto
<1>3. CASE prices[job[w].sym] # NoPrice
  <2>1. job'[w] = [job[w] EXCEPT !.spot = prices[job[w].sym], !.todo = Of(job[w].sym) \cap open]
    BY <1>0, <1>3 DEF StartRequote, SetJob
  <2>2. pc'[w] = "next_instrument"
    BY <1>0, <1>3 DEF StartRequote, Goto
  <2> QED
    BY <1>0, <1>1, <2>1, <2>2 DEF JobType
<1> QED
  BY <1>2, <1>3

LEMMA SetEnabledDoes ==
  ASSUME TypeOK, NEW w \in Workers, NEW v \in BOOLEAN, SetEnabled(w, v)
  PROVE  /\ SameBooks /\ UNCHANGED <<symbolEnabled, prices, active, job>>
         /\ pc[w] = "idle"
         /\ \/ enabled' /\ pc'[w] = "idle"
            \/ pc'[w] = "snapshot_orders" /\ purge'[w].all
<1>0. purge[w] \in PurgeType /\ purge \in [Workers -> PurgeType] /\ pc \in [Workers -> Labels]
  BY DEF TypeOK
<1>1. SameBooks /\ UNCHANGED <<symbolEnabled, prices, active, job>> /\ pc[w] = "idle"
      /\ enabled' = v
  BY DEF SetEnabled, SameBooks, bookVars, Begin, At
<1>2. CASE v
  BY <1>1, <1>2 DEF SetEnabled
<1>3. CASE ~ v
  <2>1. purge'[w] = [purge[w] EXCEPT !.all = TRUE]
    BY <1>0, <1>3 DEF SetEnabled, SetPurge
  <2>2. pc'[w] = "snapshot_orders"
    BY <1>0, <1>3 DEF SetEnabled, Goto
  <2> QED
    BY <1>0, <1>1, <2>1, <2>2 DEF PurgeType
<1> QED
  BY <1>2, <1>3

LEMMA SetSymbolEnabledDoes ==
  ASSUME TypeOK, NEW w \in Workers, NEW s \in Symbols, NEW v \in BOOLEAN,
         SetSymbolEnabled(w, s, v)
  PROVE  /\ SameBooks /\ UNCHANGED <<enabled, prices, active, purge>>
         /\ pc[w] = "idle"
         /\ \A r \in Symbols \ {s} : symbolEnabled'[r] = symbolEnabled[r]
         /\ job'[w].syms = job[w].syms
         /\ \/ symbolEnabled'[s] /\ pc'[w] = "idle"
            \/ pc'[w] = "snapshot_orders" /\ job'[w].sym = s
<1>0. /\ job[w] \in JobType /\ job \in [Workers -> JobType] /\ pc \in [Workers -> Labels]
      /\ symbolEnabled \in [Symbols -> BOOLEAN]
  BY DEF TypeOK
<1>1. /\ SameBooks /\ UNCHANGED <<enabled, prices, active, purge>> /\ pc[w] = "idle"
      /\ \A r \in Symbols \ {s} : symbolEnabled'[r] = symbolEnabled[r]
      /\ symbolEnabled'[s] = v
  BY <1>0 DEF SetSymbolEnabled, SameBooks, bookVars, Begin, At
<1>2. CASE v
  BY <1>1, <1>2 DEF SetSymbolEnabled
<1>3. CASE ~ v
  <2>1. job'[w] = [job[w] EXCEPT !.sym = s]
    BY <1>0, <1>3 DEF SetSymbolEnabled, SetJob
  <2>2. pc'[w] = "snapshot_orders"
    BY <1>0, <1>3 DEF SetSymbolEnabled, Goto
  <2> QED
    BY <1>0, <1>1, <2>1, <2>2 DEF JobType
<1> QED
  BY <1>2, <1>3

\* The cancellation under way is going to take the order off.
Covering(w, o) ==
  \/ pc[w] = "snapshot_orders" /\ (purge[w].all \/ job[w].sym = Sym(o))
  \/ pc[w] \in Purging /\ o \in purge[w].victims
  \/ pc[w] \in {"clear_slot", "cancel_victim"} /\ purge[w].order = o

Cancels(w) ==
  SnapshotOrders(w) \/ NextVictim(w) \/ ClearVictimSlot(w) \/ CancelVictim(w) \/ ClearIndex(w)

\* A step of a cancellation leaves no order out that it was to take off.
LEMMA CoveringStep ==
  ASSUME NEW w \in Workers, Workers = {w}, TypeOK, UsedIds, Known, Held(w), [Next]_vars,
         Cancels(w), NEW o \in OrderIds, Rests(o)', Covering(w, o)
  PROVE  Covering(w, o)'
<1> USE DEF At, Goto, Purging
<1>0. /\ pc \in [Workers -> Labels] /\ active \in [OrderIds -> 0 .. Size]
      /\ book \in [OrderIds -> SUBSET Contracts]
  BY DEF TypeOK
<1>a. Rests(o) /\ info'[o] = info[o]
  BY NoNewRest DEF Cancels, AddLeg, SnapshotOrders, NextVictim, ClearVictimSlot,
     CancelVictim, ClearIndex
<1>1. CASE SnapshotOrders(w)
  <2>1. /\ pc[w] = "snapshot_orders" /\ pc'[w] = "next_victim"
        /\ purge'[w].victims = VictimsOf(w)
    BY <1>1, SnapshotOrdersDoes
  <2>2. active[o] > 0 /\ (purge[w].all \/ job[w].sym = Sym(o))
    BY <1>a, <2>1 DEF Held, Covering
  <2> QED
    BY <2>1, <2>2 DEF Covering, VictimsOf, Sym, Inst
<1>2. CASE NextVictim(w)
  <2>1. pc[w] = "next_victim" /\ o \in purge[w].victims /\ active[o] > 0
    BY <1>2, <1>a, NextVictimDoes DEF Covering, Held
  <2>2. PICK p \in purge[w].victims : Forget(w, p) \/ PassOver(w, p)
    BY <1>2, <2>1, NextVictimDoes DEF NoMoreVictims
  <2>3. CASE p = o
    BY <2>1, <2>2, <2>3 DEF Forget, PassOver, Covering
  <2>4. CASE p # o
    BY <2>1, <2>2, <2>4 DEF Forget, PassOver, Covering
  <2> QED
    BY <2>3, <2>4
<1>3. CASE ClearVictimSlot(w)
  BY <1>0, <1>3 DEF ClearVictimSlot, locals, Covering
<1>4. CASE CancelVictim(w)
  <2>1. /\ pc[w] = "cancel_victim" /\ pc'[w] = "next_victim"
        /\ purge'[w].victims = purge[w].victims
        /\ book' = IF Attached(purge[w].order) THEN [book EXCEPT ![purge[w].order] = {}]
                   ELSE book
    BY <1>4, CancelVictimDoes
  <2>2. ASSUME purge[w].order = o PROVE book'[o] = {}
    BY <1>0, <1>a, <2>1, <2>2 DEF Rests
  <2>3. book'[o] # {}
    BY DEF Rests
  <2> QED
    BY <2>1, <2>2, <2>3 DEF Covering
<1>5. CASE ClearIndex(w)
  BY <1>5 DEF ClearIndex, Covering
<1> QED
  BY <1>1, <1>2, <1>3, <1>4, <1>5 DEF Cancels

\* No step of a cancellation touches the switches, the prices or the walk.
LEMMA CancelsDo ==
  ASSUME TypeOK, NEW w \in Workers, Cancels(w)
  PROVE  /\ UNCHANGED engineVars /\ ~ AddLeg(w)
         /\ pc'[w] \in Purging \cup {"clear_index", "idle"}
         /\ job'[w] \in {job[w], NoJob}
         /\ pc[w] \in Purging \cup {"clear_index", "snapshot_orders"}
<1> USE DEF At, Goto, Purging
<1>0. pc \in [Workers -> Labels]
  BY DEF TypeOK
<1>1. CASE SnapshotOrders(w)
  BY <1>1, SnapshotOrdersDoes DEF AddLeg
<1>2. CASE NextVictim(w)
  BY <1>2, NextVictimDoes DEF AddLeg, NoMoreVictims, Forget, PassOver
<1>3. CASE ClearVictimSlot(w)
  BY <1>0, <1>3 DEF ClearVictimSlot, locals, AddLeg
<1>4. CASE CancelVictim(w)
  BY <1>4, CancelVictimDoes DEF AddLeg
<1>5. CASE ClearIndex(w)
  BY <1>0, <1>5 DEF ClearIndex, AddLeg
<1> QED
  BY <1>1, <1>2, <1>3, <1>4, <1>5 DEF Cancels

\* The other steps that leave the walk of a requote where it is.
Elsewhere(w) ==
  \/ Match(w) \/ ReportFill(w) \/ ClearFilledSlot(w)
  \/ \E i \in Instruments : CreateBook(w, i)
  \/ \E s \in Symbols : DeleteUnderlying(w, s)

LEMMA ElsewhereDoes ==
  ASSUME TypeOK, NEW w \in Workers, Elsewhere(w)
  PROVE  /\ UNCHANGED <<engineVars, job>> /\ ~ AddLeg(w)
         /\ pc[w] \in {"idle", "report", "clear_filled_slot"}
         /\ pc'[w] \in {"idle", "report", "clear_filled_slot"}
<1> USE DEF At, Goto
<1>0. pc \in [Workers -> Labels]
  BY DEF TypeOK
<1>1. CASE Match(w)
  BY <1>1, MatchDoes DEF AddLeg
<1>2. CASE ReportFill(w)
  BY <1>2, ReportFillDoes DEF AddLeg
<1>3. CASE ClearFilledSlot(w)
  BY <1>0, <1>3 DEF ClearFilledSlot, AddLeg
<1>4. CASE \/ \E i \in Instruments : CreateBook(w, i)
           \/ \E s \in Symbols : DeleteUnderlying(w, s)
  BY <1>4 DEF CreateBook, DeleteUnderlying, Begin, AddLeg, locals
<1> QED
  BY <1>1, <1>2, <1>3, <1>4 DEF Elsewhere

\* The steps of a requote between the look-up of a book and its last write.
Replaces(w) ==
  ReadStale(w) \/ CancelStale(w) \/ PruneActive(w) \/ PruneIndex(w) \/ AddLeg(w) \/ TrackLeg(w)

LEMMA ReplacesDo ==
  ASSUME TypeOK, NEW w \in Workers, Replaces(w)
  PROVE  /\ UNCHANGED engineVars /\ SameWalk(w)
         /\ pc[w] \in Requoting /\ pc'[w] \in Requoting
         /\ job'[w].inst = job[w].inst
<1> USE DEF At, Goto, Requoting, SameWalk
<1>0. pc \in [Workers -> Labels]
  BY DEF TypeOK
<1>1. CASE ReadStale(w)
  BY <1>1, ReadStaleDoes
<1>2. CASE CancelStale(w) \/ PruneActive(w) \/ PruneIndex(w)
  BY <1>0, <1>2 DEF CancelStale, PruneActive, PruneIndex, locals
<1>3. CASE AddLeg(w)
  BY <1>3, AddLegDoes DEF Placed, NotPlaced
<1>4. CASE TrackLeg(w)
  BY <1>4, TrackLegDoes
<1> QED
  BY <1>1, <1>2, <1>3, <1>4 DEF Replaces

LEMMA StepsAgain ==
  ASSUME NEW w \in Workers, Workers = {w}, [Next]_vars
  PROVE  \/ \E s \in Symbols, p \in Prices : UpdatePrice(w, s, p)
         \/ GateEnabled(w) \/ GateSymbol(w) \/ SetParameter(w)
         \/ NextSymbol(w) \/ StartRequote(w)
         \/ \E v \in BOOLEAN : SetEnabled(w, v)
         \/ \E s \in Symbols, v \in BOOLEAN : SetSymbolEnabled(w, s, v)
         \/ NextInstrument(w) \/ RecordLegs(w)
         \/ Replaces(w) \/ Cancels(w) \/ Elsewhere(w) \/ UNCHANGED vars
BY Steps DEF Calm, Replaces, Cancels, Elsewhere

SymbolOff(w) ==
  /\ \A o \in OrderIds : Rests(o) => symbolEnabled[Sym(o)] \/ Covering(w, o)
  /\ pc[w] \in Walking \cup {"start"} => symbolEnabled[job[w].sym]
  /\ pc[w] \in Walking => job[w].todo \subseteq Of(job[w].sym)
  /\ pc[w] \in Requoting => SymbolOf[job[w].inst] = job[w].sym

LEMMA SymbolOffStep ==
  ASSUME NEW w \in Workers, Workers = {w}, TypeOK, UsedIds, Known, Held(w), SymbolOff(w),
         [Next]_vars
  PROVE  SymbolOff(w)'
<1> USE DEF Walking, Requoting
<1>b. \A o \in OrderIds : Rests(o)' =>
        \/ Rests(o) /\ info'[o] = info[o] /\ o < nextId
        \/ AddLeg(w) /\ Placed(w) /\ o = nextId
  BY NoNewRest
\* A step of a worker that is not cancelling and leaves the switches alone.
<1>c. ASSUME ~ AddLeg(w), UNCHANGED symbolEnabled, pc[w] \notin Purging \cup {"snapshot_orders"},
             NEW o \in OrderIds, Rests(o)'
      PROVE  symbolEnabled'[Sym(o)'] \/ Covering(w, o)'
  BY <1>b, <1>c DEF SymbolOff, Covering, Purging, Sym, Inst
<1>1. CASE \E s \in Symbols, p \in Prices : UpdatePrice(w, s, p)
  BY <1>1, <1>c, UpdatePriceDoes DEF SymbolOff, Purging, AddLeg, At
<1>2. CASE GateEnabled(w) \/ GateSymbol(w)
  BY <1>2, <1>c, GatesDo DEF SymbolOff, Purging, AddLeg, At, engineVars
<1>3. CASE SetParameter(w)
  <2>1. UNCHANGED symbolEnabled /\ pc[w] = "idle" /\ pc'[w] = "next_symbol"
    BY <1>3 DEF SetParameter, Begin, At, Goto, engineVars, TypeOK
  <2> QED
    BY <1>c, <2>1 DEF SymbolOff, Purging, AddLeg, At
<1>4. CASE NextSymbol(w)
  BY <1>4, <1>c, NextSymbolDoes DEF SymbolOff, Purging, AddLeg, At, engineVars
<1>5. CASE StartRequote(w)
  BY <1>5, <1>c, StartRequoteDoes DEF SymbolOff, Purging, AddLeg, At, engineVars
<1>6. CASE \E v \in BOOLEAN : SetEnabled(w, v)
  BY <1>6, <1>c, SetEnabledDoes DEF SymbolOff, Purging, AddLeg, At
<1>7. CASE \E s \in Symbols, v \in BOOLEAN : SetSymbolEnabled(w, s, v)
  <2>1. PICK s \in Symbols, v \in BOOLEAN : SetSymbolEnabled(w, s, v)
    BY <1>7
  <2>2. /\ pc[w] = "idle"
        /\ \A r \in Symbols \ {s} : symbolEnabled'[r] = symbolEnabled[r]
        /\ \/ symbolEnabled'[s] /\ pc'[w] = "idle"
           \/ pc'[w] = "snapshot_orders" /\ job'[w].sym = s
    BY <2>1, SetSymbolEnabledDoes
  <2>3. ASSUME NEW o \in OrderIds, Rests(o)'
        PROVE  symbolEnabled'[Sym(o)'] \/ Covering(w, o)'
    <3>1. Rests(o) /\ info'[o] = info[o] /\ Sym(o)' = Sym(o)
      BY <1>b, <2>2, <2>3 DEF AddLeg, At, Sym, Inst
    <3>2. symbolEnabled[Sym(o)]
      BY <2>2, <3>1 DEF SymbolOff, Covering, Purging
    <3>3. Sym(o) \in Symbols
      BY <3>1, TrackedIsKnown, SymbolOfAssumption DEF Rests, Sym
    <3> QED
      BY <2>2, <3>1, <3>2, <3>3 DEF Covering
  <2> QED
    BY <2>2, <2>3 DEF SymbolOff
<1>8. CASE NextInstrument(w)
  <2>1. ASSUME NEW o \in OrderIds, Rests(o)'
        PROVE  symbolEnabled'[Sym(o)'] \/ Covering(w, o)'
    BY <1>8, <1>c, <2>1, NextInstrumentDoes DEF Purging, AddLeg, At, engineVars
  <2>2. /\ UNCHANGED engineVars /\ pc[w] \in Walking /\ job'[w].sym = job[w].sym
        /\ \/ pc'[w] = "next_symbol"
           \/ \E i \in job[w].todo :
                /\ job'[w].todo = job[w].todo \ {i}
                /\ \/ pc'[w] = "read_stale" /\ job'[w].inst = i
                   \/ pc'[w] = "next_instrument"
    BY <1>8, NextInstrumentDoes
  <2>3. symbolEnabled'[job'[w].sym] /\ job[w].todo \subseteq Of(job[w].sym)
    BY <2>2 DEF SymbolOff, engineVars
  <2>4. CASE pc'[w] = "next_symbol"
    BY <2>1, <2>4 DEF SymbolOff
  <2>5. CASE pc'[w] # "next_symbol"
    <3>1. PICK i \in job[w].todo :
            /\ job'[w].todo = job[w].todo \ {i}
            /\ \/ pc'[w] = "read_stale" /\ job'[w].inst = i
               \/ pc'[w] = "next_instrument"
      BY <2>2, <2>5
    <3>2. i \in Of(job[w].sym)
      BY <2>3
    <3>3. SymbolOf[i] = job'[w].sym
      BY <2>2, <3>2 DEF Of
    <3>4. job'[w].todo \subseteq Of(job'[w].sym)
      BY <2>2, <2>3, <3>1
    <3> QED
      BY <2>1, <2>3, <3>1, <3>3, <3>4 DEF SymbolOff
  <2> QED
    BY <2>4, <2>5
<1>9. CASE RecordLegs(w)
  <2>1. ASSUME NEW o \in OrderIds, Rests(o)'
        PROVE  symbolEnabled'[Sym(o)'] \/ Covering(w, o)'
    BY <1>9, <1>c, <2>1, RecordLegsDoes DEF Purging, AddLeg, At, engineVars
  <2> QED
    BY <1>9, <2>1, RecordLegsDoes DEF SymbolOff, engineVars, SameWalk
<1>10. CASE Replaces(w)
  <2>1. ASSUME NEW o \in OrderIds, Rests(o)'
        PROVE  symbolEnabled'[Sym(o)'] \/ Covering(w, o)'
    <3>1. UNCHANGED symbolEnabled /\ pc[w] \in Requoting
      BY <1>10, ReplacesDo DEF engineVars
    <3>2. CASE Placed(w) /\ o = nextId
      BY <3>1, <3>2, PlacedInfo DEF SymbolOff, Sym, Inst
    <3>3. CASE ~ (Placed(w) /\ o = nextId)
      BY <1>b, <2>1, <3>1, <3>3 DEF SymbolOff, Covering, Purging, Sym, Inst
    <3> QED
      BY <3>2, <3>3
  <2> QED
    BY <1>10, <2>1, ReplacesDo DEF SymbolOff, engineVars, SameWalk
<1>11. CASE Cancels(w)
  <2>1. /\ UNCHANGED symbolEnabled /\ ~ AddLeg(w)
        /\ pc'[w] \notin Walking \cup {"start"}
    BY <1>11, CancelsDo DEF engineVars, Purging
  <2>2. ASSUME NEW o \in OrderIds, Rests(o)'
        PROVE  symbolEnabled'[Sym(o)'] \/ Covering(w, o)'
    <3>1. Rests(o) /\ Sym(o)' = Sym(o)
      BY <1>b, <2>1, <2>2 DEF Sym, Inst
    <3>2. Covering(w, o) => Covering(w, o)'
      BY <1>11, <2>2, CoveringStep
    <3> QED
      BY <2>1, <3>1, <3>2 DEF SymbolOff
  <2> QED
    BY <2>1, <2>2 DEF SymbolOff
<1>12. CASE Elsewhere(w)
  BY <1>12, <1>c, ElsewhereDoes DEF SymbolOff, Purging, engineVars
<1>13. CASE UNCHANGED vars
  BY <1>13 DEF vars, engineVars, bookVars, locals, SymbolOff, Covering, Rests, Attached,
     Sym, Inst
<1> QED
  BY <1>1, <1>2, <1>3, <1>4, <1>5, <1>6, <1>7, <1>8, <1>9, <1>10, <1>11, <1>12, <1>13,
     StepsAgain


-----------------------------------------------------------------------------
(***************************************************************************)
(* The kill switch.  Without set_parameter no requote passes the gate of a *)
(* disabled engine: requote_all is the one that does not ask is_enabled.   *)
(***************************************************************************)
Killed(w) ==
  /\ \A o \in OrderIds : Rests(o) => enabled \/ Covering(w, o)
  /\ pc[w] \in Walking \cup {"start", "gate_symbol"} => enabled
  /\ job[w].syms = {}

LEMMA KilledStep ==
  ASSUME NEW w \in Workers, Workers = {w}, TypeOK, UsedIds, Known, Held(w), Killed(w),
         "set_parameter" \notin Ops, [Next]_vars
  PROVE  Killed(w)'
<1> USE DEF Walking, Requoting
<1>n. NoJob.syms = {}
  BY DEF NoJob
<1>b. \A o \in OrderIds : Rests(o)' =>
        \/ Rests(o) /\ info'[o] = info[o] /\ o < nextId
        \/ AddLeg(w) /\ Placed(w) /\ o = nextId
  BY NoNewRest
\* A step of a worker that is not cancelling and leaves the switch alone.
<1>c. ASSUME ~ AddLeg(w), UNCHANGED enabled, pc[w] \notin Purging \cup {"snapshot_orders"},
             NEW o \in OrderIds, Rests(o)'
      PROVE  enabled' \/ Covering(w, o)'
  BY <1>b, <1>c DEF Killed, Covering, Purging
<1>1. CASE \E s \in Symbols, p \in Prices : UpdatePrice(w, s, p)
  BY <1>1, <1>c, UpdatePriceDoes DEF Killed, Purging, AddLeg, At
<1>2. CASE GateEnabled(w) \/ GateSymbol(w)
  BY <1>2, <1>c, <1>n, GatesDo DEF Killed, Purging, AddLeg, At, engineVars
<1>3. CASE SetParameter(w)
  BY <1>3 DEF SetParameter, Begin
<1>4. CASE NextSymbol(w)
  <2>1. UNCHANGED enabled /\ pc[w] = "next_symbol" /\ pc'[w] = "idle" /\ job'[w] = NoJob
    BY <1>4, NextSymbolDoes DEF Killed, engineVars
  <2> QED
    BY <1>c, <1>n, <2>1 DEF Killed, Purging, AddLeg, At
<1>5. CASE StartRequote(w)
  BY <1>5, <1>c, StartRequoteDoes DEF Killed, Purging, AddLeg, At, engineVars
<1>6. CASE \E v \in BOOLEAN : SetEnabled(w, v)
  <2>1. /\ pc[w] = "idle" /\ UNCHANGED job
        /\ \/ enabled' /\ pc'[w] = "idle"
           \/ pc'[w] = "snapshot_orders" /\ purge'[w].all
    BY <1>6, SetEnabledDoes
  <2> QED
    BY <2>1 DEF Killed, Covering
<1>7. CASE \E s \in Symbols, v \in BOOLEAN : SetSymbolEnabled(w, s, v)
  <2>1. /\ pc[w] = "idle" /\ UNCHANGED enabled /\ job'[w].syms = job[w].syms
        /\ pc'[w] \in {"idle", "snapshot_orders"}
    BY <1>7, SetSymbolEnabledDoes
  <2> QED
    BY <1>c, <2>1 DEF Killed, Purging, AddLeg, At
<1>8. CASE NextInstrument(w)
  <2>1. /\ pc[w] = "next_instrument" /\ UNCHANGED enabled /\ job'[w].syms = job[w].syms
    BY <1>8, NextInstrumentDoes DEF engineVars
  <2> QED
    BY <1>c, <2>1 DEF Killed, Purging, AddLeg, At
<1>9. CASE RecordLegs(w)
  <2>1. /\ pc[w] = "record" /\ UNCHANGED enabled /\ job'[w].syms = job[w].syms
    BY <1>9, RecordLegsDoes DEF engineVars, SameWalk
  <2> QED
    BY <1>c, <2>1 DEF Killed, Purging, AddLeg, At
<1>10. CASE Replaces(w)
  BY <1>10, ReplacesDo DEF Killed, engineVars, SameWalk
<1>11. CASE Cancels(w)
  <2>1. /\ UNCHANGED enabled /\ ~ AddLeg(w) /\ job'[w].syms = {}
        /\ pc'[w] \notin Walking \cup {"start", "gate_symbol"}
    BY <1>11, <1>n, CancelsDo DEF engineVars, Purging, Killed
  <2>2. ASSUME NEW o \in OrderIds, Rests(o)'
        PROVE  enabled' \/ Covering(w, o)'
    <3>1. Rests(o)
      BY <1>b, <2>1, <2>2
    <3>2. Covering(w, o) => Covering(w, o)'
      BY <1>11, <2>2, CoveringStep
    <3> QED
      BY <2>1, <3>1, <3>2 DEF Killed
  <2> QED
    BY <2>1, <2>2 DEF Killed
<1>12. CASE Elsewhere(w)
  BY <1>12, <1>c, ElsewhereDoes DEF Killed, Purging, engineVars
<1>13. CASE UNCHANGED vars
  BY <1>13 DEF vars, engineVars, bookVars, locals, Killed, Covering, Rests, Attached,
     Sym, Inst
<1> QED
  BY <1>1, <1>2, <1>3, <1>4, <1>5, <1>6, <1>7, <1>8, <1>9, <1>10, <1>11, <1>12, <1>13,
     StepsAgain

-----------------------------------------------------------------------------
(***************************************************************************)
(* The quotes follow the price.                                            *)
(***************************************************************************)
\* The order has the price of its underlying, or there is no quote at that price.
Good(o) ==
  info[o].spot = prices[Sym(o)] \/ <<Inst(o), prices[Sym(o)]>> \in NoQuote

\* The requote under way has still to come to the instrument of the order.
Pending(w, o) ==
  /\ job[w].sym = Sym(o)
  /\ \/ pc[w] \in {"gate_enabled", "gate_symbol", "start"}
     \/ pc[w] \in Walking /\ Inst(o) \in job[w].todo
     \/ pc[w] \in {"read_stale", "cancel_stale"} /\ Inst(o) = job[w].inst

Follows(w) ==
  /\ \A o \in OrderIds : Rests(o) => Good(o) \/ Pending(w, o)
  /\ pc[w] \in {"gate_enabled", "gate_symbol", "start"} => prices[job[w].sym] # NoPrice
  /\ pc[w] \in Walking => job[w].spot = prices[job[w].sym]

\* A requote that replaces the quotes of an instrument goes on.
LEMMA FollowsReplaces ==
  ASSUME NEW w \in Workers, Workers = {w}, TypeOK, UsedIds, LotsApart, Covered,
         Resolved(w), Tracking(w), Reaching(w), SymbolOff(w), Follows(w), [Next]_vars, Replaces(w)
  PROVE  Follows(w)'
<1> USE DEF Walking, Requoting, At, Goto
<1>a. Known /\ Indexed(w) /\ Held(w) /\ job[w] \in JobType /\ pc \in [Workers -> Labels]
  BY DEF Resolved, Tracking, Reaching, TypeOK
<1>1. /\ UNCHANGED prices /\ pc[w] \in Requoting /\ pc'[w] \in Requoting
      /\ job'[w].todo = job[w].todo /\ job'[w].sym = job[w].sym
      /\ job'[w].spot = job[w].spot /\ job'[w].inst = job[w].inst
  BY ReplacesDo DEF SameWalk, engineVars
<1>2. job'[w].spot = prices'[job'[w].sym]
  BY <1>1 DEF Follows
<1>3. ASSUME NEW o \in OrderIds, Rests(o)'
      PROVE  Good(o)' \/ Pending(w, o)'
  <2>1. CASE AddLeg(w) /\ Placed(w) /\ o = nextId
    <3>1. info'[o].inst = job[w].inst /\ info'[o].spot = job[w].spot
      BY <2>1, PlacedInfo
    <3>2. SymbolOf[job[w].inst] = job[w].sym
      BY <1>1 DEF SymbolOff
    <3> QED
      BY <1>1, <1>2, <3>1, <3>2 DEF Good, Sym, Inst
  <2>2. CASE Rests(o) /\ info'[o] = info[o]
    <3>1. CASE Good(o)
      BY <1>1, <2>2, <3>1 DEF Good, Sym, Inst
    <3>2. CASE job[w].sym = Sym(o) /\ Inst(o) \in job[w].todo
      BY <1>1, <2>2, <3>2 DEF Pending, Sym, Inst
    <3>3. CASE /\ pc[w] \in {"read_stale", "cancel_stale"} /\ Inst(o) = job[w].inst
               /\ job[w].sym = Sym(o)
      <4>1. CASE ReadStale(w)
        <5>1. active[o] > 0 /\ pc[w] = "read_stale"
          BY <1>a, <2>2, <4>1 DEF Held, ReadStale
        <5>2. index[Inst(o)][info[o].leg] = o /\ info[o].leg \in Legs /\ o # NoOrder
          BY <1>a, <2>2, <5>1, TrackedIsKnown DEF Indexed, Slot, Placing, OrderIds, NoOrder
        <5>3. index[job[w].inst] # EmptySlots
          BY <3>3, <5>2 DEF EmptySlots
        <5>4. pc'[w] = "cancel_stale"
          BY <4>1, <5>3, ReadStaleDoes
        <5> QED
          BY <1>1, <2>2, <3>3, <5>4 DEF Pending, Sym, Inst
      <4>2. CASE CancelStale(w)
        <5>1. pc'[w] = "prune_active"
          BY <1>a, <4>2 DEF CancelStale
        <5>2. Gone(w)'
          <6>1. Reaching(w)'
            BY ReachingStep
          <6> QED
            BY <6>1 DEF Reaching
        <5> QED
          BY <1>1, <1>3, <2>2, <3>3, <5>1, <5>2 DEF Gone, Inst
      <4> QED
        BY <3>3, <4>1, <4>2 DEF Replaces, PruneActive, PruneIndex, AddLeg, TrackLeg
    <3> QED
      BY <1>1, <2>2, <3>1, <3>2, <3>3 DEF Follows, Pending
  <2> QED
    BY <1>a, <1>3, <2>1, <2>2, NoNewRest
<1> QED
  BY <1>1, <1>2, <1>3 DEF Follows

\* The walk passes over an instrument that has no quote at this price, and one
\* whose book is gone.
LEMMA FollowsWalk ==
  ASSUME NEW w \in Workers, Workers = {w}, TypeOK, UsedIds, Known, Follows(w),
         [Next]_vars, NextInstrument(w)
  PROVE  Follows(w)'
<1> USE DEF Walking, Requoting
<1>1. /\ UNCHANGED prices /\ pc[w] = "next_instrument"
      /\ job'[w].sym = job[w].sym /\ job'[w].spot = job[w].spot
      /\ \/ job[w].todo = {} /\ pc'[w] = "next_symbol"
         \/ \E i \in job[w].todo :
              /\ job'[w].todo = job[w].todo \ {i}
              /\ \/ pc'[w] = "read_stale" /\ job'[w].inst = i
                 \/ /\ <<i, job[w].spot>> \in NoQuote \/ i \notin open
                    /\ pc'[w] = "next_instrument"
  BY NextInstrumentDoes DEF engineVars
<1>2. job'[w].spot = prices'[job'[w].sym]
  BY <1>1 DEF Follows
<1>3. ASSUME NEW o \in OrderIds, Rests(o)'
      PROVE  Good(o)' \/ Pending(w, o)'
  <2>1. Rests(o) /\ info'[o] = info[o]
    BY <1>1, <1>3, NoNewRest DEF AddLeg, At
  <2>2. CASE Good(o)
    BY <1>1, <2>1, <2>2 DEF Good, Sym, Inst
  <2>3. CASE ~ Good(o)
    <3>1. job[w].sym = Sym(o) /\ Inst(o) \in job[w].todo
      BY <1>1, <2>1, <2>3 DEF Follows, Pending
    <3>2. PICK i \in job[w].todo :
            /\ job'[w].todo = job[w].todo \ {i}
            /\ \/ pc'[w] = "read_stale" /\ job'[w].inst = i
               \/ /\ <<i, job[w].spot>> \in NoQuote \/ i \notin open
                  /\ pc'[w] = "next_instrument"
      BY <1>1, <3>1
    <3>3. Inst(o) \in open /\ job[w].spot = prices[Sym(o)]
      BY <1>1, <2>1, <3>1 DEF Rests, Attached, Inst, Follows
    <3>4. <<Inst(o), job[w].spot>> \notin NoQuote
      BY <2>3, <3>3 DEF Good
    <3>5. CASE i = Inst(o)
      BY <1>1, <2>1, <3>1, <3>2, <3>3, <3>4, <3>5 DEF Pending, Sym, Inst
    <3>6. CASE i # Inst(o)
      <4>1. Inst(o)' \in job'[w].todo /\ job'[w].sym = Sym(o)' /\ pc'[w] \in Walking
        BY <1>1, <2>1, <3>1, <3>2, <3>6 DEF Sym, Inst
      <4> QED
        BY <4>1 DEF Pending
    <3> QED
      BY <3>5, <3>6
  <2> QED
    BY <2>2, <2>3
<1>4. pc'[w] \notin {"gate_enabled", "gate_symbol", "start"}
  BY <1>1
<1> QED
  BY <1>2, <1>3, <1>4 DEF Follows

LEMMA FollowsStep ==
  ASSUME NEW w \in Workers, Workers = {w}, TypeOK, UsedIds, LotsApart, Covered,
         Resolved(w), Tracking(w), Reaching(w), SymbolOff(w), Killed(w), Follows(w), [Next]_vars,
         "set_parameter" \notin Ops
  PROVE  Follows(w)'
<1> USE DEF Walking, Requoting
<1>a. Known /\ Held(w) /\ job[w] \in JobType /\ prices \in [Symbols -> Prices \cup {NoPrice}]
  BY DEF Resolved, Reaching, TypeOK
<1>b. ASSUME ~ AddLeg(w), NEW o \in OrderIds, Rests(o)'
      PROVE  Rests(o) /\ info'[o] = info[o] /\ (Good(o) \/ Pending(w, o))
  BY <1>a, <1>b, NoNewRest DEF Follows
\* A step that leaves no requote under way.
<1>c. ASSUME UNCHANGED prices, ~ AddLeg(w),
             pc'[w] \notin Walking \cup {"gate_enabled", "gate_symbol", "start"},
             \A o \in OrderIds : Rests(o) => ~ Pending(w, o)
      PROVE  Follows(w)'
  BY <1>b, <1>c DEF Follows, Good, Sym, Inst
<1>d. ASSUME pc[w] \notin Walking \cup {"gate_enabled", "gate_symbol", "start"},
             NEW o \in OrderIds
      PROVE  ~ Pending(w, o)
  BY <1>d DEF Pending
<1>1. CASE \E s \in Symbols, p \in Prices : UpdatePrice(w, s, p)
  <2>1. PICK s \in Symbols, p \in Prices : UpdatePrice(w, s, p)
    BY <1>1
  <2>2. /\ pc[w] = "idle" /\ pc'[w] = "gate_enabled" /\ job'[w].sym = s
        /\ prices' = [prices EXCEPT ![s] = p]
    BY <2>1, UpdatePriceDoes
  <2>3. prices'[s] = p /\ p # NoPrice
    BY <1>a, <2>2, PricesAssumption DEF NoPrice
  <2>4. ASSUME NEW o \in OrderIds, Rests(o)'
        PROVE  Good(o)' \/ Pending(w, o)'
    <3>1. Rests(o) /\ info'[o] = info[o] /\ Good(o)
      BY <1>b, <1>d, <2>2, <2>4 DEF AddLeg, At
    <3>2. Sym(o) \in Symbols
      BY <1>a, <3>1, TrackedIsKnown, SymbolOfAssumption DEF Rests, Sym
    <3>3. CASE Sym(o) = s
      BY <2>2, <3>1, <3>3 DEF Pending, Sym, Inst
    <3>4. CASE Sym(o) # s
      <4>1. prices'[Sym(o)] = prices[Sym(o)]
        BY <1>a, <2>2, <3>2, <3>4
      <4> QED
        BY <3>1, <4>1 DEF Good, Sym, Inst
    <3> QED
      BY <3>3, <3>4
  <2> QED
    BY <2>2, <2>3, <2>4 DEF Follows
<1>2. CASE GateEnabled(w) \/ GateSymbol(w)
  <2>1. UNCHANGED prices /\ ~ AddLeg(w) /\ pc[w] \in {"gate_enabled", "gate_symbol"}
    BY <1>2, GatesDo DEF engineVars, AddLeg, At
  <2>2. CASE UNCHANGED job /\ pc'[w] \in {"gate_symbol", "start"}
    BY <1>b, <2>1, <2>2 DEF Follows, Good, Pending, Sym, Inst
  <2>3. CASE pc[w] = "gate_enabled" /\ ~ enabled /\ pc'[w] = "idle"
    <3>1. \A o \in OrderIds : ~ Rests(o)
      BY <2>3 DEF Killed, Covering, Purging
    <3> QED
      BY <1>c, <2>1, <2>3, <3>1
  <2>4. CASE pc[w] = "gate_symbol" /\ ~ symbolEnabled[job[w].sym] /\ pc'[w] = "idle"
    <3>1. \A o \in OrderIds : Rests(o) => ~ Pending(w, o)
      BY <2>4 DEF SymbolOff, Covering, Purging, Pending
    <3> QED
      BY <1>c, <2>1, <2>4, <3>1
  <2> QED
    BY <1>2, <2>2, <2>3, <2>4, GatesDo
<1>3. CASE SetParameter(w)
  BY <1>3 DEF SetParameter, Begin
<1>4. CASE NextSymbol(w)
  <2>1. UNCHANGED prices /\ pc[w] = "next_symbol" /\ pc'[w] = "idle"
    BY <1>4, NextSymbolDoes DEF Killed, engineVars
  <2> QED
    BY <1>c, <1>d, <2>1 DEF AddLeg, At
<1>5. CASE StartRequote(w)
  <2>1. /\ UNCHANGED prices /\ pc[w] = "start" /\ job'[w].sym = job[w].sym
        /\ job'[w].spot = prices[job[w].sym] /\ job'[w].todo = Of(job[w].sym) \cap open
        /\ pc'[w] = "next_instrument"
    BY <1>5, StartRequoteDoes DEF Follows, engineVars
  <2>2. ASSUME NEW o \in OrderIds, Rests(o)'
        PROVE  Good(o)' \/ Pending(w, o)'
    <3>1. Rests(o) /\ info'[o] = info[o] /\ (Good(o) \/ Pending(w, o))
      BY <1>b, <2>1, <2>2 DEF AddLeg, At
    <3>2. Inst(o) \in Instruments /\ Inst(o) \in open
      BY <1>a, <3>1, TrackedIsKnown DEF Rests, Attached, Inst
    <3>3. CASE Good(o)
      BY <2>1, <3>1, <3>3 DEF Good, Sym, Inst
    <3>4. CASE Sym(o) = job[w].sym
      <4>1. Inst(o) \in job'[w].todo
        BY <2>1, <3>2, <3>4 DEF Of, Sym
      <4> QED
        BY <2>1, <3>1, <3>4, <4>1 DEF Pending, Sym, Inst
    <3> QED
      BY <3>1, <3>3, <3>4 DEF Pending
  <2> QED
    BY <2>1, <2>2 DEF Follows
<1>6. CASE \E v \in BOOLEAN : SetEnabled(w, v)
  <2>1. UNCHANGED prices /\ pc[w] = "idle" /\ pc'[w] \in {"idle", "snapshot_orders"}
    BY <1>6, SetEnabledDoes
  <2> QED
    BY <1>c, <1>d, <2>1 DEF AddLeg, At
<1>7. CASE \E s \in Symbols, v \in BOOLEAN : SetSymbolEnabled(w, s, v)
  <2>1. UNCHANGED prices /\ pc[w] = "idle" /\ pc'[w] \in {"idle", "snapshot_orders"}
    BY <1>7, SetSymbolEnabledDoes
  <2> QED
    BY <1>c, <1>d, <2>1 DEF AddLeg, At
<1>8. CASE NextInstrument(w)
  BY <1>a, <1>8, FollowsWalk
<1>9. CASE RecordLegs(w)
  <2>1. /\ UNCHANGED prices /\ pc[w] = "record" /\ pc'[w] = "next_instrument"
        /\ job'[w].todo = job[w].todo /\ job'[w].sym = job[w].sym
        /\ job'[w].spot = job[w].spot
    BY <1>9, RecordLegsDoes DEF engineVars, SameWalk
  <2>2. ASSUME NEW o \in OrderIds, Rests(o)'
        PROVE  Good(o)' \/ Pending(w, o)'
    <3>1. Rests(o) /\ info'[o] = info[o] /\ (Good(o) \/ Pending(w, o))
      BY <1>b, <2>1, <2>2 DEF AddLeg, At
    <3> QED
      BY <2>1, <3>1 DEF Good, Pending, Sym, Inst
  <2> QED
    BY <2>1, <2>2 DEF Follows
<1>10. CASE Replaces(w)
  BY <1>10, FollowsReplaces
<1>11. CASE Cancels(w)
  BY <1>11, <1>c, <1>d, CancelsDo DEF engineVars, Purging
<1>12. CASE Elsewhere(w)
  BY <1>12, <1>c, <1>d, ElsewhereDoes DEF engineVars
<1>13. CASE UNCHANGED vars
  BY <1>13 DEF vars, engineVars, bookVars, locals, Follows, Good, Pending, Rests, Attached,
     Sym, Inst
<1> QED
  BY <1>1, <1>2, <1>3, <1>4, <1>5, <1>6, <1>7, <1>8, <1>9, <1>10, <1>11, <1>12, <1>13,
     StepsAgain

-----------------------------------------------------------------------------
(***************************************************************************)
(* The theorems.  Each layer is an invariant given those before it.        *)
(***************************************************************************)
Layers(w) == Resolved(w) /\ Tracking(w) /\ Reaching(w) /\ SymbolOff(w)

LEMMA NothingAtFirst ==
  ASSUME Init, NEW w \in Workers
  PROVE  /\ pc[w] = "idle" /\ job[w].syms = {} /\ Known /\ IndexNamed
         /\ \A o \in OrderIds : active[o] = 0 /\ ~ Rests(o)
<1>1. pc[w] = "idle" /\ \A o \in OrderIds : active[o] = 0 /\ book[o] = {}
  BY DEF Init
<1>2. job[w].syms = {}
  BY DEF Init, NoJob
<1>3. Known
  BY BoundsAssumption DEF Init, Known, Used, OrderIds
<1>4. IndexNamed
  BY DEF Init, IndexNamed, Named, EmptySlots
<1> QED
  BY <1>1, <1>2, <1>3, <1>4 DEF Rests

\* With one thread, what holds of every operation at each of its labels: the
\* invariant of the theorems on tracking, orphans and the symbol switch.
THEOREM LayersHold ==
  ASSUME NEW w, Workers = {w}
  PROVE  Spec => []Layers(w)
<1>1. Init => Layers(w)
  BY NothingAtFirst DEF Layers, Resolved, RequoteOK, Tracking, Indexed, TrackingOK, Reaching,
     Gone, Held, SymbolOff, Requoting, Walking, Placing, Purging
<1>2. Accounted /\ Layers(w) /\ [Next]_vars => Layers(w)'
  <2> SUFFICES ASSUME Accounted, Layers(w), [Next]_vars PROVE Layers(w)'
    OBVIOUS
  <2>1. /\ TypeOK /\ UsedIds /\ LotsApart /\ Covered
        /\ Resolved(w) /\ Tracking(w) /\ Reaching(w) /\ SymbolOff(w)
    BY DEF Accounted, Layers
  <2>2. Known /\ Held(w)
    BY <2>1 DEF Resolved, Reaching
  <2>3. Resolved(w)' /\ Tracking(w)' /\ Reaching(w)'
    BY <2>1, ResolvedStep, TrackingStep, ReachingStep
  <2>4. SymbolOff(w)'
    BY <2>1, <2>2, SymbolOffStep
  <2> QED
    BY <2>3, <2>4 DEF Layers
<1> QED
  BY <1>1, <1>2, AccountedHolds, PTL DEF Spec

\* Between operations every tracked order is recorded in the index under its
\* instrument and leg (update_quote, cancel_order, on_order_filled), also when
\* books are deleted and made anew.
THEOREM TrackedOrdersAreIndexed ==
  ASSUME OneThread
  PROVE  Spec => []TrackedIsIndexed
<1>1. PICK w : Workers = {w}
  BY DEF OneThread
<1>2. Layers(w) => TrackedIsIndexed
  BY <1>1 DEF Layers, Tracking, Indexed, Slot, TrackedIsIndexed, Quiet, At, Placing, Inst
<1> QED
  BY <1>1, <1>2, LayersHold, PTL

\* What rests is tracked, or its operation is between the book and the tracking
\* (update_quote, cancel_order), also when underlyings are deleted: a deletion
\* comes between two operations and not between their steps.
THEOREM NothingIsOrphanedInTurn ==
  ASSUME OneThread
  PROVE  Spec => []NoOrphanQuote
<1>1. PICK w : Workers = {w}
  BY DEF OneThread
<1>2. Layers(w) => NoOrphanQuote
  BY <1>1 DEF Layers, Reaching, Held, NoOrphanQuote, BeingTracked, BeingCancelled, At
<1> QED
  BY <1>1, <1>2, LayersHold, PTL

\* With quoting off for an underlying none of its quotes rests once the
\* operation that switched it off is over (set_symbol_enabled,
\* cancel_symbol_orders), and no later operation places one.
THEOREM SymbolSwitchWorks ==
  ASSUME OneThread
  PROVE  Spec => []SymbolOffMeansQuiet
<1>1. PICK w : Workers = {w}
  BY DEF OneThread
<1>2. Layers(w) => SymbolOffMeansQuiet
  BY <1>1 DEF Layers, SymbolOff, Covering, SymbolOffMeansQuiet, Quiet, At, Purging, Sym, Inst
<1> QED
  BY <1>1, <1>2, LayersHold, PTL

\* The kill switch: with quoting disabled no quote rests once the operation that
\* disabled it is over (set_enabled, cancel_all_orders).  A client that sets a
\* parameter makes requote_all quote a disabled engine, so none may.
THEOREM KillSwitchWorks ==
  ASSUME OneThread, "set_parameter" \notin Ops
  PROVE  Spec => []KilledMeansQuiet
<1>1. PICK w : Workers = {w}
  BY DEF OneThread
<1>2. Init => Killed(w)
  BY <1>1, NothingAtFirst DEF Killed, Walking, Requoting
<1>3. Accounted /\ Layers(w) /\ Killed(w) /\ [Next]_vars => Killed(w)'
  BY <1>1, KilledStep DEF Accounted, Layers, Resolved, Reaching
<1>4. Killed(w) => KilledMeansQuiet
  BY <1>1 DEF Killed, Covering, KilledMeansQuiet, Quiet, At, Purging
<1> QED
  BY <1>1, <1>2, <1>3, <1>4, AccountedHolds, LayersHold, PTL DEF Spec

\* Between operations a quote at rest was computed from the latest price of its
\* underlying, or that price gives it no quote (update_price, requote_symbol,
\* update_quote): no requote leaves an instrument of its walk behind.
THEOREM QuotesAreCurrent ==
  ASSUME OneThread, "set_parameter" \notin Ops
  PROVE  Spec => []QuotesFollowPrice
<1>1. PICK w : Workers = {w}
  BY DEF OneThread
<1>2. Init => Killed(w) /\ Follows(w)
  BY <1>1, NothingAtFirst DEF Killed, Follows, Walking, Requoting
<1>3. Accounted /\ Layers(w) /\ Killed(w) /\ Follows(w) /\ [Next]_vars
        => Killed(w)' /\ Follows(w)'
  <2> SUFFICES ASSUME Accounted, Layers(w), Killed(w), Follows(w), [Next]_vars
               PROVE  Killed(w)' /\ Follows(w)'
    OBVIOUS
  <2>1. /\ TypeOK /\ UsedIds /\ LotsApart /\ Covered
        /\ Resolved(w) /\ Tracking(w) /\ Reaching(w) /\ SymbolOff(w)
    BY DEF Accounted, Layers
  <2>2. Killed(w)'
    BY <1>1, <2>1, KilledStep DEF Resolved, Reaching
  <2>3. Follows(w)'
    BY <1>1, <2>1, FollowsStep
  <2> QED
    BY <2>2, <2>3
<1>4. Follows(w) => QuotesFollowPrice
  BY <1>1 DEF Follows, Good, Pending, QuotesFollowPrice, Quiet, At, Walking, Requoting, Sym, Inst
<1> QED
  BY <1>1, <1>2, <1>3, <1>4, AccountedHolds, LayersHold, PTL DEF Spec

=============================================================================
