----------------------------- MODULE ServerProofs -----------------------------
(***************************************************************************)
(* What TLAPS proves of the server and of the rate limiter it asks, each a *)
(* system of its own.                                                      *)
(*                                                                         *)
(* Of the limiter (RateLimiter), for any number of threads and keys, any   *)
(* limits, window and cap, and an unbounded clock.                         *)
(*                                                                         *)
(* Of the server (Server), for any number of requests, sockets, subjects,  *)
(* channels, contracts and background tasks, any permissions and any cap   *)
(* on subscriptions.                                                       *)
(***************************************************************************)
EXTENDS RateLimiter, Server, FiniteSetTheorems, SequenceTheorems, TLAPS

-----------------------------------------------------------------------------
(***************************************************************************)
(* The inductive invariant of the limiter.  LimitHolds alone is not        *)
(* inductive: a bucket forgets timestamps, so what it holds says something *)
(* of the window only because all it forgot is out of it (Buckets).  That  *)
(* it forgot nothing too early rests on every call's reading of the clock  *)
(* being in the past (Calls), however long ago the call made it.           *)
(***************************************************************************)
TaskType ==
  [pc : PCs, key : Keys \cup {NoKey}, now : Nat, tries : Int, allowed : BOOLEAN,
   sweptAt : Nat, todo : SUBSET Keys, before : Nat, removed : Nat, len : Nat,
   victim : Keys \cup {NoKey}]

Typed ==
  /\ clock \in Nat
  /\ log \in [Keys -> Seq(Nat)]
  /\ front \in [Keys -> Nat]
  /\ tracked \in Nat
  /\ task \in [Threads -> TaskType]
  /\ drifted \in BOOLEAN
  /\ IsFiniteSet(Present)

CallOK(c) ==
  /\ c.pc \in {"lookup", "admit", "insert", "evict", "remove", "refund"} => c.key \in Keys
  /\ c.pc \in {"remove", "refund"} => c.victim \in Keys
  /\ c.now <= clock
  /\ c.sweptAt <= clock

Calls == \A t \in Threads : CallOK(task[t])

Logged == \A k \in Keys : \A i \in 1..Len(log[k]) : log[k][i] <= clock

Buckets ==
  \A k \in Keys :
    /\ front[k] <= Len(log[k])
    /\ Len(log[k]) - front[k] <= LimitOf[k]
    /\ \A i \in 1..front[k] : log[k][i] + Window < clock

LimiterInv == Typed /\ Calls /\ Logged /\ Buckets

-----------------------------------------------------------------------------
LEMMA BoundedSeq ==
  ASSUME NEW s \in Seq(Nat), NEW c \in Nat, \A i \in 1..Len(s) : s[i] <= c
  PROVE  s \in Seq(0..c)
<1>1. Len(s) \in Nat /\ s \in [1..Len(s) -> Nat]
  BY LenProperties
<1>2. s \in [1..Len(s) -> 0..c]
  BY <1>1
<1>3. QED
  BY <1>1, <1>2, SeqDef

LEMMA PresentSize == Typed => Cardinality(Present) \in Nat
  BY FS_CardinalityType DEF Typed

LEMMA PresentStaysFinite ==
  ASSUME Typed, NEW k, Present' \subseteq Present \cup {k}
  PROVE  IsFiniteSet(Present')
<1>1. IsFiniteSet(Present \cup {k})
  BY FS_AddElement DEF Typed
<1>2. QED
  BY <1>1, FS_Subset

LEMMA IdleTyped == NoCall \in TaskType
  BY DEF NoCall, TaskType, PCs

LEMMA DecrementTyped == Typed => Decremented \in Nat
  BY CapAssumption DEF Typed, Decremented

\* What still counts lies in the part of the log that the bucket still holds.
LEMMA RecentIsHeld ==
  ASSUME LimiterInv, NEW k \in Keys, NEW n \in 0..Len(log[k]),
         \A i \in 1..n : log[k][i] + Window < clock
  PROVE  /\ IsFiniteSet(Recent(k))
         /\ Cardinality(Recent(k)) \in Nat
         /\ Cardinality(Recent(k)) <= Len(log[k]) - n
<1> DEFINE held == (n + 1)..Len(log[k])
<1>1. log[k] \in Seq(Nat) /\ Len(log[k]) \in Nat /\ n \in Nat /\ clock \in Nat
  BY LenProperties DEF LimiterInv, Typed
<1>2. Recent(k) \subseteq held
  <2> SUFFICES ASSUME NEW i \in 1..Len(log[k]), log[k][i] + Window >= clock
               PROVE  i \in held
    BY DEF Recent
  <2>1. log[k][i] \in Nat
    BY <1>1, ElementOfSeq
  <2>2. ~(i <= n)
    BY <1>1, <2>1, LimitAssumption
  <2>3. QED
    BY <1>1, <2>2
<1>3. IsFiniteSet(held) /\ Cardinality(held) = Len(log[k]) - n
  <2>1. n + 1 \in Int /\ Len(log[k]) \in Int /\ n <= Len(log[k])
    BY <1>1
  <2>2. /\ IsFiniteSet(held)
        /\ Cardinality(held) = IF n + 1 > Len(log[k]) THEN 0 ELSE Len(log[k]) - (n + 1) + 1
    BY <2>1, FS_Interval
  <2>3. QED
    BY <2>1, <2>2, <1>1
<1>4. QED
  BY <1>2, <1>3, FS_Subset, FS_CardinalityType

\* Pruning drops only what is out of the window.
LEMMA PrunedIsOld ==
  ASSUME LimiterInv, NEW k \in Keys, NEW now \in Nat, now <= clock,
         NEW n \in 0..Len(log[k]), PrunedTo(k, now, n)
  PROVE  /\ n >= front[k]
         /\ \A i \in 1..n : log[k][i] + Window < clock
<1>1. log[k] \in Seq(Nat) /\ Len(log[k]) \in Nat /\ front[k] \in Nat /\ n \in Nat /\ clock \in Nat
  BY LenProperties DEF LimiterInv, Typed
<1>2. n >= front[k]
  BY <1>1 DEF PrunedTo
<1>3. ASSUME NEW i \in 1..n PROVE log[k][i] + Window < clock
  <2>1. log[k][i] \in Nat
    BY <1>1, ElementOfSeq
  <2>2. CASE i <= front[k]
    BY <1>1, <2>2 DEF LimiterInv, Buckets
  <2>3. CASE i > front[k]
    <3>1. log[k][i] + Window < now
      BY <1>1, <2>3 DEF PrunedTo
    <3>2. QED
      BY <1>1, <2>1, <3>1, LimitAssumption
  <2>4. QED
    BY <1>1, <2>2, <2>3
<1>4. QED
  BY <1>2, <1>3

\* A pruning keeps the buckets in order and adds no key to the map.
LEMMA PruningKeeps ==
  ASSUME LimiterInv, NEW k \in Keys, NEW now \in Nat, now <= clock,
         NEW n \in 0..Len(log[k]), PrunedTo(k, now, n),
         front' = [front EXCEPT ![k] = n], log' = log, clock' = clock
  PROVE  /\ log' \in [Keys -> Seq(Nat)] /\ front' \in [Keys -> Nat]
         /\ IsFiniteSet(Present') /\ Logged' /\ Buckets'
<1>1. \A j \in Keys : log[j] \in Seq(Nat) /\ Len(log[j]) \in Nat /\ front[j] \in Nat
  BY LenProperties DEF LimiterInv, Typed
<1>2. n >= front[k] /\ \A i \in 1..n : log[k][i] + Window < clock
  BY PrunedIsOld
<1>3. front' \in [Keys -> Nat]
  BY <1>1 DEF LimiterInv, Typed
<1>4. front'[k] = n /\ \A j \in Keys \ {k} : front'[j] = front[j]
  BY DEF LimiterInv, Typed
<1>5. Present' \subseteq Present \cup {k}
  BY <1>4 DEF Present
<1>6. Buckets'
  <2> SUFFICES ASSUME NEW j \in Keys
               PROVE  /\ front'[j] <= Len(log[j])
                      /\ Len(log[j]) - front'[j] <= LimitOf[j]
                      /\ \A i \in 1..front'[j] : log[j][i] + Window < clock
    BY DEF Buckets
  <2>1. CASE j = k
    <3>1. n \in Nat /\ n <= Len(log[k]) /\ LimitOf[k] \in Nat
      BY <1>1, LimitAssumption
    <3>2. Len(log[k]) - front[k] <= LimitOf[k]
      BY DEF LimiterInv, Buckets
    <3>3. Len(log[k]) - n <= LimitOf[k]
      BY <3>1, <3>2, <1>1, <1>2
    <3>4. QED
      BY <2>1, <3>1, <3>3, <1>2, <1>4
  <2>2. CASE j # k
    BY <2>2, <1>4 DEF LimiterInv, Buckets
  <2>3. QED
    BY <2>1, <2>2
<1>7. Logged'
  BY DEF LimiterInv, Logged
<1>8. QED
  BY <1>3, <1>5, <1>6, <1>7, PresentStaysFinite DEF LimiterInv, Typed

\* So does the pruning and recording of a call of thread t.
LEMMA RecordingKeeps ==
  ASSUME LimiterInv, NEW t \in Threads, task[t].key \in Keys, PruneAndRecord(t), clock' = clock
  PROVE  /\ log' \in [Keys -> Seq(Nat)] /\ front' \in [Keys -> Nat]
         /\ task' \in [Threads -> TaskType]
         /\ IsFiniteSet(Present') /\ Logged' /\ Buckets' /\ Calls'
<1> DEFINE k == task[t].key
           now == task[t].now
<1>1. \A j \in Keys : log[j] \in Seq(Nat) /\ Len(log[j]) \in Nat /\ front[j] \in Nat
  BY LenProperties DEF LimiterInv, Typed
<1>2. now \in Nat /\ now <= clock /\ clock \in Nat
  BY DEF LimiterInv, Typed, TaskType, Calls, CallOK
<1>3. PICK n \in 0..Len(log[k]) :
        /\ PrunedTo(k, now, n)
        /\ front' = [front EXCEPT ![k] = n]
        /\ \/ /\ Len(log[k]) - n < LimitOf[k]
              /\ log' = [log EXCEPT ![k] = Append(@, now)]
              /\ Finish(t, TRUE)
           \/ log' = log /\ Finish(t, FALSE)
  BY DEF PruneAndRecord
<1>4. task' \in [Threads -> TaskType] /\ Calls'
  <2>1. PICK b \in BOOLEAN : Finish(t, b)
    BY <1>3
  <2> DEFINE c == [NoCall EXCEPT !.pc = "done", !.key = k, !.allowed = b]
  <2>2. c \in TaskType /\ c.pc = "done" /\ c.now = 0 /\ c.sweptAt = 0
    <3>1. k \in Keys \cup {NoKey} /\ "done" \in PCs
      BY DEF PCs
    <3>2. c = [NoCall EXCEPT !.pc = "done", !.key = k, !.allowed = b]
      OBVIOUS
    <3> HIDE DEF k, c
    <3>3. c \in TaskType
      BY <3>1, <3>2, IdleTyped DEF TaskType
    <3>4. c.pc = "done" /\ c.now = 0 /\ c.sweptAt = 0
      BY <3>2 DEF NoCall
    <3>5. QED
      BY <3>3, <3>4
  <2>3. task' = [task EXCEPT ![t] = c]
    BY <2>1 DEF Finish
  <2> HIDE DEF c
  <2>4. task' \in [Threads -> TaskType]
    BY <2>2, <2>3 DEF LimiterInv, Typed
  <2>5. ASSUME NEW u \in Threads PROVE CallOK(task[u])'
    BY <2>2, <2>3, <1>2 DEF LimiterInv, Typed, Calls, CallOK
  <2>6. QED
    BY <2>4, <2>5 DEF Calls
<1>5. CASE log' = log
  BY <1>5, <1>2, <1>3, <1>4, PruningKeeps
<1>6. CASE Len(log[k]) - n < LimitOf[k] /\ log' = [log EXCEPT ![k] = Append(@, now)]
  <2>1. n >= front[k] /\ \A i \in 1..n : log[k][i] + Window < clock
    BY <1>2, <1>3, PrunedIsOld
  <2>2. /\ Append(log[k], now) \in Seq(Nat)
        /\ Len(Append(log[k], now)) = Len(log[k]) + 1
        /\ Append(log[k], now)[Len(log[k]) + 1] = now
        /\ \A i \in 1..Len(log[k]) : Append(log[k], now)[i] = log[k][i]
    BY <1>1, <1>2
  <2>3. log'[k] = Append(log[k], now) /\ \A j \in Keys \ {k} : log'[j] = log[j]
    BY <1>6 DEF LimiterInv, Typed
  <2>4. front'[k] = n /\ \A j \in Keys \ {k} : front'[j] = front[j]
    BY <1>3 DEF LimiterInv, Typed
  <2> HIDE DEF now
  <2>5. log' \in [Keys -> Seq(Nat)] /\ front' \in [Keys -> Nat]
    BY <1>3, <1>6, <2>2 DEF LimiterInv, Typed
  <2>6. IsFiniteSet(Present')
    <3>1. Present' \subseteq Present \cup {k}
      BY <2>3, <2>4 DEF Present
    <3>2. QED
      BY <3>1, PresentStaysFinite DEF LimiterInv
  <2>7. Logged'
    <3> SUFFICES ASSUME NEW j \in Keys, NEW i \in 1..Len(log'[j])
                 PROVE  log'[j][i] <= clock
      BY DEF Logged
    <3>1. CASE j # k
      BY <3>1, <2>3 DEF LimiterInv, Logged
    <3>2. CASE j = k /\ i <= Len(log[k])
      BY <3>2, <1>1, <2>2, <2>3 DEF LimiterInv, Logged
    <3>3. CASE j = k /\ i > Len(log[k])
      BY <3>3, <1>1, <1>2, <2>2, <2>3
    <3>4. QED
      BY <3>1, <3>2, <3>3, <1>1
  <2>8. Buckets'
    <3> SUFFICES ASSUME NEW j \in Keys
                 PROVE  /\ front'[j] <= Len(log'[j])
                        /\ Len(log'[j]) - front'[j] <= LimitOf[j]
                        /\ \A i \in 1..front'[j] : log'[j][i] + Window < clock
      BY DEF Buckets
    <3>1. CASE j # k
      BY <3>1, <2>3, <2>4 DEF LimiterInv, Buckets
    <3>2. CASE j = k
      <4>1. n \in Nat /\ n <= Len(log[k]) /\ Len(log[k]) \in Nat /\ LimitOf[k] \in Nat
        BY <1>1, LimitAssumption
      <4>2. front'[k] <= Len(log'[k]) /\ Len(log'[k]) - front'[k] <= LimitOf[k]
        BY <4>1, <1>6, <2>2, <2>3, <2>4
      <4>3. \A i \in 1..front'[k] : log'[k][i] + Window < clock
        BY <4>1, <2>1, <2>2, <2>3, <2>4
      <4>4. QED
        BY <3>2, <4>2, <4>3
    <3>3. QED
      BY <3>1, <3>2
  <2>9. QED
    BY <2>5, <2>6, <2>7, <2>8, <1>4
<1>7. QED
  BY <1>3, <1>5, <1>6

\* A call that becomes c, a call of the right shape.
LEMMA CallKeeps ==
  ASSUME LimiterInv, NEW t \in Threads, NEW c \in TaskType, CallOK(c), clock' = clock,
         task' = [task EXCEPT ![t] = c]
  PROVE  task' \in [Threads -> TaskType] /\ Calls'
<1>1. task' \in [Threads -> TaskType]
  BY DEF LimiterInv, Typed
<1>2. ASSUME NEW u \in Threads PROVE CallOK(task[u])'
  BY DEF LimiterInv, Typed, Calls, CallOK
<1>3. QED
  BY <1>1, <1>2 DEF Calls

\* A step that touches no bucket.
LEMMA CallStep ==
  ASSUME LimiterInv, NEW t \in Threads, NEW c \in TaskType, CallOK(c),
         UNCHANGED <<clock, log, front>>, task' = [task EXCEPT ![t] = c],
         tracked' \in Nat, drifted' \in BOOLEAN
  PROVE  LimiterInv'
<1>1. task' \in [Threads -> TaskType] /\ Calls'
  BY CallKeeps
<1>2. Present' = Present
  BY DEF Present
<1>3. Typed'
  BY <1>1, <1>2 DEF LimiterInv, Typed
<1>4. Logged' /\ Buckets'
  BY DEF LimiterInv, Logged, Buckets
<1>5. QED
  BY <1>1, <1>3, <1>4 DEF LimiterInv

LEMMA LimiterInvInit == LimiterInit => LimiterInv
<1> SUFFICES ASSUME LimiterInit PROVE LimiterInv
  OBVIOUS
<1>1. \A k \in Keys : log[k] = <<>> /\ front[k] = 0 /\ Len(log[k]) = 0
  BY DEF LimiterInit
<1>2. Present = {}
  BY <1>1 DEF Present
<1>3. Typed
  <2>1. \A k \in Keys : <<>> \in Seq(Nat)
    BY EmptySeq
  <2>2. log \in [Keys -> Seq(Nat)] /\ front \in [Keys -> Nat]
    BY <2>1 DEF LimiterInit
  <2>3. IsFiniteSet(Present)
    BY <1>2, FS_EmptySet
  <2>4. task \in [Threads -> TaskType]
    BY IdleTyped DEF LimiterInit
  <2>5. QED
    BY <2>2, <2>3, <2>4 DEF LimiterInit, Typed
<1>4. Calls
  BY DEF LimiterInit, Calls, CallOK, NoCall
<1>5. Logged
  BY <1>1 DEF Logged
<1>6. Buckets
  BY <1>1, LimitAssumption DEF Buckets
<1>7. QED
  BY <1>3, <1>4, <1>5, <1>6 DEF LimiterInv

LEMMA TickKeeps == LimiterInv /\ Tick => LimiterInv'
<1> SUFFICES ASSUME LimiterInv, Tick PROVE LimiterInv'
  OBVIOUS
<1>1. clock \in Nat /\ clock' = clock + 1 /\ UNCHANGED <<log, front, tracked, task, drifted>>
  BY DEF Tick, LimiterInv, Typed
<1>2. Present' = Present
  BY <1>1 DEF Present
<1>3. Typed'
  BY <1>1, <1>2 DEF LimiterInv, Typed
<1>4. Calls'
  <2>1. ASSUME NEW u \in Threads PROVE CallOK(task[u])'
    BY <1>1 DEF LimiterInv, Typed, TaskType, Calls, CallOK
  <2>2. QED
    BY <2>1 DEF Calls
<1>5. \A k \in Keys : /\ log[k] \in Seq(Nat) /\ Len(log[k]) \in Nat /\ front[k] \in Nat
                      /\ \A i \in 1..Len(log[k]) : log[k][i] \in Nat
  BY LenProperties, ElementOfSeq DEF LimiterInv, Typed
<1>6. Logged'
  BY <1>1, <1>5 DEF LimiterInv, Logged
<1>7. Buckets'
  <2> SUFFICES ASSUME NEW k \in Keys
               PROVE  /\ front[k] <= Len(log[k])
                      /\ Len(log[k]) - front[k] <= LimitOf[k]
                      /\ \A i \in 1..front[k] : log[k][i] + Window < clock'
    BY <1>1 DEF Buckets
  <2>1. /\ front[k] <= Len(log[k])
        /\ Len(log[k]) - front[k] <= LimitOf[k]
        /\ \A i \in 1..front[k] : log[k][i] + Window < clock
    BY DEF LimiterInv, Buckets
  <2>2. QED
    BY <1>1, <1>5, <2>1, LimitAssumption
<1>8. QED
  BY <1>3, <1>4, <1>6, <1>7 DEF LimiterInv

\* Each step of a call.
LEMMA StepKeeps ==
  ASSUME LimiterInv, NEW t \in Threads, Step(t)
  PROVE  LimiterInv'
<1>0. /\ task[t] \in TaskType /\ CallOK(task[t])
      /\ clock \in Nat /\ tracked \in Nat /\ drifted \in BOOLEAN
  BY DEF LimiterInv, Typed, Calls
<1>1. CASE RecordInBucket(t) \/ InsertVacant(t)
  <2>1. task[t].key \in Keys
    BY <1>0, <1>1 DEF RecordInBucket, InsertVacant, CallOK
  <2>2. PruneAndRecord(t) /\ UNCHANGED <<clock, tracked, drifted>>
    BY <1>1 DEF RecordInBucket, InsertVacant
  <2>3. QED
    BY <2>1, <2>2, <1>0, RecordingKeeps DEF LimiterInv, Typed
<1>2. CASE InsertOccupied(t)
  <2>1. task[t].key \in Keys
    BY <1>0, <1>2 DEF InsertOccupied, CallOK
  <2>2. PruneAndRecord(t) /\ UNCHANGED <<clock, drifted>> /\ tracked' = Decremented
    BY <1>2 DEF InsertOccupied
  <2>3. tracked' \in Nat
    BY <2>2, DecrementTyped DEF LimiterInv
  <2>4. QED
    BY <2>1, <2>2, <2>3, <1>0, RecordingKeeps DEF LimiterInv, Typed
<1>3. CASE MissBucket(t)
  <2> DEFINE c == [task[t] EXCEPT !.pc = "admit", !.tries = Attempts]
  <2>1. c \in TaskType /\ CallOK(c)
    <3>1. Attempts \in Int
      BY CapAssumption
    <3>2. c \in TaskType
      BY <1>0, <3>1 DEF TaskType, PCs
    <3>3. CallOK(c)
      BY <1>0, <1>3 DEF MissBucket, TaskType, CallOK
    <3>4. QED
      BY <3>2, <3>3
  <2>2. task' = [task EXCEPT ![t] = c] /\ UNCHANGED <<clock, log, front, tracked, drifted>>
    BY <1>3 DEF MissBucket
  <2>3. QED
    BY <1>0, <2>1, <2>2, CallStep
<1>4. CASE WinSlot(t)
  <2> DEFINE c == [task[t] EXCEPT !.pc = "insert", !.tries = 0]
  <2>1. c \in TaskType /\ CallOK(c)
    <3>1. 0 \in Int
      OBVIOUS
    <3>2. c \in TaskType
      BY <1>0, <3>1 DEF TaskType, PCs
    <3>3. CallOK(c)
      BY <1>0, <1>4 DEF WinSlot, TaskType, CallOK
    <3>4. QED
      BY <3>2, <3>3
  <2>2. task' = [task EXCEPT ![t] = c] /\ UNCHANGED <<clock, log, front, drifted>>
    BY <1>4 DEF WinSlot
  <2>3. tracked' \in Nat
    BY <1>0, <1>4 DEF WinSlot
  <2>4. QED
    BY <1>0, <2>1, <2>2, <2>3, CallStep
<1>5. CASE Reclaim(t)
  <2> DEFINE c == [task[t] EXCEPT !.pc = "sweep"]
  <2>1. c \in TaskType /\ CallOK(c)
    <3>2. c \in TaskType
      BY <1>0 DEF TaskType, PCs
    <3>3. CallOK(c)
      BY <1>0, <1>5 DEF Reclaim, TaskType, CallOK
    <3>4. QED
      BY <3>2, <3>3
  <2>2. task' = [task EXCEPT ![t] = c] /\ UNCHANGED <<clock, log, front, tracked, drifted>>
    BY <1>5 DEF Reclaim, Goto
  <2>3. QED
    BY <1>0, <2>1, <2>2, CallStep
<1>6. CASE GiveUp(t)
  <2> DEFINE c == [NoCall EXCEPT !.pc = "done", !.key = task[t].key, !.allowed = FALSE]
  <2>1. c \in TaskType /\ CallOK(c)
    <3>2. c \in TaskType
      BY <1>0, IdleTyped DEF TaskType, PCs
    <3>3. CallOK(c)
      BY <1>0, IdleTyped DEF TaskType, CallOK, NoCall
    <3>4. QED
      BY <3>2, <3>3
  <2>2. task' = [task EXCEPT ![t] = c] /\ UNCHANGED <<clock, log, front, tracked, drifted>>
    BY <1>6 DEF GiveUp, Finish
  <2>3. QED
    BY <1>0, <2>1, <2>2, CallStep
<1>7. CASE SweepBegin(t)
  <2>0. Cardinality(Present) \in Nat
    BY PresentSize DEF LimiterInv
  <2> DEFINE c == [task[t] EXCEPT !.pc = "retain", !.before = Cardinality(Present),
                                  !.sweptAt = clock, !.todo = Keys]
  <2>1. c \in TaskType /\ CallOK(c)
    <3>2. c \in TaskType
      BY <1>0, <2>0 DEF TaskType, PCs
    <3>3. CallOK(c)
      BY <1>0, <2>0 DEF TaskType, CallOK
    <3>4. QED
      BY <3>2, <3>3
  <2>2. task' = [task EXCEPT ![t] = c] /\ UNCHANGED <<clock, log, front, tracked, drifted>>
    BY <1>7 DEF SweepBegin
  <2>3. QED
    BY <1>0, <2>1, <2>2, CallStep
<1>8. CASE SweepKey(t)
  <2>1. PICK k \in task[t].todo : \E n \in 0..Len(log[k]) :
          /\ PrunedTo(k, task[t].sweptAt, n)
          /\ front' = [front EXCEPT ![k] = n]
          /\ task' = [task EXCEPT ![t].todo = @ \ {k}]
          /\ UNCHANGED <<clock, log, tracked, drifted>>
    BY <1>8 DEF SweepKey
  <2>n. PICK n \in 0..Len(log[k]) :
          /\ PrunedTo(k, task[t].sweptAt, n)
          /\ front' = [front EXCEPT ![k] = n]
          /\ task' = [task EXCEPT ![t].todo = @ \ {k}]
          /\ UNCHANGED <<clock, log, tracked, drifted>>
    BY <2>1
  <2>2. k \in Keys /\ task[t].sweptAt \in Nat /\ task[t].sweptAt <= clock
    BY <1>0 DEF TaskType, CallOK
  <2> DEFINE c == [task[t] EXCEPT !.todo = @ \ {k}]
  <2>3. c \in TaskType /\ CallOK(c)
    <3>2. c \in TaskType
      BY <1>0 DEF TaskType, PCs
    <3>3. CallOK(c)
      BY <1>0 DEF TaskType, CallOK
    <3>4. QED
      BY <3>2, <3>3
  <2>4. task' = [task EXCEPT ![t] = c]
    BY <2>n
  <2> HIDE DEF c
  <2>5. task' \in [Threads -> TaskType] /\ Calls'
    BY <2>n, <2>3, <2>4, CallKeeps
  <2>6. /\ log' \in [Keys -> Seq(Nat)] /\ front' \in [Keys -> Nat]
        /\ IsFiniteSet(Present') /\ Logged' /\ Buckets'
    BY <2>n, <2>2, PruningKeeps
  <2>7. QED
    BY <1>0, <2>n, <2>5, <2>6 DEF LimiterInv, Typed
<1>9. CASE SweepCount(t)
  <2>0. Cardinality(Present) \in Nat
    BY PresentSize DEF LimiterInv
  <2>1. PICK r \in Nat : task' = [task EXCEPT ![t] =
               [@ EXCEPT !.pc = "len", !.removed = r, !.before = 0, !.sweptAt = 0]]
    <3>1. task[t].before \in Nat
      BY <1>0 DEF TaskType
    <3> DEFINE r == IF Cardinality(Present) < task[t].before
                      THEN task[t].before - Cardinality(Present) ELSE 0
    <3>2. r \in Nat
      BY <2>0, <3>1
    <3>3. task' = [task EXCEPT ![t] =
               [@ EXCEPT !.pc = "len", !.removed = r, !.before = 0, !.sweptAt = 0]]
      BY <1>9 DEF SweepCount
    <3>4. QED
      BY <3>2, <3>3
  <2> DEFINE c == [task[t] EXCEPT !.pc = "len", !.removed = r, !.before = 0, !.sweptAt = 0]
  <2>2. c \in TaskType /\ CallOK(c)
    <3>2. c \in TaskType
      BY <1>0 DEF TaskType, PCs
    <3>3. CallOK(c)
      BY <1>0 DEF TaskType, CallOK
    <3>4. QED
      BY <3>2, <3>3
  <2>3. task' = [task EXCEPT ![t] = c] /\ UNCHANGED <<clock, log, front, tracked, drifted>>
    BY <1>9, <2>1 DEF SweepCount
  <2>4. QED
    BY <1>0, <2>2, <2>3, CallStep
<1>10. CASE SweepLen(t)
  <2>0. Cardinality(Present) \in Nat
    BY PresentSize DEF LimiterInv
  <2> DEFINE c == [task[t] EXCEPT !.pc = "store", !.len = Cardinality(Present)]
  <2>1. c \in TaskType /\ CallOK(c)
    <3>2. c \in TaskType
      BY <1>0, <2>0 DEF TaskType, PCs
    <3>3. CallOK(c)
      BY <1>0, <2>0 DEF TaskType, CallOK
    <3>4. QED
      BY <3>2, <3>3
  <2>2. task' = [task EXCEPT ![t] = c] /\ UNCHANGED <<clock, log, front, tracked, drifted>>
    BY <1>10 DEF SweepLen
  <2>3. QED
    BY <1>0, <2>1, <2>2, CallStep
<1>11. CASE SweepStore(t)
  <2>1. tracked' \in Nat /\ drifted' \in BOOLEAN /\ UNCHANGED <<clock, log, front>>
    BY <1>0, <1>11 DEF SweepStore, TaskType
  <2>3. CASE task[t].key = NoKey
    <3>1. NoCall \in TaskType /\ CallOK(NoCall)
      BY <1>0, IdleTyped DEF CallOK, NoCall
    <3>2. task' = [task EXCEPT ![t] = NoCall]
      BY <1>11, <2>3 DEF SweepStore, Swept
    <3>3. QED
      BY <2>1, <3>1, <3>2, CallStep
  <2>4. CASE task[t].key # NoKey /\ task[t].removed = 0
    <3> DEFINE d == [task[t] EXCEPT !.pc = "evict", !.len = 0]
    <3>1. d \in TaskType /\ CallOK(d)
      <4>2. d \in TaskType
        BY <1>0 DEF TaskType, PCs
      <4>3. CallOK(d)
        BY <1>0, <2>4 DEF TaskType, CallOK
      <4>4. QED
        BY <4>2, <4>3
    <3>2. task' = [task EXCEPT ![t] = d]
      BY <1>11, <2>4 DEF SweepStore, Swept
    <3>3. QED
      BY <2>1, <3>1, <3>2, CallStep
  <2>5. CASE task[t].key # NoKey /\ task[t].removed # 0
    <3> DEFINE d == [task[t] EXCEPT !.pc = "admit", !.tries = @ - 1, !.len = 0, !.removed = 0]
    <3>1. d \in TaskType /\ CallOK(d)
      <4>1. task[t].tries - 1 \in Int
        BY <1>0 DEF TaskType
      <4>2. d \in TaskType
        BY <1>0, <4>1 DEF TaskType, PCs
      <4>3. CallOK(d)
        BY <1>0, <2>5 DEF TaskType, CallOK
      <4>4. QED
        BY <4>2, <4>3
    <3>2. task' = [task EXCEPT ![t] = d]
      BY <1>11, <2>5 DEF SweepStore, Swept
    <3>3. QED
      BY <2>1, <3>1, <3>2, CallStep
  <2>6. QED
    BY <2>3, <2>4, <2>5
<1>12. CASE EvictPick(t)
  <2>1. UNCHANGED <<clock, log, front, tracked, drifted>>
    BY <1>12 DEF EvictPick
  <2>2. task[t].pc = "evict"
    BY <1>12 DEF EvictPick
  <2>3. CASE TryAgain(t)
    <3> DEFINE c == [task[t] EXCEPT !.pc = "admit", !.tries = @ - 1, !.victim = NoKey]
    <3>1. c \in TaskType /\ CallOK(c)
      <4>1. task[t].tries - 1 \in Int
        BY <1>0 DEF TaskType
      <4>2. c \in TaskType
        BY <1>0, <4>1 DEF TaskType, PCs
      <4>3. CallOK(c)
        BY <1>0, <2>2 DEF TaskType, CallOK
      <4>4. QED
        BY <4>2, <4>3
    <3>2. task' = [task EXCEPT ![t] = c]
      BY <2>3 DEF TryAgain
    <3>3. QED
      BY <1>0, <2>1, <3>1, <3>2, CallStep
  <2>4. CASE \E v \in Keys : task' = [task EXCEPT ![t].pc = "remove", ![t].victim = v]
    <3>0. PICK v \in Keys : task' = [task EXCEPT ![t].pc = "remove", ![t].victim = v]
      BY <2>4
    <3> DEFINE c == [task[t] EXCEPT !.pc = "remove", !.victim = v]
    <3>1. c \in TaskType /\ CallOK(c)
      <4>2. c \in TaskType
        BY <1>0 DEF TaskType, PCs
      <4>3. CallOK(c)
        BY <1>0, <2>2 DEF TaskType, CallOK
      <4>4. QED
        BY <4>2, <4>3
    <3>2. task' = [task EXCEPT ![t] = c]
      BY <3>0
    <3>3. QED
      BY <1>0, <2>1, <3>1, <3>2, CallStep
  <2>5. QED
    BY <1>12, <2>3, <2>4 DEF EvictPick, Present
<1>13. CASE EvictRemove(t)
  <2>0. task[t].victim \in Keys /\ task[t].key \in Keys /\ task[t].pc = "remove"
    BY <1>0, <1>13 DEF EvictRemove, CallOK
  <2>1. CASE /\ log' = [log EXCEPT ![task[t].victim] = <<>>]
             /\ front' = [front EXCEPT ![task[t].victim] = 0]
             /\ Goto(t, "refund")
             /\ UNCHANGED <<clock, tracked, drifted>>
    <3>0. PICK k \in Keys : k = task[t].victim
      BY <2>0
    <3> DEFINE c == [task[t] EXCEPT !.pc = "refund"]
    <3>1. c \in TaskType /\ CallOK(c)
      <4>2. c \in TaskType
        BY <1>0, <2>0 DEF TaskType, PCs
      <4>3. CallOK(c)
        BY <1>0, <2>0 DEF TaskType, CallOK
      <4>4. QED
        BY <4>2, <4>3
    <3>2. task' = [task EXCEPT ![t] = c]
      BY <2>1 DEF Goto
    <3> HIDE DEF c
    <3>3. task' \in [Threads -> TaskType] /\ Calls'
      BY <2>1, <3>1, <3>2, CallKeeps
    <3>4. /\ log' \in [Keys -> Seq(Nat)] /\ front' \in [Keys -> Nat]
          /\ log'[k] = <<>> /\ front'[k] = 0 /\ Len(log'[k]) = 0
          /\ \A j \in Keys \ {k} : log'[j] = log[j] /\ front'[j] = front[j]
      BY <2>0, <2>1, <3>0 DEF LimiterInv, Typed
    <3>5. Present' \subseteq Present \cup {k}
      BY <3>4 DEF Present
    <3>6. IsFiniteSet(Present')
      BY <3>5, PresentStaysFinite DEF LimiterInv
    <3>7. Logged'
      BY <2>0, <2>1, <3>4 DEF LimiterInv, Logged
    <3>8. Buckets'
      BY <2>0, <2>1, <3>4, LimitAssumption DEF LimiterInv, Buckets
    <3>9. QED
      BY <1>0, <2>1, <3>3, <3>4, <3>6, <3>7, <3>8 DEF LimiterInv, Typed
  <2>2. CASE TryAgain(t) /\ UNCHANGED <<clock, log, front, tracked, drifted>>
    <3> DEFINE c == [task[t] EXCEPT !.pc = "admit", !.tries = @ - 1, !.victim = NoKey]
    <3>1. c \in TaskType /\ CallOK(c)
      <4>1. task[t].tries - 1 \in Int
        BY <1>0 DEF TaskType
      <4>2. c \in TaskType
        BY <1>0, <2>0, <4>1 DEF TaskType, PCs
      <4>3. CallOK(c)
        BY <1>0, <2>0 DEF TaskType, CallOK
      <4>4. QED
        BY <4>2, <4>3
    <3>2. task' = [task EXCEPT ![t] = c]
      BY <2>2 DEF TryAgain
    <3>3. QED
      BY <1>0, <2>2, <3>1, <3>2, CallStep
  <2>3. QED
    BY <1>13, <2>1, <2>2 DEF EvictRemove
<1>14. CASE EvictRefund(t)
  <2> DEFINE c == [task[t] EXCEPT !.pc = "admit", !.tries = @ - 1, !.victim = NoKey]
  <2>1. c \in TaskType /\ CallOK(c)
    <3>1. task[t].tries - 1 \in Int
      BY <1>0 DEF TaskType
    <3>2. c \in TaskType
      BY <1>0, <3>1 DEF TaskType, PCs
    <3>3. CallOK(c)
      BY <1>0, <1>14 DEF EvictRefund, TaskType, CallOK
    <3>4. QED
      BY <3>2, <3>3
  <2>2. task' = [task EXCEPT ![t] = c] /\ UNCHANGED <<clock, log, front, drifted>>
    BY <1>14 DEF EvictRefund, TryAgain
  <2>3. tracked' \in Nat
    BY <1>14, DecrementTyped DEF EvictRefund, LimiterInv
  <2>4. QED
    BY <1>0, <2>1, <2>2, <2>3, CallStep
<1>15. QED
  BY <1>1, <1>2, <1>3, <1>4, <1>5, <1>6, <1>7, <1>8, <1>9, <1>10, <1>11, <1>12, <1>13, <1>14 DEF Step

LEMMA LimiterInvNext == LimiterInv /\ [LimiterNext]_limiterVars => LimiterInv'
<1> SUFFICES ASSUME LimiterInv, [LimiterNext]_limiterVars PROVE LimiterInv'
  OBVIOUS
<1>1. CASE Tick
  BY <1>1, TickKeeps
<1>2. ASSUME NEW t \in Threads, Step(t) PROVE LimiterInv'
  BY <1>2, StepKeeps
<1>3. ASSUME NEW t \in Threads, Return(t) PROVE LimiterInv'
  <2>1. NoCall \in TaskType /\ CallOK(NoCall)
    BY IdleTyped DEF LimiterInv, Typed, CallOK, NoCall
  <2>2. task' = [task EXCEPT ![t] = NoCall] /\ UNCHANGED <<clock, log, front, tracked, drifted>>
    BY <1>3 DEF Return
  <2>3. tracked' \in Nat /\ drifted' \in BOOLEAN
    BY <2>2 DEF LimiterInv, Typed
  <2>4. QED
    BY <2>1, <2>2, <2>3, CallStep
<1>4. ASSUME NEW t \in Threads, BackgroundSweep(t) PROVE LimiterInv'
  <2> DEFINE c == [task[t] EXCEPT !.pc = "sweep"]
  <2>1. task[t] \in TaskType /\ CallOK(task[t])
    BY DEF LimiterInv, Typed, Calls
  <2>2. c \in TaskType
    BY <2>1 DEF TaskType, PCs
  <2>3. CallOK(c)
    BY <2>1 DEF TaskType, CallOK
  <2>4. task' = [task EXCEPT ![t] = c] /\ UNCHANGED <<clock, log, front, tracked, drifted>>
    BY <1>4 DEF BackgroundSweep, Goto
  <2>5. tracked' \in Nat /\ drifted' \in BOOLEAN
    BY <2>4 DEF LimiterInv, Typed
  <2>6. QED
    BY <2>2, <2>3, <2>4, <2>5, CallStep
<1>5. ASSUME NEW t \in Threads, NEW k \in Keys, Call(t, k) PROVE LimiterInv'
  <2> DEFINE c == [NoCall EXCEPT !.pc = "lookup", !.key = k, !.now = clock]
  <2>1. clock \in Nat
    BY DEF LimiterInv, Typed
  <2>2. c \in TaskType
    BY <2>1, IdleTyped DEF TaskType, PCs
  <2>3. CallOK(c)
    BY <2>1 DEF CallOK, NoCall
  <2>4. task' = [task EXCEPT ![t] = c] /\ UNCHANGED <<clock, log, front, tracked, drifted>>
    BY <1>5 DEF Call
  <2>5. tracked' \in Nat /\ drifted' \in BOOLEAN
    BY <2>4 DEF LimiterInv, Typed
  <2>6. QED
    BY <2>2, <2>3, <2>4, <2>5, CallStep
<1>6. CASE UNCHANGED limiterVars
  <2>1. Present' = Present
    BY <1>6 DEF limiterVars, Present
  <2>2. QED
    BY <1>6, <2>1 DEF limiterVars, LimiterInv, Typed, Calls, CallOK, Logged, Buckets
<1>7. QED
  BY <1>1, <1>2, <1>3, <1>4, <1>5, <1>6 DEF LimiterNext

\* A bucket holds no more than its key's limit, what it forgot is out of the window,
\* and nothing in it bears a time to come, however long ago a call read the clock
\* (prune_and_record, which pops the front while it is old and then compares).
THEOREM LimiterInvHolds == LimiterSpec => []LimiterInv
  BY LimiterInvInit, LimiterInvNext, PTL DEF LimiterSpec

\* The types of RateLimiter, the counter's among them: a decrement of zero wraps.
THEOREM LimiterTypeCorrect == LimiterSpec => []LimiterTypeOK
<1>1. LimiterInv => LimiterTypeOK
  <2> SUFFICES ASSUME LimiterInv PROVE LimiterTypeOK
    OBVIOUS
  <2>1. log \in [Keys -> Seq(0..clock)]
    <3>1. \A k \in Keys : log[k] \in Seq(0..clock)
      BY BoundedSeq DEF LimiterInv, Typed, Logged
    <3>2. QED
      BY <3>1 DEF LimiterInv, Typed
  <2>2. \A t \in Threads : TaskOK(task[t])
    BY DEF LimiterInv, Typed, TaskType, Calls, CallOK, TaskOK
  <2>3. QED
    BY <2>1, <2>2 DEF LimiterInv, Typed, Buckets, LimiterTypeOK
<1>2. QED
  BY <1>1, LimiterInvHolds, PTL

\* No key has more admissions in the last window than its limit, whatever the
\* interleaving of calls, sweeps and evictions (check_and_record_status).
THEOREM LimitKept == LimiterSpec => []LimitHolds
<1>1. LimiterInv => LimitHolds
  <2> SUFFICES ASSUME LimiterInv, NEW k \in Keys PROVE Cardinality(Recent(k)) <= LimitOf[k]
    BY DEF LimitHolds
  <2>1. /\ front[k] \in Nat /\ Len(log[k]) \in Nat /\ front[k] <= Len(log[k])
        /\ Len(log[k]) - front[k] <= LimitOf[k]
        /\ \A i \in 1..front[k] : log[k][i] + Window < clock
    BY LenProperties DEF LimiterInv, Typed, Buckets
  <2>2. front[k] \in 0..Len(log[k])
    BY <2>1
  <2>3. Cardinality(Recent(k)) \in Nat /\ Cardinality(Recent(k)) <= Len(log[k]) - front[k]
    BY <2>1, <2>2, RecentIsHeld
  <2>4. QED
    BY <2>1, <2>3, LimitAssumption
<1>2. QED
  BY <1>1, LimiterInvHolds, PTL

-----------------------------------------------------------------------------
(***************************************************************************)
(* The limiter implements LimitedAdmission.                                *)
(***************************************************************************)
LEMMA RecordingAdmits ==
  ASSUME LimiterInv, NEW t \in Threads, task[t].key \in Keys, PruneAndRecord(t), clock' = clock
  PROVE  Promise!Next \/ UNCHANGED <<clock, log>>
<1> DEFINE k == task[t].key
           now == task[t].now
<1>1. now \in 0..clock
  BY DEF LimiterInv, Typed, TaskType, Calls, CallOK
<1>2. PICK n \in 0..Len(log[k]) :
        /\ PrunedTo(k, now, n)
        /\ \/ Len(log[k]) - n < LimitOf[k] /\ log' = [log EXCEPT ![k] = Append(@, now)]
           \/ log' = log
  BY DEF PruneAndRecord
<1>3. CASE Len(log[k]) - n < LimitOf[k] /\ log' = [log EXCEPT ![k] = Append(@, now)]
  <2>1. now \in Nat /\ now <= clock
    BY <1>1 DEF LimiterInv, Typed
  <2>2. \A i \in 1..n : log[k][i] + Window < clock
    BY <1>2, <2>1, PrunedIsOld
  <2>3. Cardinality(Recent(k)) \in Nat /\ Cardinality(Recent(k)) <= Len(log[k]) - n
    BY <2>2, RecentIsHeld
  <2>4. Promise!Recent(log[k], clock) = Recent(k)
    BY DEF Promise!Recent, Recent
  <2>5. Len(log[k]) \in Nat /\ n \in Nat /\ LimitOf[k] \in Nat
    BY LenProperties, LimitAssumption DEF LimiterInv, Typed
  <2>6. Promise!Cardinality(Promise!Recent(log[k], clock)) < LimitOf[k]
    <3>1. Cardinality(Promise!Recent(log[k], clock)) < LimitOf[k]
      BY <1>3, <2>3, <2>4, <2>5
    <3>2. QED
      BY <3>1 DEF Promise!Cardinality, Cardinality
  <2>7. Promise!Admit(k, now)
    <3> HIDE DEF k, now
    <3>1. now <= clock /\ log' = [log EXCEPT ![k] = Append(@, now)] /\ clock' = clock
      BY <1>3, <2>1
    <3>2. QED
      BY <2>6, <3>1, Zenon DEF Promise!Admit
  <2>8. QED
    BY <1>1, <2>7 DEF Promise!Next
<1>4. QED
  BY <1>2, <1>3

\* Each admission is one that LimitedAdmission allows, each eviction forgets,
\* and no other step of any thread touches an admission (check_and_record_status,
\* prune_and_record, sweep_expired, evict_idlest_of_sample).
THEOREM Implements == LimiterSpec => KeepsPromise
<1>1. LimiterInit => Promise!Init
  BY DEF LimiterInit, Promise!Init
<1>2. LimiterInv /\ [LimiterNext]_limiterVars => [Promise!Next]_<<clock, log>>
  <2> SUFFICES ASSUME LimiterInv, [LimiterNext]_limiterVars PROVE Promise!Next \/ UNCHANGED <<clock, log>>
    OBVIOUS
  <2>stutter. limiterVars' = limiterVars => UNCHANGED <<clock, log>>
    BY DEF limiterVars
  <2>tick. ASSUME Tick
        PROVE  Promise!Next \/ UNCHANGED <<clock, log>>
    BY <2>tick DEF Tick, LimiterInv, Typed, Promise!Next, Promise!Pass
  <2>admit. ASSUME NEW t \in Threads, RecordInBucket(t) \/ InsertOccupied(t) \/ InsertVacant(t)
        PROVE  Promise!Next \/ UNCHANGED <<clock, log>>
    <3>1. PruneAndRecord(t) /\ clock' = clock
      BY <2>admit DEF RecordInBucket, InsertOccupied, InsertVacant
    <3>2. task[t].key \in Keys
      BY <2>admit DEF RecordInBucket, InsertOccupied, InsertVacant, LimiterInv, Calls, CallOK
    <3>3. QED
      BY <3>1, <3>2, RecordingAdmits
  <2>forget. ASSUME NEW t \in Threads, EvictRemove(t)
        PROVE  Promise!Next \/ UNCHANGED <<clock, log>>
    <3>1. task[t].victim \in Keys
      BY <2>forget DEF EvictRemove, LimiterInv, Calls, CallOK
    <3>2. QED
      BY <2>forget, <3>1 DEF EvictRemove, Promise!Next, Promise!Forget
  <2>rest. ASSUME NEW t \in Threads,
               \/ MissBucket(t) \/ WinSlot(t) \/ Reclaim(t) \/ GiveUp(t)
               \/ SweepBegin(t) \/ SweepKey(t) \/ SweepCount(t) \/ SweepLen(t)
               \/ SweepStore(t) \/ EvictPick(t) \/ EvictRefund(t)
               \/ Return(t) \/ BackgroundSweep(t) \/ \E k \in Keys : Call(t, k)
        PROVE  UNCHANGED <<clock, log>>
    BY <2>rest DEF MissBucket, WinSlot, Reclaim, GiveUp, SweepBegin, SweepKey, SweepCount,
                SweepLen, SweepStore, EvictPick, EvictRefund, Return, BackgroundSweep, Call
  <2> QED
    BY <2>tick, <2>admit, <2>forget, <2>rest, <2>stutter DEF LimiterNext, Step
<1>3. QED
  BY <1>1, <1>2, LimiterInvHolds, PTL DEF LimiterSpec, KeepsPromise, Promise!Spec

-----------------------------------------------------------------------------
(***************************************************************************)
(* The counter covers the map and the slots under way.  It is inductive    *)
(* over LimiterInv: a slot is won before its bucket exists and refunded    *)
(* after its bucket is gone, so at no point between the two does the       *)
(* counter count less than what there is.                                  *)
(***************************************************************************)
Slots == {t \in Threads : task[t].pc \in {"insert", "refund"}}

MapSize == Cardinality(Present)
SlotCount == Cardinality(Slots)

LEMMA OwedSize ==
  LimiterInv => /\ IsFiniteSet(Present) /\ MapSize \in Nat
          /\ IsFiniteSet(Slots) /\ SlotCount \in Nat
          /\ Owed = MapSize + SlotCount
<1> SUFFICES ASSUME LimiterInv
             PROVE  /\ IsFiniteSet(Present) /\ MapSize \in Nat
                    /\ IsFiniteSet(Slots) /\ SlotCount \in Nat
                    /\ Owed = MapSize + SlotCount
  OBVIOUS
<1>1. IsFiniteSet(Slots)
  BY ThreadsAssumption, FS_Subset DEF Slots
<1>2. IsFiniteSet(Present) /\ Cardinality(Present) \in Nat
  BY PresentSize DEF LimiterInv, Typed
<1>3. QED
  BY <1>1, <1>2, FS_CardinalityType DEF Owed, Slots, MapSize, SlotCount

Counted == MapSize \in Nat /\ SlotCount \in Nat /\ Owed = MapSize + SlotCount

LEMMA CountsAreSound == LimiterInv => Counted
  BY OwedSize DEF Counted

\* The keys of the map, one key aside.
LEMMA MapBounds ==
  ASSUME LimiterInv, NEW k
  PROVE  /\ Present' \subseteq Present => MapSize' <= MapSize
         /\ Present' \subseteq Present \cup {k}
              => MapSize' <= MapSize + 1
         /\ k \in Present /\ Present' \subseteq Present \ {k}
              => MapSize' <= MapSize - 1
<1>1. IsFiniteSet(Present) /\ MapSize \in Nat
  BY OwedSize DEF MapSize, SlotCount
<1>2. /\ IsFiniteSet(Present \cup {k})
      /\ Cardinality(Present \cup {k}) <= MapSize + 1
      /\ Cardinality(Present \cup {k}) \in Nat
  <2>0. MapSize = Cardinality(Present)
    BY DEF MapSize
  <2>1. CASE k \in Present
    <3>1. Present \cup {k} = Present
      BY <2>1
    <3> QED
      BY <1>1, <2>0, <3>1
  <2>2. CASE k \notin Present
    <3>1. Cardinality(Present \cup {k}) = Cardinality(Present) + 1
      BY <1>1, <2>2, FS_AddElement
    <3> QED
      BY <1>1, <2>0, <3>1, FS_AddElement
  <2> QED
    BY <2>1, <2>2
<1>3. k \in Present => /\ IsFiniteSet(Present \ {k})
                       /\ Cardinality(Present \ {k}) = MapSize - 1
  BY <1>1, FS_RemoveElement DEF MapSize
<1>4. Present' \subseteq Present => MapSize' <= MapSize
  BY <1>1, FS_Subset DEF MapSize
<1>5. Present' \subseteq Present \cup {k}
        => MapSize' <= MapSize + 1
  <2> SUFFICES ASSUME Present' \subseteq Present \cup {k}
               PROVE  MapSize' <= MapSize + 1
    OBVIOUS
  <2>1. IsFiniteSet(Present') /\ MapSize' <= Cardinality(Present \cup {k})
    BY <1>2, FS_Subset DEF MapSize
  <2>2. MapSize' \in Nat
    BY <2>1, FS_CardinalityType DEF MapSize
  <2>3. QED
    BY <1>1, <1>2, <2>1, <2>2
<1>6. k \in Present /\ Present' \subseteq Present \ {k}
        => MapSize' <= MapSize - 1
  BY <1>3, FS_Subset DEF MapSize
<1>7. QED
  BY <1>4, <1>5, <1>6

\* The slots under way, as one thread moves from a program counter to another.
LEMMA SlotBounds ==
  ASSUME LimiterInv, NEW t \in Threads, \A u \in Threads \ {t} : task'[u] = task[u]
  PROVE  /\ SlotCount' <= SlotCount + 1
         /\ task'[t].pc \notin {"insert", "refund"}
              => SlotCount' <= SlotCount
         /\ task[t].pc \in {"insert", "refund"} /\ task'[t].pc \notin {"insert", "refund"}
              => SlotCount >= 1 /\ SlotCount' <= SlotCount - 1
<1>1. IsFiniteSet(Slots) /\ SlotCount \in Nat
  BY OwedSize DEF MapSize, SlotCount
<1>2. Slots' \subseteq Slots \cup {t}
  BY DEF Slots
<1>3. SlotCount' <= SlotCount + 1
  <2>1. /\ IsFiniteSet(Slots \cup {t})
        /\ Cardinality(Slots \cup {t}) <= SlotCount + 1
        /\ Cardinality(Slots \cup {t}) \in Nat
    <3>1. /\ IsFiniteSet(Slots \cup {t})
          /\ Cardinality(Slots \cup {t}) = IF t \in Slots THEN SlotCount ELSE SlotCount + 1
      BY <1>1, FS_AddElement DEF SlotCount
    <3>2. QED
      BY <1>1, <3>1
  <2>2. IsFiniteSet(Slots') /\ SlotCount' <= Cardinality(Slots \cup {t})
    BY <1>2, <2>1, FS_Subset DEF SlotCount
  <2>3. SlotCount' \in Nat
    BY <2>2, FS_CardinalityType DEF SlotCount
  <2>4. QED
    BY <1>1, <2>1, <2>2, <2>3 DEF SlotCount
<1>4. task'[t].pc \notin {"insert", "refund"} => SlotCount' <= SlotCount
  <2>1. task'[t].pc \notin {"insert", "refund"} => Slots' \subseteq Slots
    BY DEF Slots
  <2>2. QED
    BY <1>1, <2>1, FS_Subset DEF SlotCount
<1>5. task[t].pc \in {"insert", "refund"} /\ task'[t].pc \notin {"insert", "refund"}
        => SlotCount >= 1 /\ SlotCount' <= SlotCount - 1
  <2> SUFFICES ASSUME task[t].pc \in {"insert", "refund"},
                      task'[t].pc \notin {"insert", "refund"}
               PROVE  SlotCount >= 1 /\ SlotCount' <= SlotCount - 1
    OBVIOUS
  <2>1. t \in Slots /\ Slots' = Slots \ {t}
    BY DEF Slots
  <2>2. SlotCount' = SlotCount - 1
    BY <1>1, <2>1, FS_RemoveElement DEF SlotCount
  <2>3. SlotCount # 0
    BY <1>1, <2>1, FS_EmptySet DEF SlotCount
  <2>4. QED
    BY <1>1, <2>2, <2>3
<1>6. QED
  BY <1>3, <1>4, <1>5

\* Recording adds at most the caller's key to the map, and the call is over.
LEMMA RecordingGrows ==
  ASSUME LimiterInv, NEW t \in Threads, task[t].key \in Keys, PruneAndRecord(t)
  PROVE  /\ Present' \subseteq Present \cup {task[t].key}
         /\ task'[t].pc = "done"
         /\ \A u \in Threads \ {t} : task'[u] = task[u]
<1> DEFINE k == task[t].key
<1>1. \A j \in Keys \ {k} : log'[j] = log[j] /\ front'[j] = front[j]
  BY DEF PruneAndRecord, LimiterInv, Typed
<1>2. PICK b \in BOOLEAN : Finish(t, b)
  BY DEF PruneAndRecord
<1>3. task'[t].pc = "done" /\ \A u \in Threads \ {t} : task'[u] = task[u]
  BY <1>2 DEF Finish, LimiterInv, Typed, NoCall
<1>4. QED
  BY <1>1, <1>3 DEF Present

\* Sums of two sizes, as one of them or both shrink.
LEMMA SumKept ==
  \A m, c, p, s, n, q \in Nat :
    p + s <= n =>
      /\ m <= p /\ c <= s /\ q = n => m + c <= q
      /\ m <= p - 1 /\ c <= s + 1 /\ q = n => m + c <= q
  OBVIOUS

LEMMA SumGrows ==
  \A m, c, p, s, n, q \in Nat :
    p + s <= n /\ m <= p /\ c <= s + 1 /\ q = n + 1 => m + c <= q
  OBVIOUS

LEMMA SumShrinks ==
  \A m, c, p, s, n, q \in Nat :
    p + s <= n /\ m <= p /\ c <= s - 1 /\ q = n - 1 => m + c <= q
  OBVIOUS

LEMMA SumMoves ==
  \A m, c, p, s, n, q \in Nat :
    p + s <= n /\ m <= p + 1 /\ c <= s - 1 /\ q = n => m + c <= q
  OBVIOUS

LEMMA CoverNext == LimiterInv /\ CounterCovers /\ [LimiterNext]_limiterVars => CounterCovers'
<1> SUFFICES ASSUME LimiterInv, CounterCovers, [LimiterNext]_limiterVars PROVE CounterCovers'
  OBVIOUS
<1>0. /\ MapSize \in Nat /\ SlotCount \in Nat /\ Owed = MapSize + SlotCount /\ tracked \in Nat
      /\ ~drifted => MapSize + SlotCount <= tracked
  BY OwedSize DEF LimiterInv, Typed, CounterCovers
<1>a. MapSize' \in Nat /\ SlotCount' \in Nat /\ Owed' = MapSize' + SlotCount'
  <2>1. LimiterInv'
    BY LimiterInvNext
  <2>2. LimiterInv' => Counted'
    BY CountsAreSound, PTL
  <2>3. QED
    BY <2>1, <2>2 DEF Counted
<1>b. SUFFICES ASSUME ~drifted' PROVE MapSize' + SlotCount' <= tracked'
  BY <1>a DEF CounterCovers
<1>m. /\ Present' \subseteq Present => MapSize' <= MapSize
      /\ \A k : Present' \subseteq Present \cup {k} => MapSize' <= MapSize + 1
      /\ \A k \in Present : Present' \subseteq Present \ {k} => MapSize' <= MapSize - 1
  BY MapBounds
<1>c. ASSUME drifted' = drifted PROVE MapSize + SlotCount <= tracked
  <2>1. ~drifted
    BY <1>b, <1>c, Zenon
  <2>2. QED
    BY <1>0, <2>1, Zenon
<1>n. /\ MapSize \in Nat /\ SlotCount \in Nat /\ tracked \in Nat
      /\ MapSize' \in Nat /\ SlotCount' \in Nat /\ tracked' \in Nat
  BY <1>0, <1>a, LimiterInvNext DEF LimiterInv, Typed
<1>q. ASSUME Present' \subseteq Present, SlotCount' <= SlotCount, UNCHANGED <<tracked, drifted>>
      PROVE  MapSize' + SlotCount' <= tracked'
  <2>1. MapSize + SlotCount <= tracked /\ tracked' = tracked /\ MapSize' <= MapSize
    BY <1>c, <1>m, <1>q
  <2>2. SlotCount' <= SlotCount
    BY <1>q
  <2>3. QED
    BY <1>n, <2>1, <2>2, SumKept
<1>1. CASE Tick \/ UNCHANGED limiterVars
  <2>1. Present' = Present /\ Slots' = Slots /\ UNCHANGED <<tracked, drifted>>
    BY <1>1 DEF Tick, limiterVars, Present, Slots
  <2>2. SlotCount' <= SlotCount
    BY <2>1, <1>0 DEF SlotCount
  <2>3. QED
    BY <2>1, <2>2, <1>q
<1>2. ASSUME NEW t \in Threads, RecordInBucket(t) PROVE MapSize' + SlotCount' <= tracked'
  <2>1. task[t].key \in Keys /\ PruneAndRecord(t) /\ task[t].key \in Present
    BY <1>2 DEF RecordInBucket, Present
  <2>2. Present' \subseteq Present
    BY <2>1, RecordingGrows
  <2>3. SlotCount' <= SlotCount
    BY <2>1, RecordingGrows, SlotBounds
  <2>4. QED
    BY <1>2, <2>2, <2>3, <1>q DEF RecordInBucket
<1>3. ASSUME NEW t \in Threads, WinSlot(t) PROVE MapSize' + SlotCount' <= tracked'
  <2>1. /\ Present' = Present /\ tracked' = tracked + 1 /\ drifted' = drifted
        /\ \A u \in Threads \ {t} : task'[u] = task[u]
    BY <1>3 DEF WinSlot, Present, LimiterInv, Typed
  <2>2. SlotCount' <= SlotCount + 1
    BY <2>1, SlotBounds
  <2>3. MapSize + SlotCount <= tracked /\ MapSize' <= MapSize /\ tracked' = tracked + 1
    BY <1>c, <1>m, <2>1
  <2>4. QED
    BY <1>n, <2>2, <2>3, SumGrows
<1>4. ASSUME NEW t \in Threads, InsertOccupied(t) PROVE MapSize' + SlotCount' <= tracked'
  <2>1. /\ task[t].key \in Keys /\ PruneAndRecord(t) /\ task[t].key \in Present
        /\ task[t].pc = "insert" /\ tracked' = Decremented /\ drifted' = drifted
    BY <1>4 DEF InsertOccupied, Present
  <2>2. Present' \subseteq Present
    BY <2>1, RecordingGrows
  <2>3. SlotCount >= 1 /\ SlotCount' <= SlotCount - 1
    BY <2>1, RecordingGrows, SlotBounds
  <2>4. MapSize + SlotCount <= tracked /\ MapSize' <= MapSize
    BY <1>c, <1>m, <2>1, <2>2
  <2>5. tracked' = tracked - 1
    BY <1>n, <2>1, <2>3, <2>4 DEF Decremented
  <2>6. QED
    BY <1>n, <2>3, <2>4, <2>5, SumShrinks
<1>5. ASSUME NEW t \in Threads, InsertVacant(t) PROVE MapSize' + SlotCount' <= tracked'
  <2>1. /\ task[t].key \in Keys /\ PruneAndRecord(t)
        /\ task[t].pc = "insert" /\ tracked' = tracked /\ drifted' = drifted
    BY <1>5 DEF InsertVacant, LimiterInv, Calls, CallOK
  <2>2. Present' \subseteq Present \cup {task[t].key}
    BY <2>1, RecordingGrows
  <2>3. SlotCount >= 1 /\ SlotCount' <= SlotCount - 1
    BY <2>1, RecordingGrows, SlotBounds
  <2>4. MapSize' <= MapSize + 1
    BY <2>2, <1>m
  <2>5. MapSize + SlotCount <= tracked /\ tracked' = tracked
    BY <2>1, <1>c
  <2>6. QED
    BY <1>n, <2>3, <2>4, <2>5, SumMoves
<1>6. ASSUME NEW t \in Threads, SweepKey(t) PROVE MapSize' + SlotCount' <= tracked'
  <2>1. PICK k \in task[t].todo : \E n \in 0..Len(log[k]) :
          PrunedTo(k, task[t].sweptAt, n) /\ front' = [front EXCEPT ![k] = n]
    BY <1>6 DEF SweepKey
  <2>2. PICK n \in 0..Len(log[k]) :
          PrunedTo(k, task[t].sweptAt, n) /\ front' = [front EXCEPT ![k] = n]
    BY <2>1
  <2>3. /\ k \in Keys /\ front[k] \in Nat /\ Len(log[k]) \in Nat
        /\ n \in front[k]..Len(log[k])
    BY <2>2, LenProperties DEF LimiterInv, Typed, TaskType, PrunedTo
  <2>4. Present' \subseteq Present
    BY <1>6, <2>2, <2>3 DEF SweepKey, Present, LimiterInv, Typed
  <2>5. /\ \A u \in Threads \ {t} : task'[u] = task[u]
        /\ task'[t].pc = "retain"
    BY <1>6 DEF SweepKey, LimiterInv, Typed, TaskType
  <2>6. SlotCount' <= SlotCount
    BY <2>5, SlotBounds
  <2>7. QED
    BY <1>6, <2>4, <2>6, <1>q DEF SweepKey
<1>7. ASSUME NEW t \in Threads,
             \/ MissBucket(t) \/ Reclaim(t) \/ GiveUp(t) \/ SweepBegin(t)
             \/ SweepCount(t) \/ SweepLen(t) \/ EvictPick(t)
             \/ Return(t) \/ BackgroundSweep(t) \/ \E k \in Keys : Call(t, k)
      PROVE  MapSize' + SlotCount' <= tracked'
  <2>1. Present' = Present /\ UNCHANGED <<tracked, drifted>>
    BY <1>7 DEF MissBucket, Reclaim, GiveUp, SweepBegin, SweepCount, SweepLen,
                EvictPick, Return, BackgroundSweep, Call, Present
  <2>2. /\ \A u \in Threads \ {t} : task'[u] = task[u]
        /\ task'[t].pc \notin {"insert", "refund"}
    <3>1. task \in [Threads -> TaskType] /\ task[t] \in TaskType
      BY DEF LimiterInv, Typed
    <3>2. CASE MissBucket(t) \/ Reclaim(t) \/ GiveUp(t)
      <4>1. CASE MissBucket(t)
        BY <3>1, <4>1 DEF MissBucket, TaskType
      <4>2. CASE Reclaim(t)
        BY <3>1, <4>2 DEF Reclaim, Goto, TaskType
      <4>3. CASE GiveUp(t)
        BY <3>1, <4>3 DEF GiveUp, Finish, NoCall
      <4>4. QED
        BY <3>2, <4>1, <4>2, <4>3
    <3>3. CASE SweepBegin(t) \/ SweepLen(t)
      BY <3>1, <3>3 DEF SweepBegin, SweepLen, TaskType
    <3>4. CASE SweepCount(t)
      <4>1. PICK r : task' = [task EXCEPT ![t] =
               [@ EXCEPT !.pc = "len", !.removed = r, !.before = 0, !.sweptAt = 0]]
        BY <3>4 DEF SweepCount
      <4>2. QED
        BY <3>1, <4>1 DEF TaskType
    <3>5. CASE EvictPick(t)
      <4>1. CASE TryAgain(t)
        BY <3>1, <4>1 DEF TryAgain, TaskType
      <4>2. CASE \E v \in Keys : task' = [task EXCEPT ![t].pc = "remove", ![t].victim = v]
        BY <3>1, <4>2 DEF TaskType
      <4>3. QED
        BY <3>5, <4>1, <4>2 DEF EvictPick, Present
    <3>6. CASE Return(t) \/ BackgroundSweep(t) \/ \E k \in Keys : Call(t, k)
      <4>1. CASE Return(t)
        BY <3>1, <4>1 DEF Return, NoCall
      <4>2. CASE BackgroundSweep(t)
        BY <3>1, <4>2 DEF BackgroundSweep, Goto, TaskType
      <4>3. CASE \E k \in Keys : Call(t, k)
        BY <3>1, <4>3 DEF Call, NoCall
      <4>4. QED
        BY <3>6, <4>1, <4>2, <4>3
    <3>7. QED
      BY <1>7, <3>2, <3>3, <3>4, <3>5, <3>6
  <2>3. SlotCount' <= SlotCount
    BY <2>2, SlotBounds
  <2>4. QED
    BY <2>1, <2>3, <1>q
<1>8. ASSUME NEW t \in Threads, SweepStore(t) PROVE MapSize' + SlotCount' <= tracked'
  <2>1. Present' = Present /\ tracked' = task[t].len /\ drifted' = (task[t].len < Owed)
    BY <1>8 DEF SweepStore, Present
  <2>2. task[t].len \in Nat /\ task[t] \in TaskType
    BY DEF LimiterInv, Typed, TaskType
  <2>3. /\ \A u \in Threads \ {t} : task'[u] = task[u]
        /\ task'[t] = Swept(task[t])
    BY <1>8 DEF SweepStore, LimiterInv, Typed
  <2>4. Swept(task[t]).pc \notin {"insert", "refund"}
    BY <2>2 DEF Swept, NoCall, TaskType
  <2>5. SlotCount' <= SlotCount
    BY <2>3, <2>4, SlotBounds
  <2>6. task[t].len >= MapSize + SlotCount
    <3>1. ~(task[t].len < Owed)
      BY <1>b, <2>1, Zenon
    <3>2. Owed = MapSize + SlotCount
      BY <1>0
    <3>3. QED
      BY <1>n, <2>2, <3>1, <3>2
  <2>7. MapSize' <= MapSize /\ tracked' = task[t].len
    BY <1>m, <2>1
  <2>8. QED
    BY <1>n, <2>2, <2>5, <2>6, <2>7
<1>9. ASSUME NEW t \in Threads, EvictRemove(t) PROVE MapSize' + SlotCount' <= tracked'
  <2>1. UNCHANGED <<tracked, drifted>> /\ \A u \in Threads \ {t} : task'[u] = task[u]
    BY <1>9 DEF EvictRemove, Goto, TryAgain, LimiterInv, Typed
  <2>2. task[t].victim \in Keys
    BY <1>9 DEF EvictRemove, LimiterInv, Calls, CallOK
  <2>3. CASE task[t].victim \in Present
    <3>1. /\ log' = [log EXCEPT ![task[t].victim] = <<>>]
          /\ front' = [front EXCEPT ![task[t].victim] = 0]
      BY <1>9, <2>3 DEF EvictRemove
    <3>2. /\ Len(log'[task[t].victim]) = 0 /\ front'[task[t].victim] = 0
          /\ \A j \in Keys \ {task[t].victim} : log'[j] = log[j] /\ front'[j] = front[j]
      BY <2>2, <3>1 DEF LimiterInv, Typed
    <3>3. Present' \subseteq Present \ {task[t].victim}
      BY <3>2 DEF Present
    <3>4. SlotCount' <= SlotCount + 1
      BY <2>1, SlotBounds
    <3>5. MapSize' <= MapSize - 1
      BY <2>3, <3>3, <1>m
    <3>6. MapSize + SlotCount <= tracked /\ tracked' = tracked
      BY <1>c, <2>1
    <3>7. QED
      BY <1>n, <3>4, <3>5, <3>6, SumKept
  <2>4. CASE task[t].victim \notin Present
    <3>1. Present' = Present
      BY <1>9, <2>4 DEF EvictRemove, Present
    <3>2. task'[t].pc = "admit"
      BY <1>9, <2>4 DEF EvictRemove, TryAgain, LimiterInv, Typed, TaskType
    <3>3. SlotCount' <= SlotCount
      BY <2>1, <3>2, SlotBounds
    <3>4. QED
      BY <2>1, <3>1, <3>3, <1>q
  <2>5. QED
    BY <2>3, <2>4
<1>10. ASSUME NEW t \in Threads, EvictRefund(t) PROVE MapSize' + SlotCount' <= tracked'
  <2>1. /\ Present' = Present /\ tracked' = Decremented /\ drifted' = drifted
        /\ task[t].pc = "refund"
    BY <1>10 DEF EvictRefund, Present
  <2>2. task'[t].pc = "admit" /\ \A u \in Threads \ {t} : task'[u] = task[u]
    BY <1>10 DEF EvictRefund, TryAgain, LimiterInv, Typed, TaskType
  <2>3. SlotCount >= 1 /\ SlotCount' <= SlotCount - 1
    BY <2>1, <2>2, SlotBounds
  <2>4. MapSize + SlotCount <= tracked /\ MapSize' <= MapSize
    BY <1>c, <1>m, <2>1
  <2>5. tracked' = tracked - 1
    BY <1>n, <2>1, <2>3, <2>4 DEF Decremented
  <2>6. QED
    BY <1>n, <2>3, <2>4, <2>5, SumShrinks
<1>11. QED
  BY <1>1, <1>2, <1>3, <1>4, <1>5, <1>6, <1>7, <1>8, <1>9, <1>10 DEF LimiterNext, Step

\* Unless a sweep has just stored an outdated count, the counter is never below
\* the keys of the map and the slots under way (RateLimiter::tracked), for any
\* number of threads, keys, sweeps and evictions.
THEOREM CounterIsEnough == LimiterSpec => []CounterCovers
<1>1. LimiterInit => CounterCovers
  <2> SUFFICES ASSUME LimiterInit PROVE CounterCovers
    OBVIOUS
  <2>1. Present = {}
    BY DEF LimiterInit, Present
  <2>2. Slots = {}
    BY DEF LimiterInit, Slots, NoCall
  <2>3. Owed = 0
    BY <2>1, <2>2, FS_EmptySet DEF Owed, Slots
  <2>4. QED
    BY <2>3 DEF LimiterInit, CounterCovers
<1>2. QED
  BY <1>1, CoverNext, LimiterInvHolds, PTL DEF LimiterSpec

-----------------------------------------------------------------------------
RecvType == [pc : {"idle", "check", "insert", "remove", "answer", "writing", "ended"},
             form : Forms, channel : Channels \cup {None},
             filter : Filters \cup {None}, left : 0..MaxBatch]

SendType == [pc : {"idle", "matching", "writing", "closing", "ended"},
             channel : Channels \cup {None}, symbol : Symbols \cup {None}]

(***************************************************************************)
(* The inductive invariant of the server.  The cap holds because what      *)
(* CheckCap found out stays true until Insert: nobody else changes the     *)
(* sets (Room).  A client stays subscribed to what is being written to it  *)
(* because a task between two events has let go of its guard (Guards).     *)
(* Controls are run by administrators only because requests carry their    *)
(* subjects (Asked).                                                       *)
(***************************************************************************)
Aimed == \A k \in Sockets : recv[k].pc \in {"check", "insert", "remove"} =>
           recv[k].channel \in Channels /\ recv[k].filter \in Filters

Guards == \A k \in Sockets : send[k].pc \in {"idle", "closing", "ended"} => send[k].channel = None

Room == \A k \in Sockets : recv[k].pc = "insert" =>
          CanAdd(subs[k][recv[k].channel], recv[k].filter)

Bounded == \A k \in Sockets, ch \in Channels : IsFiniteSet(subs[k][ch])

Asked == \A r \in Requests : request[r].kind \in Controls =>
           /\ request[r].sub \in Subjects
           /\ "Admin" \in Permissions[request[r].sub]

SocketInv == ConnectionTypeOK /\ Aimed /\ Guards /\ Room /\ Bounded /\ CapHolds
               /\ WrittenIsSubscribed

AccessInv == AccessTypeOK /\ Asked

IInv == AccessInv /\ SocketInv /\ running \subseteq Tasks

-----------------------------------------------------------------------------
(* Sockets.                                                                *)

LEMMA SocketsRest == SocketInv /\ UNCHANGED socketVars => SocketInv'
<1> SUFFICES ASSUME SocketInv, UNCHANGED socketVars PROVE SocketInv'
  OBVIOUS
<1>1. UNCHANGED <<holder, subs, recv, send, present>>
  BY DEF socketVars
<1>2. ConnectionTypeOK'
  BY <1>1 DEF SocketInv, ConnectionTypeOK
<1>3. Aimed' /\ Guards' /\ Bounded'
  BY <1>1 DEF SocketInv, Aimed, Guards, Bounded
<1>4. Room'
  BY <1>1 DEF SocketInv, Room, CanAdd
<1>5. CapHolds' /\ WrittenIsSubscribed'
  BY <1>1 DEF SocketInv, CapHolds, WrittenIsSubscribed, Matches
<1> QED
  BY <1>2, <1>3, <1>4, <1>5 DEF SocketInv

LEMMA NoCommandTyped == NoCommand \in RecvType /\ NoEvent \in SendType
<1>1. 0 \in 0..MaxBatch
  BY BoundsAssumption
<1> QED
  BY <1>1 DEF NoCommand, NoEvent, RecvType, SendType, Forms

\* The receiving task goes on to c.
LEMMA RecvChange ==
  ASSUME SocketInv, NEW k \in Sockets, NEW c \in RecvType,
         recv' = [recv EXCEPT ![k] = c], UNCHANGED <<holder, subs, send, present>>,
         c.pc \in {"check", "insert", "remove"} => c.channel \in Channels /\ c.filter \in Filters,
         c.pc = "insert" => CanAdd(subs[k][c.channel], c.filter),
         c.pc = "writing" => send[k].pc # "writing"
  PROVE  SocketInv'
<1>1. /\ recv \in [Sockets -> RecvType]
      /\ recv'[k] = c /\ \A j \in Sockets \ {k} : recv'[j] = recv[j]
      /\ recv' \in [Sockets -> RecvType]
  BY DEF SocketInv, ConnectionTypeOK, RecvType
<1>2. ConnectionTypeOK'
  <2>1. \A j \in Sockets : ~(recv'[j].pc = "writing" /\ send'[j].pc = "writing")
    BY <1>1 DEF SocketInv, ConnectionTypeOK
  <2> QED
    BY <1>1, <2>1 DEF SocketInv, ConnectionTypeOK, RecvType
<1>3. Aimed' /\ Guards' /\ Bounded'
  BY <1>1 DEF SocketInv, Aimed, Guards, Bounded
<1>4. Room'
  BY <1>1 DEF SocketInv, Room, CanAdd
<1>5. CapHolds' /\ WrittenIsSubscribed'
  BY DEF SocketInv, CapHolds, WrittenIsSubscribed, Matches
<1> QED
  BY <1>2, <1>3, <1>4, <1>5 DEF SocketInv

\* The sending task goes on to e.
LEMMA SendChange ==
  ASSUME SocketInv, NEW k \in Sockets, NEW e \in SendType,
         send' = [send EXCEPT ![k] = e], UNCHANGED <<holder, subs, recv, present>>,
         e.pc \in {"idle", "closing", "ended"} => e.channel = None,
         e.pc \in {"matching", "writing"} /\ e.channel # None
           => Matches(subs[k][e.channel], e.symbol),
         e.pc = "writing" => recv[k].pc # "writing"
  PROVE  SocketInv'
<1>1. /\ send \in [Sockets -> SendType]
      /\ send'[k] = e /\ \A j \in Sockets \ {k} : send'[j] = send[j]
      /\ send' \in [Sockets -> SendType]
  BY DEF SocketInv, ConnectionTypeOK, SendType
<1>2. ConnectionTypeOK'
  <2>1. \A j \in Sockets : ~(recv'[j].pc = "writing" /\ send'[j].pc = "writing")
    BY <1>1 DEF SocketInv, ConnectionTypeOK
  <2> QED
    BY <1>1, <2>1 DEF SocketInv, ConnectionTypeOK, SendType
<1>3. Aimed' /\ Guards' /\ Bounded'
  BY <1>1 DEF SocketInv, Aimed, Guards, Bounded
<1>4. Room' /\ CapHolds'
  BY DEF SocketInv, Room, CanAdd, CapHolds
<1>5. WrittenIsSubscribed'
  BY <1>1 DEF SocketInv, WrittenIsSubscribed, Matches
<1> QED
  BY <1>2, <1>3, <1>4, <1>5 DEF SocketInv

\* A command, dealt with, has a well-formed successor.
LEMMA DealtGoesOn ==
  ASSUME SocketInv, NEW k \in Sockets, NEW form \in Forms, Dealt(k, form)
  PROVE  \E c \in RecvType :
           /\ recv' = [recv EXCEPT ![k] = c]
           /\ c.pc \in {"answer", "check", "remove"}
           /\ c.pc # "answer" => c.channel \in Channels /\ c.filter \in Filters
<1>1. recv \in [Sockets -> RecvType]
  BY DEF SocketInv, ConnectionTypeOK, RecvType
<1>2. CASE recv[k].left = 0
  <2> DEFINE c == [NoCommand EXCEPT !.pc = "answer", !.form = form]
  <2>1. c \in RecvType /\ c.pc = "answer"
    BY NoCommandTyped DEF NoCommand, RecvType
  <2>2. recv' = [recv EXCEPT ![k] = c]
    BY <1>2 DEF Dealt
  <2> QED
    BY <2>1, <2>2
<1>3. CASE recv[k].left # 0
  <2>1. PICK ch \in Channels, f \in Filters :
          recv' = [recv EXCEPT ![k].pc = First(recv[k].form), ![k].channel = ch,
                               ![k].filter = f, ![k].left = @ - 1]
    BY <1>3 DEF Dealt
  <2> DEFINE c == [recv[k] EXCEPT !.pc = First(recv[k].form), !.channel = ch,
                                  !.filter = f, !.left = @ - 1]
  <2>2. First(recv[k].form) \in {"check", "remove"}
    BY DEF First
  <2>3. recv[k].left - 1 \in 0..MaxBatch
    BY <1>1, <1>3, BoundsAssumption DEF RecvType
  <2>4. c \in RecvType /\ c.pc \in {"check", "remove"} /\ c.channel = ch /\ c.filter = f
    BY <1>1, <2>2, <2>3 DEF RecvType
  <2>5. recv' = [recv EXCEPT ![k] = c]
    BY <1>1, <2>1
  <2> QED
    BY <2>4, <2>5
<1> QED
  BY <1>2, <1>3

\* It, or the next answer, waits or begins: none of these needs more.
LEMMA DealtKeeps ==
  ASSUME SocketInv, NEW k \in Sockets, NEW form \in Forms, Dealt(k, form),
         UNCHANGED <<holder, subs, send, present>>
  PROVE  SocketInv'
<1>1. PICK c \in RecvType :
        /\ recv' = [recv EXCEPT ![k] = c]
        /\ c.pc \in {"answer", "check", "remove"}
        /\ c.pc # "answer" => c.channel \in Channels /\ c.filter \in Filters
  BY DealtGoesOn
<1> QED
  BY <1>1, RecvChange

LEMMA RecvMoves ==
  ASSUME SocketInv, NEW k \in Sockets, NEW pc, RecvGoto(k, pc),
         pc \in {"idle", "check", "insert", "remove", "answer", "writing", "ended"}
  PROVE  \E c \in RecvType : /\ recv' = [recv EXCEPT ![k] = c]
                             /\ c.pc = pc
                             /\ c.channel = recv[k].channel /\ c.filter = recv[k].filter
<1> DEFINE c == [recv[k] EXCEPT !.pc = pc]
<1>1. recv \in [Sockets -> RecvType]
  BY DEF SocketInv, ConnectionTypeOK, RecvType
<1>2. c \in RecvType /\ c.pc = pc /\ c.channel = recv[k].channel /\ c.filter = recv[k].filter
  BY <1>1 DEF RecvType
<1>3. recv' = [recv EXCEPT ![k] = c]
  BY <1>1 DEF RecvGoto
<1> QED
  BY <1>2, <1>3

\* A move that neither writes to a set nor to the client is never in the way.
LEMMA RecvMoveKeeps ==
  ASSUME SocketInv, NEW k \in Sockets, NEW pc, RecvGoto(k, pc),
         pc \in {"idle", "answer", "ended"},
         UNCHANGED <<holder, subs, send, present>>
  PROVE  SocketInv'
<1>1. PICK c \in RecvType : recv' = [recv EXCEPT ![k] = c] /\ c.pc = pc
  BY RecvMoves
<1> QED
  BY <1>1, RecvChange

LEMMA SendMoves ==
  ASSUME SocketInv, NEW k \in Sockets, NEW pc, SendGoto(k, pc),
         pc \in {"idle", "matching", "writing", "closing", "ended"}
  PROVE  \E e \in SendType : /\ send' = [send EXCEPT ![k] = e]
                             /\ e.pc = pc
                             /\ e.channel = send[k].channel /\ e.symbol = send[k].symbol
<1> DEFINE e == [send[k] EXCEPT !.pc = pc]
<1>1. send \in [Sockets -> SendType]
  BY DEF SocketInv, ConnectionTypeOK, SendType
<1>2. e \in SendType /\ e.pc = pc /\ e.channel = send[k].channel /\ e.symbol = send[k].symbol
  BY <1>1 DEF SendType
<1>3. send' = [send EXCEPT ![k] = e]
  BY <1>1 DEF SendGoto
<1> QED
  BY <1>2, <1>3

\* The set of a channel changes while the sending task has no guard on it.
LEMMA SetChange ==
  ASSUME SocketInv, NEW k \in Sockets, NEW ch \in Channels, NEW S \in SUBSET Filters,
         ~ReadHeld(k, ch), IsFiniteSet(S), Cardinality(S) <= MaxSubscriptions,
         recv[k].pc \in {"insert", "remove"}, NEW form \in Forms, Dealt(k, form),
         subs' = [subs EXCEPT ![k][ch] = S], UNCHANGED <<holder, send, present>>
  PROVE  SocketInv'
<1>1. PICK c \in RecvType :
        /\ recv' = [recv EXCEPT ![k] = c]
        /\ c.pc \in {"answer", "check", "remove"}
        /\ c.pc # "answer" => c.channel \in Channels /\ c.filter \in Filters
  BY DealtGoesOn
<1>2. /\ recv \in [Sockets -> RecvType]
      /\ recv'[k] = c /\ \A j \in Sockets \ {k} : recv'[j] = recv[j]
      /\ recv' \in [Sockets -> RecvType]
  BY <1>1 DEF SocketInv, ConnectionTypeOK, RecvType
<1>3. /\ subs \in [Sockets -> [Channels -> SUBSET Filters]]
      /\ subs' \in [Sockets -> [Channels -> SUBSET Filters]]
      /\ subs'[k][ch] = S
      /\ \A d \in Channels \ {ch} : subs'[k][d] = subs[k][d]
      /\ \A j \in Sockets \ {k} : subs'[j] = subs[j]
  BY DEF SocketInv, ConnectionTypeOK
<1>4. ConnectionTypeOK'
  <2>1. \A j \in Sockets : ~(recv'[j].pc = "writing" /\ send'[j].pc = "writing")
    BY <1>1, <1>2 DEF SocketInv, ConnectionTypeOK
  <2> QED
    BY <1>2, <1>3, <2>1 DEF SocketInv, ConnectionTypeOK, RecvType
<1>5. Aimed' /\ Guards'
  BY <1>1, <1>2 DEF SocketInv, Aimed, Guards
<1>6. Bounded' /\ CapHolds'
  BY <1>3 DEF SocketInv, Bounded, CapHolds
<1>7. Room'
  BY <1>1, <1>2, <1>3 DEF SocketInv, Room, CanAdd
<1>8. WrittenIsSubscribed'
  <2> SUFFICES ASSUME NEW j \in Sockets, send[j].pc \in {"matching", "writing"},
                      send[j].channel # None
               PROVE  Matches(subs'[j][send[j].channel], send[j].symbol)
    BY DEF WrittenIsSubscribed, Matches
  <2>1. Matches(subs[j][send[j].channel], send[j].symbol) /\ send[j].channel \in Channels
    BY DEF SocketInv, WrittenIsSubscribed, ConnectionTypeOK
  <2>2. j = k => send[j].channel # ch
    BY DEF ReadHeld
  <2> QED
    BY <1>3, <2>1, <2>2
<1> QED
  BY <1>4, <1>5, <1>6, <1>7, <1>8 DEF SocketInv

LEMMA SocketStepKeeps ==
  ASSUME SocketInv, NEW k \in Sockets, SocketStep(k)
  PROVE  SocketInv'
<1>0. /\ recv \in [Sockets -> RecvType] /\ send \in [Sockets -> SendType]
      /\ subs \in [Sockets -> [Channels -> SUBSET Filters]]
      /\ holder \in [Sockets -> Subjects \cup {Nobody}] /\ present \in [Sockets -> BOOLEAN]
      /\ recv[k] \in RecvType /\ send[k] \in SendType
      /\ \A j \in Sockets : ~(recv[j].pc = "writing" /\ send[j].pc = "writing")
  BY DEF SocketInv, ConnectionTypeOK, RecvType, SendType
<1>0a. recv[k].pc \in {"check", "insert", "remove"} =>
         recv[k].channel \in Channels /\ recv[k].filter \in Filters
  BY DEF SocketInv, Aimed
<1>1. CASE Leave(k)
  <2>1. present' \in [Sockets -> BOOLEAN] /\ UNCHANGED <<holder, subs, recv, send>>
    BY <1>0, <1>1 DEF Leave
  <2>2. ConnectionTypeOK'
    BY <2>1 DEF SocketInv, ConnectionTypeOK
  <2>3. Aimed' /\ Guards' /\ Bounded'
    BY <2>1 DEF SocketInv, Aimed, Guards, Bounded
  <2>4. Room'
    BY <2>1 DEF SocketInv, Room, CanAdd
  <2>5. CapHolds' /\ WrittenIsSubscribed'
    BY <2>1 DEF SocketInv, CapHolds, WrittenIsSubscribed, Matches
  <2> QED
    BY <2>2, <2>3, <2>4, <2>5 DEF SocketInv
<1>2. CASE Abort(k)
  <2>1. Released(k)
    BY <1>2 DEF Abort
  <2>2. NoSubscription \in [Channels -> SUBSET Filters]
    BY DEF NoSubscription
  <2>3. /\ recv' \in [Sockets -> RecvType] /\ recv'[k] = NoCommand
        /\ send' \in [Sockets -> SendType] /\ send'[k] = NoEvent
        /\ subs' \in [Sockets -> [Channels -> SUBSET Filters]] /\ subs'[k] = NoSubscription
        /\ holder' \in [Sockets -> Subjects \cup {Nobody}]
        /\ present' \in [Sockets -> BOOLEAN]
        /\ \A j \in Sockets \ {k} : recv'[j] = recv[j] /\ send'[j] = send[j] /\ subs'[j] = subs[j]
    BY <1>0, <2>1, <2>2, NoCommandTyped DEF Released
  <2>4. NoCommand.pc = "idle" /\ NoEvent.pc = "idle" /\ NoEvent.channel = None
    BY DEF NoCommand, NoEvent
  <2>5. ConnectionTypeOK'
    <3>1. \A j \in Sockets : ~(recv'[j].pc = "writing" /\ send'[j].pc = "writing")
      BY <1>0, <2>3, <2>4
    <3> QED
      BY <2>3, <3>1 DEF ConnectionTypeOK, RecvType, SendType
  <2>6. Aimed' /\ Guards'
    BY <2>3, <2>4 DEF SocketInv, Aimed, Guards
  <2>7. \A ch \in Channels : IsFiniteSet(subs'[k][ch]) /\ Cardinality(subs'[k][ch]) = 0
    BY <2>3, FS_EmptySet DEF NoSubscription
  <2>8. Bounded' /\ CapHolds'
    <3>1. 0 <= MaxSubscriptions
      BY BoundsAssumption
    <3> QED
      BY <2>3, <2>7, <3>1 DEF SocketInv, Bounded, CapHolds
  <2>9. Room'
    BY <2>3, <2>4 DEF SocketInv, Room, CanAdd
  <2>10. WrittenIsSubscribed'
    BY <2>3, <2>4 DEF SocketInv, WrittenIsSubscribed, Matches
  <2> QED
    BY <2>5, <2>6, <2>8, <2>9, <2>10 DEF SocketInv
<1>3. CASE Command(k)
  <2>1. PICK form \in Forms \ {"other"}, ch \in Channels, f \in Filters, left \in 0..MaxBatch - 1 :
          recv' = [recv EXCEPT ![k] = [pc |-> First(form), form |-> form,
                                       channel |-> ch, filter |-> f, left |-> left]]
    BY <1>3 DEF Command
  <2> DEFINE c == [pc |-> First(form), form |-> form, channel |-> ch, filter |-> f,
                   left |-> left]
  <2>2. First(form) \in {"check", "remove"}
    BY DEF First
  <2>3. left \in 0..MaxBatch
    BY BoundsAssumption
  <2>4. c \in RecvType
    BY <2>2, <2>3 DEF RecvType
  <2>5. UNCHANGED <<holder, subs, send, present>>
    BY <1>3 DEF Command
  <2>6. recv' = [recv EXCEPT ![k] = c] /\ c.pc = First(form) /\ c.channel = ch /\ c.filter = f
    BY <2>1
  <2> HIDE DEF c
  <2> QED
    BY <2>2, <2>4, <2>5, <2>6, RecvChange
<1>4. CASE ReplyOnly(k)
  BY <1>4, RecvMoveKeeps DEF ReplyOnly
<1>5. CASE ControlCommand(k)
  BY <1>5, SocketsRest DEF ControlCommand
<1>6. CASE RecvEnds(k)
  BY <1>6, RecvMoveKeeps DEF RecvEnds
<1>7. CASE CheckCap(k)
  <2>1. UNCHANGED <<holder, subs, send, present>> /\ recv[k].pc = "check"
    BY <1>7 DEF CheckCap
  <2>2. CASE CanAdd(subs[k][recv[k].channel], recv[k].filter)
    <3>1. RecvGoto(k, "insert")
      BY <1>7, <2>2 DEF CheckCap
    <3>2. PICK c \in RecvType : /\ recv' = [recv EXCEPT ![k] = c] /\ c.pc = "insert"
                                /\ c.channel = recv[k].channel /\ c.filter = recv[k].filter
      BY <3>1, RecvMoves
    <3> QED
      BY <1>0a, <2>1, <2>2, <3>2, RecvChange
  <2>3. CASE ~CanAdd(subs[k][recv[k].channel], recv[k].filter)
    <3>1. Dealt(k, "other") /\ "other" \in Forms
      BY <1>7, <2>3 DEF CheckCap, Forms
    <3> QED
      BY <2>1, <3>1, DealtKeeps
  <2> QED
    BY <2>2, <2>3
<1>8. CASE Insert(k)
  <2> DEFINE ch == recv[k].channel
             f == recv[k].filter
             S == subs[k][ch] \cup {f}
             form == IF recv[k].form = "subscribe" /\ ch = "orderbook" THEN "subscribe" ELSE "other"
  <2>1. /\ recv[k].pc = "insert" /\ ~ReadHeld(k, ch)
        /\ subs' = [subs EXCEPT ![k][ch] = S]
        /\ Dealt(k, form)
        /\ UNCHANGED <<holder, send, present>>
    BY <1>8 DEF Insert
  <2>2. ch \in Channels /\ f \in Filters
    BY <1>0a, <2>1
  <2>3. CanAdd(subs[k][ch], f)
    BY <2>1 DEF SocketInv, Room
  <2>4. IsFiniteSet(subs[k][ch]) /\ Cardinality(subs[k][ch]) <= MaxSubscriptions
    BY <2>2 DEF SocketInv, Bounded, CapHolds
  <2>5. S \in SUBSET Filters
    BY <1>0, <2>2
  <2>6. IsFiniteSet(S) /\ Cardinality(S) <= MaxSubscriptions
    <3>1. CASE f \in subs[k][ch]
      <4>1. S = subs[k][ch]
        BY <3>1
      <4> QED
        BY <4>1, <2>4
    <3>2. CASE f \notin subs[k][ch]
      <4>1. IsFiniteSet(S) /\ Cardinality(S) = Cardinality(subs[k][ch]) + 1
        BY <2>4, <3>2, FS_AddElement
      <4>2. Cardinality(subs[k][ch]) < MaxSubscriptions
        BY <2>3, <3>2 DEF CanAdd
      <4>3. Cardinality(subs[k][ch]) \in Nat
        BY <2>4, FS_CardinalityType
      <4> QED
        BY <4>1, <4>2, <4>3, BoundsAssumption
    <3> QED
      BY <3>1, <3>2
  <2>7. form \in Forms
    BY DEF Forms
  <2> HIDE DEF S, ch, form
  <2> QED
    BY <2>1, <2>2, <2>5, <2>6, <2>7, SetChange
<1>9. CASE Remove(k)
  <2> DEFINE ch == recv[k].channel
             f == recv[k].filter
             S == subs[k][ch] \ {f}
  <2>1. /\ recv[k].pc = "remove" /\ ~ReadHeld(k, ch)
        /\ subs' = [subs EXCEPT ![k][ch] = S]
        /\ Dealt(k, "other") /\ "other" \in Forms
        /\ UNCHANGED <<holder, send, present>>
    BY <1>9 DEF Remove, Forms
  <2>2. ch \in Channels
    BY <1>0a, <2>1
  <2>3. IsFiniteSet(subs[k][ch]) /\ Cardinality(subs[k][ch]) <= MaxSubscriptions
    BY <2>2 DEF SocketInv, Bounded, CapHolds
  <2>4. S \in SUBSET Filters
    BY <1>0, <2>2
  <2>5. IsFiniteSet(S) /\ Cardinality(S) <= Cardinality(subs[k][ch])
    BY <2>3, FS_Subset
  <2>6. Cardinality(S) <= MaxSubscriptions
    BY <2>3, <2>5, FS_CardinalityType, BoundsAssumption
  <2> HIDE DEF S, ch
  <2> QED
    BY <2>1, <2>2, <2>4, <2>5, <2>6, SetChange
<1>10. CASE TakeWire(k)
  <2>1. PICK c \in RecvType : recv' = [recv EXCEPT ![k] = c] /\ c.pc = "writing"
    BY <1>10, RecvMoves DEF TakeWire
  <2>2. send[k].pc # "writing" /\ UNCHANGED <<holder, subs, send, present>>
    BY <1>10 DEF TakeWire, WireFree
  <2> QED
    BY <2>1, <2>2, RecvChange
<1>11. CASE Reply(k)
  <2>1. UNCHANGED <<holder, subs, send, present>>
    BY <1>11 DEF Reply
  <2>2. CASE recv' = [recv EXCEPT ![k] = NoCommand]
    <3>1. NoCommand \in RecvType /\ NoCommand.pc = "idle"
      BY NoCommandTyped DEF NoCommand
    <3> QED
      BY <2>1, <2>2, <3>1, RecvChange
  <2>3. CASE Dealt(k, "other")
    <3>1. "other" \in Forms
      BY DEF Forms
    <3> QED
      BY <2>1, <2>3, <3>1, DealtKeeps
  <2> QED
    BY <1>11, <2>2, <2>3 DEF Reply
<1>12. CASE TakeFeed(k)
  <2>1. PICK ch \in Channels, s \in Symbols :
          /\ Matches(subs[k][ch], s)
          /\ send' = [send EXCEPT ![k] = [pc |-> "matching", channel |-> ch, symbol |-> s]]
    BY <1>12 DEF TakeFeed
  <2> DEFINE e == [pc |-> "matching", channel |-> ch, symbol |-> s]
  <2>2. e \in SendType /\ e.pc = "matching" /\ e.channel = ch /\ e.symbol = s
    BY DEF SendType
  <2>3. send' = [send EXCEPT ![k] = e] /\ UNCHANGED <<holder, subs, recv, present>>
    BY <1>12, <2>1 DEF TakeFeed
  <2> HIDE DEF e
  <2> QED
    BY <2>1, <2>2, <2>3, SendChange
<1>13. CASE TakeOther(k)
  <2>1. PICK e \in SendType : /\ send' = [send EXCEPT ![k] = e] /\ e.pc = "matching"
                              /\ e.channel = send[k].channel
    BY <1>13, SendMoves DEF TakeOther
  <2>2. send[k].channel = None /\ UNCHANGED <<holder, subs, recv, present>>
    BY <1>13 DEF TakeOther, SocketInv, Guards
  <2> QED
    BY <2>1, <2>2, SendChange
<1>14. CASE TakeSignal(k)
  <2>1. PICK e \in SendType : /\ send' = [send EXCEPT ![k] = e] /\ e.pc = "closing"
                              /\ e.channel = send[k].channel
    BY <1>14, SendMoves DEF TakeSignal
  <2>2. send[k].channel = None /\ UNCHANGED <<holder, subs, recv, present>>
    BY <1>14 DEF TakeSignal, SocketInv, Guards
  <2> QED
    BY <2>1, <2>2, SendChange
<1>15. CASE DeliverFails(k)
  <2> DEFINE e == [NoEvent EXCEPT !.pc = "ended"]
  <2>1. e \in SendType /\ e.pc = "ended" /\ e.channel = None
    BY NoCommandTyped DEF NoEvent, SendType
  <2>2. send' = [send EXCEPT ![k] = e] /\ UNCHANGED <<holder, subs, recv, present>>
    BY <1>15 DEF DeliverFails
  <2> HIDE DEF e
  <2> QED
    BY <2>1, <2>2, SendChange
<1>16. CASE SendLock(k)
  <2>1. PICK e \in SendType : /\ send' = [send EXCEPT ![k] = e] /\ e.pc = "writing"
                              /\ e.channel = send[k].channel /\ e.symbol = send[k].symbol
    BY <1>16, SendMoves DEF SendLock
  <2>2. /\ recv[k].pc # "writing" /\ send[k].pc = "matching"
        /\ UNCHANGED <<holder, subs, recv, present>>
    BY <1>16 DEF SendLock, WireFree
  <2>3. send[k].channel # None => Matches(subs[k][send[k].channel], send[k].symbol)
    BY <2>2 DEF SocketInv, WrittenIsSubscribed
  <2> QED
    BY <2>1, <2>2, <2>3, SendChange
<1>17. CASE Deliver(k)
  <2>1. NoEvent \in SendType /\ NoEvent.pc = "idle" /\ NoEvent.channel = None
    BY NoCommandTyped DEF NoEvent
  <2>2. send' = [send EXCEPT ![k] = NoEvent] /\ UNCHANGED <<holder, subs, recv, present>>
    BY <1>17 DEF Deliver
  <2> QED
    BY <2>1, <2>2, SendChange
<1>18. CASE SendClose(k)
  <2>1. PICK e \in SendType : /\ send' = [send EXCEPT ![k] = e] /\ e.pc = "ended"
                              /\ e.channel = send[k].channel
    BY <1>18, SendMoves DEF SendClose
  <2>2. send[k].channel = None /\ UNCHANGED <<holder, subs, recv, present>>
    BY <1>18 DEF SendClose, SocketInv, Guards
  <2> QED
    BY <2>1, <2>2, SendChange
<1> QED
  BY <1>1, <1>2, <1>3, <1>4, <1>5, <1>6, <1>7, <1>8, <1>9, <1>10, <1>11, <1>12, <1>13,
     <1>14, <1>15, <1>16, <1>17, <1>18
     DEF SocketStep, RecvStep, SendStep

-----------------------------------------------------------------------------
(* Requests.                                                               *)

LEMMA AccessRests == AccessInv /\ UNCHANGED accessVars => AccessInv'
<1> SUFFICES ASSUME AccessInv, UNCHANGED accessVars PROVE AccessInv'
  OBVIOUS
<1>1. UNCHANGED <<token, request, enabled, phase>>
  BY DEF accessVars
<1> QED
  BY <1>1 DEF AccessInv, AccessTypeOK, Asked

LEMMA AnsweredKeeps ==
  ASSUME AccessInv, NEW r \in Requests, Answered(r),
         token' \in [Subjects -> {"none", "live", "expired"}],
         enabled' \in BOOLEAN, phase' = phase
  PROVE  AccessInv'
<1>1. Free \in [kind : Kinds \cup {"none"}, sub : Subjects \cup {Nobody}]
  BY DEF Free
<1>2. Free.kind \notin Controls
  BY DEF Free, Controls
<1>3. /\ request' \in [Requests -> [kind : Kinds \cup {"none"}, sub : Subjects \cup {Nobody}]]
      /\ request'[r] = Free /\ \A q \in Requests \ {r} : request'[q] = request[q]
  BY <1>1 DEF AccessInv, AccessTypeOK, Answered
<1>4. AccessTypeOK'
  BY <1>3 DEF AccessInv, AccessTypeOK
<1>5. Asked'
  BY <1>2, <1>3 DEF AccessInv, Asked
<1> QED
  BY <1>4, <1>5 DEF AccessInv

\* Who passes the middleware with a control is an administrator.
LEMMA AdmitKeeps ==
  ASSUME AccessInv, NEW r \in Requests, Admit(r)
  PROVE  AccessInv'
<1> DEFINE Request == [kind : Kinds \cup {"none"}, sub : Subjects \cup {Nobody}]
<1>1. PICK q \in Request :
        /\ request' = [request EXCEPT ![r] = q]
        /\ q.kind \in Controls => q.sub \in Subjects /\ "Admin" \in Permissions[q.sub]
  <2>1. CASE \E kind \in Kinds \cap {"health", "token"} :
               request' = [request EXCEPT ![r] = [kind |-> kind, sub |-> Nobody]]
    <3>1. PICK kind \in Kinds \cap {"health", "token"} :
            request' = [request EXCEPT ![r] = [kind |-> kind, sub |-> Nobody]]
      BY <2>1
    <3>2. kind \notin Controls
      BY DEF Controls
    <3> DEFINE q == [kind |-> kind, sub |-> Nobody]
    <3>3. q \in Request /\ q.kind = kind /\ q.sub = Nobody
      OBVIOUS
    <3>4. request' = [request EXCEPT ![r] = q]
      BY <3>1
    <3> HIDE DEF q
    <3> QED
      BY <3>2, <3>3, <3>4
  <2>2. CASE \E u \in Subjects, kind \in Kinds \ {"health", "token"} :
               /\ Allowed(u, kind)
               /\ request' = [request EXCEPT ![r] = [kind |-> kind, sub |-> u]]
    <3>1. PICK u \in Subjects, kind \in Kinds \ {"health", "token"} :
            /\ Allowed(u, kind)
            /\ request' = [request EXCEPT ![r] = [kind |-> kind, sub |-> u]]
      BY <2>2
    <3>2. kind \in Controls => "Admin" \in Permissions[u]
      BY <3>1 DEF Allowed, HasPermission, RequiredPermission
    <3> DEFINE q == [kind |-> kind, sub |-> u]
    <3>3. q \in Request /\ q.kind = kind /\ q.sub = u
      OBVIOUS
    <3>4. request' = [request EXCEPT ![r] = q]
      BY <3>1
    <3> HIDE DEF q
    <3> QED
      BY <3>2, <3>3, <3>4
  <2> QED
    BY <2>1, <2>2 DEF Admit
<1>2. /\ request' \in [Requests -> Request]
      /\ request'[r] = q /\ \A p \in Requests \ {r} : request'[p] = request[p]
  BY <1>1 DEF AccessInv, AccessTypeOK
<1>3. UNCHANGED <<token, enabled, phase>>
  BY DEF Admit
<1>4. AccessTypeOK'
  BY <1>2, <1>3 DEF AccessInv, AccessTypeOK
<1>5. Asked'
  BY <1>1, <1>2 DEF AccessInv, Asked
<1> QED
  BY <1>4, <1>5 DEF AccessInv

LEMMA HandleKeeps ==
  ASSUME AccessInv, NEW r \in Requests, Handle(r)
  PROVE  AccessInv'
<1>0. token \in [Subjects -> {"none", "live", "expired"}] /\ enabled \in BOOLEAN
  BY DEF AccessInv, AccessTypeOK
<1>1. CASE Serve(r)
  BY <1>0, <1>1, AnsweredKeeps DEF Serve
<1>2. CASE IssueToken(r)
  <2>1. token' \in [Subjects -> {"none", "live", "expired"}]
    BY <1>0, <1>2 DEF IssueToken
  <2> QED
    BY <1>0, <1>2, <2>1, AnsweredKeeps DEF IssueToken
<1>3. CASE IssueNothing(r)
  BY <1>0, <1>3, AnsweredKeeps DEF IssueNothing
<1>4. CASE KillSwitch(r)
  BY <1>0, <1>4, AnsweredKeeps DEF KillSwitch
<1>5. CASE EnableQuoting(r)
  BY <1>0, <1>5, AnsweredKeeps DEF EnableQuoting
<1> QED
  BY <1>1, <1>2, <1>3, <1>4, <1>5 DEF Handle

\* Of all a socket does, only its controls reach what Access describes.
LEMMA SocketStepAccess ==
  ASSUME AccessInv, NEW k \in Sockets, SocketStep(k)
  PROVE  AccessInv'
<1>1. CASE ControlCommand(k)
  <2>1. UNCHANGED <<token, request, phase>> /\ enabled' \in BOOLEAN
    BY <1>1 DEF ControlCommand
  <2> QED
    BY <2>1 DEF AccessInv, AccessTypeOK, Asked
<1>2. CASE ~ControlCommand(k)
  <2>1. UNCHANGED accessVars
    BY <1>2 DEF SocketStep, RecvStep, SendStep, Leave, Abort, Command, ReplyOnly, RecvEnds,
         CheckCap, Insert, Remove, TakeWire, Reply, TakeFeed, TakeOther, TakeSignal,
         DeliverFails, SendLock, Deliver, SendClose
  <2> QED
    BY <2>1, AccessRests
<1> QED
  BY <1>1, <1>2

LEMMA UpgradeKeeps ==
  ASSUME AccessInv, SocketInv, NEW r \in Requests, NEW k \in Sockets, Upgrade(r, k)
  PROVE  AccessInv' /\ SocketInv'
<1>1. Answered(r) /\ UNCHANGED <<token, enabled, phase, subs, recv, send>>
  BY DEF Upgrade
<1>2. AccessInv'
  <2>1. token \in [Subjects -> {"none", "live", "expired"}] /\ enabled \in BOOLEAN
    BY DEF AccessInv, AccessTypeOK
  <2> QED
    BY <1>1, <2>1, AnsweredKeeps
<1>3. ConnectionTypeOK'
  <2>1. request[r].sub \in Subjects \cup {Nobody}
    BY DEF AccessInv, AccessTypeOK
  <2>2. holder' \in [Sockets -> Subjects \cup {Nobody}] /\ present' \in [Sockets -> BOOLEAN]
    BY <2>1 DEF Upgrade, SocketInv, ConnectionTypeOK
  <2> QED
    BY <1>1, <2>2 DEF SocketInv, ConnectionTypeOK
<1>4. Aimed' /\ Guards' /\ Bounded'
  BY <1>1 DEF SocketInv, Aimed, Guards, Bounded
<1>5. Room'
  BY <1>1 DEF SocketInv, Room, CanAdd
<1>6. CapHolds' /\ WrittenIsSubscribed'
  BY <1>1 DEF SocketInv, CapHolds, WrittenIsSubscribed, Matches
<1> QED
  BY <1>2, <1>3, <1>4, <1>5, <1>6 DEF SocketInv

-----------------------------------------------------------------------------
(* The invariant.                                                          *)

LEMMA InvInit == Init => IInv
<1> SUFFICES ASSUME Init PROVE IInv
  OBVIOUS
<1>1. AccessInv
  <2>1. Free \in [kind : Kinds \cup {"none"}, sub : Subjects \cup {Nobody}]
    BY DEF Free
  <2>2. Free.kind \notin Controls
    BY DEF Free, Controls
  <2> QED
    BY <2>1, <2>2 DEF Init, AccessInit, AccessInv, AccessTypeOK, Asked
<1>2. /\ \A k \in Sockets : recv[k] = NoCommand /\ send[k] = NoEvent /\ subs[k] = NoSubscription
      /\ NoCommand.pc = "idle" /\ NoEvent.pc = "idle" /\ NoEvent.channel = None
  BY DEF Init, ConnectionInit, NoCommand, NoEvent
<1>3. ConnectionTypeOK
  <2>1. NoSubscription \in [Channels -> SUBSET Filters]
    BY DEF NoSubscription
  <2>2. recv \in [Sockets -> RecvType] /\ send \in [Sockets -> SendType]
    BY NoCommandTyped DEF Init, ConnectionInit
  <2>3. /\ holder \in [Sockets -> Subjects \cup {Nobody}]
        /\ subs \in [Sockets -> [Channels -> SUBSET Filters]]
        /\ present \in [Sockets -> BOOLEAN]
    BY <2>1 DEF Init, ConnectionInit
  <2>4. \A k \in Sockets : ~(recv[k].pc = "writing" /\ send[k].pc = "writing")
    BY <1>2
  <2> QED
    BY <2>2, <2>3, <2>4 DEF ConnectionTypeOK, RecvType, SendType
<1>4. Aimed /\ Guards /\ Room /\ WrittenIsSubscribed
  BY <1>2 DEF Aimed, Guards, Room, WrittenIsSubscribed
<1>5. Bounded /\ CapHolds
  <2>1. \A k \in Sockets, ch \in Channels :
          IsFiniteSet(subs[k][ch]) /\ Cardinality(subs[k][ch]) = 0
    BY <1>2, FS_EmptySet DEF NoSubscription
  <2>2. 0 <= MaxSubscriptions
    BY BoundsAssumption
  <2> QED
    BY <2>1, <2>2 DEF Bounded, CapHolds
<1>6. running \subseteq Tasks
  BY DEF Init
<1> QED
  BY <1>1, <1>3, <1>4, <1>5, <1>6 DEF IInv, SocketInv

\* The phases of the shutdown touch neither the requests nor the sockets.
LEMMA PhaseKeeps ==
  ASSUME IInv, UNCHANGED <<token, request, enabled, socketVars>>,
         phase' \in {"serving", "draining", "joining", "down"}, running' \subseteq Tasks
  PROVE  IInv'
<1>1. SocketInv'
  BY SocketsRest DEF IInv
<1>2. AccessInv'
  BY DEF IInv, AccessInv, AccessTypeOK, Asked
<1> QED
  BY <1>1, <1>2 DEF IInv

LEMMA InvNext == IInv /\ [Next]_vars => IInv'
<1> SUFFICES ASSUME IInv, [Next]_vars PROVE IInv'
  OBVIOUS
<1>0. AccessInv /\ SocketInv /\ running \subseteq Tasks
  BY DEF IInv
<1>1. ASSUME NEW r \in Requests, Handle(r), UNCHANGED socketVars, UNCHANGED running
      PROVE  IInv'
  BY <1>0, <1>1, HandleKeeps, SocketsRest DEF IInv
<1>2. ASSUME NEW r \in Requests, UpgradeFails(r), UNCHANGED running
      PROVE  IInv'
  <2>1. Answered(r) /\ UNCHANGED <<token, enabled, phase>> /\ UNCHANGED socketVars
    BY <1>2 DEF UpgradeFails
  <2>2. token \in [Subjects -> {"none", "live", "expired"}] /\ enabled \in BOOLEAN
    BY <1>0 DEF AccessInv, AccessTypeOK
  <2>3. AccessInv'
    BY <1>0, <2>1, <2>2, AnsweredKeeps
  <2> QED
    BY <1>0, <1>2, <2>1, <2>3, SocketsRest DEF IInv
<1>3. ASSUME NEW r \in Requests, Admit(r), UNCHANGED <<socketVars, running>>
      PROVE  IInv'
  BY <1>0, <1>3, AdmitKeeps, SocketsRest DEF IInv
<1>4. ASSUME NEW r \in Requests, NEW k \in Sockets, Upgrade(r, k), UNCHANGED running
      PROVE  IInv'
  BY <1>0, <1>4, UpgradeKeeps DEF IInv
<1>5. ASSUME NEW u \in Subjects, Expire(u), UNCHANGED <<socketVars, running>>
      PROVE  IInv'
  <2>1. UNCHANGED <<request, enabled, phase>>
        /\ token' \in [Subjects -> {"none", "live", "expired"}]
    BY <1>0, <1>5 DEF Expire, AccessInv, AccessTypeOK
  <2>2. AccessInv'
    BY <1>0, <2>1 DEF AccessInv, AccessTypeOK, Asked
  <2> QED
    BY <1>0, <1>5, <2>2, SocketsRest DEF IInv
<1>6. ASSUME NEW k \in Sockets, SocketStep(k), UNCHANGED running
      PROVE  IInv'
  BY <1>0, <1>6, SocketStepKeeps, SocketStepAccess DEF IInv
<1>7. CASE StopSignal
  BY <1>0, <1>7, PhaseKeeps DEF StopSignal
<1>8. CASE Drained
  BY <1>0, <1>8, PhaseKeeps DEF Drained
<1>9. CASE Exit
  BY <1>0, <1>9, PhaseKeeps DEF Exit
<1>10. ASSUME NEW t \in Tasks, TaskStops(t)
       PROVE  IInv'
  <2>1. UNCHANGED accessVars /\ UNCHANGED socketVars /\ running' \subseteq Tasks
    BY <1>0, <1>10 DEF TaskStops
  <2> QED
    BY <1>0, <2>1, AccessRests, SocketsRest DEF IInv
<1>11. CASE UNCHANGED vars
  <2>1. UNCHANGED accessVars /\ UNCHANGED socketVars /\ UNCHANGED running
    BY <1>11 DEF vars
  <2> QED
    BY <1>0, <2>1, AccessRests, SocketsRest DEF IInv
<1> QED
  BY <1>1, <1>2, <1>3, <1>4, <1>5, <1>6, <1>7, <1>8, <1>9, <1>10, <1>11
     DEF Next, Serving, Down

LEMMA InvHolds == Spec => []IInv
<1> QED
  BY InvInit, InvNext, PTL DEF Spec

-----------------------------------------------------------------------------
\* The state of the server is always of its type; in particular the two tasks
\* of a connection never write to it at once (ws_sender behind its mutex).
THEOREM TypeCorrect == Spec => []TypeOK
<1>1. IInv => TypeOK
  BY DEF IInv, AccessInv, SocketInv, TypeOK
<1> QED
  BY <1>1, InvHolds, PTL

\* No set of subscriptions grows past the cap, though handle_client_message
\* reads the cap under one lock and adds to the set under another.
THEOREM CapKept == Spec => []CapHolds
<1>1. IInv => CapHolds
  BY DEF IInv, SocketInv
<1> QED
  BY <1>1, InvHolds, PTL

\* What is being written to a client it is subscribed to until it is written,
\* by the read guard handle_socket holds across the write.
THEOREM OnlySubscribersAreWritten == Spec => []WrittenIsSubscribed
<1>1. IInv => WrittenIsSubscribed
  BY DEF IInv, SocketInv
<1> QED
  BY <1>1, InvHolds, PTL

\* The switch has two doors, the handlers of /controls and the commands of a
\* socket, and both are an administrator's.
LEMMA ControlStep ==
  ASSUME IInv, Next, enabled' # enabled
  PROVE  \E u \in Subjects : "Admin" \in Permissions[u] /\ Acting(u)
<1>1. CASE \E r \in Requests : KillSwitch(r) \/ EnableQuoting(r)
  <2>1. PICK r \in Requests : request[r].kind \in Controls
    BY <1>1 DEF KillSwitch, EnableQuoting, Handling, Controls
  <2>2. request[r].sub \in Subjects /\ "Admin" \in Permissions[request[r].sub]
    BY <2>1 DEF IInv, AccessInv, Asked
  <2> QED
    BY <2>2 DEF Acting
<1>2. CASE \E k \in Sockets : ControlCommand(k)
  <2>1. PICK k \in Sockets : ControlCommand(k)
    BY <1>2
  <2>2. holder[k] # Nobody /\ "Admin" \in Permissions[holder[k]]
    BY <2>1 DEF ControlCommand, Idle, Open, MayControl
  <2>3. holder[k] \in Subjects
    BY <2>2 DEF IInv, SocketInv, ConnectionTypeOK
  <2> QED
    BY <2>2, <2>3 DEF Acting
<1>3. ASSUME NEW r \in Requests, Serving(r) \/ Admit(r) \/ \E k \in Sockets : Upgrade(r, k)
      PROVE  KillSwitch(r) \/ EnableQuoting(r)
  BY <1>3 DEF Serving, Handle, Serve, IssueToken, IssueNothing, UpgradeFails, Admit, Upgrade
<1>4. ASSUME NEW k \in Sockets, SocketStep(k)
      PROVE  ControlCommand(k)
  <2> SUFFICES ASSUME ~ControlCommand(k) PROVE FALSE
    OBVIOUS
  <2>1. UNCHANGED accessVars
    BY <1>4 DEF SocketStep, RecvStep, SendStep, Leave, Abort, Command, ReplyOnly, RecvEnds,
         CheckCap, Insert, Remove, TakeWire, Reply, TakeFeed, TakeOther, TakeSignal,
         DeliverFails, SendLock, Deliver, SendClose
  <2> QED
    BY <2>1 DEF accessVars
<1>5. ASSUME NEW u \in Subjects, Expire(u)
      PROVE  FALSE
  BY <1>5 DEF Expire
<1>6. ~(StopSignal \/ Drained \/ Exit \/ Down \/ \E t \in Tasks : TaskStops(t))
  BY DEF StopSignal, Drained, Exit, Down, TaskStops, vars, accessVars
<1> QED
  BY <1>1, <1>2, <1>3, <1>4, <1>5, <1>6 DEF Next

\* The engine's master switch moves only while an administrator has a request
\* in service or a socket open.
THEOREM OnlyAdminsControl == Spec => ControlsOnlyByAdmin
<1>1. IInv /\ [Next]_vars =>
        [enabled' # enabled =>
           \E u \in Subjects : "Admin" \in Permissions[u] /\ Acting(u)]_vars
  <2> SUFFICES ASSUME IInv, Next, enabled' # enabled
               PROVE  \E u \in Subjects : "Admin" \in Permissions[u] /\ Acting(u)
    BY DEF vars, accessVars
  <2> QED
    BY ControlStep
<1> QED
  BY <1>1, InvHolds, PTL DEF Spec, ControlsOnlyByAdmin
===============================================================================
