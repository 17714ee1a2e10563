----------------------------- MODULE RateLimiter -----------------------------
(***************************************************************************)
(* The sliding-window rate limiter of src/src/auth.rs: a concurrent map    *)
(* from keys to buckets of timestamps, and an atomic counter that is meant *)
(* to equal the size of the map so that the map can be capped.  The map and*)
(* the counter are two pieces of state that no lock joins: a request, an   *)
(* eviction and a sweep each change the one and then the other, and every  *)
(* gap between two of their accesses is a step of its own here.            *)
(*                                                                         *)
(* log[k] keeps every admission of k since its bucket was last evicted and *)
(* front[k] how many of them the bucket has dropped, so the bucket itself  *)
(* is what lies after front[k], and k is in the map iff that is not empty. *)
(***************************************************************************)
EXTENDS Integers, Sequences, FiniteSets

CONSTANTS
    Threads,      \* worker threads of the runtime: no call here ever awaits
    Keys,         \* subjects of tokens and peers of the token endpoint
    LimitOf,      \* requests a key may make per window
    Window,       \* RATE_LIMIT_WINDOW_MS
    Cap,          \* MAX_TRACKED_KEYS
    Attempts,     \* tries to reclaim a slot, three in the code
    SampleSize,   \* LRU_SAMPLE_SIZE
    Wrap,         \* the counter is a usize: 2^64
    NoKey,        \* the key of the background sweep
    MaxTime       \* bound: the model's clock stops here

ASSUME LimitAssumption ==
    /\ LimitOf \in [Keys -> Nat \ {0}]
    /\ Window \in Nat
    /\ NoKey \notin Keys

ASSUME CapAssumption ==
    /\ Cap \in Nat \ {0}
    /\ SampleSize \in Nat \ {0}
    /\ Attempts \in Nat
    /\ Wrap \in Nat /\ Wrap > Cap
    /\ MaxTime \in Nat

ASSUME ThreadsAssumption == IsFiniteSet(Threads)

VARIABLES
    clock,        \* now_millis()
    log,          \* admissions of each key since its last eviction
    front,        \* how many of them its bucket has dropped
    tracked,      \* the atomic counter
    task,         \* each thread's call: program counter and locals
    drifted       \* history: the last sweep stored a count below what it counts

limiterVars == <<clock, log, front, tracked, task, drifted>>

\* A thread between two calls.
NoCall == [pc |-> "idle", key |-> NoKey, now |-> 0, tries |-> 0, allowed |-> FALSE,
           sweptAt |-> 0, todo |-> {}, before |-> 0, removed |-> 0, len |-> 0,
           victim |-> NoKey]

PCs == {"idle", "lookup", "admit", "insert", "sweep", "retain", "len", "store",
        "evict", "remove", "refund", "done"}

Present == {k \in Keys : front[k] < Len(log[k])}

\* The counter after fetch_sub(1).
Decremented == IF tracked = 0 THEN Wrap - 1 ELSE tracked - 1

LimiterInit ==
    /\ clock = 0
    /\ log = [k \in Keys |-> <<>>]
    /\ front = [k \in Keys |-> 0]
    /\ tracked = 0
    /\ task = [t \in Threads |-> NoCall]
    /\ drifted = FALSE

Tick ==
    /\ clock < MaxTime
    /\ clock' = clock + 1
    /\ UNCHANGED <<log, front, tracked, task, drifted>>

-----------------------------------------------------------------------------
(* Buckets.                                                                *)

\* Mutant: a timestamp exactly one window old is dropped too.
PrunedToInclusive(k, now, n) ==
    /\ n \in front[k]..Len(log[k])
    /\ \A i \in (front[k] + 1)..n : log[k][i] + Window <= now
    /\ n < Len(log[k]) => log[k][n + 1] + Window > now

\* Pruning at `now' drops the leading timestamps of k's bucket older than a
\* window: the first n admissions of the log are then gone from it.
PrunedTo(k, now, n) ==
    /\ n \in front[k]..Len(log[k])
    /\ \A i \in (front[k] + 1)..n : log[k][i] + Window < now
    /\ n < Len(log[k]) => log[k][n + 1] + Window >= now

\* The call has its answer.
Finish(t, admitted) ==
    task' = [task EXCEPT ![t] =
               [NoCall EXCEPT !.pc = "done", !.key = task[t].key, !.allowed = admitted]]

\* Mutant: a bucket that is full takes one more.
PruneAndRecordOneMore(t) ==
    LET k == task[t].key
    IN  \E n \in 0..Len(log[k]) :
          /\ PrunedTo(k, task[t].now, n)
          /\ front' = [front EXCEPT ![k] = n]
          /\ IF Len(log[k]) - n <= LimitOf[k]
             THEN /\ log' = [log EXCEPT ![k] = Append(@, task[t].now)]
                  /\ Finish(t, TRUE)
             ELSE /\ log' = log
                  /\ Finish(t, FALSE)

\* prune_and_record: the request is admitted iff the pruned bucket has room.
PruneAndRecord(t) ==
    LET k == task[t].key
    IN  \E n \in 0..Len(log[k]) :
          /\ PrunedTo(k, task[t].now, n)
          /\ front' = [front EXCEPT ![k] = n]
          /\ IF Len(log[k]) - n < LimitOf[k]
             THEN /\ log' = [log EXCEPT ![k] = Append(@, task[t].now)]
                  /\ Finish(t, TRUE)
             ELSE /\ log' = log
                  /\ Finish(t, FALSE)

-----------------------------------------------------------------------------
(* check_and_record_status.                                                *)

Goto(t, label) == task' = [task EXCEPT ![t].pc = label]

\* The call reads the clock once; what it records is that reading.
Call(t, k) ==
    /\ task[t].pc = "idle"
    /\ task' = [task EXCEPT ![t] =
                  [NoCall EXCEPT !.pc = "lookup", !.key = k, !.now = clock]]
    /\ UNCHANGED <<clock, log, front, tracked, drifted>>

\* The fast path, under the lock of the bucket.
RecordInBucket(t) ==
    /\ task[t].pc = "lookup"
    /\ task[t].key \in Present
    /\ PruneAndRecord(t)
    /\ UNCHANGED <<clock, tracked, drifted>>

MissBucket(t) ==
    /\ task[t].pc = "lookup"
    /\ task[t].key \notin Present
    /\ task' = [task EXCEPT ![t].pc = "admit", ![t].tries = Attempts]
    /\ UNCHANGED <<clock, log, front, tracked, drifted>>

\* fetch_update succeeds: the slot is won before the bucket exists.
WinSlot(t) ==
    /\ task[t].pc = "admit"
    /\ task[t].tries > 0
    /\ tracked < Cap
    /\ tracked' = tracked + 1
    /\ task' = [task EXCEPT ![t].pc = "insert", ![t].tries = 0]
    /\ UNCHANGED <<clock, log, front, drifted>>

\* At capacity: sweep, and evict when the sweep removed nothing.
Reclaim(t) ==
    /\ task[t].pc = "admit"
    /\ task[t].tries > 0
    /\ tracked >= Cap
    /\ Goto(t, "sweep")
    /\ UNCHANGED <<clock, log, front, tracked, drifted>>

\* All attempts made: the request is refused.
GiveUp(t) ==
    /\ task[t].pc = "admit"
    /\ task[t].tries = 0
    /\ Finish(t, FALSE)
    /\ UNCHANGED <<clock, log, front, tracked, drifted>>

\* Somebody made the bucket meanwhile: the slot is refunded.
InsertOccupied(t) ==
    /\ task[t].pc = "insert"
    /\ task[t].key \in Present
    /\ tracked' = Decremented
    /\ PruneAndRecord(t)
    /\ UNCHANGED <<clock, drifted>>

InsertVacant(t) ==
    /\ task[t].pc = "insert"
    /\ task[t].key \notin Present
    /\ PruneAndRecord(t)
    /\ UNCHANGED <<clock, tracked, drifted>>

Return(t) ==
    /\ task[t].pc = "done"
    /\ task' = [task EXCEPT ![t] = NoCall]
    /\ UNCHANGED <<clock, log, front, tracked, drifted>>

-----------------------------------------------------------------------------
(* sweep_expired, called by a request at capacity and by the background    *)
(* task of main.rs, which calls it without a key.                          *)

BackgroundSweep(t) ==
    /\ task[t].pc = "idle"
    /\ \A u \in Threads : task[u].pc \in {"sweep", "retain", "len", "store"}
                            => task[u].key # NoKey
    /\ Goto(t, "sweep")
    /\ UNCHANGED <<clock, log, front, tracked, drifted>>

SweepBegin(t) ==
    /\ task[t].pc = "sweep"
    /\ task' = [task EXCEPT ![t] =
                  [@ EXCEPT !.pc = "retain", !.before = Cardinality(Present),
                            !.sweptAt = clock, !.todo = Keys]]
    /\ UNCHANGED <<clock, log, front, tracked, drifted>>

\* retain prunes one bucket, under its lock, and drops it when it is empty.
SweepKey(t) ==
    /\ task[t].pc = "retain"
    /\ \E k \in task[t].todo : \E n \in 0..Len(log[k]) :
         /\ PrunedTo(k, task[t].sweptAt, n)
         /\ front' = [front EXCEPT ![k] = n]
         /\ task' = [task EXCEPT ![t].todo = @ \ {k}]
    /\ UNCHANGED <<clock, log, tracked, drifted>>

\* removed = before - len(), never below zero.
SweepCount(t) ==
    /\ task[t].pc = "retain"
    /\ task[t].todo = {}
    /\ LET len == Cardinality(Present)
           removed == IF len < task[t].before THEN task[t].before - len ELSE 0
       IN  task' = [task EXCEPT ![t] = [@ EXCEPT !.pc = "len", !.removed = removed,
                                                !.before = 0, !.sweptAt = 0]]
    /\ UNCHANGED <<clock, log, front, tracked, drifted>>

\* The size of the map is read once more, to be stored ...
SweepLen(t) ==
    /\ task[t].pc = "len"
    /\ task' = [task EXCEPT ![t].pc = "store", ![t].len = Cardinality(Present)]
    /\ UNCHANGED <<clock, log, front, tracked, drifted>>

\* Keys of the map, and slots that requests and evictions still hold for a key.
Owed == Cardinality(Present)
          + Cardinality({t \in Threads : task[t].pc \in {"insert", "refund"}})

\* Evict if the sweep removed nothing; else an attempt is spent.
Swept(c) ==
    IF c.key = NoKey THEN NoCall
    ELSE IF c.removed = 0 THEN [c EXCEPT !.pc = "evict", !.len = 0]
    ELSE [c EXCEPT !.pc = "admit", !.tries = @ - 1, !.len = 0, !.removed = 0]

\* Mutant: the sweep does not resynchronise the counter.
SweepStoreNothing(t) ==
    /\ task[t].pc = "store"
    /\ drifted' = (task[t].len < Owed)
    /\ task' = [task EXCEPT ![t] = Swept(task[t])]
    /\ UNCHANGED <<clock, log, front, tracked>>

\* ... in the counter, whatever happened to either in between.
SweepStore(t) ==
    /\ task[t].pc = "store"
    /\ tracked' = task[t].len
    /\ drifted' = (task[t].len < Owed)
    /\ task' = [task EXCEPT ![t] = Swept(task[t])]
    /\ UNCHANGED <<clock, log, front>>

-----------------------------------------------------------------------------
(* evict_idlest_of_sample.                                                 *)

Bucket(k) == {i \in 1..Len(log[k]) : i > front[k]}

\* The trailing timestamps of k's bucket that are in the window.
InWindow(k) ==
    {i \in Bucket(k) : \A j \in Bucket(k) : j >= i => log[k][j] + Window >= clock}

Newest(k) == log[k][Len(log[k])]

\* k is at most as valuable as j: expired first, then least history, then idlest.
NoMoreValuable(k, j) ==
    \/ Cardinality(InWindow(k)) < Cardinality(InWindow(j))
    \/ /\ Cardinality(InWindow(k)) = Cardinality(InWindow(j))
       /\ Newest(k) <= Newest(j)

\* An attempt is spent.
TryAgain(t) ==
    task' = [task EXCEPT ![t].pc = "admit", ![t].tries = @ - 1, ![t].victim = NoKey]

\* Scan at most SampleSize buckets other than the caller's; nothing is locked
\* once the scan is over.
EvictPick(t) ==
    /\ task[t].pc = "evict"
    /\ LET others == Present \ {task[t].key}
       IN  \/ /\ others = {}
              /\ TryAgain(t)
           \/ \E sample \in SUBSET others, k \in others :
                /\ k \in sample
                /\ \/ Cardinality(sample) = SampleSize
                   \/ sample = others /\ Cardinality(sample) <= SampleSize
                /\ \A j \in sample : NoMoreValuable(k, j)
                /\ task' = [task EXCEPT ![t].pc = "remove", ![t].victim = k]
    /\ UNCHANGED <<clock, log, front, tracked, drifted>>

\* Mutant: the slot is given back even if the victim was gone already.
EvictRemoveBlindly(t) ==
    /\ task[t].pc = "remove"
    /\ LET k == task[t].victim
       IN  /\ log' = [log EXCEPT ![k] = <<>>]
           /\ front' = [front EXCEPT ![k] = 0]
           /\ Goto(t, "refund")
    /\ UNCHANGED <<clock, tracked, drifted>>

\* The victim goes, with whatever it recorded since it was picked.
EvictRemove(t) ==
    /\ task[t].pc = "remove"
    /\ LET k == task[t].victim
       IN  IF k \in Present
           THEN /\ log' = [log EXCEPT ![k] = <<>>]
                /\ front' = [front EXCEPT ![k] = 0]
                /\ Goto(t, "refund")
           ELSE /\ TryAgain(t)
                /\ UNCHANGED <<log, front>>
    /\ UNCHANGED <<clock, tracked, drifted>>

EvictRefund(t) ==
    /\ task[t].pc = "refund"
    /\ tracked' = Decremented
    /\ TryAgain(t)
    /\ UNCHANGED <<clock, log, front, drifted>>

-----------------------------------------------------------------------------
\* A call under way takes its next step.
Step(t) ==
    \/ RecordInBucket(t) \/ MissBucket(t) \/ WinSlot(t) \/ Reclaim(t) \/ GiveUp(t)
    \/ InsertOccupied(t) \/ InsertVacant(t)
    \/ SweepBegin(t) \/ SweepKey(t) \/ SweepCount(t) \/ SweepLen(t) \/ SweepStore(t)
    \/ EvictPick(t) \/ EvictRemove(t) \/ EvictRefund(t)

LimiterNext ==
    \/ Tick
    \/ \E t \in Threads :
         Step(t) \/ Return(t) \/ BackgroundSweep(t) \/ \E k \in Keys : Call(t, k)

\* Every thread runs, and the interval of the background sweep keeps elapsing.
LimiterFairness ==
    /\ \A t \in Threads : WF_limiterVars(Step(t)) /\ WF_limiterVars(Return(t))
    /\ WF_limiterVars(\E t \in Threads : BackgroundSweep(t))

LimiterSpec == LimiterInit /\ [][LimiterNext]_limiterVars /\ LimiterFairness

-----------------------------------------------------------------------------
TaskOK(c) ==
    /\ c.pc \in PCs
    /\ c.key \in Keys \cup {NoKey}
    /\ c.pc \in {"lookup", "admit", "insert", "evict", "remove", "refund"} => c.key \in Keys
    /\ c.now \in 0..clock
    /\ c.pc = "retain" => c.sweptAt \in 0..clock /\ c.todo \subseteq Keys
    /\ c.len \in Nat
    /\ c.pc \in {"remove", "refund"} => c.victim \in Keys

LimiterTypeOK ==
    /\ clock \in Nat
    /\ log \in [Keys -> Seq(0..clock)]
    /\ front \in [Keys -> Nat]
    /\ \A k \in Keys : front[k] <= Len(log[k])
    /\ tracked \in Nat
    /\ \A t \in Threads : TaskOK(task[t])
    /\ drifted \in BOOLEAN

\* Admissions of k, dropped from its bucket or not, that still count now.
Recent(k) == {i \in 1..Len(log[k]) : log[k][i] + Window >= clock}

\* However calls, sweeps and evictions of other keys interleave, and however
\* old the clock reading a call records, no key has more than its limit of
\* admissions in the last window (check_and_record_status, prune_and_record
\* and sweep_expired never drop an admission that still counts).
LimitHolds == \A k \in Keys : Cardinality(Recent(k)) <= LimitOf[k]

\* The counter never counts less than the map and the slots under way hold,
\* so a slot is won only while the map has room: every interleaving of
\* admissions, refunds, evictions and sweeps keeps the cap, but for a sweep
\* that overwrites the counter with a size that admissions have outdated.
CounterCovers == ~drifted => Owed <= tracked

\* Once requests stop coming, a sweep brings the counter back to the size of
\* the map, whatever drift the requests and the sweeps left ("self-healed at
\* the next sweep", the comment on RateLimiter::tracked).
Quiet == \A t \in Threads : task[t].key = NoKey
DriftHeals == <>[]Quiet => <>[](tracked = Cardinality(Present))

\* The refinement mapping: what was admitted and is not forgotten is the history
\* variable log of the admissions, and the abstract time is the limiter's.
Promise == INSTANCE LimitedAdmission WITH
    Keys <- Keys, LimitOf <- LimitOf, Window <- Window, clock <- clock, log <- log

\* The limiter implements LimitedAdmission: it admits below the limit only,
\* and forgets a key's history at an eviction and at no other step.
KeepsPromise == Promise!Spec
=============================================================================
