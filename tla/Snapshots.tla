------------------------------ MODULE Snapshots ------------------------------
(***************************************************************************)
(* Snapshots of the books (create_snapshot, restore_snapshot of            *)
(* src/src/api/handlers.rs, insert_snapshot_bounded of src/src/state.rs).  *)
(* A creation walks the books one by one while they trade, then stores what*)
(* it saw and evicts what exceeds the retention cap; a restoration writes  *)
(* the books back one by one.  No lock spans two steps of either.          *)
(***************************************************************************)
EXTENDS Hierarchy, FiniteSetsExt

CONSTANTS
    Threads,       \* requests to the admin endpoints served at the same time
    Cap,           \* MAX_RETAINED_SNAPSHOTS
    MaxSnapshots,  \* bound: snapshots created
    MaxTime        \* bound: the model's clock stops here

ASSUME CapAssumption == Cap \in Nat \ {0} /\ MaxSnapshots \in Nat /\ MaxTime \in Nat

VARIABLES
    clock,       \* milliseconds
    seq,         \* SNAPSHOT_SEQ
    kept,        \* the snapshots retained
    job,         \* each thread's request
    stored,      \* history: snapshots stored so far
    overlapped   \* history: two creations evicted at the same time

vars == <<hierarchyVars, clock, seq, kept, job, stored, overlapped>>

\* A creation that walks holds on to the hierarchy it found, `old' once the
\* underlying is deleted, and counts as `failed' the books it could not save.  The
\* history of a walk: what rested where throughout, and what did at some time.
NoBook == [k \in {} |-> {}]
Idle == [pc |-> "idle", at |-> 0, seq |-> 0, infos |-> {}, deleted |-> FALSE, old |-> NoBook,
         start |-> {}, visited |-> {}, failed |-> {}, throughout |-> {}, sometime |-> {}]

Init ==
    /\ HierarchyInit
    /\ clock = 0
    /\ seq = 0
    /\ kept = {}
    /\ job = [t \in Threads |-> Idle]
    /\ stored = 0
    /\ overlapped = FALSE

\* What a change of the books means to the walks under way.
Watched(j) ==
    IF j.pc # "walk" THEN j
    ELSE [j EXCEPT !.throughout = @ \cap Resting', !.sometime = @ \cup Resting',
                   !.deleted = @ \/ (DOMAIN book' = {} /\ DOMAIN book # {}),
                   !.old = IF ~j.deleted /\ DOMAIN book' = {} THEN book ELSE @]

Trade ==
    /\ HierarchyNext
    /\ job' = [t \in Threads |-> Watched(job[t])]
    /\ UNCHANGED <<clock, seq, kept, stored, overlapped>>

Tick ==
    /\ clock < MaxTime
    /\ clock' = clock + 1
    /\ UNCHANGED <<hierarchyVars, seq, kept, job, stored, overlapped>>

-----------------------------------------------------------------------------
(* create_snapshot.                                                        *)

Creating == {t \in Threads : job[t].pc = "walk"}

\* Mutant: a walk goes on from what another has seen.
CreateBeginShared(t) ==
    /\ job[t].pc = "idle"
    /\ seq + Cardinality(Creating) < MaxSnapshots
    /\ job' = [job EXCEPT ![t] =
                 [Idle EXCEPT !.pc = "walk", !.at = clock, !.start = OptionBooks(book),
                              !.infos = UNION {job[u].infos : u \in Creating},
                              !.throughout = Resting, !.sometime = Resting]]
    /\ UNCHANGED <<hierarchyVars, clock, seq, kept, stored, overlapped>>

\* Its time is read before the walk.
CreateBegin(t) ==
    /\ job[t].pc = "idle"
    /\ seq + Cardinality(Creating) < MaxSnapshots
    /\ job' = [job EXCEPT ![t] =
                 [Idle EXCEPT !.pc = "walk", !.at = clock, !.start = OptionBooks(book),
                              !.throughout = Resting, !.sometime = Resting]]
    /\ UNCHANGED <<hierarchyVars, clock, seq, kept, stored, overlapped>>

\* The hierarchy a walk holds on to.
Walked(t) == IF job[t].deleted THEN job[t].old ELSE book

\* What a book is saved as, which is nothing while it is empty.
Saved(t, c) ==
    LET rests == {o \in Walked(t)[c[1]][c[2]] : Terms[o].style = c[3]}
    IN  IF rests = {} THEN {}
        ELSE {[expiration |-> Format(c[1]), strike |-> c[2], style |-> c[3], orders |-> rests]}

\* Mutant: one book is visited per date.
CreateVisitDate(t) ==
    /\ job[t].pc = "walk"
    /\ \E c \in OptionBooks(Walked(t)) \ job[t].visited :
         job' = [job EXCEPT ![t] =
                   [job[t] EXCEPT !.visited = @ \cup {k \in Keys : Format(k) = Format(c[1])}
                                                       \X {c[2]} \X {c[3]},
                                  !.infos = @ \cup Saved(t, c)]]
    /\ UNCHANGED <<hierarchyVars, clock, seq, kept, stored, overlapped>>

\* One more option's book, with what rests in it now.
CreateVisit(t) ==
    /\ job[t].pc = "walk"
    /\ \E c \in OptionBooks(Walked(t)) \ job[t].visited :
         job' = [job EXCEPT ![t] = [job[t] EXCEPT !.visited = @ \cup {c},
                                                  !.infos = @ \cup Saved(t, c)]]
    /\ UNCHANGED <<hierarchyVars, clock, seq, kept, stored, overlapped>>

\* Mutant: a book that cannot be saved is passed over like an empty one.
CreateVisitPassesOver(t) ==
    /\ job[t].pc = "walk"
    /\ \E c \in OptionBooks(Walked(t)) \ job[t].visited :
         /\ Saved(t, c) # {}
         /\ job' = [job EXCEPT ![t].visited = @ \cup {c}]
    /\ UNCHANGED <<hierarchyVars, clock, seq, kept, stored, overlapped>>

\* ... or its orders cannot be serialized: the book is skipped, and counted in
\* orderbooks_failed, without which the answer says success.
CreateVisitFails(t) ==
    /\ job[t].pc = "walk"
    /\ \E c \in OptionBooks(Walked(t)) \ job[t].visited :
         /\ Saved(t, c) # {}
         /\ job' = [job EXCEPT ![t] = [job[t] EXCEPT !.visited = @ \cup {c},
                                                     !.failed = @ \cup {c}]]
    /\ UNCHANGED <<hierarchyVars, clock, seq, kept, stored, overlapped>>

\* Books made behind the walk are missed; then the snapshot takes its number.
CreateNumber(t) ==
    /\ job[t].pc = "walk"
    /\ job[t].start \subseteq job[t].visited
    /\ seq' = seq + 1
    /\ job' = [job EXCEPT ![t] =
                 [Idle EXCEPT !.pc = "store", !.seq = seq, !.at = job[t].at,
                              !.infos = job[t].infos]]
    /\ UNCHANGED <<hierarchyVars, clock, kept, stored, overlapped>>

Evicting(t) == job[t].pc \in {"evict", "pick", "drop"}

\* insert_snapshot_bounded stores it ...
CreateStore(t) ==
    /\ job[t].pc = "store"
    /\ kept' = kept \cup {[seq |-> job[t].seq, at |-> job[t].at, infos |-> job[t].infos]}
    /\ job' = [job EXCEPT ![t] = [Idle EXCEPT !.pc = "evict"]]
    /\ stored' = stored + 1
    /\ overlapped' = (overlapped \/ \E u \in Threads : Evicting(u))
    /\ UNCHANGED <<hierarchyVars, clock, seq>>

\* Mutant: the cap may be exceeded by one.
EvictCheckLate(t) ==
    /\ job[t].pc = "evict"
    /\ job' = [job EXCEPT ![t].pc = IF Cardinality(kept) > Cap + 1 THEN "pick" ELSE "idle"]
    /\ UNCHANGED <<hierarchyVars, clock, seq, kept, stored, overlapped>>

\* ... and looks whether there are too many ...
EvictCheck(t) ==
    /\ job[t].pc = "evict"
    /\ job' = [job EXCEPT ![t].pc = IF Cardinality(kept) > Cap THEN "pick" ELSE "idle"]
    /\ UNCHANGED <<hierarchyVars, clock, seq, kept, stored, overlapped>>

Older(s, r) == s.at < r.at \/ (s.at = r.at /\ s.seq <= r.seq)

\* ... picks the oldest, the earliest numbered of a millisecond, ...
EvictPick(t) ==
    /\ job[t].pc = "pick"
    /\ \E s \in kept :
         /\ \A r \in kept : Older(s, r)
         /\ job' = [job EXCEPT ![t].pc = "drop", ![t].seq = s.seq]
    /\ UNCHANGED <<hierarchyVars, clock, seq, kept, stored, overlapped>>

\* Mutant: what exceeds the cap is dropped twice over.
EvictDropTwo(t) ==
    /\ job[t].pc = "drop"
    /\ kept' = {s \in kept : s.seq > job[t].seq + 1}
    /\ job' = [job EXCEPT ![t] = [Idle EXCEPT !.pc = "evict"]]
    /\ UNCHANGED <<hierarchyVars, clock, seq, stored, overlapped>>

\* ... and drops it, unless another creation did, before it looks again.
EvictDrop(t) ==
    /\ job[t].pc = "drop"
    /\ kept' = {s \in kept : s.seq # job[t].seq}
    /\ job' = [job EXCEPT ![t] = [Idle EXCEPT !.pc = "evict"]]
    /\ UNCHANGED <<hierarchyVars, clock, seq, stored, overlapped>>

-----------------------------------------------------------------------------
(* restore_snapshot.                                                       *)

\* get_snapshot, and what list_snapshots says of each.
GetSnapshot(id) == {s.infos : s \in {r \in kept : r.seq = id}}

ListSnapshots ==
    {[id |-> s.seq, at |-> s.at, books |-> Cardinality(s.infos),
      orders |-> MapThenSumSet(LAMBDA i : Cardinality(i.orders), s.infos)] : s \in kept}

\* What the snapshot holds is copied before a book is touched.
RestoreBegin(t) ==
    /\ job[t].pc = "idle"
    /\ \E l \in ListSnapshots : \E infos \in GetSnapshot(l.id) :
         job' = [job EXCEPT ![t] = [Idle EXCEPT !.pc = "restore", !.infos = infos]]
    /\ UNCHANGED <<hierarchyVars, clock, seq, kept, stored, overlapped>>

\* A book, which is made if need be, gets what was saved under its name and
\* loses what it had.  Nothing else is told: neither the orders listed nor the
\* market maker.
RestoreBook(t) ==
    /\ job[t].pc = "restore"
    /\ \E i \in job[t].infos :
         /\ \E k \in Parse(i.expiration) :
              book' = [WithStrike(k, i.strike) EXCEPT
                         ![k][i.strike] = {o \in @ : Terms[o].style # i.style} \cup i.orders]
         /\ via' = [o \in Orders |-> IF o \in i.orders THEN Restored ELSE via[o]]
         /\ job' = [u \in Threads |->
                      IF u = t THEN [job[t] EXCEPT !.infos = @ \ {i}] ELSE Watched(job[u])]
    /\ UNCHANGED <<today, clock, seq, kept, stored, overlapped>>

\* The book refuses, and is counted as failed.
RestoreBookFails(t) ==
    /\ job[t].pc = "restore"
    /\ \E i \in job[t].infos :
         /\ \E k \in Parse(i.expiration) : book' = WithStrike(k, i.strike)
         /\ job' = [u \in Threads |->
                      IF u = t THEN [job[t] EXCEPT !.infos = @ \ {i}] ELSE Watched(job[u])]
    /\ UNCHANGED <<today, via, clock, seq, kept, stored, overlapped>>

RestoreEnd(t) ==
    /\ job[t].pc = "restore"
    /\ job[t].infos = {}
    /\ job' = [job EXCEPT ![t] = Idle]
    /\ UNCHANGED <<hierarchyVars, clock, seq, kept, stored, overlapped>>

-----------------------------------------------------------------------------
Next ==
    \/ Trade \/ Tick
    \/ \E t \in Threads :
         \/ CreateBegin(t) \/ CreateVisit(t) \/ CreateVisitFails(t)
         \/ CreateNumber(t) \/ CreateStore(t)
         \/ EvictCheck(t) \/ EvictPick(t) \/ EvictDrop(t)
         \/ RestoreBegin(t) \/ RestoreBook(t) \/ RestoreBookFails(t) \/ RestoreEnd(t)

Spec == Init /\ [][Next]_vars

-----------------------------------------------------------------------------
Info == [expiration : Keys, strike : Strikes, style : Styles, orders : SUBSET Orders]

TypeOK ==
    /\ HierarchyTypeOK
    /\ clock \in 0..MaxTime
    /\ seq \in 0..MaxSnapshots /\ stored \in 0..seq /\ overlapped \in BOOLEAN
    /\ \A s \in kept : s.seq \in 0..seq - 1 /\ s.at \in 0..clock /\ s.infos \subseteq Info
    /\ \A t \in Threads :
         /\ job[t].pc \in {"idle", "walk", "store", "evict", "pick", "drop", "restore"}
         /\ job[t].at \in 0..clock
         /\ job[t].infos \subseteq Info
         /\ job[t].start \cup job[t].visited \cup job[t].failed \subseteq Keys \X Strikes \X Styles

\* The option's book an order rests in, of an expiration.
BookOf(k, o) == <<k, Terms[o].strike, Terms[o].style>>

\* An order that rested in a book throughout the walk is in the snapshot, though
\* books come, go, and are read back under another name meanwhile, unless its own
\* book is among those counted as failed: an answer of success misses nothing.
SnapshotIsComplete ==
    \A t \in Threads : job[t].pc = "walk" /\ job[t].start \subseteq job[t].visited =>
      \A r \in job[t].throughout :
        BookOf(r[1], r[2]) \notin job[t].failed =>
          \E i \in job[t].infos : r[2] \in i.orders

\* A snapshot holds no order that did not rest in a book during its walk, even
\* if the underlying was deleted, and made anew, under it.
SnapshotIsGenuine ==
    \A t \in Threads : job[t].pc = "walk" =>
      \A i \in job[t].infos : \A o \in i.orders : \E r \in job[t].sometime : r[2] = o

\* Once no creation is evicting, at most MAX_RETAINED_SNAPSHOTS are retained, and
\* no eviction leaves less than that many, but that two creations evicting at the
\* same time may each drop the last one too many (insert_snapshot_bounded looks
\* at the length and picks the oldest before it removes it).
RetentionHolds ==
    /\ (\A t \in Threads : ~Evicting(t)) => Cardinality(ListSnapshots) <= Cap
    /\ ~overlapped => Cardinality(kept) >= (IF stored < Cap THEN stored ELSE Cap)
=============================================================================
