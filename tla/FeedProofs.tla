----------------------------- MODULE FeedProofs -----------------------------
(***************************************************************************)
(* What TLAPS proves of the two ends of a WebSocket, each a system of its  *)
(* own.                                                                    *)
(*                                                                         *)
(* Of the order book feed (DeltaFeed), for any handlers, clients and       *)
(* levels and any capacity of the channel: its types, that a client that   *)
(* is up to date was told the truth of every level, and that no delta is   *)
(* lost after a snapshot to a receiver that did not lag.                   *)
(*                                                                         *)
(* Of the SDK's connection (ClientSocket), for channels, wires and numbers *)
(* of commands of any size: the types, and that nothing is lost or         *)
(* reordered between its two ends as long as the wire holds.               *)
(***************************************************************************)
EXTENDS DeltaFeed, ClientSocket, SequenceTheorems, TLAPS

-----------------------------------------------------------------------------
(***************************************************************************)
(* The messages of a queue, and what its operations do to them.            *)
(***************************************************************************)
FeedMessages == Delta \cup Snapshot
Content(s) == {s[i] : i \in 1 .. Len(s)}

LEMMA ContentOfEmpty == Content(<<>>) = {}
BY DEF Content

LEMMA ContentOfAppend ==
  ASSUME NEW S, NEW s \in Seq(S), NEW m \in S
  PROVE  /\ Append(s, m) \in Seq(S) /\ Len(Append(s, m)) = Len(s) + 1 /\ Len(s) \in Nat
         /\ \A i \in 1 .. Len(s) : Append(s, m)[i] = s[i]
         /\ Append(s, m)[Len(s) + 1] = m
         /\ Content(Append(s, m)) = Content(s) \cup {m}
<1>1. /\ Append(s, m) \in Seq(S) /\ Len(Append(s, m)) = Len(s) + 1 /\ Len(s) \in Nat
      /\ \A i \in 1 .. Len(s) : Append(s, m)[i] = s[i]
      /\ Append(s, m)[Len(s) + 1] = m
  BY AppendProperties, LenProperties
<1>2. 1 .. Len(s) + 1 = (1 .. Len(s)) \cup {Len(s) + 1}
  BY <1>1
<1> QED
  BY <1>1, <1>2 DEF Content

LEMMA ContentOfTail ==
  ASSUME NEW S, NEW s \in Seq(S), s # <<>>
  PROVE  /\ Tail(s) \in Seq(S) /\ Head(s) \in S /\ Len(Tail(s)) = Len(s) - 1
         /\ Len(s) \in Nat \ {0}
         /\ Content(s) = {Head(s)} \cup Content(Tail(s))
<1>1. /\ Tail(s) \in Seq(S) /\ Head(s) \in S /\ Len(Tail(s)) = Len(s) - 1
      /\ \A i \in 1 .. Len(Tail(s)) : Tail(s)[i] = s[i + 1]
      /\ Len(s) \in Nat \ {0} /\ Head(s) = s[1]
  BY HeadTailProperties, EmptySeq
<1>2. ASSUME NEW m \in Content(s)
      PROVE  m \in {Head(s)} \cup Content(Tail(s))
  <2>1. PICK i \in 1 .. Len(s) : m = s[i]
    BY DEF Content
  <2>2. CASE i = 1
    BY <1>1, <2>1, <2>2
  <2>3. CASE i # 1
    <3>1. i - 1 \in 1 .. Len(Tail(s)) /\ (i - 1) + 1 = i
      BY <1>1, <2>1, <2>3
    <3>2. Tail(s)[i - 1] = s[i]
      BY <1>1, <3>1
    <3> QED
      BY <2>1, <3>1, <3>2 DEF Content
  <2> QED
    BY <2>2, <2>3
<1>3. ASSUME NEW m \in Content(Tail(s))
      PROVE  m \in Content(s)
  <2>1. PICK i \in 1 .. Len(Tail(s)) : m = Tail(s)[i]
    BY DEF Content
  <2>2. i + 1 \in 1 .. Len(s) /\ m = s[i + 1]
    BY <1>1, <2>1
  <2> QED
    BY <2>2 DEF Content
<1>4. Head(s) \in Content(s)
  BY <1>1 DEF Content
<1> QED
  BY <1>1, <1>2, <1>3, <1>4

LEMMA NoPublicationOK ==
  /\ NoPublication \in HandlerJob /\ NoPublication.pending = {}
  /\ NoSnapshot = [seq |-> 0, tells |-> NoTale]
BY DEF NoPublication, HandlerJob, NoSnapshot

\* A delta tells of one level and a snapshot of all, so no message is both.
LEMMA DeltaIsNoSnapshot ==
  ASSUME NEW m \in Delta
  PROVE  DOMAIN m.tells # Levels
BY LevelsAssumption DEF Delta, Tales

-----------------------------------------------------------------------------
(***************************************************************************)
(* Types.                                                                  *)
(***************************************************************************)
LEMMA FeedTypeInit == FeedInit => FeedTypeOK
BY NoPublicationOK, BoundsAssumption, EmptySeq DEF FeedInit, FeedTypeOK, Versions

\* A handler that has read a level tells of that level.
TaleRead == \A h \in Handlers : hpc[h] \in {"sequence", "broadcast"} => hjob[h].tells \in Tales
\* The snapshot of a receiving task that has read the book.
SnapshotRead == \A c \in Clients : cpc[c] \in {"stamp", "send"} => cjob[c] \in Snapshot

WellTyped == FeedTypeOK /\ TaleRead /\ SnapshotRead

LEMMA HandlersTyped ==
  ASSUME WellTyped, NEW h \in Handlers, Handle(h)
  PROVE  WellTyped'
<1> USE DEF handlerVars, socketVars
<1>0. /\ hjob[h] \in HandlerJob /\ hjob \in [Handlers -> HandlerJob]
      /\ hpc \in [Handlers -> {"idle", "read", "sequence", "broadcast"}]
      /\ book \in [Levels -> Versions] /\ writes \in Versions /\ sequence \in Nat
      /\ feed \in [Clients -> Seq(Delta)] /\ \A c \in Clients : Len(feed[c]) <= Capacity
      /\ TaleRead
  BY DEF WellTyped, FeedTypeOK
<1>1. CASE Mutate(h)
  <2>1. PICK changed \in SUBSET Levels \ {{}} :
          /\ book' = [l \in Levels |-> IF l \in changed THEN writes' ELSE book[l]]
          /\ hjob' = [hjob EXCEPT ![h].pending = ToPublish(changed)]
    BY <1>1 DEF Mutate
  <2>2. writes' \in Versions
    BY <1>0, <1>1, BoundsAssumption DEF Mutate, Versions
  <2>3. [hjob[h] EXCEPT !.pending = changed] \in HandlerJob
    BY <1>0, <2>1 DEF HandlerJob
  <2>4. hjob' \in [Handlers -> HandlerJob]
    BY <1>0, <2>1, <2>3 DEF ToPublish
  <2>5. book' \in [Levels -> Versions]
    BY <1>0, <2>1, <2>2
  <2>6. TaleRead'
    BY <1>0, <1>1, <2>1 DEF TaleRead, Mutate
  <2> QED
    BY <1>0, <1>1, <2>2, <2>4, <2>5, <2>6 DEF Mutate, WellTyped, FeedTypeOK, SnapshotRead
<1>2. CASE ReadLevel(h)
  <2>1. PICK l \in hjob[h].pending :
          hjob' = [hjob EXCEPT ![h].pending = @ \ {l}, ![h].tells = [k \in {l} |-> book[k]]]
    BY <1>2 DEF ReadLevel
  <2>2. l \in Levels /\ [k \in {l} |-> book[k]] \in Tales
    BY <1>0, <2>1 DEF HandlerJob, Tales
  <2>3. hjob'[h] = [hjob[h] EXCEPT !.pending = @ \ {l}, !.tells = [k \in {l} |-> book[k]]]
    BY <1>0, <2>1
  <2>4. hjob'[h] \in HandlerJob /\ hjob'[h].tells \in Tales
    BY <1>0, <2>2, <2>3 DEF HandlerJob
  <2>5. hjob' \in [Handlers -> HandlerJob]
    BY <1>0, <2>1, <2>3, <2>4
  <2>6. TaleRead'
    BY <1>0, <1>2, <2>1, <2>4 DEF TaleRead, ReadLevel
  <2> QED
    BY <1>0, <1>2, <2>5, <2>6 DEF ReadLevel, WellTyped, FeedTypeOK, SnapshotRead
<1>3. CASE TakeSequence(h)
  <2>1. hjob' = [hjob EXCEPT ![h].seq = sequence] /\ sequence' = sequence + 1
    BY <1>3 DEF TakeSequence, Advanced
  <2>2. [hjob[h] EXCEPT !.seq = sequence] \in HandlerJob
    BY <1>0 DEF HandlerJob
  <2>3. hjob' \in [Handlers -> HandlerJob] /\ sequence' \in Nat
    BY <1>0, <2>1, <2>2
  <2>4. TaleRead'
    <3>1. hjob'[h].tells = hjob[h].tells
      BY <1>0, <2>1 DEF HandlerJob
    <3> QED
      BY <1>0, <1>3, <2>1, <3>1 DEF TaleRead, TakeSequence
  <2> QED
    BY <1>0, <1>3, <2>3, <2>4 DEF TakeSequence, WellTyped, FeedTypeOK, SnapshotRead
<1>4. CASE Broadcast(h)
  <2>1. PICK delta : delta = [seq |-> hjob[h].seq, tells |-> hjob[h].tells]
    OBVIOUS
  <2>2. delta \in Delta /\ delta.seq \in Nat
    BY <1>0, <1>4, <2>1 DEF Broadcast, Delta, TaleRead, HandlerJob
  <2>3. ASSUME NEW c \in Clients
        PROVE  /\ feed'[c] \in Seq(Delta) /\ Len(feed'[c]) <= Capacity
               /\ missed'[c] \in BOOLEAN
    <3>1. feed'[c] = Append(IF Overflows(c) THEN Tail(feed[c]) ELSE feed[c], delta)
      BY <1>4, <2>1 DEF Broadcast
    <3>2. CASE Overflows(c)
      <4>1. feed[c] # <<>>
        BY <3>2, EmptySeq, BoundsAssumption DEF Overflows
      <4>2. Tail(feed[c]) \in Seq(Delta) /\ Len(Tail(feed[c])) = Len(feed[c]) - 1
        BY <1>0, <4>1, ContentOfTail
      <4>3. feed'[c] = Append(Tail(feed[c]), delta)
        BY <3>1, <3>2
      <4>4. feed'[c] \in Seq(Delta) /\ Len(feed'[c]) = Len(Tail(feed[c])) + 1
        BY <2>2, <4>2, <4>3, ContentOfAppend
      <4>5. Len(feed'[c]) <= Capacity
        BY <3>2, <4>2, <4>4, BoundsAssumption DEF Overflows
      <4> QED
        BY <1>4, <3>2, <4>4, <4>5 DEF Broadcast
    <3>3. CASE ~ Overflows(c)
      <4>1. feed'[c] = Append(feed[c], delta) /\ feed[c] \in Seq(Delta)
        BY <1>0, <3>1, <3>3
      <4>2. feed'[c] \in Seq(Delta) /\ Len(feed'[c]) = Len(feed[c]) + 1 /\ Len(feed[c]) \in Nat
        BY <2>2, <4>1, ContentOfAppend
      <4>3. Len(feed[c]) <= Capacity /\ Len(feed[c]) # Capacity
        BY <1>0, <3>3 DEF Overflows
      <4>4. missed'[c] \in BOOLEAN
        BY <1>4 DEF Broadcast, WellTyped, FeedTypeOK
      <4> QED
        BY <4>2, <4>3, <4>4, BoundsAssumption
    <3> QED
      BY <3>2, <3>3
  <2>4. feed' \in [Clients -> Seq(Delta)] /\ missed' \in [Clients -> BOOLEAN]
    BY <1>4, <2>3 DEF Broadcast
  <2>5. aired' \subseteq Nat
    BY <1>0, <1>4, <2>1, <2>2 DEF Broadcast, WellTyped, FeedTypeOK
  <2>6. /\ hjob' \in [Handlers -> HandlerJob]
        /\ hpc' \in [Handlers -> {"idle", "read", "sequence", "broadcast"}]
    BY <1>0, <1>4, NoPublicationOK DEF Broadcast
  <2>7. TaleRead'
    BY <1>0, <1>4 DEF TaleRead, Broadcast
  <2> QED
    BY <1>4, <2>3, <2>4, <2>5, <2>6, <2>7 DEF Broadcast, WellTyped, FeedTypeOK, SnapshotRead
<1> QED
  BY <1>1, <1>2, <1>3, <1>4 DEF Handle

LEMMA ClientsTyped ==
  ASSUME WellTyped, NEW c \in Clients, Connection(c)
  PROVE  WellTyped'
<1> USE DEF handlerVars, socketVars
<1>0. /\ cjob \in [Clients -> Snapshot \cup {NoSnapshot}]
      /\ cpc \in [Clients -> {"idle", "snapshot", "stamp", "send"}]
      /\ subscribed \in [Clients -> BOOLEAN] /\ missed \in [Clients -> BOOLEAN]
      /\ book \in [Levels -> Versions] /\ sequence \in Nat /\ asked \in 0 .. MaxSubscribes
      /\ feed \in [Clients -> Seq(Delta)] /\ heard \in [Clients -> Seq(FeedMessages)]
      /\ SnapshotRead
  BY DEF WellTyped, FeedTypeOK, FeedMessages
<1>a. asked < MaxSubscribes => asked + 1 \in 0 .. MaxSubscribes
  BY <1>0, BoundsAssumption
<1>1. CASE Subscribe(c) \/ BatchSubscribe(c)
  <2>1. /\ subscribed' \in [Clients -> BOOLEAN] /\ asked' \in 0 .. MaxSubscribes
        /\ cpc' \in [Clients -> {"idle", "snapshot", "stamp", "send"}]
        /\ cjob' = cjob
        /\ SnapshotRead'
    BY <1>0, <1>1, <1>a DEF Subscribe, BatchSubscribe, Enter, EntersFirst, SnapshotRead
  <2> QED
    BY <1>1, <2>1 DEF Subscribe, BatchSubscribe, WellTyped, FeedTypeOK, TaleRead
<1>2. CASE TakeSnapshot(c)
  <2>1. cjob[c].seq \in Nat
    BY <1>0, NoPublicationOK DEF Snapshot
  <2>2. CASE cjob' = cjob /\ missed' = missed /\ cpc' = [cpc EXCEPT ![c] = "idle"]
    BY <1>0, <1>2, <2>2 DEF TakeSnapshot, WellTyped, FeedTypeOK, TaleRead, SnapshotRead
  <2>3. CASE /\ cjob' = [cjob EXCEPT ![c].tells = book]
             /\ missed' = [missed EXCEPT ![c] = FALSE]
             /\ cpc' = [cpc EXCEPT ![c] = "stamp"]
    <3>1. cjob'[c] = [cjob[c] EXCEPT !.tells = book]
      BY <1>0, <2>3
    <3>2. cjob'[c] = [seq |-> cjob[c].seq, tells |-> book]
      <4>1. CASE cjob[c] \in Snapshot
        BY <3>1, <4>1 DEF Snapshot
      <4>2. CASE cjob[c] = [seq |-> 0, tells |-> NoTale]
        BY <3>1, <4>2
      <4> QED
        BY <1>0, <4>1, <4>2, NoPublicationOK
    <3>3. cjob'[c] \in Snapshot
      BY <1>0, <2>1, <3>2 DEF Snapshot
    <3>4. cjob' \in [Clients -> Snapshot \cup {NoSnapshot}] /\ SnapshotRead'
      BY <1>0, <2>3, <3>3 DEF SnapshotRead
    <3> QED
      BY <1>0, <1>2, <2>3, <3>4 DEF TakeSnapshot, WellTyped, FeedTypeOK, TaleRead
  <2> QED
    BY <1>2, <2>2, <2>3 DEF TakeSnapshot
<1>3. CASE StampSnapshot(c)
  <2>1. cjob[c] \in Snapshot
    BY <1>0, <1>3 DEF StampSnapshot, SnapshotRead
  <2>2. cjob' = [cjob EXCEPT ![c].seq = sequence] /\ sequence' \in Nat
    BY <1>0, <1>3 DEF StampSnapshot
  <2>3. cjob'[c] = [cjob[c] EXCEPT !.seq = sequence]
    BY <1>0, <2>2
  <2>4. cjob'[c] \in Snapshot
    BY <1>0, <2>1, <2>3 DEF Snapshot
  <2>5. cjob' \in [Clients -> Snapshot \cup {NoSnapshot}]
    BY <1>0, <2>2, <2>4
  <2>6. SnapshotRead'
    BY <1>0, <1>3, <2>2, <2>4 DEF SnapshotRead, StampSnapshot
  <2> QED
    BY <1>0, <1>3, <2>2, <2>5, <2>6 DEF StampSnapshot, WellTyped, FeedTypeOK, TaleRead
<1>4. CASE SendSnapshot(c)
  <2>1. cjob[c] \in FeedMessages
    BY <1>0, <1>4 DEF SendSnapshot, SnapshotRead, FeedMessages
  <2>2. Append(heard[c], cjob[c]) \in Seq(FeedMessages)
    BY <1>0, <2>1, ContentOfAppend
  <2>3. heard' \in [Clients -> Seq(FeedMessages)]
    BY <1>0, <1>4, <2>2 DEF SendSnapshot
  <2>4. cjob' \in [Clients -> Snapshot \cup {NoSnapshot}] /\ SnapshotRead'
    BY <1>0, <1>4 DEF SendSnapshot, SnapshotRead
  <2>5. subscribed' \in [Clients -> BOOLEAN]
    BY <1>0, <1>4 DEF SendSnapshot, Enter, EntersFirst
  <2> QED
    BY <1>0, <1>4, <2>3, <2>4, <2>5 DEF SendSnapshot, WellTyped, FeedTypeOK, TaleRead, FeedMessages
<1>5. CASE Unsubscribe(c)
  <2>1. heard' \in [Clients -> Seq(FeedMessages)] /\ subscribed' \in [Clients -> BOOLEAN]
    BY <1>0, <1>5, EmptySeq DEF Unsubscribe
  <2> QED
    BY <1>0, <1>5, <2>1 DEF Unsubscribe, WellTyped, FeedTypeOK, TaleRead, SnapshotRead, FeedMessages
<1>6. CASE ForwardDelta(c)
  <2>1. feed[c] # <<>> /\ feed' = [feed EXCEPT ![c] = Tail(@)]
    BY <1>6 DEF ForwardDelta
  <2>2. /\ Tail(feed[c]) \in Seq(Delta) /\ Head(feed[c]) \in Delta
        /\ Len(Tail(feed[c])) = Len(feed[c]) - 1 /\ Len(feed[c]) \in Nat
    BY <1>0, <2>1, ContentOfTail
  <2>3. feed' \in [Clients -> Seq(Delta)]
    BY <1>0, <2>1, <2>2
  <2>4. \A d \in Clients : Len(feed'[d]) <= Capacity
    <3>1. \A d \in Clients : Len(feed[d]) <= Capacity
      BY DEF WellTyped, FeedTypeOK
    <3>2. Len(feed'[c]) <= Capacity
      BY <1>0, <2>1, <2>2, <3>1, BoundsAssumption
    <3> QED
      BY <1>0, <2>1, <3>1, <3>2
  <2>5. Append(heard[c], Head(feed[c])) \in Seq(FeedMessages)
    BY <1>0, <2>2, ContentOfAppend DEF FeedMessages
  <2>6. heard' \in [Clients -> Seq(FeedMessages)]
    BY <1>0, <1>6, <2>5 DEF ForwardDelta
  <2> QED
    BY <1>6, <2>3, <2>4, <2>6 DEF ForwardDelta, WellTyped, FeedTypeOK, TaleRead, SnapshotRead,
       FeedMessages
<1> QED
  BY <1>1, <1>2, <1>3, <1>4, <1>5, <1>6 DEF Connection

LEMMA WellTypedStep ==
  ASSUME WellTyped, [FeedNext]_feedVars
  PROVE  WellTyped'
<1>1. CASE UNCHANGED feedVars
  BY <1>1 DEF feedVars, handlerVars, socketVars, WellTyped, FeedTypeOK, TaleRead, SnapshotRead
<1> QED
  BY <1>1, HandlersTyped, ClientsTyped DEF FeedNext

-----------------------------------------------------------------------------
(***************************************************************************)
(* What a client has: the messages it was sent, and those on their way to  *)
(* it.                                                                     *)
(***************************************************************************)
Pool(c) == Content(heard[c]) \cup Content(feed[c])

\* A client that was not subscribed has nothing; one that is asking for a
\* snapshot is subscribed.
Entered ==
  \A c \in Clients : /\ cpc[c] # "idle" => subscribed[c]
                     /\ ~ subscribed[c] => heard[c] = <<>>

\* Numbers are taken before they are used.
Numbered == /\ \A n \in aired : n < sequence
            /\ \A h \in Handlers : hpc[h] = "broadcast" => hjob[h].seq < sequence

\* What the client has of the deltas that are numbered after m.
HasAfter(c, m) == \A n \in aired : n > m => \E d \in Pool(c) : d.seq = n

\* A client that missed nothing has whatever follows its snapshot: the last one
\* it was sent, or the one it is about to be sent.
Kept(c) ==
  subscribed[c] /\ ~ missed[c] =>
    /\ cpc[c] \in {"idle", "snapshot"} =>
         \A i \in LastSnapshot(c) : HasAfter(c, heard[c][i].seq)
    /\ cpc[c] = "send" => HasAfter(c, cjob[c].seq)

\* A handler is going to publish the level, as it is now.
WillTell(h, l) ==
  \/ hpc[h] # "idle" /\ l \in hjob[h].pending
  \/ /\ hpc[h] \in {"sequence", "broadcast"}
     /\ l \in DOMAIN hjob[h].tells /\ hjob[h].tells[l] = book[l]

Tells(m, l) == l \in DOMAIN m.tells /\ m.tells[l] = book[l]

\* A client that has a snapshot, or is about to be sent one, and missed nothing
\* was told the present state of a level, or is going to be.
Told(c, l) ==
  \/ \E m \in Pool(c) : Tells(m, l)
  \/ \E h \in Handlers : WillTell(h, l)
  \/ cpc[c] \in {"stamp", "send"} /\ Tells(cjob[c], l)
HasSnapshot(c) == Snapshots(c) # {} \/ cpc[c] \in {"stamp", "send"}
Informed(c) ==
  subscribed[c] /\ ~ missed[c] /\ HasSnapshot(c) => \A l \in Levels : Told(c, l)

FeedInv == /\ WellTyped /\ Entered /\ Numbered
           /\ \A c \in Clients : Kept(c) /\ Informed(c)

\* A client to whose queues and task nothing happens.
Aside(c) == /\ heard'[c] = heard[c] /\ feed'[c] = feed[c] /\ missed'[c] = missed[c]
            /\ subscribed'[c] = subscribed[c] /\ cpc'[c] = cpc[c] /\ cjob'[c] = cjob[c]

LEMMA AsideHas ==
  ASSUME NEW c \in Clients, Aside(c)
  PROVE  Pool(c)' = Pool(c) /\ Snapshots(c)' = Snapshots(c) /\ LastSnapshot(c)' = LastSnapshot(c)
BY DEF Aside, Pool, Snapshots, LastSnapshot, Places

LEMMA AsideKept ==
  ASSUME NEW c \in Clients, Aside(c), Kept(c), UNCHANGED aired
  PROVE  Kept(c)'
BY AsideHas DEF Aside, Kept, HasAfter

LEMMA AsideInformed ==
  ASSUME NEW c \in Clients, Aside(c), Informed(c),
         \A l \in Levels : Told(c, l) => Told(c, l)'
  PROVE  Informed(c)'
BY AsideHas DEF Aside, Informed, HasSnapshot

\* One more delta leaves the snapshots a client was sent where they are.
LEMMA DeltaAppended ==
  ASSUME NEW c \in Clients, heard[c] \in Seq(FeedMessages), NEW m \in Delta,
         heard'[c] = Append(heard[c], m)
  PROVE  /\ Snapshots(c)' = Snapshots(c) /\ LastSnapshot(c)' = LastSnapshot(c)
         /\ \A i \in LastSnapshot(c) : heard'[c][i] = heard[c][i]
<1>1. /\ Len(heard'[c]) = Len(heard[c]) + 1 /\ Len(heard[c]) \in Nat
      /\ \A i \in 1 .. Len(heard[c]) : heard'[c][i] = heard[c][i]
      /\ heard'[c][Len(heard[c]) + 1] = m
  BY ContentOfAppend DEF FeedMessages
<1>2. Places(c)' = Places(c) \cup {Len(heard[c]) + 1}
  BY <1>1 DEF Places
<1>3. \A i \in Places(c) : heard'[c][i] = heard[c][i]
  BY <1>1 DEF Places
<1>4. Snapshots(c)' = Snapshots(c)
  BY <1>1, <1>2, <1>3, DeltaIsNoSnapshot DEF Snapshots
<1> QED
  BY <1>3, <1>4 DEF LastSnapshot, Snapshots

\* One more snapshot is the last.
LEMMA SnapshotAppended ==
  ASSUME NEW c \in Clients, heard[c] \in Seq(FeedMessages), NEW m \in Snapshot,
         heard'[c] = Append(heard[c], m)
  PROVE  \A i \in LastSnapshot(c)' : heard'[c][i] = m
<1>1. /\ Len(heard'[c]) = Len(heard[c]) + 1 /\ Len(heard[c]) \in Nat
      /\ heard'[c][Len(heard[c]) + 1] = m
  BY ContentOfAppend DEF FeedMessages
<1>2. Len(heard[c]) + 1 \in Snapshots(c)'
  BY <1>1 DEF Snapshots, Places, Snapshot
<1>3. ASSUME NEW i \in LastSnapshot(c)'
      PROVE  i = Len(heard[c]) + 1
  <2>1. i \in 1 .. Len(heard[c]) + 1 /\ Len(heard[c]) + 1 <= i
    BY <1>1, <1>2 DEF LastSnapshot, Snapshots, Places
  <2> QED
    BY <1>1, <2>1
<1> QED
  BY <1>1, <1>3

-----------------------------------------------------------------------------
(***************************************************************************)
(* The steps of handlers.                                                  *)
(***************************************************************************)
LEMMA NumberedStep ==
  ASSUME WellTyped, Numbered, [FeedNext]_feedVars
  PROVE  Numbered'
<1> USE DEF handlerVars, socketVars
<1>0. /\ hjob \in [Handlers -> HandlerJob] /\ sequence \in Nat /\ aired \subseteq Nat
      /\ hpc \in [Handlers -> {"idle", "read", "sequence", "broadcast"}]
      /\ \A h \in Handlers : hjob[h].seq \in Nat
  BY DEF WellTyped, FeedTypeOK, HandlerJob
<1>1. ASSUME NEW h \in Handlers, Mutate(h) \/ ReadLevel(h)
      PROVE  Numbered'
  <2>1. /\ UNCHANGED <<sequence, aired>> /\ hpc'[h] # "broadcast"
        /\ \A g \in Handlers \ {h} : hpc'[g] = hpc[g] /\ hjob'[g] = hjob[g]
    BY <1>0, <1>1 DEF Mutate, ReadLevel
  <2> QED
    BY <2>1 DEF Numbered
<1>2. ASSUME NEW h \in Handlers, TakeSequence(h)
      PROVE  Numbered'
  <2>1. /\ UNCHANGED aired /\ sequence' = sequence + 1
        /\ \A g \in Handlers \ {h} : hpc'[g] = hpc[g] /\ hjob'[g] = hjob[g]
    BY <1>0, <1>2 DEF TakeSequence, Advanced
  <2>2. hjob'[h].seq = sequence
    BY <1>0, <1>2 DEF TakeSequence, HandlerJob
  <2>3. \A n \in Nat : n < sequence => n < sequence'
    BY <1>0, <2>1
  <2>4. \A g \in Handlers : hpc'[g] = "broadcast" => hjob'[g].seq < sequence'
    BY <1>0, <2>1, <2>2, <2>3 DEF Numbered
  <2> QED
    BY <1>0, <2>1, <2>3, <2>4 DEF Numbered
<1>3. ASSUME NEW h \in Handlers, Broadcast(h)
      PROVE  Numbered'
  <2>1. /\ UNCHANGED sequence /\ hpc'[h] # "broadcast" /\ aired' = aired \cup {hjob[h].seq}
        /\ hpc[h] = "broadcast"
        /\ \A g \in Handlers \ {h} : hpc'[g] = hpc[g] /\ hjob'[g] = hjob[g]
    BY <1>0, <1>3 DEF Broadcast
  <2> QED
    BY <2>1 DEF Numbered
<1>4. ASSUME NEW c \in Clients, Connection(c)
      PROVE  Numbered'
  <2>1. UNCHANGED <<hpc, hjob, aired>> /\ (sequence' = sequence \/ sequence' = sequence + 1)
    BY <1>4 DEF Connection, Subscribe, TakeSnapshot, StampSnapshot, SendSnapshot,
       BatchSubscribe, Unsubscribe, ForwardDelta
  <2>2. \A n \in Nat : n < sequence => n < sequence'
    BY <1>0, <2>1
  <2> QED
    BY <1>0, <2>1, <2>2 DEF Numbered
<1>5. CASE UNCHANGED feedVars
  BY <1>5 DEF feedVars, Numbered
<1> QED
  BY <1>1, <1>2, <1>3, <1>4, <1>5 DEF FeedNext, Handle

\* A change of the book, the reading of a level and the taking of a number.
LEMMA HandlersPrepare ==
  ASSUME FeedInv, NEW h \in Handlers, Mutate(h) \/ ReadLevel(h) \/ TakeSequence(h),
         NEW c \in Clients
  PROVE  Kept(c)' /\ Informed(c)'
<1> USE DEF handlerVars, socketVars
<1>0. /\ hjob \in [Handlers -> HandlerJob] /\ hjob[h] \in HandlerJob
      /\ hpc \in [Handlers -> {"idle", "read", "sequence", "broadcast"}]
      /\ book \in [Levels -> Versions]
  BY DEF FeedInv, WellTyped, FeedTypeOK
<1>a. Aside(c) /\ UNCHANGED aired
  BY DEF Mutate, ReadLevel, TakeSequence, Aside
<1>b. Pool(c)' = Pool(c) /\ cpc'[c] = cpc[c] /\ cjob'[c] = cjob[c]
  BY <1>a, AsideHas DEF Aside
<1>c. \A g \in Handlers \ {h} : hpc'[g] = hpc[g] /\ hjob'[g] = hjob[g]
  BY <1>0 DEF Mutate, ReadLevel, TakeSequence
\* If the level and the handler's promise are as before, the client is.
<1>d. ASSUME NEW l \in Levels, Told(c, l), book'[l] = book[l], WillTell(h, l) => WillTell(h, l)'
      PROVE  Told(c, l)'
  BY <1>b, <1>c, <1>d DEF Told, Tells, WillTell
<1>1. CASE Mutate(h)
  <2>1. PICK changed \in SUBSET Levels \ {{}} :
          /\ book' = [l \in Levels |-> IF l \in changed THEN writes' ELSE book[l]]
          /\ hjob' = [hjob EXCEPT ![h].pending = ToPublish(changed)]
    BY <1>1 DEF Mutate
  <2>2. hjob'[h].pending = changed /\ hpc'[h] = "read" /\ hpc[h] = "idle"
    BY <1>0, <1>1, <2>1 DEF Mutate, ToPublish, HandlerJob
  <2>3. ASSUME NEW l \in Levels, Told(c, l)
        PROVE  Told(c, l)'
    <3>1. CASE l \in changed
      BY <2>2, <3>1 DEF Told, WillTell
    <3>2. CASE l \notin changed
      BY <1>d, <2>1, <2>2, <2>3, <3>2 DEF WillTell
    <3> QED
      BY <3>1, <3>2
  <2> QED
    BY <1>a, <2>3, AsideKept, AsideInformed DEF FeedInv
<1>2. CASE ReadLevel(h)
  <2>1. PICK k \in hjob[h].pending :
          hjob' = [hjob EXCEPT ![h].pending = @ \ {k}, ![h].tells = [j \in {k} |-> book[j]]]
    BY <1>2 DEF ReadLevel
  <2>2. hjob'[h] = [hjob[h] EXCEPT !.pending = @ \ {k}, !.tells = [j \in {k} |-> book[j]]]
    BY <1>0, <2>1
  <2>3. /\ hjob'[h].pending = hjob[h].pending \ {k} /\ hjob'[h].tells = [j \in {k} |-> book[j]]
        /\ hpc'[h] = "sequence" /\ hpc[h] = "read" /\ book' = book
    BY <1>0, <1>2, <2>2 DEF ReadLevel, HandlerJob
  <2>4. ASSUME NEW l \in Levels, WillTell(h, l)
        PROVE  WillTell(h, l)'
    BY <2>3, <2>4 DEF WillTell
  <2> QED
    BY <1>a, <1>d, <2>3, <2>4, AsideKept, AsideInformed DEF FeedInv
<1>3. CASE TakeSequence(h)
  <2>1. hjob'[h] = [hjob[h] EXCEPT !.seq = sequence]
    BY <1>0, <1>3 DEF TakeSequence
  <2>2. /\ hjob'[h].pending = hjob[h].pending /\ hjob'[h].tells = hjob[h].tells
        /\ hpc'[h] = "broadcast" /\ hpc[h] = "sequence" /\ book' = book
    BY <1>0, <1>3, <2>1 DEF TakeSequence, HandlerJob
  <2>3. ASSUME NEW l \in Levels, WillTell(h, l)
        PROVE  WillTell(h, l)'
    BY <2>2, <2>3 DEF WillTell
  <2> QED
    BY <1>a, <1>d, <2>2, <2>3, AsideKept, AsideInformed DEF FeedInv
<1> QED
  BY <1>1, <1>2, <1>3

\* The broadcast: a receiver whose channel has room gets the delta.
LEMMA HandlersBroadcast ==
  ASSUME FeedInv, NEW h \in Handlers, Broadcast(h), NEW c \in Clients
  PROVE  Kept(c)' /\ Informed(c)'
<1> USE DEF handlerVars, socketVars
<1>0. /\ hjob \in [Handlers -> HandlerJob] /\ hjob[h] \in HandlerJob
      /\ hpc \in [Handlers -> {"idle", "read", "sequence", "broadcast"}]
      /\ feed[c] \in Seq(Delta) /\ missed[c] \in BOOLEAN
  BY DEF FeedInv, WellTyped, FeedTypeOK
<1>1. PICK delta : delta = [seq |-> hjob[h].seq, tells |-> hjob[h].tells]
  OBVIOUS
<1>2. delta \in Delta /\ delta.seq = hjob[h].seq /\ delta.tells = hjob[h].tells
  BY <1>0, <1>1 DEF Broadcast, Delta, FeedInv, WellTyped, TaleRead, HandlerJob
<1>3. /\ aired' = aired \cup {delta.seq} /\ hpc[h] = "broadcast"
      /\ UNCHANGED <<book, subscribed, cpc, cjob, heard>>
      /\ missed'[c] = (missed[c] \/ Overflows(c))
      /\ \A g \in Handlers \ {h} : hpc'[g] = hpc[g] /\ hjob'[g] = hjob[g]
  BY <1>0, <1>1 DEF Broadcast
<1>4. CASE Overflows(c) \/ missed[c]
  BY <1>0, <1>3, <1>4 DEF Kept, Informed
<1>5. CASE ~ Overflows(c) /\ ~ missed[c]
  <2>1. feed'[c] = Append(feed[c], delta) /\ missed'[c] = missed[c]
    BY <1>0, <1>1, <1>3, <1>5 DEF Broadcast
  <2>2. Content(feed[c])' = Content(feed[c]) \cup {delta}
    BY <1>0, <1>2, <2>1, ContentOfAppend DEF Content
  <2>3. Pool(c)' = Pool(c) \cup {delta}
    BY <1>3, <2>2 DEF Pool, Content
  <2>4. LastSnapshot(c)' = LastSnapshot(c) /\ Snapshots(c)' = Snapshots(c)
    BY <1>3 DEF LastSnapshot, Snapshots, Places
  <2>5. \A m : HasAfter(c, m) => \A n \in aired' : n > m => \E d \in Pool(c)' : d.seq = n
    BY <1>3, <2>3 DEF HasAfter
  <2>6. Kept(c)'
    BY <1>3, <2>1, <2>4, <2>5 DEF Kept, HasAfter, FeedInv
  <2>7. ASSUME NEW l \in Levels, Told(c, l)
        PROVE  Told(c, l)'
    <3>1. CASE \E m \in Pool(c) : Tells(m, l)
      BY <1>3, <2>3, <3>1 DEF Told, Tells
    <3>2. CASE \E g \in Handlers \ {h} : WillTell(g, l)
      BY <1>3, <3>2 DEF Told, WillTell
    <3>3. CASE WillTell(h, l)
      <4>1. CASE l \in hjob[h].pending
        <5>1. hjob'[h] = hjob[h] /\ hpc'[h] = "read"
          BY <1>0, <4>1 DEF Broadcast
        <5> QED
          BY <4>1, <5>1 DEF Told, WillTell
      <4>2. CASE l \in DOMAIN hjob[h].tells /\ hjob[h].tells[l] = book[l]
        <5>1. Tells(delta, l)'
          BY <1>2, <1>3, <4>2 DEF Tells
        <5> QED
          BY <2>3, <5>1 DEF Told
      <4> QED
        BY <3>3, <4>1, <4>2 DEF WillTell
    <3>4. CASE cpc[c] \in {"stamp", "send"} /\ Tells(cjob[c], l)
      BY <1>3, <3>4 DEF Told, Tells
    <3> QED
      BY <2>7, <3>1, <3>2, <3>3, <3>4 DEF Told
  <2>8. Informed(c)'
    BY <1>3, <2>1, <2>4, <2>7 DEF Informed, HasSnapshot, FeedInv
  <2> QED
    BY <2>6, <2>8
<1> QED
  BY <1>4, <1>5

-----------------------------------------------------------------------------
(***************************************************************************)
(* The steps of connections.                                               *)
(***************************************************************************)
LEMMA EnteredStep ==
  ASSUME WellTyped, Entered, [FeedNext]_feedVars
  PROVE  Entered'
<1> USE DEF handlerVars, socketVars
<1>0. /\ subscribed \in [Clients -> BOOLEAN] /\ heard \in [Clients -> Seq(FeedMessages)]
      /\ cpc \in [Clients -> {"idle", "snapshot", "stamp", "send"}]
  BY DEF WellTyped, FeedTypeOK, FeedMessages
<1>1. ASSUME NEW h \in Handlers, Handle(h)
      PROVE  Entered'
  BY <1>1 DEF Handle, Mutate, ReadLevel, TakeSequence, Broadcast, Entered
<1>2. ASSUME NEW c \in Clients, Connection(c)
      PROVE  Entered'
  <2>1. CASE Subscribe(c) \/ BatchSubscribe(c)
    BY <1>0, <2>1 DEF Subscribe, BatchSubscribe, Enter, EntersFirst, Entered
  <2>2. CASE TakeSnapshot(c) \/ StampSnapshot(c)
    BY <1>0, <2>2 DEF TakeSnapshot, StampSnapshot, Entered
  <2>3. CASE SendSnapshot(c)
    BY <1>0, <2>3 DEF SendSnapshot, Enter, EntersFirst, Entered
  <2>4. CASE Unsubscribe(c)
    BY <1>0, <2>4 DEF Unsubscribe, Entered
  <2>5. CASE ForwardDelta(c)
    BY <1>0, <2>5 DEF ForwardDelta, Entered
  <2> QED
    BY <1>2, <2>1, <2>2, <2>3, <2>4, <2>5 DEF Connection
<1>3. CASE UNCHANGED feedVars
  BY <1>3 DEF feedVars, Entered
<1> QED
  BY <1>1, <1>2, <1>3 DEF FeedNext

\* A step of one connection is nothing to another.
LEMMA OthersConnections ==
  ASSUME FeedInv, NEW c \in Clients, Connection(c), NEW d \in Clients \ {c}
  PROVE  Kept(d)' /\ Informed(d)'
<1> USE DEF handlerVars, socketVars
<1>1. /\ subscribed \in [Clients -> BOOLEAN] /\ heard \in [Clients -> Seq(FeedMessages)]
      /\ cpc \in [Clients -> {"idle", "snapshot", "stamp", "send"}]
      /\ feed \in [Clients -> Seq(Delta)] /\ missed \in [Clients -> BOOLEAN]
      /\ cjob \in [Clients -> Snapshot \cup {NoSnapshot}]
  BY DEF FeedInv, WellTyped, FeedTypeOK, FeedMessages
<1>2. Aside(d) /\ UNCHANGED <<aired, hpc, hjob, book>>
  <2>1. CASE Subscribe(c) \/ BatchSubscribe(c) \/ Unsubscribe(c)
    BY <1>1, <2>1 DEF Subscribe, BatchSubscribe, Unsubscribe, Enter, Aside
  <2>2. CASE TakeSnapshot(c) \/ StampSnapshot(c)
    BY <1>1, <2>2 DEF TakeSnapshot, StampSnapshot, Aside
  <2>3. CASE SendSnapshot(c) \/ ForwardDelta(c)
    BY <1>1, <2>3 DEF SendSnapshot, ForwardDelta, Enter, Aside
  <2> QED
    BY <2>1, <2>2, <2>3 DEF Connection
<1>3. \A l \in Levels : Told(d, l) => Told(d, l)'
  BY <1>2, AsideHas DEF Told, Tells, WillTell, Aside
<1> QED
  BY <1>2, <1>3, AsideKept, AsideInformed DEF FeedInv

\* The client that subscribes, takes its snapshot and is sent it.
LEMMA Subscribing ==
  ASSUME FeedInv, NEW c \in Clients, Subscribe(c) \/ BatchSubscribe(c)
  PROVE  Kept(c)' /\ Informed(c)'
<1> USE DEF handlerVars, socketVars
<1>1. /\ cpc[c] = "idle" /\ cpc'[c] \in {"idle", "snapshot"}
      /\ UNCHANGED <<aired, hpc, hjob, book, heard, feed, missed, cjob>>
  BY DEF Subscribe, BatchSubscribe, FeedInv, WellTyped, FeedTypeOK
<1>2. /\ Pool(c)' = Pool(c) /\ Snapshots(c)' = Snapshots(c)
      /\ LastSnapshot(c)' = LastSnapshot(c)
  BY <1>1 DEF Pool, Snapshots, LastSnapshot, Places
<1>3. CASE subscribed[c]
  <2>1. Kept(c)'
    BY <1>1, <1>2, <1>3 DEF FeedInv, Kept, HasAfter
  <2>2. \A l \in Levels : Told(c, l) => Told(c, l)'
    BY <1>1, <1>2 DEF Told, Tells, WillTell
  <2> QED
    BY <1>1, <1>2, <1>3, <2>1, <2>2 DEF FeedInv, Informed, HasSnapshot
<1>4. CASE ~ subscribed[c]
  <2>1. heard[c] = <<>>
    BY <1>4 DEF FeedInv, Entered
  <2>2. Snapshots(c) = {} /\ LastSnapshot(c) = {}
    BY <2>1 DEF Snapshots, LastSnapshot, Places
  <2> QED
    BY <1>1, <1>2, <2>2 DEF Kept, Informed, HasSnapshot
<1> QED
  BY <1>3, <1>4

LEMMA TakingSnapshot ==
  ASSUME FeedInv, NEW c \in Clients, TakeSnapshot(c)
  PROVE  Kept(c)' /\ Informed(c)'
<1> USE DEF handlerVars, socketVars
<1>0. /\ cpc \in [Clients -> {"idle", "snapshot", "stamp", "send"}]
      /\ missed \in [Clients -> BOOLEAN]
      /\ cjob \in [Clients -> Snapshot \cup {NoSnapshot}] /\ book \in [Levels -> Versions]
  BY DEF FeedInv, WellTyped, FeedTypeOK
<1>1. cpc[c] = "snapshot" /\ UNCHANGED <<aired, hpc, hjob, book, heard, feed, subscribed>>
  BY DEF TakeSnapshot
<1>2. /\ Pool(c)' = Pool(c) /\ Snapshots(c)' = Snapshots(c)
      /\ LastSnapshot(c)' = LastSnapshot(c)
  BY <1>1 DEF Pool, Snapshots, LastSnapshot, Places
<1>3. CASE cjob' = cjob /\ missed' = missed /\ cpc' = [cpc EXCEPT ![c] = "idle"]
  <2>1. \A l \in Levels : Told(c, l) => Told(c, l)'
    BY <1>0, <1>1, <1>2, <1>3 DEF Told, Tells, WillTell
  <2>2. Informed(c)'
    BY <1>0, <1>1, <1>2, <1>3, <2>1 DEF FeedInv, Informed, HasSnapshot
  <2>3. Kept(c)'
    BY <1>0, <1>1, <1>2, <1>3 DEF FeedInv, Kept, HasAfter
  <2> QED
    BY <2>2, <2>3
<1>4. CASE cjob' = [cjob EXCEPT ![c].tells = book] /\ cpc' = [cpc EXCEPT ![c] = "stamp"]
  <2>1. cpc'[c] = "stamp" /\ cjob'[c] = [cjob[c] EXCEPT !.tells = book]
    BY <1>0, <1>4
  <2>2. cjob'[c].tells = book
    <3>1. CASE cjob[c] \in Snapshot
      BY <2>1, <3>1 DEF Snapshot
    <3>2. CASE cjob[c] = [seq |-> 0, tells |-> NoTale]
      BY <2>1, <3>2
    <3> QED
      BY <1>0, <3>1, <3>2, NoPublicationOK
  <2>3. \A l \in Levels : Told(c, l)'
    BY <1>0, <1>1, <2>1, <2>2 DEF Told, Tells
  <2> QED
    BY <2>1, <2>3 DEF Kept, Informed
<1> QED
  BY <1>3, <1>4 DEF TakeSnapshot

LEMMA StampingSnapshot ==
  ASSUME FeedInv, NEW c \in Clients, StampSnapshot(c)
  PROVE  Kept(c)' /\ Informed(c)'
<1> USE DEF handlerVars, socketVars
<1>0. /\ cpc \in [Clients -> {"idle", "snapshot", "stamp", "send"}]
      /\ cjob \in [Clients -> Snapshot \cup {NoSnapshot}] /\ cjob[c] \in Snapshot
      /\ sequence \in Nat /\ aired \subseteq Nat
  BY DEF FeedInv, WellTyped, FeedTypeOK, SnapshotRead, StampSnapshot
<1>1. /\ cpc[c] = "stamp" /\ cpc'[c] = "send"
      /\ UNCHANGED <<aired, hpc, hjob, book, heard, feed, subscribed, missed>>
  BY <1>0 DEF StampSnapshot
<1>2. cjob'[c] = [cjob[c] EXCEPT !.seq = sequence]
  BY <1>0 DEF StampSnapshot
<1>3. cjob'[c].seq = sequence /\ cjob'[c].tells = cjob[c].tells
  BY <1>0, <1>2 DEF Snapshot
<1>4. Pool(c)' = Pool(c)
  BY <1>1 DEF Pool
<1>5. \A n \in aired' : ~ (n > cjob'[c].seq)
  BY <1>0, <1>1, <1>3 DEF FeedInv, Numbered
<1>6. Kept(c)'
  BY <1>1, <1>5 DEF Kept, HasAfter
<1>7. \A l \in Levels : Told(c, l) => Told(c, l)'
  BY <1>1, <1>3, <1>4 DEF Told, Tells, WillTell
<1> QED
  BY <1>1, <1>6, <1>7 DEF FeedInv, Informed, HasSnapshot

LEMMA SendingSnapshot ==
  ASSUME FeedInv, NEW c \in Clients, SendSnapshot(c)
  PROVE  Kept(c)' /\ Informed(c)'
<1> USE DEF handlerVars, socketVars
<1>0. /\ cpc \in [Clients -> {"idle", "snapshot", "stamp", "send"}]
      /\ cjob[c] \in Snapshot /\ heard \in [Clients -> Seq(FeedMessages)] /\ subscribed[c]
  BY DEF FeedInv, WellTyped, FeedTypeOK, SnapshotRead, SendSnapshot, Entered, FeedMessages
<1>1. /\ cpc[c] = "send" /\ cpc'[c] = "idle"
      /\ UNCHANGED <<aired, hpc, hjob, book, feed, missed>>
  BY <1>0 DEF SendSnapshot
<1>2. heard[c] \in Seq(FeedMessages) /\ heard'[c] = Append(heard[c], cjob[c])
  BY <1>0 DEF SendSnapshot
<1>3. Content(heard'[c]) = Content(heard[c]) \cup {cjob[c]}
  BY <1>0, <1>2, ContentOfAppend DEF FeedMessages
<1>4. Pool(c)' = Pool(c) \cup {cjob[c]}
  BY <1>1, <1>3 DEF Pool, Content
<1>5. \A i \in LastSnapshot(c)' : heard'[c][i] = cjob[c]
  BY <1>0, <1>2, SnapshotAppended
<1>6. Kept(c)'
  <2>1. ~ missed[c] => HasAfter(c, cjob[c].seq)
    BY <1>0, <1>1 DEF FeedInv, Kept
  <2>2. ~ missed[c] => \A n \in aired' : n > cjob[c].seq => \E d \in Pool(c)' : d.seq = n
    BY <1>1, <1>4, <2>1 DEF HasAfter
  <2> QED
    BY <1>1, <1>5, <2>2 DEF Kept, HasAfter
<1>7. ASSUME NEW l \in Levels, Told(c, l)
      PROVE  Told(c, l)'
  BY <1>1, <1>4, <1>7 DEF Told, Tells, WillTell
<1>8. Informed(c)'
  BY <1>0, <1>1, <1>7 DEF FeedInv, Informed, HasSnapshot
<1> QED
  BY <1>6, <1>8

\* The sending task takes a delta: the client heard it, or did not ask for it.
LEMMA Forwarding ==
  ASSUME FeedInv, NEW c \in Clients, ForwardDelta(c)
  PROVE  Kept(c)' /\ Informed(c)'
<1> USE DEF handlerVars, socketVars
<1>0. feed \in [Clients -> Seq(Delta)] /\ heard \in [Clients -> Seq(FeedMessages)]
  BY DEF FeedInv, WellTyped, FeedTypeOK, FeedMessages
<1>1. /\ feed[c] # <<>> /\ UNCHANGED <<aired, hpc, hjob, book, subscribed, missed, cpc, cjob>>
      /\ feed'[c] = Tail(feed[c])
  BY <1>0 DEF ForwardDelta
<1>2. CASE subscribed[c]
  <2>1. heard'[c] = Append(heard[c], Head(feed[c])) /\ heard[c] \in Seq(FeedMessages)
    BY <1>0, <1>2 DEF ForwardDelta
  <2>2. Head(feed[c]) \in Delta /\ Content(feed[c]) = {Head(feed[c])} \cup Content(feed'[c])
    BY <1>0, <1>1, ContentOfTail
  <2>3. Content(heard'[c]) = Content(heard[c]) \cup {Head(feed[c])}
    BY <2>1, <2>2, ContentOfAppend DEF FeedMessages
  <2>4. Pool(c)' = Pool(c)
    BY <2>2, <2>3 DEF Pool, Content
  <2>5. /\ Snapshots(c)' = Snapshots(c) /\ LastSnapshot(c)' = LastSnapshot(c)
        /\ \A i \in LastSnapshot(c) : heard'[c][i] = heard[c][i]
    BY <2>1, <2>2, DeltaAppended
  <2>6. Kept(c)'
    BY <1>1, <2>4, <2>5 DEF FeedInv, Kept, HasAfter
  <2>7. \A l \in Levels : Told(c, l) => Told(c, l)'
    BY <1>1, <2>4 DEF Told, Tells, WillTell
  <2> QED
    BY <1>1, <2>5, <2>6, <2>7 DEF FeedInv, Informed, HasSnapshot
<1>3. CASE ~ subscribed[c]
  BY <1>1, <1>3 DEF Kept, Informed
<1> QED
  BY <1>2, <1>3

LEMMA FeedStep ==
  ASSUME FeedInv, [FeedNext]_feedVars
  PROVE  FeedInv'
<1>1. WellTyped' /\ Numbered' /\ Entered'
  BY WellTypedStep, NumberedStep, EnteredStep DEF FeedInv
<1>2. ASSUME NEW d \in Clients
      PROVE  Kept(d)' /\ Informed(d)'
  <2>1. CASE \E h \in Handlers : Handle(h)
    BY <2>1, HandlersPrepare, HandlersBroadcast DEF Handle
  <2>2. ASSUME NEW c \in Clients, Connection(c)
        PROVE  Kept(d)' /\ Informed(d)'
    <3>1. CASE d # c
      BY <2>2, <3>1, OthersConnections
    <3>2. CASE d = c /\ Unsubscribe(c)
      <4>1. ~ subscribed'[c]
        BY <3>2 DEF Unsubscribe, FeedInv, WellTyped, FeedTypeOK
      <4> QED
        BY <3>2, <4>1 DEF Kept, Informed
    <3> QED
      BY <2>2, <3>1, <3>2, Subscribing, TakingSnapshot, StampingSnapshot, SendingSnapshot,
         Forwarding DEF Connection
  <2>3. CASE UNCHANGED feedVars
    <3>1. Aside(d) /\ UNCHANGED <<aired, hpc, hjob, book>>
      BY <2>3 DEF feedVars, handlerVars, socketVars, Aside
    <3>2. \A l \in Levels : Told(d, l) => Told(d, l)'
      BY <3>1, AsideHas DEF Told, Tells, WillTell, Aside
    <3> QED
      BY <3>1, <3>2, AsideKept, AsideInformed DEF FeedInv
  <2> QED
    BY <2>1, <2>2, <2>3 DEF FeedNext
<1> QED
  BY <1>1, <1>2 DEF FeedInv

-----------------------------------------------------------------------------
\* What handlers and connections keep true between them (publish_level_delta,
\* handle_orderbook_subscribe, the sending task): the inductive invariant.
THEOREM FeedInvHolds == FeedSpec => []FeedInv
<1>1. FeedInit => FeedInv
  <2> SUFFICES ASSUME FeedInit PROVE FeedInv
    OBVIOUS
  <2>1. /\ WellTyped
    BY FeedTypeInit DEF FeedInit, WellTyped, TaleRead, SnapshotRead
  <2>2. Entered /\ Numbered
    BY DEF FeedInit, Entered, Numbered
  <2> QED
    BY <2>1, <2>2 DEF FeedInit, FeedInv, Kept, Informed
<1> QED
  BY <1>1, FeedStep, PTL DEF FeedSpec

\* The types of the book, the channel, what clients heard and the tasks' locals.
THEOREM FeedTypeCorrect == FeedSpec => []FeedTypeOK
<1>1. FeedInv => FeedTypeOK
  BY DEF FeedInv, WellTyped
<1> QED
  BY <1>1, FeedInvHolds, PTL

\* However handlers and subscriptions interleave, a client that is up to date
\* was told the present state of every level (publish_level_delta reads the
\* level after the change, handle_orderbook_subscribe reads the book after the
\* subscription).
THEOREM TruthIsTold == FeedSpec => []TruthWasTold
<1>1. FeedInv => TruthWasTold
  <2> SUFFICES ASSUME FeedInv, NEW c \in Clients, UpToDate(c), NEW l \in Levels
               PROVE  \E i \in Telling(c, l) : heard[c][i].tells[l] = book[l]
    BY DEF TruthWasTold
  <2>1. Told(c, l)
    BY DEF FeedInv, Informed, HasSnapshot, UpToDate
  <2>2. PICK m \in Content(heard[c]) : Tells(m, l)
    BY <2>1, ContentOfEmpty DEF Told, WillTell, UpToDate, Pool
  <2> QED
    BY <2>2 DEF Content, Tells, Telling, Places
<1> QED
  BY <1>1, FeedInvHolds, PTL

\* No delta numbered after the last snapshot is lost to a client whose receiver
\* did not lag (handle_orderbook_subscribe records the subscription before it
\* reads the book and takes the snapshot's number).
THEOREM NothingIsMissed == FeedSpec => []NothingMissedAfterSnapshot
<1>1. FeedInv => NothingMissedAfterSnapshot
  <2> SUFFICES ASSUME FeedInv, NEW c \in Clients, subscribed[c], ~ missed[c], cpc[c] = "idle",
                      NEW i \in LastSnapshot(c), NEW n \in aired, n > heard[c][i].seq
               PROVE  \/ \E j \in Places(c) : heard[c][j].seq = n
                      \/ \E j \in 1 .. Len(feed[c]) : feed[c][j].seq = n
    BY DEF NothingMissedAfterSnapshot
  <2>1. \E d \in Pool(c) : d.seq = n
    BY DEF FeedInv, Kept, HasAfter
  <2> QED
    BY <2>1 DEF Pool, Content, Places
<1> QED
  BY <1>1, FeedInvHolds, PTL

-----------------------------------------------------------------------------
(***************************************************************************)
(* The SDK's connection.  NothingIsLost speaks of one sequence each way,   *)
(* put together from the queue, what a task holds in its hand and what is  *)
(* on the wire.  The invariant says the same of each place on its own:     *)
(* every command and message stands at the place that its number gives it. *)
(***************************************************************************)
\* How many messages the read task holds, and commands the write task.
Held == IF reader = NoMessage THEN 0 ELSE 1
InHand == IF writer = Nothing THEN 0 ELSE 1

\* The last command that send has put on its way.
Asked == IF app = "sending" THEN sent - 1 ELSE sent

Inbound ==
  /\ \A i \in 1..Len(inbox) : inbox[i].n = got + i
  /\ reader # NoMessage => reader.n = got + Len(inbox) + 1
  /\ \A i \in 1..Len(down) : down[i].n = got + Len(inbox) + Held + i
  /\ told = got + Len(inbox) + Held + Len(down)

Outbound ==
  /\ \A i \in 1..Len(up) : up[i] = server.read + i
  /\ writer # Nothing => writer = server.read + Len(up) + 1
  /\ \A i \in 1..Len(outbox) : outbox[i] = server.read + Len(up) + InHand + i
  /\ Asked = server.read + Len(up) + InHand + Len(outbox)

\* A wire that holds has two ends.
Whole ==
  link = "up" => /\ app \in {"free", "sending"} /\ server.open
                 /\ Inbound /\ Outbound

\* A command that is being sent has a number.
Busy == app = "sending" => sent > 0

IInv == TypeOK /\ Whole /\ Busy

-----------------------------------------------------------------------------
(* Queues *)

LEMMA Appended ==
  ASSUME NEW S, NEW s \in Seq(S), NEW e \in S
  PROVE  /\ Append(s, e) \in Seq(S)
         /\ Len(s) \in Nat /\ Len(Append(s, e)) = Len(s) + 1
         /\ \A i \in 1..Len(s) : Append(s, e)[i] = s[i]
         /\ Append(s, e)[Len(s) + 1] = e
BY AppendProperties, LenProperties

LEMMA Dropped ==
  ASSUME NEW S, NEW s \in Seq(S), s # <<>>
  PROVE  /\ Head(s) \in S /\ Head(s) = s[1] /\ Tail(s) \in Seq(S)
         /\ Len(s) \in Nat \ {0} /\ Len(Tail(s)) = Len(s) - 1
         /\ \A i \in 1..Len(Tail(s)) : Tail(s)[i] = s[i + 1]
<1>1. Len(s) \in Nat \ {0}
  BY EmptySeq
<1>2. Head(s) \in S /\ Tail(s) \in Seq(S)
  BY HeadTailProperties
<1> QED
  BY <1>1, <1>2, HeadTailProperties

LEMMA Elements ==
  ASSUME NEW S, NEW s \in Seq(S)
  PROVE  Len(s) \in Nat /\ \A i \in 1..Len(s) : s[i] \in S
BY ElementOfSeq, LenProperties

LEMMA Emptied == \A S : <<>> \in Seq(S) /\ Len(<<>>) = 0
BY EmptySeq

\* What joins a numbered queue, and what is taken from it, leaves it numbered.
LEMMA CommandAppended ==
  ASSUME NEW S, NEW s \in Seq(S), NEW e \in S, NEW m \in Nat,
         \A i \in 1..Len(s) : s[i] = m + i, e = m + Len(s) + 1
  PROVE  \A i \in 1..Len(Append(s, e)) : Append(s, e)[i] = m + i
<1>1. /\ Len(s) \in Nat /\ Len(Append(s, e)) = Len(s) + 1
      /\ \A i \in 1..Len(s) : Append(s, e)[i] = s[i]
      /\ Append(s, e)[Len(s) + 1] = e
  BY Appended
<1> TAKE i \in 1..Len(Append(s, e))
<1>2. i \in 1..Len(s) \/ i = Len(s) + 1
  BY <1>1
<1>3. CASE i \in 1..Len(s)
  BY <1>1, <1>3
<1>4. CASE i = Len(s) + 1
  BY <1>1, <1>4
<1> QED
  BY <1>2, <1>3, <1>4

LEMMA MessageAppended ==
  ASSUME NEW S, NEW s \in Seq(S), NEW e \in S, NEW m \in Nat,
         \A i \in 1..Len(s) : s[i].n = m + i, e.n = m + Len(s) + 1
  PROVE  \A i \in 1..Len(Append(s, e)) : Append(s, e)[i].n = m + i
<1>1. /\ Len(s) \in Nat /\ Len(Append(s, e)) = Len(s) + 1
      /\ \A i \in 1..Len(s) : Append(s, e)[i] = s[i]
      /\ Append(s, e)[Len(s) + 1] = e
  BY Appended
<1> TAKE i \in 1..Len(Append(s, e))
<1>2. i \in 1..Len(s) \/ i = Len(s) + 1
  BY <1>1
<1>3. CASE i \in 1..Len(s)
  BY <1>1, <1>3
<1>4. CASE i = Len(s) + 1
  BY <1>1, <1>4
<1> QED
  BY <1>2, <1>3, <1>4

LEMMA CommandDropped ==
  ASSUME NEW S, NEW s \in Seq(S), s # <<>>, NEW m \in Nat,
         \A i \in 1..Len(s) : s[i] = m + i
  PROVE  Head(s) = m + 1 /\ \A i \in 1..Len(Tail(s)) : Tail(s)[i] = m + 1 + i
<1>1. /\ Head(s) = s[1] /\ Len(s) \in Nat \ {0} /\ Len(Tail(s)) = Len(s) - 1
      /\ \A i \in 1..Len(Tail(s)) : Tail(s)[i] = s[i + 1]
  BY Dropped
<1>2. Head(s) = m + 1
  BY <1>1
<1>3. ASSUME NEW i \in 1..Len(Tail(s)) PROVE Tail(s)[i] = m + 1 + i
  <2>1. i + 1 \in 1..Len(s) /\ i \in Nat
    BY <1>1
  <2>2. Tail(s)[i] = m + (i + 1)
    BY <1>1, <2>1
  <2> QED
    BY <2>1, <2>2
<1> QED
  BY <1>2, <1>3

LEMMA MessageDropped ==
  ASSUME NEW S, NEW s \in Seq(S), s # <<>>, NEW m \in Nat,
         \A i \in 1..Len(s) : s[i].n = m + i
  PROVE  Head(s).n = m + 1 /\ \A i \in 1..Len(Tail(s)) : Tail(s)[i].n = m + 1 + i
<1>1. /\ Head(s) = s[1] /\ Len(s) \in Nat \ {0} /\ Len(Tail(s)) = Len(s) - 1
      /\ \A i \in 1..Len(Tail(s)) : Tail(s)[i] = s[i + 1]
  BY Dropped
<1>2. Head(s).n = m + 1
  BY <1>1
<1>3. ASSUME NEW i \in 1..Len(Tail(s)) PROVE Tail(s)[i].n = m + 1 + i
  <2>1. i + 1 \in 1..Len(s) /\ i \in Nat
    BY <1>1
  <2>2. Tail(s)[i].n = m + (i + 1)
    BY <1>1, <2>1
  <2> QED
    BY <2>1, <2>2
<1> QED
  BY <1>2, <1>3

\* What has been numbered so far only grows.
LEMMA Widened ==
  ASSUME TypeOK, sent' \in Nat, told' \in Nat, sent' >= sent, told' >= told
  PROVE  /\ 1..sent \subseteq 1..sent' /\ Messages \subseteq Messages'
         /\ outbox \in Seq(1..sent') /\ up \in Seq(1..sent')
         /\ down \in Seq(Messages' \cup {CloseFrame}) /\ inbox \in Seq(Messages')
         /\ writer \in {Nothing, Ended} \cup 1..sent'
         /\ reader \in Messages' \cup {NoMessage, CloseFrame}
         /\ server \in [open : BOOLEAN, read : 0..sent', owes : 0..2]
         /\ known \in 0..sent' /\ got \in 0..told'
<1>0. sent \in Nat /\ told \in Nat /\ known \in 0..sent /\ got \in 0..told
  BY AheadAssumption DEF TypeOK
<1>1. 1..sent \subseteq 1..sent' /\ 0..sent \subseteq 0..sent' /\ 1..told \subseteq 1..told'
      /\ known \in 0..sent' /\ got \in 0..told'
  BY <1>0
<1>2. Messages \subseteq Messages'
  BY <1>1 DEF Messages
<1>3. /\ outbox \in Seq(1..sent') /\ up \in Seq(1..sent')
      /\ down \in Seq(Messages' \cup {CloseFrame}) /\ inbox \in Seq(Messages')
  <2>1. outbox \in Seq(1..sent) /\ up \in Seq(1..sent)
        /\ down \in Seq(Messages \cup {CloseFrame}) /\ inbox \in Seq(Messages)
    BY DEF TypeOK
  <2>2. Messages \cup {CloseFrame} \subseteq Messages' \cup {CloseFrame}
    BY <1>2
  <2> QED
    BY <1>1, <1>2, <2>1, <2>2, SeqMonotonic
<1>4. /\ writer \in {Nothing, Ended} \cup 1..sent'
      /\ reader \in Messages' \cup {NoMessage, CloseFrame}
      /\ server \in [open : BOOLEAN, read : 0..sent', owes : 0..2]
  BY <1>1, <1>2 DEF TypeOK
<1> QED
  BY <1>1, <1>2, <1>3, <1>4

\* The numbers that the invariant reckons with.
LEMMA Numbers ==
  ASSUME TypeOK
  PROVE  /\ sent \in Nat /\ told \in Nat /\ got \in Nat /\ known \in Nat /\ server.read \in Nat
         /\ Len(inbox) \in Nat /\ Len(down) \in Nat /\ Len(up) \in Nat /\ Len(outbox) \in Nat
         /\ Held \in {0, 1} /\ InHand \in {0, 1}
<1>1. sent \in Nat /\ told \in Nat /\ got \in Nat /\ known \in Nat /\ server.read \in Nat
  BY AheadAssumption DEF TypeOK
<1>2. Len(inbox) \in Nat /\ Len(down) \in Nat /\ Len(up) \in Nat /\ Len(outbox) \in Nat
  BY LenProperties DEF TypeOK
<1> QED
  BY <1>1, <1>2 DEF Held, InHand

\* A message in the queue is not the end of the stream.
LEMMA MessageNumbers ==
  ASSUME TypeOK, NEW m \in Messages
  PROVE  m.n \in Nat /\ m.n > 0 /\ m.answers \in 0..sent /\ m # NoMessage /\ m # CloseFrame
         /\ m.n \in 1..told
BY Numbers DEF Messages, NoMessage, CloseFrame, Ended

-----------------------------------------------------------------------------
(* The application *)

LEMMA AppSendStep ==
  ASSUME IInv, AppSend
  PROVE  IInv'
<1>0. TypeOK /\ sent \in Nat /\ sent' = sent + 1 /\ sent' \in 0..MaxSent /\ told' = told
      /\ told \in Nat /\ known \in Nat
  BY Numbers, AheadAssumption DEF IInv, AppSend, serverVars
<1>1. TypeOK'
  BY <1>0, Widened DEF AppSend, clientVars, serverVars, TypeOK
<1>2. Whole'
  BY <1>0 DEF IInv, Whole, Inbound, Outbound, Held, InHand, Asked, AppSend, clientVars, serverVars
<1>3. Busy'
  BY <1>0 DEF Busy
<1> QED
  BY <1>1, <1>2, <1>3 DEF IInv

LEMMA AppQueuedStep ==
  ASSUME IInv, AppQueued
  PROVE  IInv'
<1>0. /\ TypeOK /\ outbox \in Seq(1..sent) /\ sent \in 1..sent /\ sent' = sent /\ told' = told
      /\ Len(outbox) < Queue /\ outbox' = Append(outbox, sent)
  <2>1. outbox \in Seq(1..sent) /\ Len(outbox) < Queue /\ TypeOK /\ sent > 0
    BY DEF IInv, TypeOK, AppQueued, Room, Busy
  <2> QED
    BY <2>1, Numbers DEF AppQueued, serverVars
<1>1. /\ outbox' \in Seq(1..sent) /\ Len(outbox') = Len(outbox) + 1
      /\ \A i \in 1..Len(outbox) : outbox'[i] = outbox[i]
      /\ outbox'[Len(outbox) + 1] = sent
  BY <1>0, Appended
<1>2. TypeOK'
  <2>1. Len(outbox') <= Queue
    BY <1>0, <1>1, Numbers, AheadAssumption
  <2> QED
    BY <1>0, <1>1, <2>1 DEF AppQueued, TypeOK, serverVars, Messages
<1>3. Whole'
  <2> SUFFICES ASSUME link = "up" PROVE Inbound' /\ Outbound' /\ app' = "free" /\ server'.open
    BY DEF Whole, AppQueued
  <2>1. Inbound /\ Outbound /\ server.open
    BY DEF IInv, Whole
  <2>2. Inbound' /\ app' = "free" /\ server'.open
    BY <2>1 DEF AppQueued, serverVars, Inbound, Held
  <2>3. sent - 1 = server.read + Len(up) + InHand + Len(outbox)
    BY <2>1 DEF AppQueued, Outbound, Asked
  <2>4. Outbound'
    <3>1. up' = up /\ writer' = writer /\ server' = server /\ InHand' = InHand /\ Asked' = sent
      BY DEF AppQueued, serverVars, InHand, Asked
    <3>2. /\ server.read \in Nat /\ Len(up) \in Nat /\ InHand \in Nat /\ Len(outbox) \in Nat
          /\ sent \in Nat /\ Len(outbox') = Len(outbox) + 1
      BY <1>0, <1>1, Numbers
    <3>3. \A i \in 1..Len(outbox') : outbox'[i] = server.read + Len(up) + InHand + i
      <4>1. PICK m \in Nat : m = server.read + Len(up) + InHand
        BY <3>2
      <4>2. \A i \in 1..Len(outbox) : outbox[i] = m + i
        BY <2>1, <4>1 DEF Outbound
      <4>3. sent = m + Len(outbox) + 1
        BY <2>3, <3>2, <4>1
      <4>4. PICK S : S = 1..sent
        OBVIOUS
      <4>5. outbox \in Seq(S) /\ sent \in S
        BY <1>0, <4>4
      <4>6. \A i \in 1..Len(Append(outbox, sent)) : Append(outbox, sent)[i] = m + i
        BY <4>2, <4>3, <4>5, CommandAppended
      <4> QED
        BY <1>0, <4>1, <4>6
    <3>4. sent = server.read + Len(up) + InHand + Len(outbox')
      BY <2>3, <3>2
    <3> QED
      BY <2>1, <3>1, <3>3, <3>4 DEF Outbound
  <2> QED
    BY <2>2, <2>4
<1> QED
  BY <1>2, <1>3 DEF IInv, Busy, AppQueued

LEMMA AppRefusedStep ==
  ASSUME IInv, AppRefused
  PROVE  IInv'
<1>1. link # "up"
  <2>1. ASSUME link = "up" PROVE FALSE
    <3>1. writer = server.read + Len(up) + 1 /\ writer = -1
      BY <2>1 DEF IInv, Whole, Outbound, AppRefused, Ended, Nothing
    <3> QED
      BY <3>1, Numbers DEF IInv
  <2> QED
    BY <2>1
<1> QED
  BY <1>1 DEF IInv, TypeOK, Messages, Whole, Busy, AppRefused, clientVars, serverVars

LEMMA AppRecvStep ==
  ASSUME IInv, AppRecv
  PROVE  IInv'
<1>0. /\ TypeOK /\ inbox \in Seq(Messages) /\ sent' = sent /\ told' = told /\ Messages' = Messages
      /\ outbox' = outbox /\ writer' = writer /\ reader' = reader /\ up' = up /\ down' = down
      /\ server' = server /\ fed' = fed /\ link' = link /\ app = "free"
  BY DEF IInv, TypeOK, AppRecv, serverVars, Messages
<1>1. CASE inbox # <<>>
  <2>1. /\ inbox' = Tail(inbox) /\ got' = Head(inbox).n /\ app' = app
        /\ known' = IF Head(inbox).answers > known THEN Head(inbox).answers ELSE known
    BY <1>1 DEF AppRecv
  <2>2. /\ Head(inbox) \in Messages /\ Head(inbox) = inbox[1] /\ Tail(inbox) \in Seq(Messages)
        /\ Len(inbox) \in Nat \ {0} /\ Len(inbox') = Len(inbox) - 1
        /\ \A i \in 1..Len(inbox') : inbox'[i] = inbox[i + 1]
    BY <1>0, <1>1, <2>1, Dropped
  <2>3. TypeOK'
    <3>1. got' \in 0..told /\ known' \in 0..sent
      BY <1>0, <2>1, <2>2, Numbers, MessageNumbers DEF TypeOK
    <3>2. Len(inbox') <= Queue
      BY <1>0, <2>2, AheadAssumption DEF TypeOK
    <3> QED
      BY <1>0, <2>1, <2>2, <3>1, <3>2 DEF TypeOK
  <2>4. Whole'
    <3> SUFFICES ASSUME link = "up" PROVE Inbound' /\ Outbound'
      BY <1>0, <2>1 DEF IInv, Whole
    <3>1. Inbound /\ Outbound
      BY DEF IInv, Whole
    <3>2. Outbound'
      BY <1>0, <2>1, <3>1 DEF Outbound, InHand, Asked
    <3>3. got' = got + 1
      BY <2>1, <2>2, <3>1 DEF Inbound
    <3>4. Held' = Held
      BY <1>0 DEF Held
    <3>5. \A i \in 1..Len(inbox') : inbox'[i].n = got' + i
      <4>1. got \in Nat /\ \A i \in 1..Len(inbox) : inbox[i].n = got + i
        BY <1>0, <3>1, Numbers DEF Inbound
      <4> QED
        BY <1>0, <1>1, <2>1, <3>3, <4>1, MessageDropped
    <3>6. got' + Len(inbox') = got + Len(inbox)
      BY <1>0, <2>2, <3>3, Numbers
    <3> QED
      BY <1>0, <3>1, <3>2, <3>4, <3>5, <3>6 DEF Inbound
  <2> QED
    BY <1>0, <2>1, <2>3, <2>4 DEF IInv, Busy
<1>2. CASE inbox = <<>>
  <2>1. reader.n = Ended /\ app' = "closed" /\ UNCHANGED <<inbox, got, known>>
    BY <1>2 DEF AppRecv
  <2>2. link # "up"
    <3>1. ASSUME link = "up" PROVE FALSE
      <4>1. reader # NoMessage
        BY <2>1 DEF NoMessage, Ended
      <4>2. reader.n = got + Len(inbox) + 1
        BY <3>1, <4>1 DEF IInv, Whole, Inbound
      <4> QED
        BY <1>0, <2>1, <4>2, Numbers DEF Ended
    <3> QED
      BY <3>1
  <2>3. TypeOK'
    BY <1>0, <2>1 DEF TypeOK
  <2> QED
    BY <1>0, <2>1, <2>2, <2>3 DEF IInv, Whole, Busy
<1> QED
  BY <1>1, <1>2

LEMMA AppDropStep ==
  ASSUME IInv, AppDrop
  PROVE  IInv'
<1>1. TypeOK'
  BY Emptied, AheadAssumption DEF IInv, TypeOK, AppDrop, serverVars, Messages
<1> QED
  BY <1>1 DEF IInv, Whole, Busy, AppDrop

-----------------------------------------------------------------------------
(* The two tasks of the SDK *)

LEMMA WriterTakesStep ==
  ASSUME IInv, WriterTakes
  PROVE  IInv'
<1>0. /\ TypeOK /\ outbox \in Seq(1..sent) /\ outbox # <<>> /\ writer = 0
      /\ writer' = Head(outbox) /\ outbox' = Tail(outbox)
      /\ UNCHANGED <<app, sent, known, got, reader, inbox, up, down, server, told, fed, link>>
  BY DEF IInv, TypeOK, WriterTakes, appVars, serverVars, Nothing
<1>1. /\ writer' \in 1..sent /\ outbox' \in Seq(1..sent)
      /\ Len(outbox) \in Nat \ {0} /\ Len(outbox') = Len(outbox) - 1
  BY <1>0, Dropped
<1>2. writer' # 0 /\ InHand' = 1 /\ InHand = 0
  BY <1>0, <1>1, Numbers DEF InHand, Nothing
<1>3. TypeOK'
  BY <1>0, <1>1, AheadAssumption DEF TypeOK, Messages
<1>4. Whole'
  <2> SUFFICES ASSUME link = "up" PROVE Inbound' /\ Outbound'
    BY <1>0 DEF IInv, Whole
  <2>1. Inbound /\ Outbound
    BY DEF IInv, Whole
  <2>2. Inbound'
    BY <1>0, <2>1 DEF Inbound, Held
  <2>3. Outbound'
    <3>1. PICK m \in Nat : m = server.read + Len(up)
      BY <1>0, Numbers
    <3>2. \A i \in 1..Len(outbox) : outbox[i] = m + i
      BY <1>2, <2>1, <3>1 DEF Outbound
    <3>3. writer' = m + 1 /\ \A i \in 1..Len(outbox') : outbox'[i] = m + 1 + i
      <4>1. PICK S : S = 1..sent
        OBVIOUS
      <4>2. outbox \in Seq(S)
        BY <1>0, <4>1
      <4> QED
        BY <1>0, <3>2, <4>2, CommandDropped
    <3>4. Asked' = m + 1 + Len(outbox')
      <4>1. Asked' = Asked
        BY <1>0 DEF Asked
      <4>2. Asked = m + Len(outbox)
        BY <1>1, <1>2, <2>1, <3>1 DEF Outbound
      <4> QED
        BY <1>1, <4>1, <4>2
    <3>5. \A i \in 1..Len(up') : up'[i] = server'.read + i
      BY <1>0, <2>1 DEF Outbound
    <3> QED
      BY <1>0, <1>2, <3>1, <3>3, <3>4, <3>5 DEF Outbound
  <2> QED
    BY <2>2, <2>3
<1> QED
  BY <1>0, <1>3, <1>4 DEF IInv, Busy

LEMMA WriterWritesStep ==
  ASSUME IInv, WriterWrites
  PROVE  IInv'
<1>0. /\ TypeOK /\ up \in Seq(1..sent) /\ writer \in 1..sent /\ writer # 0
      /\ writer' = 0 /\ up' = Append(up, writer) /\ Len(up) < Wire
      /\ UNCHANGED <<app, sent, known, got, reader, inbox, outbox, down, server, told, fed, link>>
  BY DEF IInv, TypeOK, WriterWrites, appVars, serverVars, Nothing, Ended
<1>1. up' \in Seq(1..sent) /\ Len(up') = Len(up) + 1 /\ Len(up) \in Nat
  BY <1>0, Appended
<1>2. InHand' = 0 /\ InHand = 1
  BY <1>0 DEF InHand, Nothing
<1>3. TypeOK'
  <2>1. Len(up') <= Wire
    BY <1>0, <1>1, AheadAssumption
  <2> QED
    BY <1>0, <1>1, <2>1 DEF TypeOK, Messages, Nothing
<1>4. Whole'
  <2> SUFFICES ASSUME link = "up" PROVE Inbound' /\ Outbound'
    BY <1>0 DEF IInv, Whole
  <2>1. Inbound /\ Outbound
    BY DEF IInv, Whole
  <2>2. Inbound'
    BY <1>0, <2>1 DEF Inbound, Held
  <2>3. Outbound'
    <3>1. PICK m \in Nat : m = server.read
      BY <1>0, Numbers
    <3>2. \A i \in 1..Len(up') : up'[i] = m + i
      <4>1. (\A i \in 1..Len(up) : up[i] = m + i) /\ writer = m + Len(up) + 1
        BY <1>0, <2>1, <3>1 DEF Outbound, Nothing
      <4>2. PICK S : S = 1..sent
        OBVIOUS
      <4>3. up \in Seq(S) /\ writer \in S
        BY <1>0, <4>2
      <4>4. \A i \in 1..Len(Append(up, writer)) : Append(up, writer)[i] = m + i
        BY <4>1, <4>3, CommandAppended
      <4> QED
        BY <1>0, <4>4
    <3>3. \A i \in 1..Len(outbox') : outbox'[i] = m + Len(up') + 0 + i
      <4>1. \A i \in 1..Len(outbox) : outbox[i] = m + Len(up) + 1 + i
        BY <1>2, <2>1, <3>1 DEF Outbound
      <4> QED
        BY <1>0, <1>1, <4>1
    <3>4. Asked' = m + Len(up') + 0 + Len(outbox')
      <4>1. Asked' = Asked /\ Len(outbox) \in Nat
        BY <1>0, Numbers DEF Asked
      <4>2. Asked = m + Len(up) + 1 + Len(outbox)
        BY <1>2, <2>1, <3>1 DEF Outbound
      <4> QED
        BY <1>0, <1>1, <4>1, <4>2
    <3> QED
      BY <1>0, <1>2, <3>1, <3>2, <3>3, <3>4 DEF Outbound, Nothing
  <2> QED
    BY <2>2, <2>3
<1> QED
  BY <1>0, <1>3, <1>4 DEF IInv, Busy

LEMMA WriterFailsStep ==
  ASSUME IInv, WriterFails
  PROVE  IInv'
BY Emptied, AheadAssumption
   DEF IInv, TypeOK, Messages, Whole, Busy, WriterFails, appVars, serverVars

\* The SDK parses every message that the server may write.
LEMMA EveryMessageParses == ServerMessages = WsMessage
BY DEF ServerMessages, WsMessage

LEMMA ReaderTakesStep ==
  ASSUME IInv, ReaderTakes
  PROVE  IInv'
<1>0. /\ TypeOK /\ down \in Seq(Messages \cup {CloseFrame}) /\ down # <<>> /\ reader = NoMessage
      /\ reader' = Head(down) /\ down' = Tail(down)
      /\ UNCHANGED <<app, sent, known, got, writer, inbox, outbox, up, server, told, fed, link>>
  BY EveryMessageParses DEF IInv, TypeOK, ReaderTakes, appVars, serverVars
<1>1. /\ reader' \in Messages \cup {CloseFrame} /\ down' \in Seq(Messages \cup {CloseFrame})
      /\ Len(down) \in Nat \ {0} /\ Len(down') = Len(down) - 1
  BY <1>0, Dropped
<1>2. TypeOK'
  <2>1. Len(down') <= Wire
    BY <1>0, <1>1, AheadAssumption DEF TypeOK
  <2> QED
    BY <1>0, <1>1, <2>1 DEF TypeOK, Messages
<1>3. Whole'
  <2> SUFFICES ASSUME link = "up" PROVE Inbound' /\ Outbound'
    BY <1>0 DEF IInv, Whole
  <2>1. Inbound /\ Outbound
    BY DEF IInv, Whole
  <2>2. Outbound'
    BY <1>0, <2>1 DEF Outbound, InHand, Asked
  <2>3. Inbound'
    <3>1. PICK m \in Nat : m = got + Len(inbox)
      BY <1>0, Numbers
    <3>2. \A i \in 1..Len(down) : down[i].n = m + i
      BY <1>0, <2>1, <3>1 DEF Inbound, Held
    <3>3. reader'.n = m + 1 /\ \A i \in 1..Len(down') : down'[i].n = m + 1 + i
      <4>1. PICK S : S = Messages \cup {CloseFrame}
        OBVIOUS
      <4>2. down \in Seq(S)
        BY <1>0, <4>1
      <4> QED
        BY <1>0, <3>2, <4>2, MessageDropped
    <3>4. Held' = 1
      BY <3>3 DEF Held, NoMessage
    <3>5. told' = m + 1 + Len(down')
      <4>1. told = m + 0 + Len(down)
        BY <1>0, <2>1, <3>1 DEF Inbound, Held
      <4> QED
        BY <1>0, <1>1, <4>1
    <3>6. \A i \in 1..Len(inbox') : inbox'[i].n = got' + i
      BY <1>0, <2>1 DEF Inbound
    <3> QED
      BY <1>0, <3>1, <3>3, <3>4, <3>5, <3>6 DEF Inbound
  <2> QED
    BY <2>2, <2>3
<1> QED
  BY <1>0, <1>2, <1>3 DEF IInv, Busy

LEMMA ReaderHandsStep ==
  ASSUME IInv, ReaderHands
  PROVE  IInv'
<1>0. /\ TypeOK /\ inbox \in Seq(Messages) /\ reader \in Messages /\ reader # NoMessage
      /\ reader' = NoMessage /\ inbox' = Append(inbox, reader) /\ Len(inbox) < Queue
      /\ UNCHANGED <<app, sent, known, got, writer, down, outbox, up, server, told, fed, link>>
  BY DEF IInv, TypeOK, ReaderHands, Room, appVars, serverVars, NoMessage, CloseFrame, Ended
<1>1. inbox' \in Seq(Messages) /\ Len(inbox') = Len(inbox) + 1 /\ Len(inbox) \in Nat
  BY <1>0, Appended
<1>2. Held' = 0 /\ Held = 1
  BY <1>0 DEF Held
<1>3. TypeOK'
  <2>1. Len(inbox') <= Queue
    BY <1>0, <1>1, AheadAssumption
  <2> QED
    BY <1>0, <1>1, <2>1 DEF TypeOK, Messages
<1>4. Whole'
  <2> SUFFICES ASSUME link = "up" PROVE Inbound' /\ Outbound'
    BY <1>0 DEF IInv, Whole
  <2>1. Inbound /\ Outbound
    BY DEF IInv, Whole
  <2>2. Outbound'
    BY <1>0, <2>1 DEF Outbound, InHand, Asked
  <2>3. Inbound'
    <3>1. PICK m \in Nat : m = got
      BY <1>0, Numbers
    <3>2. \A i \in 1..Len(inbox') : inbox'[i].n = m + i
      <4>1. (\A i \in 1..Len(inbox) : inbox[i].n = m + i) /\ reader.n = m + Len(inbox) + 1
        BY <1>0, <2>1, <3>1 DEF Inbound
      <4>2. inbox \in Seq(Messages) /\ reader \in Messages
        BY <1>0
      <4>3. \A i \in 1..Len(Append(inbox, reader)) : Append(inbox, reader)[i].n = m + i
        BY <4>1, <4>2, MessageAppended
      <4> QED
        BY <1>0, <4>3
    <3>3. \A i \in 1..Len(down') : down'[i].n = m + Len(inbox') + 0 + i
      <4>1. \A i \in 1..Len(down) : down[i].n = m + Len(inbox) + 1 + i
        BY <1>2, <2>1, <3>1 DEF Inbound
      <4> QED
        BY <1>0, <1>1, <4>1
    <3>4. told' = m + Len(inbox') + 0 + Len(down')
      <4>1. told = m + Len(inbox) + 1 + Len(down) /\ Len(down) \in Nat
        BY <1>0, <1>2, <2>1, <3>1, Numbers DEF Inbound
      <4> QED
        BY <1>0, <1>1, <4>1
    <3> QED
      BY <1>0, <1>2, <3>1, <3>2, <3>3, <3>4 DEF Inbound
  <2> QED
    BY <2>2, <2>3
<1> QED
  BY <1>0, <1>3, <1>4 DEF IInv, Busy

LEMMA ReaderFailsStep ==
  ASSUME IInv, ReaderFails
  PROVE  IInv'
BY Emptied, AheadAssumption
   DEF IInv, TypeOK, Messages, Whole, Busy, ReaderFails, appVars, serverVars

-----------------------------------------------------------------------------
(* The server *)

\* What the server's part of a step makes of its record.
LEMMA ServerAfter ==
  ASSUME NEW R, NEW s \in [open : BOOLEAN, read : R, owes : 0..2]
  PROVE  /\ \A r \in R, n \in 0..2 :
              LET t == [s EXCEPT !.read = r, !.owes = n]
              IN  t \in [open : BOOLEAN, read : R, owes : 0..2] /\ t.read = r /\ t.open = s.open
         /\ [s EXCEPT !.open = FALSE, !.owes = 0] \in [open : BOOLEAN, read : R, owes : 0..2]
         /\ s.owes > 0 =>
              LET t == [s EXCEPT !.owes = @ - 1]
              IN  /\ t \in [open : BOOLEAN, read : R, owes : 0..2]
                  /\ t.read = s.read /\ t.open = s.open
<1>1. ASSUME NEW r \in R, NEW n \in 0..2
      PROVE  LET t == [s EXCEPT !.read = r, !.owes = n]
             IN  t \in [open : BOOLEAN, read : R, owes : 0..2] /\ t.read = r /\ t.open = s.open
  OBVIOUS
<1>2. [s EXCEPT !.open = FALSE, !.owes = 0] \in [open : BOOLEAN, read : R, owes : 0..2]
  <2>1. 0 \in 0..2
    OBVIOUS
  <2> QED
    BY <2>1, Zenon
<1>3. ASSUME s.owes > 0
      PROVE  LET t == [s EXCEPT !.owes = @ - 1]
             IN  /\ t \in [open : BOOLEAN, read : R, owes : 0..2]
                 /\ t.read = s.read /\ t.open = s.open
  <2>1. s.owes - 1 \in 0..2
    BY <1>3
  <2> QED
    BY <2>1
<1> QED
  BY <1>1, <1>2, <1>3

\* What the server writes joins what is on its way to the application.
LEMMA Written ==
  ASSUME IInv, Len(down) < Wire, NEW m, m.n = told + 1, m.answers \in 0..sent,
         m \in [n : Nat, answers : Nat], told' = told + 1, down' = Append(down, m),
         UNCHANGED <<app, sent, known, got, writer, reader, inbox, outbox, up, link>>,
         server' \in [open : {TRUE}, read : {server.read}, owes : 0..2],
         fed' \in 0..MaxFed
  PROVE  IInv'
<1>1. TypeOK /\ sent \in Nat /\ told \in Nat /\ told' \in Nat
  BY Numbers DEF IInv
<1>2. m \in Messages'
  BY <1>1 DEF Messages
<1>3. /\ outbox' \in Seq(1..sent') /\ up' \in Seq(1..sent')
      /\ down \in Seq(Messages' \cup {CloseFrame}) /\ inbox' \in Seq(Messages')
      /\ reader' \in Messages' \cup {NoMessage, CloseFrame} /\ got' \in 0..told'
  BY <1>1, Widened
<1>4. /\ down' \in Seq(Messages' \cup {CloseFrame}) /\ Len(down') = Len(down) + 1
      /\ Len(down) \in Nat
  <2>1. PICK S : S = Messages' \cup {CloseFrame}
    OBVIOUS
  <2>2. m \in S /\ down \in Seq(S)
    BY <1>2, <1>3, <2>1
  <2> QED
    BY <2>1, <2>2, Appended
<1>5. TypeOK'
  <2>1. Len(down') <= Wire
    BY <1>4, AheadAssumption
  <2>2. server' \in [open : BOOLEAN, read : 0..sent', owes : 0..2]
    BY <1>1 DEF TypeOK
  <2> QED
    BY <1>1, <1>3, <1>4, <2>1, <2>2 DEF TypeOK
<1>6. Whole'
  <2> SUFFICES ASSUME link = "up" PROVE Inbound' /\ Outbound' /\ server'.open
    BY DEF IInv, Whole
  <2>1. Inbound /\ Outbound
    BY DEF IInv, Whole
  <2>2. Outbound'
    BY <2>1 DEF Outbound, InHand, Asked
  <2>3. Inbound'
    <3>1. PICK k \in Nat : k = got + Len(inbox) + Held
      BY <1>1, Numbers
    <3>2. (\A i \in 1..Len(down) : down[i].n = k + i) /\ told = k + Len(down)
      BY <2>1, <3>1 DEF Inbound
    <3>3. \A i \in 1..Len(down') : down'[i].n = k + i
      <4>1. m.n = k + Len(down) + 1
        BY <3>2
      <4>2. PICK S : S = Messages' \cup {CloseFrame}
        OBVIOUS
      <4>3. m \in S /\ down \in Seq(S)
        BY <1>2, <1>3, <4>2
      <4>4. \A i \in 1..Len(Append(down, m)) : Append(down, m)[i].n = k + i
        BY <3>2, <4>1, <4>3, MessageAppended
      <4> QED
        BY <4>4
    <3>4. told' = k + Len(down')
      BY <1>4, <3>2
    <3>5. Held' = Held
      BY DEF Held
    <3> QED
      BY <2>1, <3>1, <3>3, <3>4, <3>5 DEF Inbound
  <2> QED
    BY <2>2, <2>3
<1> QED
  BY <1>5, <1>6 DEF IInv, Busy

LEMMA ServerFeedStep ==
  ASSUME IInv, ServerFeed
  PROVE  IInv'
<1>1. TypeOK /\ sent \in Nat /\ told \in Nat /\ server.open
      /\ server \in [open : BOOLEAN, read : 0..sent, owes : 0..2]
  BY Numbers DEF IInv, TypeOK, ServerFeed
<1>2. fed' \in 0..MaxFed
  BY AheadAssumption DEF IInv, TypeOK, ServerFeed
<1>3. server' \in [open : {TRUE}, read : {server.read}, owes : 0..2]
  BY <1>1 DEF ServerFeed
<1>4. PICK m : m = [n |-> told + 1, answers |-> 0]
  OBVIOUS
<1>5. m.n = told + 1 /\ m.answers \in 0..sent /\ m \in [n : Nat, answers : Nat]
  BY <1>1, <1>4
<1>6. /\ Len(down) < Wire /\ told' = told + 1 /\ down' = Append(down, m)
      /\ UNCHANGED <<app, sent, known, got, writer, reader, inbox, outbox, up, link>>
  BY <1>4 DEF ServerFeed, appVars, clientVars
<1> QED
  BY <1>2, <1>3, <1>5, <1>6, Written

LEMMA ServerAnswersStep ==
  ASSUME IInv, ServerAnswers
  PROVE  IInv'
<1>1. TypeOK /\ sent \in Nat /\ told \in Nat /\ server.open /\ server.read \in 0..sent
      /\ server \in [open : BOOLEAN, read : 0..sent, owes : 0..2] /\ server.owes > 0
  BY Numbers DEF IInv, TypeOK, ServerAnswers
<1>2. fed' \in 0..MaxFed
  BY DEF IInv, TypeOK, ServerAnswers
<1>3. server' \in [open : {TRUE}, read : {server.read}, owes : 0..2]
  <2>1. PICK R : R = 0..sent
    OBVIOUS
  <2>2. server \in [open : BOOLEAN, read : R, owes : 0..2] /\ server.owes > 0
    BY <1>1, <2>1
  <2>3. server' = [server EXCEPT !.owes = @ - 1]
    BY DEF ServerAnswers
  <2>4. /\ server' \in [open : BOOLEAN, read : R, owes : 0..2]
        /\ server'.read = server.read /\ server'.open = server.open
    BY <2>2, <2>3, ServerAfter
  <2>5. server'.open = TRUE
    BY <1>1, <2>2, <2>4
  <2> QED
    BY <2>4, <2>5
<1>4. PICK m : m = [n |-> told + 1, answers |-> server.read]
  OBVIOUS
<1>5. m.n = told + 1 /\ m.answers \in 0..sent /\ m \in [n : Nat, answers : Nat]
  BY <1>1, <1>4
<1>6. /\ Len(down) < Wire /\ told' = told + 1 /\ down' = Append(down, m)
      /\ UNCHANGED <<app, sent, known, got, writer, reader, inbox, outbox, up, link>>
  BY <1>4 DEF ServerAnswers, appVars, clientVars
<1> QED
  BY <1>2, <1>3, <1>5, <1>6, Written

LEMMA ServerReadsStep ==
  ASSUME IInv, ServerReads
  PROVE  IInv'
<1>0. /\ TypeOK /\ up \in Seq(1..sent) /\ up # <<>> /\ server.open
      /\ server \in [open : BOOLEAN, read : 0..sent, owes : 0..2]
      /\ up' = Tail(up)
      /\ UNCHANGED <<app, sent, known, got, writer, reader, inbox, outbox, down, told, fed, link>>
  BY DEF IInv, TypeOK, ServerReads, appVars, clientVars
<1>1. /\ Head(up) \in 1..sent /\ up' \in Seq(1..sent)
      /\ Len(up) \in Nat \ {0} /\ Len(up') = Len(up) - 1
  BY <1>0, Dropped
<1>2. PICK n \in 0..2 : server' = [server EXCEPT !.read = Head(up), !.owes = n]
  <2>1. \A c \in DOMAIN ClientCommand : ClientCommand[c] \subseteq 0..2
    BY DEF ClientCommand
  <2> QED
    BY <2>1 DEF ServerReads
<1>3. server'.open /\ server'.read = Head(up)
      /\ server' \in [open : BOOLEAN, read : 0..sent, owes : 0..2]
  <2>1. PICK R : R = 0..sent
    OBVIOUS
  <2>2. server \in [open : BOOLEAN, read : R, owes : 0..2] /\ Head(up) \in R /\ n \in 0..2
    BY <1>0, <1>1, <2>1, Numbers
  <2>3. /\ server' \in [open : BOOLEAN, read : R, owes : 0..2]
        /\ server'.read = Head(up) /\ server'.open = server.open
    BY <1>2, <2>2, ServerAfter
  <2> QED
    BY <1>0, <2>1, <2>3
<1>4. TypeOK'
  <2>1. Len(up') <= Wire
    BY <1>0, <1>1, AheadAssumption DEF TypeOK
  <2> QED
    BY <1>0, <1>1, <1>3, <2>1 DEF TypeOK, Messages
<1>5. Whole'
  <2> SUFFICES ASSUME link = "up" PROVE Inbound' /\ Outbound'
    BY <1>0, <1>3 DEF IInv, Whole
  <2>1. Inbound /\ Outbound
    BY DEF IInv, Whole
  <2>2. Inbound'
    BY <1>0, <2>1 DEF Inbound, Held
  <2>3. Outbound'
    <3>1. PICK m \in Nat : m = server.read
      BY <1>0, Numbers
    <3>2. Head(up) = m + 1 /\ \A i \in 1..Len(up') : up'[i] = m + 1 + i
      <4>1. \A i \in 1..Len(up) : up[i] = m + i
        BY <2>1, <3>1 DEF Outbound
      <4>2. PICK S : S = 1..sent
        OBVIOUS
      <4>3. up \in Seq(S)
        BY <1>0, <4>2
      <4> QED
        BY <1>0, <4>1, <4>3, CommandDropped
    <3>3. server'.read + Len(up') = m + Len(up)
      BY <1>1, <1>3, <3>2
    <3>4. InHand' = InHand /\ Asked' = Asked
      BY <1>0 DEF InHand, Asked
    <3>5. writer' # Nothing => writer' = server'.read + Len(up') + 1
      BY <1>0, <2>1, <3>1, <3>3 DEF Outbound
    <3>6. \A i \in 1..Len(outbox') : outbox'[i] = server'.read + Len(up') + InHand' + i
      BY <1>0, <2>1, <3>1, <3>3, <3>4 DEF Outbound
    <3>7. Asked' = server'.read + Len(up') + InHand' + Len(outbox')
      BY <1>0, <2>1, <3>1, <3>3, <3>4 DEF Outbound
    <3> QED
      BY <1>3, <3>2, <3>5, <3>6, <3>7 DEF Outbound
  <2> QED
    BY <2>2, <2>3
<1> QED
  BY <1>0, <1>4, <1>5 DEF IInv, Busy

LEMMA ServerClosesStep ==
  ASSUME IInv, ServerCloses
  PROVE  IInv'
<1>0. /\ TypeOK /\ sent' = sent /\ told' = told /\ link' \in {"closing", "broken"}
      /\ UNCHANGED <<app, known, got, writer, reader, inbox, outbox, up, fed>>
  BY DEF IInv, ServerCloses, appVars, clientVars
<1>1. down' \in Seq(Messages \cup {CloseFrame}) /\ Len(down') <= Wire
  <2>1. down \in Seq(Messages \cup {CloseFrame}) /\ Len(down) <= Wire
    BY <1>0 DEF TypeOK
  <2>2. CASE link = "up" /\ Len(down) < Wire
    <3>1. PICK S : S = Messages \cup {CloseFrame}
      OBVIOUS
    <3>2. down \in Seq(S) /\ CloseFrame \in S
      BY <2>1, <3>1
    <3>3. down' = Append(down, CloseFrame)
      BY <2>2 DEF ServerCloses
    <3>4. Len(down') = Len(down) + 1 /\ down' \in Seq(S) /\ Len(down) \in Nat
      BY <3>2, <3>3, Appended
    <3> QED
      BY <2>2, <3>1, <3>4, AheadAssumption
  <2>3. CASE ~(link = "up" /\ Len(down) < Wire)
    BY <2>1, <2>3 DEF ServerCloses
  <2> QED
    BY <2>2, <2>3
<1>2. TypeOK'
  <2>1. server' \in [open : BOOLEAN, read : 0..sent, owes : 0..2]
    BY <1>0, ServerAfter DEF ServerCloses, TypeOK
  <2> QED
    BY <1>0, <1>1, <2>1 DEF TypeOK, Messages
<1> QED
  BY <1>0, <1>2 DEF IInv, Whole, Busy

LEMMA ServerLosesStep ==
  ASSUME IInv, ServerLoses
  PROVE  IInv'
<1>1. server' \in [open : BOOLEAN, read : 0..sent, owes : 0..2]
  BY ServerAfter DEF IInv, TypeOK, ServerLoses
<1> QED
  BY <1>1 DEF IInv, TypeOK, Messages, Whole, Busy, ServerLoses, appVars, clientVars

LEMMA LinkBreaksStep ==
  ASSUME IInv, LinkBreaks
  PROVE  IInv'
BY DEF IInv, TypeOK, Messages, Whole, Busy, LinkBreaks, appVars, clientVars, serverVars

-----------------------------------------------------------------------------
(* The invariant *)

LEMMA InvInit == Init => IInv
<1> SUFFICES ASSUME Init PROVE IInv
  OBVIOUS
<1>1. TypeOK
  BY Emptied, AheadAssumption DEF Init, TypeOK, Messages
<1>2. Whole
  BY Emptied DEF Init, Whole, Inbound, Outbound, Held, InHand, Asked
<1> QED
  BY <1>1, <1>2 DEF Init, IInv, Busy

LEMMA InvNext == IInv /\ [Next]_vars => IInv'
<1> SUFFICES ASSUME IInv, [Next]_vars PROVE IInv'
  OBVIOUS
<1>1. CASE AppSend \/ AppQueued \/ AppRefused \/ AppRecv \/ AppDrop
  BY <1>1, AppSendStep, AppQueuedStep, AppRefusedStep, AppRecvStep, AppDropStep
<1>2. CASE WriterTakes \/ WriterWrites \/ WriterFails
  BY <1>2, WriterTakesStep, WriterWritesStep, WriterFailsStep
<1>3. CASE ReaderTakes \/ ReaderHands \/ ReaderFails
  BY <1>3, ReaderTakesStep, ReaderHandsStep, ReaderFailsStep
<1>4. CASE ServerFeed \/ ServerReads \/ ServerAnswers \/ ServerCloses \/ ServerLoses
  BY <1>4, ServerFeedStep, ServerReadsStep, ServerAnswersStep, ServerClosesStep, ServerLosesStep
<1>5. CASE LinkBreaks
  BY <1>5, LinkBreaksStep
<1>6. CASE UNCHANGED vars
  BY <1>6 DEF vars, IInv, TypeOK, Messages, Whole, Busy, Inbound, Outbound, Held, InHand, Asked
<1> QED
  BY <1>1, <1>2, <1>3, <1>4, <1>5, <1>6 DEF Next

LEMMA InvHolds == Spec => []IInv
BY InvInit, InvNext, PTL DEF Spec

\* The queues, the wires and the hands of the tasks hold what their types say,
\* and no more than their capacities.
THEOREM TypeCorrect == Spec => []TypeOK
<1>1. IInv => TypeOK
  BY DEF IInv
<1> QED
  BY <1>1, InvHolds, PTL

-----------------------------------------------------------------------------
(* Three stretches of the way, put end to end *)

LEMMA Joined ==
  ASSUME NEW S, NEW a \in Seq(S), NEW b \in Seq(S), NEW c \in Seq(S)
  PROVE  /\ Len(a) \in Nat /\ Len(b) \in Nat /\ Len(c) \in Nat
         /\ a \o b \o c \in Seq(S) /\ Len(a \o b \o c) = Len(a) + Len(b) + Len(c)
         /\ \A i \in 1..Len(a) : (a \o b \o c)[i] = a[i]
         /\ \A i \in 1..Len(b) : (a \o b \o c)[Len(a) + i] = b[i]
         /\ \A i \in 1..Len(c) : (a \o b \o c)[Len(a) + Len(b) + i] = c[i]
<1>0. Len(a) \in Nat /\ Len(b) \in Nat /\ Len(c) \in Nat
  BY LenProperties
<1>1. /\ a \o b \in Seq(S) /\ Len(a \o b) = Len(a) + Len(b)
      /\ \A i \in 1..Len(a) + Len(b) :
            (a \o b)[i] = IF i <= Len(a) THEN a[i] ELSE b[i - Len(a)]
  BY ConcatProperties
<1>2. PICK d \in Seq(S) : d = a \o b
  BY <1>1
<1>3. /\ d \o c \in Seq(S) /\ Len(d \o c) = Len(d) + Len(c)
      /\ \A i \in 1..Len(d) + Len(c) :
            (d \o c)[i] = IF i <= Len(d) THEN d[i] ELSE c[i - Len(d)]
  BY ConcatProperties
<1>4. Len(d) = Len(a) + Len(b)
  BY <1>1, <1>2
<1>5. ASSUME NEW i \in 1..Len(a) PROVE (d \o c)[i] = a[i]
  BY <1>0, <1>1, <1>2, <1>3, <1>4
<1>6. ASSUME NEW i \in 1..Len(b) PROVE (d \o c)[Len(a) + i] = b[i]
  <2>1. /\ Len(a) + i \in 1..Len(a) + Len(b) /\ ~(Len(a) + i <= Len(a))
        /\ (Len(a) + i) - Len(a) = i /\ Len(a) + i <= Len(d)
        /\ Len(a) + i \in 1..Len(d) + Len(c)
    BY <1>0, <1>4
  <2>2. (d \o c)[Len(a) + i] = d[Len(a) + i] /\ d[Len(a) + i] = b[i]
    BY <1>1, <1>2, <1>3, <2>1
  <2> QED
    BY <2>2
<1>7. ASSUME NEW i \in 1..Len(c) PROVE (d \o c)[Len(a) + Len(b) + i] = c[i]
  <2>1. /\ Len(d) + i \in 1..Len(d) + Len(c) /\ ~(Len(d) + i <= Len(d))
        /\ (Len(d) + i) - Len(d) = i
    BY <1>0, <1>4
  <2>2. (d \o c)[Len(d) + i] = c[i]
    BY <1>3, <2>1
  <2> QED
    BY <1>4, <2>2
<1> QED
  BY <1>0, <1>2, <1>3, <1>4, <1>5, <1>6, <1>7

\* A place of the whole is a place of one of the three.
LEMMA OneOfThree ==
  ASSUME NEW x \in Nat, NEW y \in Nat, NEW z \in Nat, NEW i \in 1..x + y + z
  PROVE  \/ i \in 1..x
         \/ \E j \in 1..y : i = x + j
         \/ \E j \in 1..z : i = x + y + j
<1>1. CASE i <= x
  BY <1>1
<1>2. CASE i > x /\ i <= x + y
  <2>1. i - x \in 1..y /\ i = x + (i - x)
    BY <1>2
  <2> QED
    BY <2>1
<1>3. CASE i > x + y
  <2>1. i - (x + y) \in 1..z /\ i = x + y + (i - (x + y))
    BY <1>3
  <2> QED
    BY <2>1
<1> QED
  BY <1>1, <1>2, <1>3

\* What a task holds, as a stretch of the way.
LEMMA InOneHand ==
  ASSUME NEW S, NEW e \in S
  PROVE  <<e>> \in Seq(S) /\ Len(<<e>>) = 1 /\ \A i \in 1..Len(<<e>>) : i = 1 /\ <<e>>[i] = e
OBVIOUS

\* Three numbered stretches, each of which begins where the one before it ends,
\* are one numbered sequence.
LEMMA NumberedAllAlong ==
  ASSUME NEW S, NEW a \in Seq(S), NEW b \in Seq(S), NEW c \in Seq(S), NEW m \in Nat,
         \A i \in 1..Len(a) : a[i] = m + i,
         \A i \in 1..Len(b) : b[i] = m + Len(a) + i,
         \A i \in 1..Len(c) : c[i] = m + Len(a) + Len(b) + i
  PROVE  Follows(a \o b \o c, m, m + Len(a) + Len(b) + Len(c))
<1>1. /\ Len(a) \in Nat /\ Len(b) \in Nat /\ Len(c) \in Nat
      /\ Len(a \o b \o c) = Len(a) + Len(b) + Len(c)
      /\ \A i \in 1..Len(a) : (a \o b \o c)[i] = a[i]
      /\ \A i \in 1..Len(b) : (a \o b \o c)[Len(a) + i] = b[i]
      /\ \A i \in 1..Len(c) : (a \o b \o c)[Len(a) + Len(b) + i] = c[i]
  BY Joined
<1>2. PICK w : w = a \o b \o c
  OBVIOUS
<1>3. ASSUME NEW i \in 1..Len(w) PROVE w[i] = m + i
  <2>1. \/ i \in 1..Len(a)
        \/ \E j \in 1..Len(b) : i = Len(a) + j
        \/ \E j \in 1..Len(c) : i = Len(a) + Len(b) + j
    <3>1. i \in 1..Len(a) + Len(b) + Len(c)
      BY <1>1, <1>2
    <3> QED
      BY <1>1, <3>1, OneOfThree
  <2>2. CASE i \in 1..Len(a)
    BY <1>1, <1>2, <2>2
  <2>3. ASSUME NEW j \in 1..Len(b), i = Len(a) + j PROVE w[i] = m + i
    BY <1>1, <1>2, <2>3
  <2>4. ASSUME NEW j \in 1..Len(c), i = Len(a) + Len(b) + j PROVE w[i] = m + i
    BY <1>1, <1>2, <2>4
  <2> QED
    BY <2>1, <2>2, <2>3, <2>4
<1>4. Len(w) = (m + Len(a) + Len(b) + Len(c)) - m
  BY <1>1, <1>2
<1> QED
  BY <1>2, <1>3, <1>4 DEF Follows

\* The same of messages, by the numbers they bear.
LEMMA MessagesAllAlong ==
  ASSUME NEW S, NEW a \in Seq(S), NEW b \in Seq(S), NEW c \in Seq(S), NEW m \in Nat,
         \A i \in 1..Len(a) : a[i].n = m + i,
         \A i \in 1..Len(b) : b[i].n = m + Len(a) + i,
         \A i \in 1..Len(c) : c[i].n = m + Len(a) + Len(b) + i
  PROVE  LET way == a \o b \o c
         IN  Follows([i \in 1..Len(way) |-> way[i].n], m, m + Len(a) + Len(b) + Len(c))
<1>1. /\ Len(a) \in Nat /\ Len(b) \in Nat /\ Len(c) \in Nat
      /\ Len(a \o b \o c) = Len(a) + Len(b) + Len(c)
      /\ \A i \in 1..Len(a) : (a \o b \o c)[i] = a[i]
      /\ \A i \in 1..Len(b) : (a \o b \o c)[Len(a) + i] = b[i]
      /\ \A i \in 1..Len(c) : (a \o b \o c)[Len(a) + Len(b) + i] = c[i]
  BY Joined
<1>2. PICK w : w = a \o b \o c
  OBVIOUS
<1>3. ASSUME NEW i \in 1..Len(w) PROVE w[i].n = m + i
  <2>1. \/ i \in 1..Len(a)
        \/ \E j \in 1..Len(b) : i = Len(a) + j
        \/ \E j \in 1..Len(c) : i = Len(a) + Len(b) + j
    <3>1. i \in 1..Len(a) + Len(b) + Len(c)
      BY <1>1, <1>2
    <3> QED
      BY <1>1, <3>1, OneOfThree
  <2>2. CASE i \in 1..Len(a)
    BY <1>1, <1>2, <2>2
  <2>3. ASSUME NEW j \in 1..Len(b), i = Len(a) + j PROVE w[i].n = m + i
    BY <1>1, <1>2, <2>3
  <2>4. ASSUME NEW j \in 1..Len(c), i = Len(a) + Len(b) + j PROVE w[i].n = m + i
    BY <1>1, <1>2, <2>4
  <2> QED
    BY <2>1, <2>2, <2>3, <2>4
<1>4. PICK k \in Nat : k = Len(a) + Len(b) + Len(c) /\ k = Len(w)
  BY <1>1, <1>2
<1>5. [i \in 1..k |-> w[i].n] \in [1..k -> Nat]
  BY <1>3, <1>4
<1>6. PICK f \in [1..k -> Nat] : f = [i \in 1..k |-> w[i].n]
  BY <1>5
<1>7. f \in Seq(Nat) /\ Len(f) = k
  BY <1>4, <1>6
<1>8. Follows(f, m, m + Len(a) + Len(b) + Len(c))
  <2>1. Len(f) = (m + Len(a) + Len(b) + Len(c)) - m
    <3>1. k = (m + Len(a) + Len(b) + Len(c)) - m
      BY <1>1, <1>4
    <3> QED
      BY <1>7, <3>1
  <2>2. \A i \in 1..Len(f) : f[i] = m + i
    BY <1>3, <1>4, <1>6, <1>7
  <2> QED
    BY <2>1, <2>2 DEF Follows
<1> QED
  BY <1>2, <1>4, <1>6, <1>8

\* As long as the wire holds, every command from the next the server reads to
\* the last that was sent, and every message from the next the application
\* receives to the last that was written, is on its way, in order: whoever finds
\* a channel full waits, and nobody drops (send, recv and the two tasks of
\* WsClient, handle_socket).
THEOREM NothingIsLostHolds == Spec => []NothingIsLost
<1>1. IInv => NothingIsLost
  <2> SUFFICES ASSUME IInv, link = "up" PROVE NothingIsLost
    BY DEF NothingIsLost
  <2>1. TypeOK /\ Inbound /\ Outbound
    BY DEF IInv, Whole
  <2>2. /\ sent \in Nat /\ told \in Nat /\ got \in Nat /\ server.read \in Nat
        /\ Len(inbox) \in Nat /\ Len(down) \in Nat /\ Len(up) \in Nat /\ Len(outbox) \in Nat
        /\ Held \in {0, 1} /\ InHand \in {0, 1}
    BY <2>1, Numbers
  <2>3. Follows(up \o (IF writer = Nothing THEN <<>> ELSE <<writer>>) \o outbox,
                server.read, IF app = "sending" THEN sent - 1 ELSE sent)
    <3>1. PICK b : b = IF writer = Nothing THEN <<>> ELSE <<writer>>
      OBVIOUS
    <3>2. PICK S : S = 1..sent
      OBVIOUS
    <3>3. up \in Seq(S) /\ outbox \in Seq(S)
      BY <2>1, <3>2 DEF TypeOK
    <3>4. /\ b \in Seq(S) /\ Len(b) = InHand
          /\ \A i \in 1..Len(b) : b[i] = server.read + Len(up) + i
      <4>1. CASE writer = Nothing
        BY <3>1, <4>1, Emptied DEF InHand
      <4>2. CASE writer # Nothing
        <5>1. writer \in S /\ writer = server.read + Len(up) + 1
          BY <2>1, <2>2, <3>2, <4>2 DEF TypeOK, Outbound, Ended
        <5> QED
          BY <3>1, <4>2, <5>1, InOneHand DEF InHand
      <4> QED
        BY <4>1, <4>2
    <3>5. PICK m \in Nat : m = server.read
      BY <2>2
    <3>6. /\ \A i \in 1..Len(up) : up[i] = m + i
          /\ \A i \in 1..Len(b) : b[i] = m + Len(up) + i
          /\ \A i \in 1..Len(outbox) : outbox[i] = m + Len(up) + Len(b) + i
      BY <2>1, <3>4, <3>5 DEF Outbound
    <3>7. Follows(up \o b \o outbox, m, m + Len(up) + Len(b) + Len(outbox))
      BY <3>3, <3>4, <3>6, NumberedAllAlong
    <3>8. m + Len(up) + Len(b) + Len(outbox) = IF app = "sending" THEN sent - 1 ELSE sent
      BY <2>1, <3>4, <3>5 DEF Outbound, Asked
    <3> QED
      BY <3>1, <3>5, <3>7, <3>8
  <2>4. LET way == inbox \o (IF reader = NoMessage THEN <<>> ELSE <<reader>>) \o down
        IN  Follows([i \in 1..Len(way) |-> way[i].n], got, told)
    <3>1. PICK b : b = IF reader = NoMessage THEN <<>> ELSE <<reader>>
      OBVIOUS
    <3>2. PICK S : S = Messages \cup {NoMessage, CloseFrame}
      OBVIOUS
    <3>3. inbox \in Seq(S) /\ down \in Seq(S)
      <4>1. inbox \in Seq(Messages) /\ down \in Seq(Messages \cup {CloseFrame})
        BY <2>1 DEF TypeOK
      <4>2. Messages \subseteq S /\ Messages \cup {CloseFrame} \subseteq S
        BY <3>2
      <4> QED
        BY <4>1, <4>2, SeqMonotonic
    <3>4. /\ b \in Seq(S) /\ Len(b) = Held
          /\ \A i \in 1..Len(b) : b[i].n = got + Len(inbox) + i
      <4>1. CASE reader = NoMessage
        BY <3>1, <4>1, Emptied DEF Held
      <4>2. CASE reader # NoMessage
        <5>1. reader \in S /\ reader.n = got + Len(inbox) + 1
          BY <2>1, <3>2, <4>2 DEF TypeOK, Inbound
        <5> QED
          BY <3>1, <4>2, <5>1, InOneHand DEF Held
      <4> QED
        BY <4>1, <4>2
    <3>5. /\ \A i \in 1..Len(inbox) : inbox[i].n = got + i
          /\ \A i \in 1..Len(down) : down[i].n = got + Len(inbox) + Len(b) + i
          /\ told = got + Len(inbox) + Len(b) + Len(down)
      BY <2>1, <3>4 DEF Inbound
    <3>6. LET way == inbox \o b \o down
          IN  Follows([i \in 1..Len(way) |-> way[i].n], got,
                      got + Len(inbox) + Len(b) + Len(down))
      BY <2>2, <3>3, <3>4, <3>5, MessagesAllAlong
    <3> QED
      BY <3>1, <3>5, <3>6
  <2> QED
    BY <2>3, <2>4 DEF NothingIsLost
<1> QED
  BY <1>1, InvHolds, PTL
=============================================================================
