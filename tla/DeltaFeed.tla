------------------------------ MODULE DeltaFeed ------------------------------
(***************************************************************************)
(* The order book feed of the WebSocket API: publish_level_delta           *)
(* (src/src/api/handlers.rs), the subscription manager with its per-symbol *)
(* sequence, and the two tasks of each connection                          *)
(* (src/src/api/websocket.rs).                                             *)
(*                                                                         *)
(* One symbol.  Order handlers change levels of its book and publish, for  *)
(* each level they changed, what they read back from the book.  A client   *)
(* subscribes and gets a snapshot; its other task forwards the deltas.     *)
(*                                                                         *)
(* A level is abstracted to the number of the change that wrote it last,   *)
(* so that a message tells which state of the level it describes.          *)
(***************************************************************************)
EXTENDS Integers, Sequences

CONSTANTS
  Handlers,       \* threads that run order handlers
  Clients,        \* WebSocket connections
  Levels,         \* price levels of the book
  Capacity,       \* capacity of the broadcast channel
  MaxWrites,      \* bound: changes of the book
  MaxSubscribes,  \* bound: subscriptions asked for
  Commands        \* what clients send besides "subscribe"

ASSUME BoundsAssumption == /\ Capacity \in Nat \ {0}
                           /\ MaxWrites \in Nat /\ MaxSubscribes \in Nat
\* A book has more than one level, so that no delta, which tells of one, looks
\* like a snapshot, which tells of all.
ASSUME LevelsAssumption == \A l \in Levels : Levels # {l}
ASSUME CommandsAssumption == Commands \subseteq {"batch_subscribe", "unsubscribe"}

VARIABLES
  writes,      \* changes of the book so far
  book,        \* level -> the change that wrote it last
  sequence,    \* the next sequence number of the symbol
  hpc, hjob,   \* handler -> its step, and the locals of its publication
  feed,        \* client -> deltas its receiver has not taken yet
  missed,      \* client -> its receiver lagged since its last snapshot
  subscribed,  \* client -> the symbol is among its subscriptions
  cpc, cjob,   \* client -> the step of its receiving task, and its snapshot
  asked,       \* subscriptions asked for so far
  heard,       \* client -> messages it was sent
  aired        \* sequence numbers of the deltas broadcast so far

handlerVars == <<hpc, hjob>>
socketVars  == <<subscribed, cpc, cjob, asked>>
feedVars == <<writes, book, sequence, handlerVars, feed, missed, socketVars, heard, aired>>

Versions  == 0 .. MaxWrites
\* What is told of one level.
Tales    == UNION {[{l} -> Versions] : l \in Levels}
Delta    == [seq : Nat, tells : Tales]
Snapshot == [seq : Nat, tells : [Levels -> Versions]]

NoTale == [l \in {} |-> 0]
HandlerJob == [pending : SUBSET Levels, seq : Nat, tells : Tales \cup {NoTale}]
NoPublication == [pending |-> {}, seq |-> 0, tells |-> NoTale]
NoSnapshot == [seq |-> 0, tells |-> NoTale]

FeedInit ==
  /\ writes = 0
  /\ book = [l \in Levels |-> 0]
  /\ sequence = 0
  /\ hpc = [h \in Handlers |-> "idle"]
  /\ hjob = [h \in Handlers |-> NoPublication]
  /\ feed = [c \in Clients |-> <<>>]
  /\ missed = [c \in Clients |-> FALSE]
  /\ subscribed = [c \in Clients |-> FALSE]
  /\ cpc = [c \in Clients |-> "idle"]
  /\ cjob = [c \in Clients |-> NoSnapshot]
  /\ asked = 0
  /\ heard = [c \in Clients |-> <<>>]
  /\ aired = {}

-----------------------------------------------------------------------------
(* Order handlers *)

\* Mutant: the levels that makers were taken from are not published.
OneLevel(changed) == {CHOOSE l \in changed : TRUE}
ToPublish(changed) == changed

\* A handler changes the book: the levels of the makers it took from and the one
\* it rests on, or the one it cancels on.
Mutate(h) ==
  /\ hpc[h] = "idle"
  /\ writes < MaxWrites
  /\ writes' = writes + 1
  /\ \E changed \in SUBSET Levels \ {{}} :
       /\ book' = [l \in Levels |-> IF l \in changed THEN writes' ELSE book[l]]
       /\ hjob' = [hjob EXCEPT ![h].pending = ToPublish(changed)]
  /\ hpc' = [hpc EXCEPT ![h] = "read"]
  /\ UNCHANGED <<sequence, feed, missed, socketVars, heard, aired>>

\* publish_level_delta reads the level back ...
ReadLevel(h) ==
  /\ hpc[h] = "read"
  /\ \E l \in hjob[h].pending :
       hjob' = [hjob EXCEPT ![h].pending = @ \ {l},
                            ![h].tells = [k \in {l} |-> book[k]]]
  /\ hpc' = [hpc EXCEPT ![h] = "sequence"]
  /\ UNCHANGED <<writes, book, sequence, feed, missed, socketVars, heard, aired>>

Advanced(n)   == n + 1

\* ... then takes a number ...
TakeSequence(h) ==
  /\ hpc[h] = "sequence"
  /\ hjob' = [hjob EXCEPT ![h].seq = sequence]
  /\ sequence' = Advanced(sequence)
  /\ hpc' = [hpc EXCEPT ![h] = "broadcast"]
  /\ UNCHANGED <<writes, book, feed, missed, socketVars, heard, aired>>

Overflows(c) == Len(feed[c]) = Capacity

\* ... and broadcasts: a receiver that is behind by the capacity of the channel
\* loses its oldest delta, and is told so only in the log.
Broadcast(h) ==
  LET delta == [seq |-> hjob[h].seq, tells |-> hjob[h].tells]
  IN  /\ hpc[h] = "broadcast"
      /\ feed' = [c \in Clients |->
                    Append(IF Overflows(c) THEN Tail(feed[c]) ELSE feed[c], delta)]
      /\ missed' = [c \in Clients |-> missed[c] \/ Overflows(c)]
      /\ aired' = aired \cup {delta.seq}
      /\ IF hjob[h].pending = {}
         THEN /\ hpc' = [hpc EXCEPT ![h] = "idle"]
              /\ hjob' = [hjob EXCEPT ![h] = NoPublication]
         ELSE hpc' = [hpc EXCEPT ![h] = "read"] /\ UNCHANGED hjob
      /\ UNCHANGED <<writes, book, sequence, socketVars, heard>>

-----------------------------------------------------------------------------
(* The receiving task of a connection *)

\* Mutant: the subscription is recorded once the snapshot was sent.
EntersLast(step)  == step = "send"
EntersFirst(step) == step = "idle"
Enter(c, step) ==
  subscribed' = [subscribed EXCEPT ![c] = @ \/ EntersFirst(step)]

\* handle_orderbook_subscribe: the subscription comes first ...
Subscribe(c) ==
  /\ cpc[c] = "idle"
  /\ asked < MaxSubscribes
  /\ asked' = asked + 1
  /\ Enter(c, "idle")
  /\ cpc' = [cpc EXCEPT ![c] = "snapshot"]
  /\ UNCHANGED <<writes, book, sequence, handlerVars, feed, missed, cjob, heard, aired>>

\* ... then the book is read; a book that was never traded may not exist ...
TakeSnapshot(c) ==
  /\ cpc[c] = "snapshot"
  /\ \/ /\ cjob' = [cjob EXCEPT ![c].tells = book]
        /\ missed' = [missed EXCEPT ![c] = FALSE]
        /\ cpc' = [cpc EXCEPT ![c] = "stamp"]
     \/ /\ writes = 0
        /\ cpc' = [cpc EXCEPT ![c] = "idle"]
        /\ UNCHANGED <<cjob, missed>>
  /\ UNCHANGED <<writes, book, sequence, handlerVars, feed, subscribed, asked, heard, aired>>

\* ... then a number is taken ...
StampSnapshot(c) ==
  /\ cpc[c] = "stamp"
  /\ cjob' = [cjob EXCEPT ![c].seq = sequence]
  /\ sequence' = sequence + 1
  /\ cpc' = [cpc EXCEPT ![c] = "send"]
  /\ UNCHANGED <<writes, book, handlerVars, feed, missed, subscribed, asked, heard, aired>>

\* ... and the snapshot is sent.
SendSnapshot(c) ==
  /\ cpc[c] = "send"
  /\ Enter(c, "send")
  /\ heard' = [heard EXCEPT ![c] = Append(@, cjob[c])]
  /\ cpc' = [cpc EXCEPT ![c] = "idle"]
  /\ cjob' = [cjob EXCEPT ![c] = NoSnapshot]
  /\ UNCHANGED <<writes, book, sequence, handlerVars, feed, missed, asked, aired>>

\* A batch subscription sends no snapshot.
BatchSubscribe(c) ==
  /\ "batch_subscribe" \in Commands
  /\ cpc[c] = "idle"
  /\ asked < MaxSubscribes
  /\ asked' = asked + 1
  /\ subscribed' = [subscribed EXCEPT ![c] = TRUE]
  /\ UNCHANGED <<writes, book, sequence, handlerVars, feed, missed, cpc, cjob, heard, aired>>

\* The client forgets what it was told.
Unsubscribe(c) ==
  /\ "unsubscribe" \in Commands
  /\ cpc[c] = "idle"
  /\ subscribed[c]
  /\ subscribed' = [subscribed EXCEPT ![c] = FALSE]
  /\ heard' = [heard EXCEPT ![c] = <<>>]
  /\ UNCHANGED <<writes, book, sequence, handlerVars, feed, missed, cpc, cjob, asked, aired>>

\* The sending task takes the next delta and forwards it if the client is
\* subscribed; it holds the subscriptions while it does.
ForwardDelta(c) ==
  /\ feed[c] # <<>>
  /\ feed' = [feed EXCEPT ![c] = Tail(@)]
  /\ heard' = IF subscribed[c]
              THEN [heard EXCEPT ![c] = Append(@, Head(feed[c]))]
              ELSE heard
  /\ UNCHANGED <<writes, book, sequence, handlerVars, missed, socketVars, aired>>

-----------------------------------------------------------------------------
Handle(h) == Mutate(h) \/ ReadLevel(h) \/ TakeSequence(h) \/ Broadcast(h)

Connection(c) ==
  \/ Subscribe(c) \/ TakeSnapshot(c) \/ StampSnapshot(c) \/ SendSnapshot(c)
  \/ BatchSubscribe(c) \/ Unsubscribe(c) \/ ForwardDelta(c)

FeedNext == (\E h \in Handlers : Handle(h)) \/ (\E c \in Clients : Connection(c))

FeedSpec == FeedInit /\ [][FeedNext]_feedVars

-----------------------------------------------------------------------------
(* Properties *)

\* The types of the book, the channel and the tasks' locals.
FeedTypeOK ==
  /\ writes \in Versions
  /\ book \in [Levels -> Versions]
  /\ sequence \in Nat
  /\ hpc \in [Handlers -> {"idle", "read", "sequence", "broadcast"}]
  /\ hjob \in [Handlers -> HandlerJob]
  /\ feed \in [Clients -> Seq(Delta)]
  /\ \A c \in Clients : Len(feed[c]) <= Capacity
  /\ missed \in [Clients -> BOOLEAN]
  /\ subscribed \in [Clients -> BOOLEAN]
  /\ cpc \in [Clients -> {"idle", "snapshot", "stamp", "send"}]
  /\ cjob \in [Clients -> Snapshot \cup {NoSnapshot}]
  /\ asked \in 0 .. MaxSubscribes
  /\ heard \in [Clients -> Seq(Delta \cup Snapshot)]
  /\ aired \subseteq Nat

Places(c)    == 1 .. Len(heard[c])
\* A snapshot tells every level, a delta one of several.
Snapshots(c) == {i \in Places(c) : DOMAIN heard[c][i].tells = Levels}
LastSnapshot(c) == {i \in Snapshots(c) : \A j \in Snapshots(c) : j <= i}
Telling(c, l) == {i \in Places(c) : l \in DOMAIN heard[c][i].tells}

\* A client with a snapshot that has been sent everything there is to send.
UpToDate(c) ==
  /\ \A h \in Handlers : hpc[h] = "idle"
  /\ cpc[c] = "idle" /\ feed[c] = <<>>
  /\ subscribed[c] /\ ~missed[c] /\ Snapshots(c) # {}

\* However handlers and the subscription interleave, a client that is up to date
\* was told the present state of every level, in some message
\* (publish_level_delta, handle_orderbook_subscribe).
TruthWasTold ==
  \A c \in Clients : UpToDate(c) =>
    \A l \in Levels : \E i \in Telling(c, l) : heard[c][i].tells[l] = book[l]

\* No delta that is numbered after the last snapshot is lost to a client whose
\* receiver did not lag (handle_orderbook_subscribe records the subscription
\* before it reads the book).
NothingMissedAfterSnapshot ==
  \A c \in Clients : subscribed[c] /\ ~missed[c] /\ cpc[c] = "idle" =>
    \A i \in LastSnapshot(c) : \A n \in aired : n > heard[c][i].seq =>
      \/ \E j \in Places(c) : heard[c][j].seq = n
      \/ \E j \in 1 .. Len(feed[c]) : feed[c][j].seq = n
=============================================================================
