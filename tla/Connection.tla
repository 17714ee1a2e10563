------------------------------ MODULE Connection ------------------------------
(***************************************************************************)
(* A WebSocket connection (handle_socket and the command handlers of       *)
(* src/src/api/websocket.rs): two tasks that share two sets of             *)
(* subscriptions, each behind a read-write lock, and the sending half of   *)
(* the socket behind a mutex.                                              *)
(*                                                                         *)
(* The receiving task is the only one that ever takes a write lock, and    *)
(* holds it across no await.  The sending task holds a read lock while it  *)
(* waits for the mutex and while it writes.  What the messages say, and    *)
(* which of them a slow receiver loses, is DeltaFeed's.                    *)
(***************************************************************************)
EXTENDS Access, Naturals

CONSTANTS
    Sockets,           \* connections at the same time
    Channels,          \* "orderbook" and "trades", each with its set and lock
    Symbols,           \* contracts
    Wildcards,         \* "<underlying>:*", asked for in batches only
    WildcardOf,        \* Symbols -> the wildcard of its underlying
    MaxSubscriptions,  \* MAX_SUBSCRIPTIONS_PER_CONNECTION
    MaxBatch,          \* bound: subscriptions in a batch
    None               \* no channel, no filter

ASSUME WildcardAssumption == WildcardOf \in [Symbols -> Wildcards]
ASSUME BoundsAssumption == MaxSubscriptions \in Nat /\ MaxBatch \in Nat \ {0}

Filters == Symbols \cup Wildcards

VARIABLES
    holder,      \* Sockets -> the subject whose claims it was opened with
    subs,        \* Sockets -> Channels -> the filters subscribed to
    recv,        \* Sockets -> the receiving task and its command
    send,        \* Sockets -> the sending task and its event
    present      \* Sockets -> the client is still there to read

socketVars == <<holder, subs, recv, send, present>>

\* A task between two commands, or two events.
NoCommand == [pc |-> "idle", form |-> "other", channel |-> None, filter |-> None,
              left |-> 0]
NoEvent == [pc |-> "idle", channel |-> None, symbol |-> None]
NoSubscription == [ch \in Channels |-> {}]

ConnectionInit ==
    /\ holder = [k \in Sockets |-> Nobody]
    /\ subs = [k \in Sockets |-> NoSubscription]
    /\ recv = [k \in Sockets |-> NoCommand]
    /\ send = [k \in Sockets |-> NoEvent]
    /\ present = [k \in Sockets |-> FALSE]

Open(k) == holder[k] # Nobody /\ phase # "down"

Forms == {"subscribe", "unsubscribe", "batch_subscribe", "batch_unsubscribe", "other"}
Batches == {"batch_subscribe", "batch_unsubscribe"}

\* The socket is gone, with its tasks, its sets and its locks.
Released(k) ==
    /\ holder' = [holder EXCEPT ![k] = Nobody]
    /\ subs' = [subs EXCEPT ![k] = NoSubscription]
    /\ recv' = [recv EXCEPT ![k] = NoCommand]
    /\ send' = [send EXCEPT ![k] = NoEvent]
    /\ present' = [present EXCEPT ![k] = FALSE]

\* ws_handler: the upgrade of an admitted request.  Its claims are kept for as
\* long as the socket lives, whatever becomes of the token.  The greeting is
\* written before there are two tasks.
Upgrade(r, k) ==
    /\ Handling(r, "ws")
    /\ holder[k] = Nobody
    /\ holder' = [holder EXCEPT ![k] = request[r].sub]
    /\ present' = [present EXCEPT ![k] = TRUE]
    /\ Answered(r)
    /\ UNCHANGED <<token, enabled, phase, subs, recv, send>>

\* The handshake is not an upgrade, or its socket is never taken over.
UpgradeFails(r) ==
    /\ Handling(r, "ws")
    /\ Answered(r)
    /\ UNCHANGED <<token, enabled, phase, socketVars>>

\* The client goes, and is not heard of again.
Leave(k) ==
    /\ Open(k) /\ present[k]
    /\ present' = [present EXCEPT ![k] = FALSE]
    /\ UNCHANGED <<accessVars, holder, subs, recv, send>>

-----------------------------------------------------------------------------
(* Locks.                                                                  *)

\* Mutant: the mutex is taken before the write lock is waited for.
WireFreeEarly(k) == recv[k].pc \notin {"insert", "remove", "writing"} /\ send[k].pc # "writing"

\* The sending half of the socket is behind a mutex, held while writing only.
WireFree(k) == recv[k].pc # "writing" /\ send[k].pc # "writing"

\* Mutant: the guard is dropped before the message is sent.
ReadHeldWhileMatching(k, ch) == send[k].pc = "matching" /\ send[k].channel = ch

\* The sending task reads the set of ch: it keeps its guard until the message
\* is written.
ReadHeld(k, ch) == send[k].pc # "idle" /\ send[k].channel = ch

Matches(filters, s) == {s, WildcardOf[s]} \cap filters # {}

\* Mutant: the limit is one more than it says.
CanAddOneMore(filters, f) == f \in filters \/ Cardinality(filters) <= MaxSubscriptions

CanAdd(filters, f) == f \in filters \/ Cardinality(filters) < MaxSubscriptions

-----------------------------------------------------------------------------
(* The receiving task.                                                     *)

Idle(k) == Open(k) /\ recv[k].pc = "idle"

\* The task goes on from pc with nothing else changed.
RecvGoto(k, pc) == recv' = [recv EXCEPT ![k].pc = pc]

\* Where a command, or the next of a batch, starts: with a check of the cap, or
\* by waiting for the write lock.
First(form) == IF form \in {"subscribe", "batch_subscribe"} THEN "check" ELSE "remove"

\* A command names a contract; one of a batch may name a wildcard.
Command(k) ==
    /\ Idle(k)
    /\ present[k]
    /\ \E form \in Forms \ {"other"}, ch \in Channels, f \in Filters, left \in 0..MaxBatch - 1 :
         /\ f \in Wildcards \/ left > 0 => form \in Batches
         /\ recv' = [recv EXCEPT ![k] = [pc |-> First(form), form |-> form,
                                         channel |-> ch, filter |-> f, left |-> left]]
    /\ UNCHANGED <<accessVars, holder, subs, send, present>>

\* A command without a well-formed symbol, a control that is refused or out of
\* range, and the list of subscriptions, which only reads the sets.
ReplyOnly(k) ==
    /\ Idle(k)
    /\ present[k]
    /\ RecvGoto(k, "answer")
    /\ UNCHANGED <<accessVars, holder, subs, send, present>>

\* Mutant: the permissions of the claims are not looked at.
MayControlAnyone(k) == holder[k] \in Subjects
MayControl(k) == "Admin" \in Permissions[holder[k]]

\* "kill" and "enable" act at once and are not answered.
ControlCommand(k) ==
    /\ Idle(k)
    /\ present[k]
    /\ MayControl(k)
    /\ enabled' \in BOOLEAN
    /\ UNCHANGED <<token, request, phase, socketVars>>

\* What the command asked for has been dealt with: the next of its batch
\* follows, and after the last the answer waits for the mutex.
Dealt(k, form) ==
    IF recv[k].left = 0
    THEN recv' = [recv EXCEPT ![k] = [NoCommand EXCEPT !.pc = "answer", !.form = form]]
    ELSE \E ch \in Channels, f \in Filters :
           recv' = [recv EXCEPT ![k].pc = First(recv[k].form), ![k].channel = ch, ![k].filter = f,
                                ![k].left = @ - 1]

\* The cap is read under the read lock ...
CheckCap(k) ==
    LET filters == subs[k][recv[k].channel]
    IN  /\ Open(k) /\ recv[k].pc = "check"
        /\ IF CanAdd(filters, recv[k].filter)
           THEN RecvGoto(k, "insert")
           ELSE Dealt(k, "other")
        /\ UNCHANGED <<accessVars, holder, subs, send, present>>

\* ... and the filter is added under the write lock.
Insert(k) ==
    LET ch == recv[k].channel
    IN  /\ Open(k) /\ recv[k].pc = "insert"
        /\ ~ReadHeld(k, ch)
        /\ subs' = [subs EXCEPT ![k][ch] = @ \cup {recv[k].filter}]
        /\ Dealt(k, IF recv[k].form = "subscribe" /\ ch = "orderbook" THEN "subscribe" ELSE "other")
        /\ UNCHANGED <<accessVars, holder, send, present>>

Remove(k) ==
    LET ch == recv[k].channel
    IN  /\ Open(k) /\ recv[k].pc = "remove"
        /\ ~ReadHeld(k, ch)
        /\ subs' = [subs EXCEPT ![k][ch] = @ \ {recv[k].filter}]
        /\ Dealt(k, "other")
        /\ UNCHANGED <<accessVars, holder, send, present>>

TakeWire(k) ==
    /\ Open(k) /\ recv[k].pc = "answer"
    /\ WireFree(k)
    /\ RecvGoto(k, "writing")
    /\ UNCHANGED <<accessVars, holder, subs, send, present>>

\* The answer is written, or is not: nobody looks.  A subscription to an order
\* book is answered a second time, with a snapshot of the book.
Reply(k) ==
    /\ Open(k) /\ recv[k].pc = "writing"
    /\ \/ recv' = [recv EXCEPT ![k] = NoCommand]
       \/ recv[k].form = "subscribe" /\ Dealt(k, "other")
    /\ UNCHANGED <<accessVars, holder, subs, send, present>>

\* A Close frame, an error or the end of the stream.
RecvEnds(k) ==
    /\ Idle(k)
    /\ RecvGoto(k, "ended")
    /\ UNCHANGED <<accessVars, holder, subs, send, present>>

RecvStep(k) == CheckCap(k) \/ Insert(k) \/ Remove(k) \/ TakeWire(k) \/ Reply(k)

-----------------------------------------------------------------------------
(* The sending task.                                                       *)

SendGoto(k, pc) == send' = [send EXCEPT ![k].pc = pc]

\* A delta or a trade of s: its guard is kept if s is subscribed to.
TakeFeed(k) ==
    /\ Open(k) /\ send[k].pc = "idle"
    /\ \E ch \in Channels, s \in Symbols :
         /\ Matches(subs[k][ch], s)
         /\ send' = [send EXCEPT ![k] = [pc |-> "matching", channel |-> ch, symbol |-> s]]
    /\ UNCHANGED <<accessVars, holder, subs, recv, present>>

\* An event of the market maker or a heartbeat needs no subscription.
TakeOther(k) ==
    /\ Open(k) /\ send[k].pc = "idle"
    /\ SendGoto(k, "matching")
    /\ UNCHANGED <<accessVars, holder, subs, recv, present>>

TakeSignal(k) ==
    /\ Open(k) /\ send[k].pc = "idle"
    /\ phase = "joining"
    /\ SendGoto(k, "closing")
    /\ UNCHANGED <<accessVars, holder, subs, recv, present>>

SendLock(k) ==
    /\ Open(k) /\ send[k].pc = "matching"
    /\ WireFree(k)
    /\ SendGoto(k, "writing")
    /\ UNCHANGED <<accessVars, holder, subs, recv, present>>

\* The message is written and the guard released.
Deliver(k) ==
    /\ Open(k) /\ send[k].pc = "writing"
    /\ send' = [send EXCEPT ![k] = NoEvent]
    /\ UNCHANGED <<accessVars, holder, subs, recv, present>>

\* A write fails once the client is gone: the task ends.
DeliverFails(k) ==
    /\ Open(k) /\ send[k].pc = "writing"
    /\ ~present[k]
    /\ send' = [send EXCEPT ![k] = [NoEvent EXCEPT !.pc = "ended"]]
    /\ UNCHANGED <<accessVars, holder, subs, recv, present>>

\* The Close frame is written, or is not, and the task ends.
SendClose(k) ==
    /\ Open(k) /\ send[k].pc = "closing"
    /\ recv[k].pc # "writing"
    /\ SendGoto(k, "ended")
    /\ UNCHANGED <<accessVars, holder, subs, recv, present>>

SendStep(k) == SendLock(k) \/ Deliver(k) \/ SendClose(k)

-----------------------------------------------------------------------------
\* Mutant: only the end of the receiving task ends the sending one.
AbortSender(k) ==
    /\ Open(k)
    /\ recv[k].pc = "ended"
    /\ Released(k)
    /\ UNCHANGED accessVars

\* Whichever task ends first, the other is aborted wherever it awaits.
Abort(k) ==
    /\ Open(k)
    /\ recv[k].pc = "ended" \/ send[k].pc = "ended"
    /\ Released(k)
    /\ UNCHANGED accessVars

SocketStep(k) ==
    \/ Leave(k) \/ Abort(k)
    \/ Command(k) \/ ReplyOnly(k) \/ ControlCommand(k) \/ RecvEnds(k) \/ RecvStep(k)
    \/ TakeFeed(k) \/ TakeOther(k) \/ TakeSignal(k) \/ DeliverFails(k) \/ SendStep(k)

ConnectionTypeOK ==
    /\ holder \in [Sockets -> Subjects \cup {Nobody}]
    /\ subs \in [Sockets -> [Channels -> SUBSET Filters]]
    /\ recv \in [Sockets -> [pc : {"idle", "check", "insert", "remove", "answer", "writing",
                                  "ended"},
                             form : Forms, channel : Channels \cup {None},
                             filter : Filters \cup {None}, left : 0..MaxBatch]]
    /\ send \in [Sockets -> [pc : {"idle", "matching", "writing", "closing", "ended"},
                             channel : Channels \cup {None}, symbol : Symbols \cup {None}]]
    /\ present \in [Sockets -> BOOLEAN]
    /\ \A k \in Sockets : ~(recv[k].pc = "writing" /\ send[k].pc = "writing")
=============================================================================
