---------------------------- MODULE ClientSocket ----------------------------
(***************************************************************************)
(* The WebSocket half of the client SDK (WsClient of                       *)
(* src/crates/orderbook-client/src/websocket.rs) and the server at the     *)
(* other end of the wire (handle_socket of src/src/api/websocket.rs).      *)
(* Two queues and two directions of the wire are bounded, and whoever finds*)
(* one full waits: the application in send, the two tasks of the SDK, the  *)
(* server.  Answers and the feed share one direction, so a client that     *)
(* sends without receiving may wait for the server that waits for it.      *)
(*                                                                         *)
(* Commands and messages are numbered as they are made.  What the server   *)
(* does with a command is Connection's.                                    *)
(***************************************************************************)
EXTENDS Integers, Sequences

CONSTANTS
    Queue,       \* capacity of the SDK's two channels
    Wire,        \* bound: messages in flight one way
    Ahead,       \* commands an application sends ahead of what it heard of
    MaxSent,     \* bound: commands
    MaxFed       \* bound: messages that answer no command

\* What fits between send and the server, which may still owe an answer to the
\* last command heard of: the queue, the write task and the wire.
ASSUME AheadAssumption ==
    /\ Queue \in Nat \ {0} /\ Wire \in Nat \ {0}
    /\ Ahead \in 1..Queue + Wire + 1
    /\ MaxSent \in Nat /\ MaxFed \in Nat

VARIABLES
    app,         \* the application: "free", "sending", "closed" or "gone"
    sent,        \* commands the application has asked to send
    known,       \* the last command it heard the server read
    outbox,      \* commands in the channel to the write task
    writer,      \* the write task: "idle", "ended" or the command it writes
    up,          \* commands on the wire
    server,      \* the server: what it reads last and owes answers to, if open
    down,        \* messages on the wire
    reader,      \* the read task: "idle", "ended" or what it hands over
    inbox,       \* messages in the channel from the read task
    told,        \* messages the server has written
    got,         \* messages the application has received
    fed,         \* messages written that answer nothing
    link         \* "up", "closing" or "broken"

vars == <<app, sent, known, outbox, writer, up, server, down, reader, inbox, told, got, fed,
          link>>
appVars == <<app, sent, known, got>>
clientVars == <<outbox, writer, reader, inbox>>
serverVars == <<server, told, fed>>

NoMessage == [n |-> 0, answers |-> 0]
Nothing == 0
Ended == -1

\* What a read yields when the wire has ended in order.
CloseFrame == [n |-> Ended, answers |-> 0]

Init ==
    /\ app = "free"
    /\ sent = 0 /\ known = 0 /\ got = 0
    /\ outbox = <<>> /\ inbox = <<>>
    /\ writer = Nothing /\ reader = NoMessage
    /\ up = <<>> /\ down = <<>>
    /\ server = [open |-> TRUE, read |-> 0, owes |-> 0]
    /\ told = 0 /\ fed = 0
    /\ link = "up"

\* Messages the server may write, and those the SDK can parse.
ServerMessages ==
    {"quote", "fill", "config", "price", "connected", "heartbeat", "orderbook_snapshot",
     "orderbook_delta", "subscribed", "unsubscribed", "error", "trade", "batch_subscribed",
     "batch_unsubscribed", "subscriptions"}
WsMessage ==
    {"quote", "fill", "config", "price", "connected", "heartbeat", "orderbook_snapshot",
     "orderbook_delta", "subscribed", "unsubscribed", "error", "trade", "batch_subscribed",
     "batch_unsubscribed", "subscriptions"}

\* The commands the SDK makes, with how often the server answers each: a
\* subscription without a channel is not looked at, a control is answered when
\* it is refused, a book's subscription with its snapshot too.
ClientCommand ==
    [subscribe |-> {0}, unsubscribe |-> {0},
     subscribe_orderbook |-> {1, 2}, unsubscribe_orderbook |-> {1},
     subscribe_trades |-> {1}, unsubscribe_trades |-> {1},
     set_spread |-> {0, 1}, set_size |-> {0, 1}, set_skew |-> {0, 1},
     kill |-> {0, 1}, enable |-> {0, 1},
     batch_subscribe |-> {1}, batch_unsubscribe |-> {1}, list_subscriptions |-> {1}]

-----------------------------------------------------------------------------
(* The application.                                                        *)

Room(queue) == Len(queue) < Queue

\* Sending borrows the client, receiving does so for itself alone: an
\* application does one at a time.
AppSend ==
    /\ app = "free"
    /\ sent < MaxSent /\ sent - known < Ahead
    /\ sent' = sent + 1
    /\ app' = "sending"
    /\ UNCHANGED <<known, got, clientVars, up, down, serverVars, link>>

\* send returns as soon as the command is in the channel ...
AppQueued ==
    /\ app = "sending"
    /\ writer # Ended
    /\ Room(outbox)
    /\ outbox' = Append(outbox, sent)
    /\ app' = "free"
    /\ UNCHANGED <<sent, known, got, writer, reader, inbox, up, down, serverVars, link>>

\* ... or with ConnectionClosed when the write task has ended.
AppRefused ==
    /\ app = "sending"
    /\ writer = Ended
    /\ app' = "free"
    /\ UNCHANGED <<sent, known, got, clientVars, up, down, serverVars, link>>

\* recv: the next message, or none once the read task has ended and its channel
\* is empty.
AppRecv ==
    /\ app = "free"
    /\ IF inbox # <<>>
       THEN /\ inbox' = Tail(inbox)
            /\ got' = Head(inbox).n
            /\ known' = IF Head(inbox).answers > known THEN Head(inbox).answers ELSE known
            /\ app' = app
       ELSE /\ reader.n = Ended
            /\ app' = "closed"
            /\ UNCHANGED <<inbox, got, known>>
    /\ UNCHANGED <<sent, outbox, writer, reader, up, down, serverVars, link>>

\* The client is dropped: both tasks are aborted, with what they hold.
AppDrop ==
    /\ app \in {"free", "closed"}
    /\ app' = "gone"
    /\ writer' = Ended /\ reader' = CloseFrame
    /\ outbox' = <<>> /\ inbox' = <<>>
    /\ link' = "broken"
    /\ UNCHANGED <<sent, known, got, up, down, serverVars>>

-----------------------------------------------------------------------------
(* The SDK's tasks.                                                        *)

WriterTakes ==
    /\ writer = Nothing
    /\ outbox # <<>>
    /\ writer' = Head(outbox)
    /\ outbox' = Tail(outbox)
    /\ UNCHANGED <<appVars, reader, inbox, up, down, serverVars, link>>

\* Mutant: a command that does not fit on the wire at once is dropped.
WriterTries ==
    /\ writer > Nothing
    /\ link # "broken"
    /\ up' = IF Len(up) < Wire THEN Append(up, writer) ELSE up
    /\ writer' = Nothing
    /\ UNCHANGED <<appVars, outbox, reader, inbox, down, serverVars, link>>

WriterWrites ==
    /\ writer > Nothing
    /\ link # "broken"
    /\ Len(up) < Wire
    /\ up' = Append(up, writer)
    /\ writer' = Nothing
    /\ UNCHANGED <<appVars, outbox, reader, inbox, down, serverVars, link>>

\* The write fails: the task ends, and the channel with it.
WriterFails ==
    /\ writer > Nothing
    /\ link # "up"
    /\ writer' = Ended
    /\ outbox' = <<>>
    /\ UNCHANGED <<appVars, reader, inbox, up, down, serverVars, link>>

\* A message that does not parse is skipped.
ReaderTakes ==
    /\ reader = NoMessage
    /\ down # <<>>
    /\ \E message \in ServerMessages :
         reader' = IF Head(down) = CloseFrame \/ message \in WsMessage THEN Head(down) ELSE reader
    /\ down' = Tail(down)
    /\ UNCHANGED <<appVars, outbox, writer, inbox, up, serverVars, link>>

\* Mutant: a message that finds the channel full is lost.
ReaderTries ==
    /\ reader.n > 0
    /\ inbox' = IF Room(inbox) THEN Append(inbox, reader) ELSE inbox
    /\ reader' = NoMessage
    /\ UNCHANGED <<appVars, outbox, writer, up, down, serverVars, link>>

\* The channel to the application is full: the task waits.
ReaderHands ==
    /\ reader.n > 0
    /\ Room(inbox)
    /\ inbox' = Append(inbox, reader)
    /\ reader' = NoMessage
    /\ UNCHANGED <<appVars, outbox, writer, up, down, serverVars, link>>

\* Mutant: an error of the socket is passed over.
ReaderIgnoresErrors ==
    /\ reader = NoMessage
    /\ link = "broken"
    /\ UNCHANGED vars

\* The stream fails: what was on the wire is lost, or read before.
ReaderFails ==
    /\ reader = NoMessage
    /\ link = "broken"
    /\ reader' = CloseFrame
    /\ down' = <<>>
    /\ UNCHANGED <<appVars, outbox, writer, inbox, up, serverVars, link>>

-----------------------------------------------------------------------------
(* The server.                                                             *)

\* The sending task writes a message of the feed.
ServerFeed ==
    /\ server.open /\ link = "up"
    /\ fed < MaxFed
    /\ Len(down) < Wire
    /\ fed' = fed + 1
    /\ told' = told + 1
    /\ down' = Append(down, [n |-> told + 1, answers |-> 0])
    /\ UNCHANGED <<appVars, clientVars, up, server, link>>

\* The receiving task reads no command before it has answered the last.
ServerReads ==
    /\ server.open
    /\ server.owes = 0
    /\ up # <<>>
    /\ \E command \in DOMAIN ClientCommand : \E n \in ClientCommand[command] :
         server' = [server EXCEPT !.read = Head(up), !.owes = n]
    /\ up' = Tail(up)
    /\ UNCHANGED <<appVars, clientVars, down, told, fed, link>>

ServerAnswers ==
    /\ server.open /\ link = "up"
    /\ server.owes > 0
    /\ Len(down) < Wire
    /\ down' = Append(down, [n |-> told + 1, answers |-> server.read])
    /\ told' = told + 1
    /\ server' = [server EXCEPT !.owes = @ - 1]
    /\ UNCHANGED <<appVars, clientVars, up, fed, link>>

\* The server closes the socket at its shutdown, after a Close frame if that
\* can be written.
ServerCloses ==
    /\ server.open
    /\ server' = [server EXCEPT !.open = FALSE, !.owes = 0]
    /\ IF link = "up" /\ Len(down) < Wire
       THEN down' = Append(down, CloseFrame) /\ link' = "closing"
       ELSE link' = "broken" /\ UNCHANGED down
    /\ UNCHANGED <<appVars, clientVars, up, told, fed>>

\* The server finds the stream ended once it has read what came over it; a
\* write of its own fails before.
ServerLoses ==
    /\ server.open
    /\ link = "broken"
    /\ server' = [server EXCEPT !.open = FALSE, !.owes = 0]
    /\ UNCHANGED <<appVars, clientVars, up, down, told, fed, link>>

LinkBreaks ==
    /\ link # "broken"
    /\ link' = "broken"
    /\ UNCHANGED <<appVars, clientVars, up, down, serverVars>>

-----------------------------------------------------------------------------
Next ==
    \/ AppSend \/ AppQueued \/ AppRefused \/ AppRecv \/ AppDrop
    \/ WriterTakes \/ WriterWrites \/ WriterFails
    \/ ReaderTakes \/ ReaderHands \/ ReaderFails
    \/ ServerFeed \/ ServerReads \/ ServerAnswers \/ ServerCloses \/ ServerLoses
    \/ LinkBreaks

\* Tokio runs whatever can go on, its mutex serves the server's two tasks in
\* order, and the application receives whenever it is not sending.
Fairness ==
    /\ WF_vars(AppQueued) /\ WF_vars(AppRefused) /\ WF_vars(AppRecv)
    /\ WF_vars(WriterTakes) /\ WF_vars(WriterWrites) /\ WF_vars(WriterFails)
    /\ WF_vars(ReaderTakes) /\ WF_vars(ReaderHands) /\ WF_vars(ReaderFails)
    /\ WF_vars(ServerReads) /\ SF_vars(ServerAnswers) /\ WF_vars(ServerLoses)

Spec == Init /\ [][Next]_vars /\ Fairness

-----------------------------------------------------------------------------
Messages == [n : 1..told, answers : 0..sent]

TypeOK ==
    /\ app \in {"free", "sending", "closed", "gone"}
    /\ sent \in 0..MaxSent /\ known \in 0..sent
    /\ outbox \in Seq(1..sent) /\ Len(outbox) <= Queue
    /\ writer \in {Nothing, Ended} \cup 1..sent
    /\ up \in Seq(1..sent) /\ Len(up) <= Wire
    /\ server \in [open : BOOLEAN, read : 0..sent, owes : 0..2]
    /\ down \in Seq(Messages \cup {CloseFrame}) /\ Len(down) <= Wire
    /\ reader \in Messages \cup {NoMessage, CloseFrame}
    /\ inbox \in Seq(Messages) /\ Len(inbox) <= Queue
    /\ got \in 0..told /\ fed \in 0..MaxFed /\ told \in Nat
    /\ link \in {"up", "closing", "broken"}

\* m+1, m+2, ... up to n, without a gap.
Follows(s, m, n) == Len(s) = n - m /\ \A i \in 1..Len(s) : s[i] = m + i

\* As long as the wire holds, what the server wrote and the application has not
\* received is on its way, in order and without a gap; and so is what the
\* application sent and the server has not read (bounded channels make who
\* writes wait, they never drop).
NothingIsLost ==
    link = "up" =>
      /\ LET way == inbox \o (IF reader = NoMessage THEN <<>> ELSE <<reader>>) \o down
         IN  Follows([i \in 1..Len(way) |-> way[i].n], got, told)
      /\ Follows(up \o (IF writer = Nothing THEN <<>> ELSE <<writer>>) \o outbox,
                 server.read, IF app = "sending" THEN sent - 1 ELSE sent)

\* Whatever the feed fills meanwhile, send returns and the server reads the
\* command, unless the connection ends first, as long as the application sends
\* no more than Ahead commands past the last it heard the server read (beyond
\* that the application, the write task, the server and the read task may each
\* wait for the next, for ever).
SentIsRead == \A c \in 1..MaxSent : sent >= c ~> server.read >= c \/ link # "up"

\* A connection that ends is heard of: recv returns none, after whatever had
\* arrived.
EndIsHeard == link # "up" ~> app \in {"closed", "gone"}
=============================================================================
