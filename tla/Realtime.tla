------------------------------ MODULE Realtime -------------------------------
(***************************************************************************)
(* One WebSocket connection of the realtime endpoint, ServeWS of           *)
(* internal/handler/v1/realtime.go: the handler goroutine, the read loop   *)
(* and the write loop it starts, and the connection itself, on top of the  *)
(* broker.  Nothing here takes the broker's mutex except Subscribe and     *)
(* cancel, so the loops interleave with every step of Publish.             *)
(***************************************************************************)
EXTENDS Broker, SequencesExt

CONSTANTS
    Legacy,      \* connections that did not opt into order.upsert_many
    MayStick,    \* connections that may stop running
    ErrCapacity  \* capacity of errCh (2 in the code)

ASSUME RealtimeAssumption ==
    Legacy \subseteq Conn /\ MayStick \subseteq Conn /\ ErrCapacity \in Nat

VARIABLES
    conn,      \* the WebSocket: "none", "open", "gone" (peer lost), "closed"
    handler,   \* where ServeWS stands
    reader,    \* where readLoop stands
    writer,    \* where writeLoop stands
    out,       \* outgoing: the frames still to write of the message received
    errs,      \* number of errors in errCh
    sent,      \* history: the event frames written
    goodbye,   \* a close frame "reconnect_required" was written
    stuck      \* connections nothing is assumed of: they may never read again

loops == <<conn, handler, reader, writer, out, errs, sent, goodbye>>
vars  == <<broker, loops, stuck>>

Init ==
    /\ BrokerInit
    /\ conn = [c \in Conn |-> "none"]
    /\ handler = [c \in Conn |-> "idle"]
    /\ reader = [c \in Conn |-> "off"]
    /\ writer = [c \in Conn |-> "off"]
    /\ out = [c \in Conn |-> <<>>]
    /\ errs = [c \in Conn |-> 0]
    /\ sent = [c \in Conn |-> <<>>]
    /\ goodbye = [c \in Conn |-> FALSE]
    /\ stuck \in SUBSET MayStick

\* The message, and the place of the order in its batch or 0.
Frame == (1..MaxMessages) \X (0..MaxItems)

\* A batch is one frame, or one frame per order on a legacy connection.
Frames(c, m) ==
    IF m.items > 0 /\ c \in Legacy
    THEN [i \in 1..m.items |-> <<m.id, i>>]
    ELSE << <<m.id, 0>> >>

-----------------------------------------------------------------------------
(* The handler: upgrade, subscribe, ready frame, loops, first error, close *)

\* The ticket was consumed and the connection upgraded.
Upgrade(c) ==
    /\ handler[c] = "idle"
    /\ conn' = [conn EXCEPT ![c] = "open"]
    /\ handler' = [handler EXCEPT ![c] = "subscribe"]
    /\ UNCHANGED <<broker, reader, writer, out, errs, sent, goodbye>>

HandlerSubscribes(c) ==
    /\ handler[c] = "subscribe"
    /\ Subscribe(c)
    /\ handler' = [handler EXCEPT ![c] = "ready"]
    /\ UNCHANGED <<conn, reader, writer, out, errs, sent, goodbye>>

\* The ready frame is out: both loops start.
Ready(c) ==
    /\ handler[c] = "ready"
    /\ conn[c] # "closed"
    /\ handler' = [handler EXCEPT ![c] = "wait"]
    /\ reader' = [reader EXCEPT ![c] = "reading"]
    /\ writer' = [writer EXCEPT ![c] = "top"]
    /\ UNCHANGED <<broker, conn, out, errs, sent, goodbye>>

ReadyFails(c) ==
    /\ handler[c] = "ready"
    /\ handler' = [handler EXCEPT ![c] = "close"]
    /\ UNCHANGED <<broker, conn, reader, writer, out, errs, sent, goodbye>>

\* <-errCh
FirstError(c) ==
    /\ handler[c] = "wait"
    /\ errs[c] > 0
    /\ errs' = [errs EXCEPT ![c] = @ - 1]
    /\ handler' = [handler EXCEPT ![c] = "close"]
    /\ UNCHANGED <<broker, conn, reader, writer, out, sent, goodbye>>

CloseConn(c) ==
    /\ handler[c] = "close"
    /\ conn' = [conn EXCEPT ![c] = "closed"]
    /\ handler' = [handler EXCEPT ![c] = "cancel"]
    /\ UNCHANGED <<broker, reader, writer, out, errs, sent, goodbye>>

\* defer cancel()
HandlerCancels(c) ==
    /\ handler[c] = "cancel"
    /\ Cancel(c)
    /\ handler' = [handler EXCEPT ![c] = "done"]
    /\ UNCHANGED <<conn, reader, writer, out, errs, sent, goodbye>>

HandlerStep(c) ==
    \/ HandlerSubscribes(c) \/ Ready(c) \/ ReadyFails(c)
    \/ FirstError(c) \/ CloseConn(c) \/ HandlerCancels(c)

\* Mutant: errCh is not buffered.
ErrChUnbuffered(c) == handler[c] = "wait" /\ errs[c] = 0

\* errCh has room, or the handler is there to take the value.
ErrChReady(c) == errs[c] < ErrCapacity \/ (handler[c] = "wait" /\ errs[c] = 0)

-----------------------------------------------------------------------------
(* The read loop only waits for the connection to fail *)

ReadFails(c) ==
    /\ reader[c] = "reading"
    /\ conn[c] # "open"
    /\ reader' = [reader EXCEPT ![c] = "report"]
    /\ UNCHANGED <<broker, conn, handler, writer, out, errs, sent, goodbye>>

ReaderReports(c) ==
    /\ reader[c] = "report"
    /\ ErrChReady(c)
    /\ errs' = [errs EXCEPT ![c] = @ + 1]
    /\ reader' = [reader EXCEPT ![c] = "done"]
    /\ UNCHANGED <<broker, conn, handler, writer, out, sent, goodbye>>

ReaderStep(c) == ReadFails(c) \/ ReaderReports(c)

\* The peer leaves, the network breaks, or the read deadline passes.
PeerLost(c) ==
    /\ conn[c] = "open"
    /\ conn' = [conn EXCEPT ![c] = "gone"]
    /\ UNCHANGED <<broker, handler, reader, writer, out, errs, sent, goodbye>>

-----------------------------------------------------------------------------
(* The write loop *)

WriterGoto(c, label) ==
    /\ writer' = [writer EXCEPT ![c] = label]
    /\ UNCHANGED <<conn, handler, reader, errs, goodbye>>

\* The check at the top of the loop, and case <-overflow of the select.
StopAtTop(c) ==
    /\ writer[c] \in {"top", "select"}
    /\ overflow[c]
    /\ WriterGoto(c, "goodbye")
    /\ UNCHANGED <<broker, out, sent>>

Select(c) ==
    /\ writer[c] = "top"
    /\ ~overflow[c]
    /\ WriterGoto(c, "select")
    /\ UNCHANGED <<broker, out, sent>>

\* case message, ok := <-messages
ReceiveMessage(c) ==
    /\ writer[c] = "select"
    /\ Receive(c)
    /\ out' = [out EXCEPT ![c] = Frames(c, Head(queue[c]))]
    /\ WriterGoto(c, "check")
    /\ UNCHANGED sent

ReceiveClosed(c) ==
    /\ writer[c] = "select"
    /\ queue[c] = <<>> /\ closed[c]
    /\ WriterGoto(c, "goodbye")
    /\ UNCHANGED <<broker, out, sent>>

\* Mutant: overflow is only looked at where the loop selects.
StopsBeforeNothing(c) == FALSE

\* overflowSignaled, before each outgoing frame
StopsBefore(c) == overflow[c]

CheckBeforeFrame(c) ==
    /\ writer[c] = "check"
    /\ out[c] # <<>>
    /\ WriterGoto(c, IF StopsBefore(c) THEN "goodbye" ELSE "frame")
    /\ UNCHANGED <<broker, out, sent>>

MessageDone(c) ==
    /\ writer[c] = "check"
    /\ out[c] = <<>>
    /\ WriterGoto(c, "top")
    /\ UNCHANGED <<broker, out, sent>>

WriteFrame(c) ==
    /\ writer[c] = "frame"
    /\ conn[c] # "closed"
    /\ sent' = [sent EXCEPT ![c] = Append(@, Head(out[c]))]
    /\ out' = [out EXCEPT ![c] = Tail(@)]
    /\ WriterGoto(c, "check")
    /\ UNCHANGED broker

\* case <-ticker.C: check, ping, check, heartbeat
Heartbeat(c) ==
    /\ writer[c] = "select"
    /\ WriterGoto(c, "ping check")
    /\ UNCHANGED <<broker, out, sent>>

CheckHeartbeat(c) ==
    /\ writer[c] \in {"ping check", "beat check"}
    /\ WriterGoto(c, IF overflow[c] THEN "goodbye"
                     ELSE IF writer[c] = "ping check" THEN "ping" ELSE "beat")
    /\ UNCHANGED <<broker, out, sent>>

WriteHeartbeat(c) ==
    /\ writer[c] \in {"ping", "beat"}
    /\ conn[c] # "closed"
    /\ WriterGoto(c, IF writer[c] = "ping" THEN "beat check" ELSE "top")
    /\ UNCHANGED <<broker, out, sent>>

\* A write fails on a connection that is gone or closed, or by its deadline.
WriteFails(c) ==
    /\ writer[c] \in {"frame", "ping", "beat"}
    /\ WriterGoto(c, "report")
    /\ UNCHANGED <<broker, out, sent>>

\* writeClose(reconnect_required); whether or not it gets through, the loop ends.
WriteClose(c) ==
    /\ writer[c] = "goodbye"
    /\ writer' = [writer EXCEPT ![c] = "report"]
    /\ goodbye' = [goodbye EXCEPT ![c] = conn[c] # "closed"]
    /\ UNCHANGED <<broker, conn, handler, reader, out, errs, sent>>

WriterReports(c) ==
    /\ writer[c] = "report"
    /\ ErrChReady(c)
    /\ errs' = [errs EXCEPT ![c] = @ + 1]
    /\ writer' = [writer EXCEPT ![c] = "done"]
    /\ out' = [out EXCEPT ![c] = <<>>]
    /\ UNCHANGED <<broker, conn, handler, reader, sent, goodbye>>

WriterStep(c) ==
    \/ StopAtTop(c) \/ Select(c) \/ ReceiveMessage(c) \/ ReceiveClosed(c)
    \/ CheckBeforeFrame(c) \/ MessageDone(c) \/ WriteFrame(c)
    \/ Heartbeat(c) \/ CheckHeartbeat(c) \/ WriteHeartbeat(c)
    \/ WriteFails(c) \/ WriteClose(c) \/ WriterReports(c)

-----------------------------------------------------------------------------
(* Specification *)

Next ==
    /\ \/ \E p \in Publisher : (PublishCall(p) \/ PublishStep(p)) /\ UNCHANGED loops
       \/ \E c \in Conn :
           \/ Upgrade(c) \/ HandlerStep(c) \/ ReaderStep(c) \/ WriterStep(c)
           \/ PeerLost(c)
    /\ UNCHANGED stuck

Spec == Init /\ [][Next]_vars

\* Publishers run on and get the mutex in turn (sync.Mutex hands over to the
\* longest waiter after a millisecond).
PublisherFairness ==
    \A p \in Publisher : SF_vars(PublishStep(p) /\ UNCHANGED <<loops, stuck>>)

\* Handlers and loops run on; a write ends by its deadline at the latest; the
\* select of a loop that comes back to it picks each ready case in the end.
\* Peers, clients and the services that publish are under no obligation.
Runs(c) == c \notin stuck /\ UNCHANGED stuck

ConnectionFairness ==
    \A c \in Conn :
        /\ SF_vars(HandlerStep(c) /\ Runs(c))
        /\ WF_vars(ReaderStep(c) /\ Runs(c))
        /\ WF_vars(WriterStep(c) /\ Runs(c))
        /\ SF_vars(ReceiveMessage(c) /\ Runs(c))

FairSpec == Spec /\ PublisherFairness /\ ConnectionFairness

-----------------------------------------------------------------------------
(* Correctness *)

TypeOK ==
    /\ mu \in Publisher \cup {Nobody}
    /\ subs \subseteq Conn
    /\ queue \in [Conn -> Seq(Message)]
    /\ closed \in [Conn -> BOOLEAN] /\ overflow \in [Conn -> BOOLEAN]
    /\ pub \in [Publisher -> {"idle", "lock", "offer", "discard"}]
    /\ todo \subseteq Conn /\ victim \in Conn \cup {Nobody}
    /\ current \in [Publisher -> Message \cup {NoMessage}]
    /\ published \in 0..MaxMessages
    /\ due \in [Conn -> Seq(Message)]
    /\ panicked \in BOOLEAN
    /\ conn \in [Conn -> {"none", "open", "gone", "closed"}]
    /\ handler \in [Conn -> {"idle", "subscribe", "ready", "wait", "close",
                             "cancel", "done"}]
    /\ reader \in [Conn -> {"off", "reading", "report", "done"}]
    /\ writer \in [Conn -> {"off", "top", "select", "check", "frame", "ping check",
                            "ping", "beat check", "beat", "goodbye", "report", "done"}]
    /\ out \in [Conn -> Seq(Frame)]
    /\ errs \in [Conn -> 0..2]
    /\ sent \in [Conn -> Seq(Frame)]
    /\ goodbye \in [Conn -> BOOLEAN]
    /\ stuck \subseteq MayStick
    /\ \A c \in Conn : Len(queue[c]) <= Capacity

DueFrames(c) == FlattenSeq([i \in 1..Len(due[c]) |-> Frames(c, due[c][i])])

(***************************************************************************)
(* A client sees no hole in the stream: the frames written to a connection *)
(* are, in order, the first ones of all that was published to its          *)
(* workspace since it subscribed, even while Publish is discarding its     *)
(* queue under the loop's feet ("Publish still closes that subscriber      *)
(* rather than dropping an event silently", broker.go:10-12; the overflow  *)
(* checks of writeLoop, realtime.go:213-270).                              *)
(***************************************************************************)
NoGap == \A c \in Conn : IsPrefix(sent[c], DueFrames(c))

(***************************************************************************)
(* Publish and cancel never close a channel twice or send on a closed one, *)
(* which would panic inside a service call, with the mutex held.           *)
(***************************************************************************)
NoPanic == ~panicked

(***************************************************************************)
(* The broker only offers messages to subscribers that can still read      *)
(* them: a registered channel is open, and a handler that returned has     *)
(* left nothing registered.                                                *)
(***************************************************************************)
RegisteredIsOpen ==
    \A c \in subs :
        /\ handler[c] # "done"
        /\ closed[c] \/ overflow[c] => victim = c

(***************************************************************************)
(* Publish always returns, also when a connection never reads again.       *)
(***************************************************************************)
PublishAlwaysReturns == \A p \in Publisher : pub[p] # "idle" ~> pub[p] = "idle"

AllEnded(c) ==
    /\ handler[c] = "done" /\ conn[c] = "closed"
    /\ reader[c] \in {"off", "done"} /\ writer[c] \in {"off", "done"}

(***************************************************************************)
(* Once a connection fails, or its subscriber is dropped for being slow,   *)
(* the handler closes it and all three goroutines end; no one is left      *)
(* waiting on errCh.                                                       *)
(***************************************************************************)
FailedConnectionsEnd ==
    \A c \in Conn :
        c \notin stuck /\ (overflow[c] \/ conn[c] \in {"gone", "closed"}) ~> AllEnded(c)

(***************************************************************************)
(* An event published to a registered connection is written to it, or the  *)
(* connection is closed: a live client never waits for it in vain, stuck   *)
(* clients in the same workspace or not.                                   *)
(***************************************************************************)
EveryEventArrives ==
    \A c \in Conn : \A n \in 1..(MaxMessages * (MaxItems + 1)) :
        (c \notin stuck /\ Len(DueFrames(c)) >= n) ~> (Len(sent[c]) >= n \/ conn[c] = "closed")
=============================================================================
