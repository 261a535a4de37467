--------------------------- MODULE RealtimeProofs ----------------------------
(***************************************************************************)
(* Proofs about Realtime: Publish and cancel never close a channel twice   *)
(* or send on a closed one, what is registered can still be read, and no   *)
(* connection sees a hole in its stream, for any number of connections,    *)
(* publishers and messages and any capacity.                               *)
(***************************************************************************)
EXTENDS Realtime, WellFoundedInduction, TLAPS

\* TypeOK in two parts.
BrokerTypes ==
    /\ mu \in Publisher \cup {Nobody}
    /\ subs \subseteq Conn
    /\ queue \in [Conn -> Seq(Message)]
    /\ closed \in [Conn -> BOOLEAN] /\ overflow \in [Conn -> BOOLEAN]
    /\ pub \in [Publisher -> {"idle", "lock", "offer", "discard"}]
    /\ todo \subseteq Conn /\ victim \in Conn \cup {Nobody}
    /\ current \in [Publisher -> Message \cup {NoMessage}]
    /\ published \in 0..MaxMessages
    /\ due \in [Conn -> Seq(Message)]
    /\ panicked \in BOOLEAN
    /\ \A c \in Conn : Len(queue[c]) <= Capacity

LoopTypes ==
    /\ conn \in [Conn -> {"none", "open", "gone", "closed"}]
    /\ handler \in [Conn -> {"idle", "subscribe", "ready", "wait", "close",
                             "cancel", "done"}]
    /\ reader \in [Conn -> {"off", "reading", "report", "done"}]
    /\ writer \in [Conn -> {"off", "top", "select", "check", "frame", "ping check",
                            "ping", "beat check", "beat", "goodbye", "report", "done"}]
    /\ out \in [Conn -> Seq(Frame)]
    /\ errs \in [Conn -> 0..2]
    /\ sent \in [Conn -> Seq(Frame)]
    /\ goodbye \in [Conn -> BOOLEAN]
    /\ stuck \subseteq MayStick

LEMMA TypeParts == TypeOK <=> BrokerTypes /\ LoopTypes
  BY Zenon DEF TypeOK, BrokerTypes, LoopTypes

\* At most one publisher is past the mutex; it visits registered subscribers,
\* and the one it is dropping is the victim.
MutexOK ==
    /\ \A p \in Publisher : pub[p] \in {"offer", "discard"} <=> mu = p
    /\ todo \subseteq subs
    /\ mu = Nobody => todo = {} /\ victim = Nobody
    /\ \A p \in Publisher :
          /\ pub[p] = "discard" => victim \in todo
          /\ pub[p] = "offer" => victim = Nobody
          /\ pub[p] # "idle" => current[p] \in Message

\* A connection is registered at most once in its life, while its handler runs.
SubsOK ==
    /\ \A c \in subs : /\ handler[c] \in {"ready", "wait", "close", "cancel"}
                       /\ ~closed[c]
                       /\ overflow[c] => victim = c
    /\ \A c \in Conn : handler[c] \in {"idle", "subscribe"} =>
          c \notin subs /\ ~closed[c] /\ ~overflow[c]

\* Each loop is started once and reports once; a frame is written from a
\* message that has one left.
LoopsOK ==
    \A c \in Conn :
        /\ handler[c] \in {"idle", "subscribe", "ready"} => reader[c] = "off" /\ writer[c] = "off"
        /\ errs[c] > 0 => reader[c] = "done" \/ writer[c] = "done"
        /\ errs[c] > 1 => reader[c] = "done" /\ writer[c] = "done"
        /\ writer[c] = "frame" => out[c] # <<>>

RealtimeInv == BrokerTypes /\ LoopTypes /\ MutexOK /\ SubsOK /\ LoopsOK /\ NoPanic

LEMMA RealtimeInitially == Init => RealtimeInv
<1> SUFFICES ASSUME Init PROVE RealtimeInv
  OBVIOUS
<1> USE BrokerAssumption DEF Init, BrokerInit
<1>1. BrokerTypes
  <2>1. /\ queue \in [Conn -> Seq(Message)] /\ due \in [Conn -> Seq(Message)]
        /\ \A c \in Conn : Len(queue[c]) <= Capacity
    OBVIOUS
  <2>2. published \in 0..MaxMessages /\ current \in [Publisher -> Message \cup {NoMessage}]
    OBVIOUS
  <2>3. /\ mu \in Publisher \cup {Nobody} /\ pub \in [Publisher -> {"idle", "lock", "offer", "discard"}]
        /\ closed \in [Conn -> BOOLEAN] /\ overflow \in [Conn -> BOOLEAN]
        /\ subs \subseteq Conn /\ todo \subseteq Conn /\ victim \in Conn \cup {Nobody}
        /\ panicked \in BOOLEAN
    OBVIOUS
  <2> QED
    BY <2>1, <2>2, <2>3 DEF BrokerTypes
<1>2. LoopTypes
  BY DEF LoopTypes
<1>3. MutexOK /\ SubsOK /\ LoopsOK /\ NoPanic
  BY DEF MutexOK, SubsOK, LoopsOK, NoPanic
<1> QED
  BY <1>1, <1>2, <1>3 DEF RealtimeInv

\* The frames of a message have their type.
LEMMA FramesType ==
  ASSUME NEW c, NEW m \in Message
  PROVE  Frames(c, m) \in Seq(Frame)
<1> USE BrokerAssumption DEF Message, Frame
<1>1. ASSUME m.items > 0
      PROVE  [i \in 1..m.items |-> <<m.id, i>>] \in Seq(Frame)
  <2>1. [i \in 1..m.items |-> <<m.id, i>>] \in [1..m.items -> Frame]
    BY <1>1
  <2> QED
    BY <2>1, <1>1
<1>2. << <<m.id, 0>> >> \in Seq(Frame)
  OBVIOUS
<1> QED
  BY <1>1, <1>2 DEF Frames

-----------------------------------------------------------------------------
(* The steps of publishers *)

LEMMA PublisherStep ==
  ASSUME RealtimeInv, NEW p \in Publisher, PublishCall(p) \/ PublishStep(p), UNCHANGED <<loops, stuck>>
  PROVE  RealtimeInv'
<1> USE BrokerAssumption DEF RealtimeInv, NoPanic
<1> /\ UNCHANGED <<conn, handler, reader, writer, out, errs, sent, goodbye, stuck>>
  BY DEF loops
<1>0. LoopsOK' /\ LoopTypes'
  BY DEF LoopsOK, LoopTypes
<1>1. CASE PublishCall(p)
  <2>1. /\ published' \in 0..MaxMessages
        /\ current' \in [Publisher -> Message \cup {NoMessage}] /\ current'[p] \in Message
        /\ \A q \in Publisher \ {p} : current'[q] = current[q]
    BY <1>1 DEF PublishCall, BrokerTypes, Message
  <2>2. BrokerTypes'
    BY <1>1, <2>1 DEF PublishCall, BrokerTypes
  <2>3. MutexOK'
    BY <1>1, <2>1 DEF PublishCall, BrokerTypes, MutexOK
  <2>4. SubsOK' /\ NoPanic'
    BY <1>1 DEF PublishCall, SubsOK
  <2> QED
    BY <1>0, <2>2, <2>3, <2>4
<1>2. CASE LockPublish(p)
  <2>1. current[p] \in Message /\ mu = Nobody
    BY <1>2 DEF LockPublish, MutexOK
  <2>2. due' \in [Conn -> Seq(Message)]
    BY <1>2, <2>1 DEF LockPublish, BrokerTypes
  <2>3. BrokerTypes'
    BY <1>2, <2>2 DEF LockPublish, BrokerTypes, SubscribersOf
  <2>4. MutexOK'
    BY <1>2 DEF LockPublish, BrokerTypes, MutexOK, SubscribersOf
  <2>5. SubsOK' /\ NoPanic'
    BY <1>2 DEF LockPublish, SubsOK
  <2> QED
    BY <1>0, <2>3, <2>4, <2>5
<1>3. ASSUME NEW c \in Conn, Deliver(p, c)
      PROVE  RealtimeInv'
  <2>1. mu = p /\ c \in subs /\ ~closed[c] /\ current[p] \in Message
    BY <1>3 DEF Deliver, MutexOK, SubsOK
  <2>2. queue' \in [Conn -> Seq(Message)] /\ \A d \in Conn : Len(queue'[d]) <= Capacity
    BY <1>3, <2>1 DEF Deliver, HasRoom, BrokerTypes
  <2>3. BrokerTypes'
    BY <1>3, <2>2 DEF Deliver, BrokerTypes
  <2>4. MutexOK'
    BY <1>3, <2>1 DEF Deliver, BrokerTypes, MutexOK
  <2>5. SubsOK' /\ NoPanic'
    BY <1>3, <2>1 DEF Deliver, SubsOK
  <2> QED
    BY <1>0, <2>3, <2>4, <2>5
<1>4. ASSUME NEW c \in Conn, DropSlow(p, c)
      PROVE  RealtimeInv'
  <2>1. mu = p /\ c \in todo /\ c \in subs /\ victim = Nobody /\ ~overflow[c] /\ c # Nobody
    BY <1>4 DEF DropSlow, MutexOK, SubsOK
  <2>2. BrokerTypes'
    BY <1>4 DEF DropSlow, BrokerTypes
  <2>3. MutexOK'
    BY <1>4, <2>1 DEF DropSlow, BrokerTypes, MutexOK
  <2>4. SubsOK' /\ NoPanic'
    BY <1>4, <2>1 DEF DropSlow, BrokerTypes, SubsOK
  <2> QED
    BY <1>0, <2>2, <2>3, <2>4
<1>5. CASE DiscardOne(p)
  <2>1. victim \in Conn
    BY <1>5 DEF DiscardOne, MutexOK, BrokerTypes
  <2>2. /\ queue' \in [Conn -> Seq(Message)]
        /\ \A d \in Conn : Len(queue'[d]) <= Len(queue[d])
    BY <1>5, <2>1 DEF DiscardOne, BrokerTypes
  <2>3. BrokerTypes'
    BY <1>5, <2>2 DEF DiscardOne, BrokerTypes
  <2>4. MutexOK' /\ SubsOK' /\ NoPanic'
    BY <1>5 DEF DiscardOne, MutexOK, SubsOK
  <2> QED
    BY <1>0, <2>3, <2>4
<1>6. CASE CloseSlow(p)
  <2>1. mu = p /\ victim \in todo /\ victim \in subs /\ ~closed[victim]
    BY <1>6 DEF CloseSlow, MutexOK, SubsOK
  <2>2. BrokerTypes'
    BY <1>6 DEF CloseSlow, BrokerTypes
  <2>3. MutexOK'
    BY <1>6, <2>1 DEF CloseSlow, BrokerTypes, MutexOK
  <2>4. SubsOK' /\ NoPanic'
    BY <1>6, <2>1 DEF CloseSlow, BrokerTypes, SubsOK
  <2> QED
    BY <1>0, <2>2, <2>3, <2>4
<1>7. CASE PublishReturns(p)
  <2>1. mu = p /\ victim = Nobody
    BY <1>7 DEF PublishReturns, MutexOK
  <2>2. BrokerTypes'
    BY <1>7 DEF PublishReturns, BrokerTypes
  <2>3. MutexOK'
    BY <1>7, <2>1 DEF PublishReturns, BrokerTypes, MutexOK
  <2>4. SubsOK' /\ NoPanic'
    BY <1>7 DEF PublishReturns, SubsOK
  <2> QED
    BY <1>0, <2>2, <2>3, <2>4
<1> QED
  BY <1>1, <1>2, <1>3, <1>4, <1>5, <1>6, <1>7 DEF PublishStep

-----------------------------------------------------------------------------
(* errCh *)

\* A loop that has not reported yet finds at most the other one's error.
LEMMA ReportFits ==
  ASSUME errs \in [Conn -> 0..2], LoopsOK, NEW c \in Conn,
         reader[c] = "report" \/ writer[c] = "report",
         errs' = [errs EXCEPT ![c] = @ + 1]
  PROVE  errs' \in [Conn -> 0..2] /\ errs[c] \in 0..1
  BY DEF LoopsOK

LEMMA ReportKeepsLoops ==
  ASSUME errs \in [Conn -> 0..2], LoopsOK, NEW c \in Conn,
         errs' = [errs EXCEPT ![c] = @ + 1],
         handler' = handler,
         \A d \in Conn \ {c} : reader'[d] = reader[d] /\ writer'[d] = writer[d] /\ out'[d] = out[d],
         \/ reader[c] = "report" /\ reader'[c] = "done" /\ writer'[c] = writer[c] /\ out'[c] = out[c]
         \/ writer[c] = "report" /\ writer'[c] = "done" /\ reader'[c] = reader[c]
  PROVE  LoopsOK'
  BY ReportFits DEF LoopsOK

\* The handler takes one out.
LEMMA TakenErrorFits ==
  ASSUME errs \in [Conn -> 0..2], NEW c \in Conn, errs[c] > 0, errs' = [errs EXCEPT ![c] = @ - 1]
  PROVE  errs' \in [Conn -> 0..2] /\ \A d \in Conn : errs'[d] <= errs[d]
  OBVIOUS

-----------------------------------------------------------------------------
(* The steps of the handler *)

LEMMA HandlerKeeps ==
  ASSUME RealtimeInv, NEW c \in Conn, Upgrade(c) \/ HandlerStep(c), UNCHANGED stuck
  PROVE  RealtimeInv'
<1> USE DEF RealtimeInv, NoPanic
<1> subs \subseteq Conn
  BY DEF BrokerTypes
<1>1. ASSUME UNCHANGED broker
      PROVE  BrokerTypes' /\ MutexOK' /\ NoPanic'
  BY <1>1 DEF broker, BrokerTypes, MutexOK
<1>2. CASE Upgrade(c)
  <2>1. LoopTypes' /\ LoopsOK'
    BY <1>2 DEF Upgrade, LoopTypes, LoopsOK
  <2>2. SubsOK'
    BY <1>2 DEF Upgrade, LoopTypes, SubsOK, broker
  <2> QED
    BY <1>1, <1>2, <2>1, <2>2 DEF Upgrade
<1>3. CASE HandlerSubscribes(c)
  <2>1. LoopTypes' /\ LoopsOK'
    BY <1>3 DEF HandlerSubscribes, LoopTypes, LoopsOK
  <2>2. BrokerTypes' /\ MutexOK' /\ NoPanic'
    BY <1>3 DEF HandlerSubscribes, Subscribe, BrokerTypes, MutexOK
  <2>3. SubsOK'
    BY <1>3 DEF HandlerSubscribes, Subscribe, LoopTypes, SubsOK
  <2> QED
    BY <2>1, <2>2, <2>3
<1>4. CASE Ready(c)
  <2>1. LoopTypes' /\ LoopsOK'
    BY <1>4 DEF Ready, LoopTypes, LoopsOK
  <2>2. SubsOK'
    BY <1>4 DEF Ready, LoopTypes, SubsOK, broker
  <2> QED
    BY <1>1, <1>4, <2>1, <2>2 DEF Ready
<1>5. CASE ReadyFails(c)
  <2>1. LoopTypes' /\ LoopsOK'
    BY <1>5 DEF ReadyFails, LoopTypes, LoopsOK
  <2>2. SubsOK'
    BY <1>5 DEF ReadyFails, LoopTypes, SubsOK, broker
  <2> QED
    BY <1>1, <1>5, <2>1, <2>2 DEF ReadyFails
<1>6. CASE FirstError(c)
  <2>1. errs' \in [Conn -> 0..2] /\ \A d \in Conn : errs'[d] <= errs[d]
    BY <1>6, TakenErrorFits DEF FirstError, LoopTypes
  <2>3. LoopTypes'
    BY <1>6, <2>1 DEF FirstError, LoopTypes
  <2>5. errs \in [Conn -> 0..2] /\ \A d \in Conn : handler'[d] \in {handler[d], "close"}
    BY <1>6 DEF FirstError, LoopTypes
  <2>4. LoopsOK'
    BY <1>6, <2>1, <2>5 DEF FirstError, LoopsOK
  <2>2. SubsOK'
    BY <1>6 DEF FirstError, LoopTypes, SubsOK, broker
  <2> QED
    BY <1>1, <1>6, <2>2, <2>3, <2>4 DEF FirstError
<1>7. CASE CloseConn(c)
  <2>1. LoopTypes' /\ LoopsOK'
    BY <1>7 DEF CloseConn, LoopTypes, LoopsOK
  <2>2. SubsOK'
    BY <1>7 DEF CloseConn, LoopTypes, SubsOK, broker
  <2> QED
    BY <1>1, <1>7, <2>1, <2>2 DEF CloseConn
<1>8. CASE HandlerCancels(c)
  <2>1. LoopTypes' /\ LoopsOK'
    BY <1>8 DEF HandlerCancels, LoopTypes, LoopsOK
  <2>2. BrokerTypes' /\ MutexOK' /\ NoPanic'
    BY <1>8 DEF HandlerCancels, Cancel, BrokerTypes, MutexOK, SubsOK
  <2>3. SubsOK'
    BY <1>8 DEF HandlerCancels, Cancel, BrokerTypes, LoopTypes, SubsOK
  <2> QED
    BY <2>1, <2>2, <2>3
<1> QED
  BY <1>2, <1>3, <1>4, <1>5, <1>6, <1>7, <1>8 DEF HandlerStep

-----------------------------------------------------------------------------
(* The steps of the two loops *)

LEMMA ReaderKeeps ==
  ASSUME RealtimeInv, NEW c \in Conn, ReaderStep(c) \/ PeerLost(c), UNCHANGED stuck
  PROVE  RealtimeInv'
<1> USE DEF RealtimeInv
<1>1. UNCHANGED <<broker, handler, writer, out, sent, goodbye>>
  BY DEF ReaderStep, ReadFails, ReaderReports, PeerLost
<1>2. BrokerTypes' /\ MutexOK' /\ SubsOK' /\ NoPanic'
  BY <1>1 DEF broker, BrokerTypes, MutexOK, SubsOK, NoPanic
<1>3. CASE ReadFails(c) \/ PeerLost(c)
  BY <1>2, <1>3 DEF ReadFails, PeerLost, LoopTypes, LoopsOK
<1>4. CASE ReaderReports(c)
  <2>1. errs' \in [Conn -> 0..2]
    BY <1>4, ReportFits DEF ReaderReports, LoopTypes
  <2>2. LoopTypes'
    BY <1>4, <2>1 DEF ReaderReports, LoopTypes
  <2>3. LoopsOK'
    BY <1>4, ReportKeepsLoops DEF ReaderReports, LoopTypes
  <2> QED
    BY <1>2, <2>2, <2>3
<1> QED
  BY <1>3, <1>4 DEF ReaderStep

\* A step of the write loop within its iteration.
LEMMA WriterGoes ==
  ASSUME RealtimeInv, UNCHANGED stuck, NEW c \in Conn, writer[c] \notin {"off", "done"},
         NEW label \in {"top", "select", "check", "frame", "ping check", "ping", "beat check",
                        "beat", "goodbye", "report"},
         WriterGoto(c, label),
         out' \in [Conn -> Seq(Frame)], sent' \in [Conn -> Seq(Frame)],
         \A d \in Conn \ {c} : out'[d] = out[d],
         label = "frame" => out'[c] # <<>>
  PROVE  LoopTypes' /\ LoopsOK'
<1> USE DEF RealtimeInv
<1>1. LoopTypes'
  BY DEF WriterGoto, LoopTypes
<1>2. LoopsOK'
  BY DEF WriterGoto, LoopTypes, LoopsOK
<1> QED
  BY <1>1, <1>2

LEMMA WriterKeeps ==
  ASSUME RealtimeInv, NEW c \in Conn, WriterStep(c), UNCHANGED stuck
  PROVE  RealtimeInv'
<1> USE DEF RealtimeInv
<1>1. ASSUME UNCHANGED broker, handler' = handler
      PROVE  BrokerTypes' /\ MutexOK' /\ SubsOK' /\ NoPanic'
  BY <1>1 DEF broker, BrokerTypes, MutexOK, SubsOK, NoPanic
<1>2. out \in [Conn -> Seq(Frame)] /\ sent \in [Conn -> Seq(Frame)]
  BY DEF LoopTypes
<1>3. CASE StopAtTop(c) \/ Select(c) \/ ReceiveClosed(c) \/ CheckBeforeFrame(c) \/ MessageDone(c)
           \/ Heartbeat(c) \/ CheckHeartbeat(c) \/ WriteHeartbeat(c) \/ WriteFails(c)
  <2>1. PICK label \in {"top", "select", "check", "frame", "ping check", "ping", "beat check",
                        "beat", "goodbye", "report"} :
           WriterGoto(c, label) /\ (label = "frame" => out[c] # <<>>)
    BY <1>3 DEF StopAtTop, Select, ReceiveClosed, CheckBeforeFrame, MessageDone, Heartbeat,
                CheckHeartbeat, WriteHeartbeat, WriteFails
  <2>2. UNCHANGED <<broker, out, sent>> /\ writer[c] \notin {"off", "done"}
    BY <1>3 DEF StopAtTop, Select, ReceiveClosed, CheckBeforeFrame, MessageDone, Heartbeat,
                CheckHeartbeat, WriteHeartbeat, WriteFails
  <2>3. handler' = handler
    BY <2>1 DEF WriterGoto
  <2> QED
    BY <1>1, <1>2, <2>1, <2>2, <2>3, WriterGoes
<1>4. CASE ReceiveMessage(c)
  <2>1. Head(queue[c]) \in Message /\ Tail(queue[c]) \in Seq(Message)
        /\ Len(Tail(queue[c])) <= Len(queue[c])
    BY <1>4 DEF ReceiveMessage, Receive, BrokerTypes
  <2>2. /\ queue' \in [Conn -> Seq(Message)]
        /\ \A d \in Conn : Len(queue'[d]) <= Len(queue[d])
    BY <1>4, <2>1 DEF ReceiveMessage, Receive, BrokerTypes
  <2>6. BrokerTypes'
    BY <1>4, <2>2, BrokerAssumption DEF ReceiveMessage, Receive, BrokerTypes
  <2>3. MutexOK' /\ SubsOK' /\ NoPanic'
    BY <1>4 DEF ReceiveMessage, Receive, WriterGoto, MutexOK, SubsOK, NoPanic
  <2>4. Frames(c, Head(queue[c])) \in Seq(Frame)
    BY <2>1, FramesType
  <2>5. /\ out' \in [Conn -> Seq(Frame)] /\ sent' \in [Conn -> Seq(Frame)]
        /\ \A d \in Conn \ {c} : out'[d] = out[d]
        /\ writer[c] = "select" /\ WriterGoto(c, "check")
    BY <1>2, <1>4, <2>4 DEF ReceiveMessage
  <2> QED
    BY <2>3, <2>5, <2>6, WriterGoes
<1>5. CASE WriteFrame(c)
  <2>1. Head(out[c]) \in Frame /\ Tail(out[c]) \in Seq(Frame)
    BY <1>2, <1>5 DEF WriteFrame, LoopsOK
  <2>2. /\ out' \in [Conn -> Seq(Frame)] /\ sent' \in [Conn -> Seq(Frame)]
        /\ \A d \in Conn \ {c} : out'[d] = out[d]
        /\ writer[c] = "frame" /\ WriterGoto(c, "check") /\ UNCHANGED broker
    BY <1>2, <1>5, <2>1 DEF WriteFrame
  <2> QED
    BY <1>1, <2>2, WriterGoes DEF WriterGoto
<1>6. CASE WriteClose(c)
  BY <1>1, <1>6 DEF WriteClose, LoopTypes, LoopsOK
<1>7. CASE WriterReports(c)
  <2>1. errs' \in [Conn -> 0..2]
    BY <1>7, ReportFits DEF WriterReports, LoopTypes
  <2>4. out' \in [Conn -> Seq(Frame)]
    BY <1>2, <1>7 DEF WriterReports
  <2>5. writer' \in [Conn -> {"off", "top", "select", "check", "frame", "ping check", "ping",
                               "beat check", "beat", "goodbye", "report", "done"}]
    BY <1>7 DEF WriterReports, LoopTypes
  <2>2. LoopTypes'
    BY <1>7, <2>1, <2>4, <2>5 DEF WriterReports, LoopTypes
  <2>3. LoopsOK'
    BY <1>7, ReportKeepsLoops DEF WriterReports, LoopTypes
  <2> QED
    BY <1>1, <1>7, <2>2, <2>3 DEF WriterReports
<1> QED
  BY <1>3, <1>4, <1>5, <1>6, <1>7 DEF WriterStep

LEMMA RealtimeAlways == Spec => []RealtimeInv
<1>1. RealtimeInv /\ [Next]_vars => RealtimeInv'
  <2> SUFFICES ASSUME RealtimeInv, [Next]_vars PROVE RealtimeInv'
    OBVIOUS
  <2>1. CASE UNCHANGED vars
    BY <2>1 DEF vars, broker, loops, RealtimeInv, BrokerTypes, LoopTypes, MutexOK, SubsOK, LoopsOK,
                NoPanic
  <2>2. CASE Next
    BY <2>2, PublisherStep, HandlerKeeps, ReaderKeeps, WriterKeeps DEF Next
  <2> QED
    BY <2>1, <2>2
<1> QED
  BY <1>1, RealtimeInitially, PTL DEF Spec

-----------------------------------------------------------------------------
(* Prefixes, and what FlattenSeq makes of the frames of several messages *)

\* A prefix agrees place by place.
LEMMA PrefixPointwise ==
  ASSUME NEW s \in Seq(Frame), NEW t \in Seq(Frame)
  PROVE  IsPrefix(s, t) <=> Len(s) <= Len(t) /\ \A i \in 1..Len(s) : s[i] = t[i]
<1>1. ASSUME IsPrefix(s, t) PROVE Len(s) <= Len(t) /\ \A i \in 1..Len(s) : s[i] = t[i]
  <2>1. /\ Len(s) <= Len(t) /\ SubSeq(s, 1, Len(s)) = SubSeq(t, 1, Len(s))
        /\ \A i \in 1..Len(s) : SubSeq(s, 1, Len(s))[i] = s[i]
        /\ \A i \in 1..Len(s) : SubSeq(t, 1, Len(s))[i] = t[i]
    BY <1>1 DEF IsPrefix
  <2> QED
    BY <2>1
<1>2. ASSUME Len(s) <= Len(t), \A i \in 1..Len(s) : s[i] = t[i] PROVE IsPrefix(s, t)
  BY <1>2 DEF IsPrefix
<1> QED
  BY <1>1, <1>2

LEMMA PrefixTransitive ==
  ASSUME NEW s \in Seq(Frame), NEW t \in Seq(Frame), NEW u \in Seq(Frame),
         IsPrefix(s, t), IsPrefix(t, u)
  PROVE  IsPrefix(s, u)
<1>1. /\ Len(s) <= Len(t) /\ \A i \in 1..Len(s) : s[i] = t[i]
      /\ Len(t) <= Len(u) /\ \A i \in 1..Len(t) : t[i] = u[i]
  BY PrefixPointwise
<1>2. \A i \in 1..Len(s) : i \in 1..Len(t)
  BY <1>1
<1>3. Len(s) <= Len(u) /\ \A i \in 1..Len(s) : s[i] = u[i]
  BY <1>1, <1>2
<1> QED
  BY <1>3, PrefixPointwise

\* Moving the head of a sequence to the end of the one before it.
LEMMA PrefixOfConcatenation ==
  ASSUME NEW s \in Seq(Frame), NEW t \in Seq(Frame)
  PROVE  /\ s \o t \in Seq(Frame) /\ IsPrefix(s, s \o t)
         /\ t # <<>> => Append(s, Head(t)) \in Seq(Frame)
                        /\ IsPrefix(Append(s, Head(t)), s \o t)
                        /\ Append(s, Head(t)) \o Tail(t) = s \o t
<1>0. s \o t \in Seq(Frame)
  OBVIOUS
<1>1. PICK u \in Seq(Frame) : u = s \o t
  BY <1>0
<1>2. /\ Len(u) = Len(s) + Len(t)
      /\ \A i \in 1..Len(s) : u[i] = s[i]
      /\ \A i \in 1..Len(t) : u[Len(s) + i] = t[i]
  BY <1>1
<1>3. IsPrefix(s, u)
  BY <1>2, PrefixPointwise
<1>4. ASSUME t # <<>>
      PROVE  /\ Append(s, Head(t)) \in Seq(Frame) /\ IsPrefix(Append(s, Head(t)), u)
             /\ Append(s, Head(t)) \o Tail(t) = u
  <2>1. Head(t) = t[1] /\ Head(t) \in Frame /\ 1 \in 1..Len(t) /\ Tail(t) \in Seq(Frame)
    BY <1>4
  <2>0. Append(s, Head(t)) \in Seq(Frame)
    BY <2>1
  <2>2. PICK v \in Seq(Frame) : v = Append(s, Head(t))
    BY <2>0
  <2>3. /\ Len(v) = Len(s) + 1 /\ v[Len(s) + 1] = t[1]
        /\ \A i \in 1..Len(s) : v[i] = s[i]
    BY <2>1, <2>2
  <2>4. u[Len(s) + 1] = t[1] /\ Len(v) <= Len(u)
    BY <1>2, <2>1, <2>3
  <2>5. ASSUME NEW i \in 1..Len(v) PROVE v[i] = u[i]
    <3>1. i \in 1..Len(s) \/ i = Len(s) + 1
      BY <2>3
    <3> QED
      BY <3>1, <1>2, <2>3, <2>4
  <2>6. IsPrefix(v, u)
    BY <2>4, <2>5, PrefixPointwise
  <2>7. v \o Tail(t) = u
    <3>1. PICK w \in Seq(Frame) : w = Tail(t)
      BY <2>1
    <3>2. Len(w) = Len(t) - 1 /\ \A i \in 1..Len(w) : w[i] = t[i + 1]
      BY <3>1, <1>4
    <3>0. v \o w \in Seq(Frame)
      OBVIOUS
    <3>3. PICK x \in Seq(Frame) : x = v \o w
      BY <3>0
    <3>4. /\ Len(x) = Len(v) + Len(w)
          /\ \A i \in 1..Len(v) : x[i] = v[i]
          /\ \A i \in 1..Len(w) : x[Len(v) + i] = w[i]
      BY <3>3
    <3>5. Len(x) = Len(u)
      BY <1>2, <2>3, <3>2, <3>4
    <3>6. ASSUME NEW i \in 1..Len(x) PROVE x[i] = u[i]
      <4>1. CASE i \in 1..Len(v)
        BY <4>1, <2>5, <3>4
      <4>2. CASE i \notin 1..Len(v)
        <5>1. PICK j \in 1..Len(w) : i = Len(v) + j
          <6>1. i - Len(v) \in 1..Len(w) /\ i = Len(v) + (i - Len(v))
            BY <4>2, <3>4
          <6> QED
            BY <6>1
        <5>2. x[i] = t[j + 1]
          BY <5>1, <3>2, <3>4
        <5>3. j + 1 \in 1..Len(t) /\ i = Len(s) + (j + 1)
          BY <5>1, <3>2, <2>3
        <5> QED
          BY <5>2, <5>3, <1>2
      <4> QED
        BY <4>1, <4>2
    <3>7. x = u
      BY <3>5, <3>6
    <3> QED
      BY <3>1, <3>3, <3>7
  <2> QED
    BY <2>1, <2>2, <2>6, <2>7
<1> QED
  BY <1>1, <1>3, <1>4

\* A set of numbers has a least one.
LEMMA LeastNumber ==
  ASSUME NEW T, T \subseteq Nat, T # {}
  PROVE  \E n \in T : \A m \in T : n <= m
<1>1. PICK n \in T : \A m \in T : <<m, n>> \notin OpToRel(<, Nat)
  BY WFMin, NatLessThanWellFounded, Zenon
<1>2. \A m \in T : ~(m < n)
  BY <1>1, Zenon DEF OpToRel
<1>3. n \in Nat /\ \A m \in T : m \in Nat
  OBVIOUS
<1>4. \A m \in T : n <= m
  BY <1>2, <1>3
<1> QED
  BY <1>4

\* f[i] is what the first i parts are together.
Running(f, parts, n) ==
    \A i \in 1..n : f[i] = IF i = 1 THEN parts[i] ELSE f[i - 1] \o parts[i]

\* There is such a sequence of sums,
LEMMA RunningExists ==
  ASSUME NEW n \in Nat, NEW parts, \A i \in 1..n : parts[i] \in Seq(Frame)
  PROVE  \E f \in [1..n -> Seq(Frame)] : Running(f, parts, n)
<1> DEFINE Good(k) == \E f \in [1..k -> Seq(Frame)] : Running(f, parts, k)
           T == {k \in 0..n : ~Good(k)}
<1>1. Good(0)
  <2>1. [i \in 1..0 |-> <<>>] \in [1..0 -> Seq(Frame)]
    OBVIOUS
  <2>2. Running([i \in 1..0 |-> <<>>], parts, 0)
    BY DEF Running
  <2> QED
    BY <2>1, <2>2
<1>2. ASSUME NEW k \in 0..n, k < n, Good(k) PROVE Good(k + 1)
  <2>1. PICK f \in [1..k -> Seq(Frame)] : Running(f, parts, k)
    BY <1>2
  <2> DEFINE last == IF k = 0 THEN parts[1] ELSE f[k] \o parts[k + 1]
             g == [i \in 1..(k + 1) |-> IF i <= k THEN f[i] ELSE last]
  <2>2. last \in Seq(Frame)
    <3>1. CASE k = 0
      BY <1>2, <3>1
    <3>2. CASE k # 0
      <4>1. f[k] \in Seq(Frame) /\ parts[k + 1] \in Seq(Frame)
        BY <1>2, <3>2
      <4> QED
        BY <3>2, <4>1
    <3> QED
      BY <3>1, <3>2
  <2>3. g \in [1..(k + 1) -> Seq(Frame)]
    BY <2>2
  <2>4. ASSUME NEW i \in 1..(k + 1)
        PROVE  g[i] = IF i = 1 THEN parts[i] ELSE g[i - 1] \o parts[i]
    <3>1. CASE i <= k
      <4>1. i \in 1..k /\ g[i] = f[i]
        BY <3>1
      <4>2. i # 1 => g[i - 1] = f[i - 1]
        BY <3>1
      <4> QED
        BY <2>1, <4>1, <4>2 DEF Running
    <3>2. CASE i = k + 1
      <4>1. g[i] = last /\ (k # 0 => g[k] = f[k])
        BY <3>2
      <4>2. CASE k = 0
        BY <3>2, <4>1, <4>2
      <4>3. CASE k # 0
        <5>1. i # 1 /\ i - 1 = k
          BY <3>2, <4>3
        <5> QED
          BY <3>2, <4>1, <4>3, <5>1
      <4> QED
        BY <4>2, <4>3
    <3> QED
      BY <3>1, <3>2
  <2>5. Running(g, parts, k + 1)
    BY <2>4 DEF Running
  <2> QED
    BY <2>3, <2>5
<1>3. T = {}
  <2> SUFFICES ASSUME T # {} PROVE FALSE
    OBVIOUS
  <2> HIDE DEF Good
  <2>0. T \subseteq Nat
    OBVIOUS
  <2>1. PICK k \in T : \A m \in T : k <= m
    <3> HIDE DEF T
    <3> QED
      BY <2>0, LeastNumber
  <2>2. k \in 0..n /\ ~Good(k) /\ k # 0
    BY <1>1, <2>1
  <2>3. k - 1 \in 0..n /\ k - 1 < n /\ (k - 1) + 1 = k
    BY <2>2
  <2>4. ~Good(k - 1)
    BY <1>2, <2>2, <2>3
  <2> QED
    BY <2>1, <2>3, <2>4
<1> HIDE DEF Good
<1>4. Good(n)
  BY <1>3
<1> QED
  BY <1>4 DEF Good

\* What the first parts are together is settled by those parts.
LEMMA RunningAgrees ==
  ASSUME NEW f, NEW g, NEW parts, NEW others, NEW k \in Nat, NEW m \in Nat, k <= m,
         Running(f, parts, k), Running(g, others, m), \A i \in 1..k : parts[i] = others[i]
  PROVE  \A i \in 1..k : f[i] = g[i]
<1> DEFINE T == {i \in 1..k : f[i] # g[i]}
<1>1. T = {}
  <2> SUFFICES ASSUME T # {} PROVE FALSE
    OBVIOUS
  <2>0. T \subseteq Nat
    OBVIOUS
  <2>1. PICK i \in T : \A j \in T : i <= j
    <3> HIDE DEF T
    <3> QED
      BY <2>0, LeastNumber
  <2>2. i \in 1..m /\ i \in 1..k /\ f[i] # g[i]
    BY <2>1
  <2>3. CASE i = 1
    BY <2>2, <2>3 DEF Running
  <2>4. CASE i # 1
    <3>1. i - 1 \in 1..k /\ i - 1 \notin T
      BY <2>1, <2>2, <2>4
    <3>2. f[i - 1] = g[i - 1]
      BY <3>1
    <3> QED
      BY <2>2, <2>4, <3>2 DEF Running
  <2> QED
    BY <2>3, <2>4
<1> QED
  BY <1>1

\* and FlattenSeq is the last of them.
LEMMA FlattenIs ==
  ASSUME NEW n \in Nat \ {0}, NEW parts, parts = [i \in 1..n |-> parts[i]],
         \A i \in 1..n : parts[i] \in Seq(Frame), Len(parts) = n,
         NEW f \in [1..n -> Seq(Frame)], Running(f, parts, n)
  PROVE  FlattenSeq(parts) = f[n]
<1> DEFINE flat == CHOOSE h : h = [i \in 1..n |-> IF i = 1 THEN parts[i] ELSE h[i - 1] \o parts[i]]
<1>1. FlattenSeq(parts) = flat[n]
  BY DEF FlattenSeq
<1>2. f = [i \in 1..n |-> IF i = 1 THEN parts[i] ELSE f[i - 1] \o parts[i]]
  BY DEF Running
<1>3. flat = [i \in 1..n |-> IF i = 1 THEN parts[i] ELSE flat[i - 1] \o parts[i]]
  BY <1>2
<1> HIDE DEF flat
<1>4. Running(flat, parts, n)
  BY <1>3 DEF Running
<1>5. \A i \in 1..n : f[i] = flat[i]
  BY <1>4, RunningAgrees
<1> QED
  BY <1>1, <1>5

\* The frames of the first k messages of s.
Upto(c, s, k) == FlattenSeq([i \in 1..k |-> Frames(c, s[i])])

\* One more message adds its frames.
LEMMA UptoGrows ==
  ASSUME NEW c, NEW s \in Seq(Message), NEW k \in 0..Len(s)
  PROVE  /\ Upto(c, s, 0) = <<>>
         /\ Upto(c, s, k) \in Seq(Frame)
         /\ k < Len(s) => Upto(c, s, k + 1) = Upto(c, s, k) \o Frames(c, s[k + 1])
<1> DEFINE Parts(j) == [i \in 1..j |-> Frames(c, s[i])]
<1>1. ASSUME NEW j \in 0..Len(s)
      PROVE  /\ Len(Parts(j)) = j /\ Parts(j) = [i \in 1..j |-> Parts(j)[i]]
             /\ \A i \in 1..j : Parts(j)[i] = Frames(c, s[i]) /\ Parts(j)[i] \in Seq(Frame)
  <2>1. \A i \in 1..j : Frames(c, s[i]) \in Seq(Frame)
    BY FramesType
  <2> QED
    BY <2>1
<1>2. Upto(c, s, 0) = <<>>
  BY DEF Upto, FlattenSeq
<1>3. ASSUME NEW j \in 1..Len(s), NEW f \in [1..j -> Seq(Frame)], Running(f, Parts(j), j)
      PROVE  Upto(c, s, j) = f[j]
  <2>1. j \in 0..Len(s) /\ j \in Nat \ {0}
    OBVIOUS
  <2>2. Upto(c, s, j) = FlattenSeq(Parts(j))
    BY DEF Upto
  <2>3. PICK parts : parts = Parts(j)
    OBVIOUS
  <2>4. /\ Len(parts) = j /\ parts = [i \in 1..j |-> parts[i]]
        /\ \A i \in 1..j : parts[i] \in Seq(Frame)
    BY <1>1, <2>1, <2>3
  <2> HIDE DEF Parts
  <2>5. FlattenSeq(parts) = f[j]
    BY <1>3, <2>1, <2>3, <2>4, FlattenIs
  <2> QED
    BY <2>2, <2>3, <2>5
<1>4. ASSUME NEW j \in 1..Len(s)
      PROVE  \E f \in [1..j -> Seq(Frame)] : Running(f, Parts(j), j)
  <2>1. j \in Nat /\ \A i \in 1..j : Parts(j)[i] \in Seq(Frame)
    BY <1>1
  <2> HIDE DEF Parts
  <2> QED
    BY <2>1, RunningExists
<1>5. Upto(c, s, k) \in Seq(Frame)
  <2>1. CASE k = 0
    <3>1. Upto(c, s, k) = <<>>
      BY <1>2, <2>1
    <3> QED
      BY <3>1
  <2>2. CASE k # 0
    <3>1. k \in 1..Len(s)
      BY <2>2
    <3>2. PICK f \in [1..k -> Seq(Frame)] : Running(f, Parts(k), k)
      BY <1>4, <3>1
    <3>3. Upto(c, s, k) = f[k]
      BY <1>3, <3>1, <3>2
    <3> QED
      BY <3>1, <3>3
  <2> QED
    BY <2>1, <2>2
<1>6. ASSUME k < Len(s)
      PROVE  Upto(c, s, k + 1) = Upto(c, s, k) \o Frames(c, s[k + 1])
  <2>1. k + 1 \in 1..Len(s) /\ k + 1 \in 0..Len(s) /\ k \in Nat
    BY <1>6
  <2>2. PICK g : g \in [1..(k + 1) -> Seq(Frame)] /\ Running(g, Parts(k + 1), k + 1)
    BY <1>4, <2>1
  <2>3. Upto(c, s, k + 1) = g[k + 1]
    BY <1>3, <2>1, <2>2
  <2>4. Parts(k + 1)[k + 1] = Frames(c, s[k + 1]) /\ k + 1 \in 1..(k + 1)
    BY <2>1
  <2>5. CASE k = 0
    <3>1. g[1] = Frames(c, s[1])
      BY <2>2, <2>4, <2>5 DEF Running
    <3>2. Frames(c, s[1]) \in Seq(Frame)
      BY <2>1, <2>5, FramesType
    <3>3. <<>> \o Frames(c, s[1]) = Frames(c, s[1])
      BY <3>2
    <3>4. Upto(c, s, 1) = Frames(c, s[1])
      BY <2>3, <2>5, <3>1
    <3>5. PICK next : next = k + 1
      OBVIOUS
    <3>6. next = 1
      BY <2>5, <3>5
    <3>7. Upto(c, s, next) = Upto(c, s, k) \o Frames(c, s[next])
      BY <1>2, <2>5, <3>3, <3>4, <3>6, Zenon
    <3> QED
      BY <3>5, <3>7, Zenon
  <2>6. CASE k # 0
    <3>1. k \in 1..Len(s)
      BY <2>6
    <3>2. PICK f : f \in [1..k -> Seq(Frame)] /\ Running(f, Parts(k), k)
      BY <1>4, <3>1
    <3>3. \A i \in 1..k : Parts(k)[i] = Parts(k + 1)[i]
      BY <2>1
    <3>4. f[k] = g[k]
      <4> HIDE DEF Parts
      <4>1. k \in 0..k /\ k <= k + 1 /\ k + 1 \in Nat /\ k \in 1..k
        BY <2>1, <3>1
      <4>2. PICK h, j, m, some, more :
              h = f /\ j = k /\ m = k + 1 /\ some = Parts(k) /\ more = Parts(k + 1)
        OBVIOUS
      <4>3. /\ j \in Nat /\ m \in Nat /\ j <= m /\ Running(h, some, j) /\ Running(g, more, m)
            /\ \A i \in 1..j : some[i] = more[i]
        BY <2>1, <2>2, <3>2, <3>3, <4>1, <4>2
      <4>4. \A i \in 1..j : h[i] = g[i]
        BY <4>3, RunningAgrees
      <4> QED
        BY <4>1, <4>2, <4>4
    <3>5. g[k + 1] = g[k] \o Frames(c, s[k + 1])
      <4> HIDE DEF Parts
      <4>1. k + 1 # 1 /\ (k + 1) - 1 = k
        BY <2>1, <2>6
      <4> QED
        BY <2>2, <2>4, <4>1 DEF Running
    <3>6. Upto(c, s, k) = f[k]
      BY <1>3, <3>1, <3>2
    <3> QED
      BY <2>3, <3>4, <3>5, <3>6
  <2> QED
    BY <2>5, <2>6
<1> QED
  BY <1>2, <1>5, <1>6

\* The frames of the first messages are settled by those messages.
LEMMA UptoSame ==
  ASSUME NEW c, NEW s, NEW t, NEW k, \A i \in 1..k : s[i] = t[i]
  PROVE  Upto(c, s, k) = Upto(c, t, k)
<1>1. [i \in 1..k |-> Frames(c, s[i])] = [i \in 1..k |-> Frames(c, t[i])]
  OBVIOUS
<1> QED
  BY <1>1 DEF Upto

\* They are a prefix of all frames.
LEMMA UptoPrefix ==
  ASSUME NEW c, NEW s \in Seq(Message), NEW k \in 0..Len(s)
  PROVE  IsPrefix(Upto(c, s, k), Upto(c, s, Len(s)))
<1> DEFINE T == {j \in k..Len(s) : ~IsPrefix(Upto(c, s, k), Upto(c, s, j))}
<1>1. T = {}
  <2> SUFFICES ASSUME T # {} PROVE FALSE
    OBVIOUS
  <2>0. T \subseteq Nat
    OBVIOUS
  <2>1. PICK j \in T : \A i \in T : j <= i
    <3> HIDE DEF T
    <3> QED
      BY <2>0, LeastNumber
  <2>2. /\ j \in 0..Len(s) /\ j >= k /\ ~IsPrefix(Upto(c, s, k), Upto(c, s, j))
        /\ Upto(c, s, k) \in Seq(Frame) /\ Upto(c, s, j) \in Seq(Frame)
    <3>1. j \in 0..Len(s) /\ j >= k /\ ~IsPrefix(Upto(c, s, k), Upto(c, s, j))
      BY <2>1
    <3>2. Upto(c, s, k) \in Seq(Frame)
      BY UptoGrows
    <3>3. Upto(c, s, j) \in Seq(Frame)
      BY <3>1, UptoGrows
    <3> QED
      BY <3>1, <3>2, <3>3
  <2>3. j # k
    BY <2>2, PrefixPointwise
  <2>4. PICK i \in 0..Len(s) : i + 1 = j /\ i < Len(s) /\ i >= k /\ i \notin T
    <3>1. j - 1 \in 0..Len(s) /\ (j - 1) + 1 = j /\ j - 1 < Len(s) /\ j - 1 >= k /\ ~(j <= j - 1)
      BY <2>2, <2>3
    <3> QED
      BY <2>1, <3>1
  <2>5. /\ IsPrefix(Upto(c, s, k), Upto(c, s, i)) /\ Upto(c, s, i) \in Seq(Frame)
        /\ Upto(c, s, j) = Upto(c, s, i) \o Frames(c, s[j])
    <3>1. IsPrefix(Upto(c, s, k), Upto(c, s, i))
      BY <2>4
    <3>2. Upto(c, s, i) \in Seq(Frame) /\ Upto(c, s, i + 1) = Upto(c, s, i) \o Frames(c, s[i + 1])
      BY <2>4, UptoGrows
    <3> QED
      BY <2>4, <3>1, <3>2
  <2>6. Frames(c, s[j]) \in Seq(Frame)
    BY <2>4, FramesType
  <2>7. IsPrefix(Upto(c, s, i), Upto(c, s, j))
    BY <2>5, <2>6, PrefixOfConcatenation
  <2> QED
    BY <2>2, <2>5, <2>7, PrefixTransitive
<1> QED
  BY <1>1

-----------------------------------------------------------------------------
(* Streams *)

\* The first k messages due to c are the ones written or in the loop's hands;
\* the others are in its queue, and the last one may be offered right now.
Caught(c, k) ==
    /\ sent[c] \o out[c] = Upto(c, due[c], k)
    /\ Len(due[c]) = k + Len(queue[c]) + (IF c \in todo THEN 1 ELSE 0)
    /\ \A i \in 1..Len(queue[c]) : due[c][k + i] = queue[c][i]
    /\ c \in todo => due[c][Len(due[c])] = current[mu]

\* What c is sent whatever happens: the frame in hand passed its check.
Sure(c) == IF writer[c] = "frame" THEN Append(sent[c], Head(out[c])) ELSE sent[c]

\* Until a connection is dropped nothing that is due to it is lost; from then
\* on only the frame that passed its check is still written.
StreamOK(c) ==
    /\ writer[c] \in {"off", "top", "select", "ping check", "ping", "beat check", "beat"} =>
         out[c] = <<>>
    /\ ~overflow[c] /\ writer[c] # "done" => \E k \in 0..Len(due[c]) : Caught(c, k)
    /\ IsPrefix(Sure(c), DueFrames(c))

DropsOverflowed == \A p \in Publisher : pub[p] = "discard" => overflow[victim]

StreamInv == DropsOverflowed /\ \A c \in Conn : StreamOK(c)

\* The types of what StreamOK is about.
LEMMA StreamTypes ==
  ASSUME RealtimeInv, NEW c \in Conn
  PROVE  /\ due[c] \in Seq(Message) /\ queue[c] \in Seq(Message) /\ Len(due[c]) \in Nat
         /\ sent[c] \in Seq(Frame) /\ out[c] \in Seq(Frame)
         /\ Sure(c) \in Seq(Frame)
         /\ DueFrames(c) = Upto(c, due[c], Len(due[c])) /\ DueFrames(c) \in Seq(Frame)
<1>1. /\ due[c] \in Seq(Message) /\ queue[c] \in Seq(Message) /\ Len(due[c]) \in Nat
      /\ sent[c] \in Seq(Frame) /\ out[c] \in Seq(Frame)
  <2>1. BrokerTypes /\ LoopTypes
    BY DEF RealtimeInv
  <2>2. due[c] \in Seq(Message) /\ queue[c] \in Seq(Message)
    BY <2>1 DEF BrokerTypes
  <2>3. sent[c] \in Seq(Frame) /\ out[c] \in Seq(Frame)
    BY <2>1 DEF LoopTypes
  <2>4. Len(due[c]) \in Nat
    BY <2>2
  <2> QED
    BY <2>2, <2>3, <2>4
<1>2. DueFrames(c) = Upto(c, due[c], Len(due[c]))
  BY DEF DueFrames, Upto
<1>3. Upto(c, due[c], Len(due[c])) \in Seq(Frame)
  <2>1. Len(due[c]) \in 0..Len(due[c])
    BY <1>1
  <2> QED
    BY <1>1, <2>1, UptoGrows, Zenon
<1>4. Sure(c) \in Seq(Frame)
  <2>1. CASE writer[c] = "frame"
    <3>1. Head(out[c]) \in Frame
      BY <1>1, <2>1 DEF RealtimeInv, LoopsOK
    <3> QED
      BY <1>1, <2>1, <3>1 DEF Sure
  <2>2. CASE writer[c] # "frame"
    BY <1>1, <2>2 DEF Sure
  <2> QED
    BY <2>1, <2>2
<1> QED
  BY <1>1, <1>2, <1>3, <1>4

\* What is sent anyway stays right when more becomes due.
LEMMA SureKept ==
  ASSUME RealtimeInv, RealtimeInv', NEW c \in Conn, StreamOK(c), Sure(c)' = Sure(c),
         due'[c] = due[c] \/ \E m \in Message : due'[c] = Append(due[c], m)
  PROVE  IsPrefix(Sure(c)', DueFrames(c)')
<1>1. /\ due[c] \in Seq(Message) /\ Len(due[c]) \in Nat /\ Sure(c) \in Seq(Frame)
      /\ DueFrames(c) = Upto(c, due[c], Len(due[c])) /\ DueFrames(c) \in Seq(Frame)
  BY StreamTypes
<1>2. /\ due'[c] \in Seq(Message) /\ DueFrames(c)' \in Seq(Frame)
      /\ DueFrames(c)' = Upto(c, due'[c], Len(due'[c]))
  <2>1. due'[c] \in Seq(Message)
    BY DEF RealtimeInv, BrokerTypes
  <2>2. DueFrames(c)' = Upto(c, due'[c], Len(due'[c]))
    BY DEF DueFrames, Upto
  <2>3. Len(due'[c]) \in 0..Len(due'[c])
    BY <2>1
  <2>4. Upto(c, due'[c], Len(due'[c])) \in Seq(Frame)
    BY <2>1, <2>3, UptoGrows, Zenon
  <2> QED
    BY <2>1, <2>2, <2>4
<1>3. /\ Len(due[c]) \in 0..Len(due'[c])
      /\ \A i \in 1..Len(due[c]) : due[c][i] = due'[c][i]
  <2>1. CASE due'[c] = due[c]
    BY <1>1, <2>1
  <2>2. CASE due'[c] # due[c]
    <3>1. PICK m \in Message : due'[c] = Append(due[c], m)
      BY <2>2
    <3> QED
      BY <1>1, <3>1
  <2> QED
    BY <2>1, <2>2
<1>4. Upto(c, due[c], Len(due[c])) = Upto(c, due'[c], Len(due[c]))
  BY <1>3, UptoSame
<1>5. IsPrefix(DueFrames(c), DueFrames(c)')
  BY <1>1, <1>2, <1>3, <1>4, UptoPrefix
<1>6. IsPrefix(Sure(c), DueFrames(c))
  BY Zenon DEF StreamOK
<1>7. IsPrefix(Sure(c), DueFrames(c)')
  BY <1>1, <1>2, <1>5, <1>6, PrefixTransitive
<1> QED
  BY <1>7

\* A step that concerns another connection, or drops this one.
LEMMA StreamKept ==
  ASSUME RealtimeInv, RealtimeInv', NEW c \in Conn, StreamOK(c),
         sent'[c] = sent[c], out'[c] = out[c], due'[c] = due[c], writer'[c] = writer[c],
         \/ overflow'[c]
         \/ /\ overflow'[c] = overflow[c] /\ queue'[c] = queue[c]
            /\ c \in todo' <=> c \in todo
            /\ c \in todo => current'[mu'] = current[mu]
  PROVE  StreamOK(c)'
<1>1. Sure(c)' = Sure(c)
  BY DEF Sure
<1>2. IsPrefix(Sure(c)', DueFrames(c)')
  BY <1>1, SureKept
<1>3. ASSUME ~overflow'[c], writer'[c] # "done"
      PROVE  \E k \in 0..Len(due'[c]) : Caught(c, k)'
  <2>1. PICK k \in 0..Len(due[c]) : Caught(c, k)
    BY <1>3 DEF StreamOK
  <2>2. Caught(c, k)'
    BY <1>3, <2>1 DEF Caught
  <2> QED
    BY <2>1, <2>2
<1> QED
  BY <1>2, <1>3 DEF StreamOK

\* The steps of publishers: a message becomes due and is offered at once, it
\* moves on into the queue, or the connection is dropped.
LEMMA StreamPublisher ==
  ASSUME RealtimeInv, RealtimeInv', StreamInv, NEW p \in Publisher,
         PublishCall(p) \/ PublishStep(p), UNCHANGED <<loops, stuck>>
  PROVE  StreamInv'
<1> /\ sent' = sent /\ out' = out /\ writer' = writer
  BY DEF loops
<1>0. BrokerTypes /\ MutexOK /\ p # Nobody
  BY BrokerAssumption DEF RealtimeInv
<1>1. ASSUME NEW c \in Conn, due'[c] = due[c],
             \/ overflow'[c]
             \/ /\ overflow'[c] = overflow[c] /\ queue'[c] = queue[c]
                /\ c \in todo' <=> c \in todo
                /\ c \in todo => current'[mu'] = current[mu]
      PROVE  StreamOK(c)'
  BY <1>1, StreamKept DEF StreamInv
<1>2. CASE PublishCall(p)
  <2>1. /\ UNCHANGED <<mu, queue, overflow, todo, victim, due>> /\ pub[p] = "idle"
        /\ \A q \in Publisher \ {p} : current'[q] = current[q] /\ pub'[q] = pub[q]
        /\ pub'[p] = "lock"
    BY <1>0, <1>2 DEF PublishCall, BrokerTypes
  <2>2. todo # {} => mu \in Publisher \ {p}
    BY <1>0, <2>1 DEF MutexOK, BrokerTypes
  <2>3. ASSUME NEW c \in Conn PROVE StreamOK(c)'
    BY <1>1, <2>1, <2>2
  <2>4. DropsOverflowed'
    BY <2>1 DEF StreamInv, DropsOverflowed
  <2> QED
    BY <2>3, <2>4 DEF StreamInv
<1>3. CASE LockPublish(p)
  <2>1. /\ UNCHANGED <<queue, overflow, victim, current>> /\ mu' = p /\ todo = {}
        /\ current[p] \in Message /\ \A q \in Publisher : pub'[q] = "discard" => pub[q] = "discard"
        /\ todo' = SubscribersOf(current[p].ws)
        /\ \A c \in Conn : due'[c] = IF c \in todo' THEN Append(due[c], current[p]) ELSE due[c]
    BY <1>0, <1>3 DEF LockPublish, BrokerTypes, MutexOK, SubscribersOf
  <2>2. ASSUME NEW c \in Conn PROVE StreamOK(c)'
    <3>1. CASE c \notin todo'
      BY <1>1, <2>1, <3>1
    <3>2. CASE c \in todo'
      <4>1. due'[c] = Append(due[c], current[p])
        BY <2>1, <3>2
      <4>2. IsPrefix(Sure(c)', DueFrames(c)')
        <5>1. Sure(c)' = Sure(c)
          BY DEF Sure
        <5> QED
          BY <2>1, <4>1, <5>1, SureKept DEF StreamInv
      <4>3. ASSUME ~overflow'[c], writer'[c] # "done"
            PROVE  \E k \in 0..Len(due'[c]) : Caught(c, k)'
        <5>1. PICK k \in 0..Len(due[c]) : Caught(c, k)
          BY <2>1, <4>3 DEF StreamInv, StreamOK
        <5>2. /\ due[c] \in Seq(Message) /\ queue[c] \in Seq(Message)
              /\ Len(due'[c]) = Len(due[c]) + 1 /\ due'[c][Len(due[c]) + 1] = current[p]
              /\ \A i \in 1..Len(due[c]) : due'[c][i] = due[c][i]
          <6>1. due[c] \in Seq(Message) /\ queue[c] \in Seq(Message)
            BY <1>0 DEF BrokerTypes
          <6> QED
            BY <2>1, <4>1, <6>1
        <5>3. Upto(c, due'[c], k) = Upto(c, due[c], k)
          <6>1. \A i \in 1..k : due'[c][i] = due[c][i]
            BY <5>2
          <6> QED
            BY <6>1, UptoSame
        <5>4. \A i \in 1..Len(queue[c]) : due'[c][k + i] = queue[c][i]
          <6>1. Len(due[c]) = k + Len(queue[c])
            BY <2>1, <5>1, <5>2 DEF Caught
          <6>2. ASSUME NEW i \in 1..Len(queue[c])
                PROVE  due'[c][k + i] = queue[c][i]
            <7>1. due[c][k + i] = queue[c][i]
              BY <5>1 DEF Caught
            <7>2. k + i \in 1..Len(due[c])
              BY <5>2, <6>1
            <7> QED
              BY <5>2, <7>1, <7>2
          <6> QED
            BY <6>2
        <5>5. Len(due'[c]) = k + Len(queue'[c]) + 1
          BY <2>1, <5>1, <5>2 DEF Caught
        <5>6. due'[c][Len(due'[c])] = current'[mu']
          BY <2>1, <5>2
        <5>7. Caught(c, k)'
          BY <2>1, <3>2, <5>1, <5>3, <5>4, <5>5, <5>6 DEF Caught
        <5>8. k \in 0..Len(due'[c])
          BY <5>2
        <5> QED
          BY <5>7, <5>8
      <4> QED
        BY <4>2, <4>3 DEF StreamInv, StreamOK
    <3> QED
      BY <3>1, <3>2
  <2>3. DropsOverflowed'
    BY <2>1 DEF StreamInv, DropsOverflowed
  <2> QED
    BY <2>2, <2>3 DEF StreamInv
<1>4. ASSUME NEW d \in Conn, Deliver(p, d) PROVE StreamInv'
  <2>1. /\ UNCHANGED <<mu, overflow, pub, victim, current, due>> /\ mu = p /\ d \in todo
        /\ queue'[d] = Append(queue[d], current[p]) /\ todo' = todo \ {d}
        /\ \A c \in Conn \ {d} : queue'[c] = queue[c]
    BY <1>0, <1>4 DEF Deliver, BrokerTypes, MutexOK
  <2>2. ASSUME NEW c \in Conn PROVE StreamOK(c)'
    <3>1. CASE c # d
      BY <1>1, <2>1, <3>1
    <3>2. CASE c = d
      <4>1. IsPrefix(Sure(c)', DueFrames(c)')
        <5>1. Sure(c)' = Sure(c)
          BY DEF Sure
        <5> QED
          BY <2>1, <5>1, SureKept DEF StreamInv
      <4>2. ASSUME ~overflow'[c], writer'[c] # "done"
            PROVE  \E k \in 0..Len(due'[c]) : Caught(c, k)'
        <5>1. PICK k \in 0..Len(due[c]) : Caught(c, k)
          BY <2>1, <4>2 DEF StreamInv, StreamOK
        <5>2. /\ due[c] \in Seq(Message) /\ queue[c] \in Seq(Message)
              /\ Len(queue'[c]) = Len(queue[c]) + 1 /\ queue'[c][Len(queue[c]) + 1] = current[p]
              /\ \A i \in 1..Len(queue[c]) : queue'[c][i] = queue[c][i]
          <6>1. due[c] \in Seq(Message) /\ queue[c] \in Seq(Message)
            BY <1>0 DEF BrokerTypes
          <6> QED
            BY <2>1, <3>2, <6>1
        <5>3. /\ Len(due[c]) = k + Len(queue[c]) + 1 /\ due[c][Len(due[c])] = current[p]
              /\ \A i \in 1..Len(queue[c]) : due[c][k + i] = queue[c][i]
              /\ sent[c] \o out[c] = Upto(c, due[c], k)
          BY <2>1, <3>2, <5>1 DEF Caught
        <5>4. /\ Len(due'[c]) = k + Len(queue'[c]) + (IF c \in todo' THEN 1 ELSE 0)
              /\ c \notin todo'
          <6>1. c \notin todo' /\ due'[c] = due[c]
            BY <2>1, <3>2
          <6>2. Len(queue[c]) \in Nat /\ k \in Nat
            BY <5>2
          <6>3. Len(due[c]) = k + Len(queue'[c])
            BY <5>2, <5>3, <6>2
          <6>4. k + Len(queue'[c]) = k + Len(queue'[c]) + 0
            BY <5>2, <6>2
          <6> QED
            BY <6>1, <6>3, <6>4
        <5>5. ASSUME NEW i \in 1..Len(queue'[c]) PROVE due'[c][k + i] = queue'[c][i]
          <6>1. CASE i \in 1..Len(queue[c])
            BY <2>1, <5>2, <5>3, <6>1
          <6>2. CASE i = Len(queue[c]) + 1
            <7>1. k + i = Len(due[c])
              BY <5>2, <5>3, <6>2
            <7> QED
              BY <2>1, <5>2, <5>3, <6>2, <7>1
          <6> QED
            BY <5>2, <6>1, <6>2
        <5>6. Caught(c, k)'
          <6>1. sent'[c] \o out'[c] = Upto(c, due'[c], k)
            BY <2>1, <5>3
          <6> QED
            BY <5>4, <5>5, <6>1 DEF Caught
        <5> QED
          BY <2>1, <5>6
      <4> QED
        BY <4>1, <4>2 DEF StreamInv, StreamOK
    <3> QED
      BY <3>1, <3>2
  <2>3. DropsOverflowed'
    BY <2>1 DEF StreamInv, DropsOverflowed
  <2> QED
    BY <2>2, <2>3 DEF StreamInv
<1>5. ASSUME NEW d \in Conn, DropSlow(p, d) PROVE StreamInv'
  <2>1. /\ UNCHANGED <<mu, queue, todo, current, due>> /\ overflow'[d] /\ victim' = d
        /\ mu = p /\ \A c \in Conn \ {d} : overflow'[c] = overflow[c]
        /\ \A q \in Publisher \ {p} : pub[q] # "discard" /\ pub'[q] = pub[q]
    BY <1>0, <1>5 DEF DropSlow, BrokerTypes, MutexOK
  <2>2. ASSUME NEW c \in Conn PROVE StreamOK(c)'
    BY <1>1, <2>1
  <2>3. DropsOverflowed'
    BY <2>1 DEF DropsOverflowed
  <2> QED
    BY <2>2, <2>3 DEF StreamInv
<1>6. CASE DiscardOne(p)
  <2>1. /\ UNCHANGED <<mu, overflow, pub, victim, todo, current, due>> /\ overflow[victim]
        /\ \A c \in Conn \ {victim} : queue'[c] = queue[c]
    BY <1>0, <1>6 DEF DiscardOne, BrokerTypes, StreamInv, DropsOverflowed
  <2>2. ASSUME NEW c \in Conn PROVE StreamOK(c)'
    BY <1>1, <2>1
  <2>3. DropsOverflowed'
    BY <2>1 DEF StreamInv, DropsOverflowed
  <2> QED
    BY <2>2, <2>3 DEF StreamInv
<1>7. CASE CloseSlow(p)
  <2>1. /\ UNCHANGED <<mu, queue, overflow, current, due>> /\ overflow[victim]
        /\ todo' = todo \ {victim} /\ mu = p
        /\ \A q \in Publisher : pub'[q] # "discard"
    BY <1>0, <1>7 DEF CloseSlow, BrokerTypes, MutexOK, StreamInv, DropsOverflowed
  <2>2. ASSUME NEW c \in Conn PROVE StreamOK(c)'
    BY <1>1, <2>1
  <2>3. DropsOverflowed'
    BY <2>1 DEF DropsOverflowed
  <2> QED
    BY <2>2, <2>3 DEF StreamInv
<1>8. CASE PublishReturns(p)
  <2>1. /\ UNCHANGED <<queue, overflow, victim, todo, due>> /\ todo = {}
        /\ \A q \in Publisher : pub'[q] = "discard" => pub[q] = "discard"
    BY <1>0, <1>8 DEF PublishReturns, BrokerTypes
  <2>2. ASSUME NEW c \in Conn PROVE StreamOK(c)'
    BY <1>1, <2>1
  <2>3. DropsOverflowed'
    BY <2>1 DEF StreamInv, DropsOverflowed
  <2> QED
    BY <2>2, <2>3 DEF StreamInv
<1> QED
  BY <1>2, <1>3, <1>4, <1>5, <1>6, <1>7, <1>8 DEF PublishStep

\* What was sent is the start of what is sent anyway.
LEMMA SentIsSure ==
  ASSUME NEW c, sent[c] \in Seq(Frame), Sure(c) \in Seq(Frame)
  PROVE  IsPrefix(sent[c], Sure(c))
<1>1. CASE writer[c] = "frame"
  <2>1. Sure(c) = Append(sent[c], Head(out[c]))
    BY <1>1 DEF Sure
  <2>2. Len(Sure(c)) = Len(sent[c]) + 1 /\ \A i \in 1..Len(sent[c]) : Sure(c)[i] = sent[c][i]
    BY <2>1
  <2> QED
    BY <2>2, PrefixPointwise
<1>2. CASE writer[c] # "frame"
  BY <1>2, PrefixPointwise DEF Sure
<1> QED
  BY <1>1, <1>2

\* The steps of a connection outside its write loop.
LEMMA StreamHandler ==
  ASSUME RealtimeInv, RealtimeInv', StreamInv, NEW c \in Conn,
         Upgrade(c) \/ HandlerStep(c) \/ ReaderStep(c) \/ PeerLost(c)
  PROVE  StreamInv'
<1>1. /\ UNCHANGED <<mu, queue, overflow, pub, todo, victim, current, due, out, sent>>
      /\ \A d \in Conn : writer'[d] = writer[d] \/ (writer[d] = "off" /\ writer'[d] = "top")
  <2>1. LoopTypes /\ LoopsOK
    BY DEF RealtimeInv
  <2>2. CASE Ready(c)
    <3>1. writer[c] = "off" /\ writer' = [writer EXCEPT ![c] = "top"]
          /\ writer \in [Conn -> {writer[d] : d \in Conn}]
      BY <2>1, <2>2 DEF Ready, LoopsOK, LoopTypes
    <3> QED
      BY <2>2, <3>1 DEF Ready, broker
  <2>3. CASE Upgrade(c) \/ HandlerSubscribes(c) \/ ReadyFails(c) \/ FirstError(c)
             \/ CloseConn(c) \/ HandlerCancels(c)
    BY <2>3 DEF Upgrade, HandlerSubscribes, Subscribe, ReadyFails, FirstError, CloseConn,
                HandlerCancels, Cancel, broker
  <2>4. CASE ReaderStep(c) \/ PeerLost(c)
    BY <2>4 DEF ReaderStep, ReadFails, ReaderReports, PeerLost, broker
  <2> QED
    BY <2>2, <2>3, <2>4 DEF HandlerStep
<1>2. ASSUME NEW d \in Conn PROVE StreamOK(d)'
  <2>1. CASE writer'[d] = writer[d]
    BY <1>1, <2>1, StreamKept DEF StreamInv
  <2>2. CASE writer[d] = "off" /\ writer'[d] = "top"
    <3>1. Sure(d)' = Sure(d)
      BY <1>1, <2>2 DEF Sure
    <3>2. IsPrefix(Sure(d)', DueFrames(d)')
      BY <1>1, <3>1, SureKept DEF StreamInv
    <3>3. ASSUME ~overflow'[d] PROVE \E k \in 0..Len(due'[d]) : Caught(d, k)'
      <4>1. PICK k \in 0..Len(due[d]) : Caught(d, k)
        BY <1>1, <2>2, <3>3 DEF StreamInv, StreamOK
      <4>2. Caught(d, k)'
        BY <1>1, <4>1 DEF Caught
      <4> QED
        BY <1>1, <4>1, <4>2
    <3>4. out'[d] = <<>>
      BY <1>1, <2>2 DEF StreamInv, StreamOK
    <3> QED
      BY <3>2, <3>3, <3>4 DEF StreamOK
  <2> QED
    BY <1>1, <2>1, <2>2
<1>3. DropsOverflowed'
  BY <1>1 DEF StreamInv, DropsOverflowed
<1> QED
  BY <1>2, <1>3 DEF StreamInv

\* The steps of the write loop.
LEMMA StreamWriter ==
  ASSUME RealtimeInv, RealtimeInv', StreamInv, NEW c \in Conn, WriterStep(c)
  PROVE  StreamInv'
<1>0. /\ LoopTypes /\ LoopsOK /\ StreamOK(c)
      /\ due[c] \in Seq(Message) /\ queue[c] \in Seq(Message) /\ Len(due[c]) \in Nat
      /\ sent[c] \in Seq(Frame) /\ out[c] \in Seq(Frame) /\ Sure(c) \in Seq(Frame)
      /\ DueFrames(c) = Upto(c, due[c], Len(due[c])) /\ DueFrames(c) \in Seq(Frame)
  BY StreamTypes DEF RealtimeInv, StreamInv
<1>1. UNCHANGED <<mu, overflow, pub, todo, victim, current, due>>
  BY DEF WriterStep, StopAtTop, Select, ReceiveMessage, Receive, ReceiveClosed, CheckBeforeFrame,
     MessageDone, WriteFrame, Heartbeat, CheckHeartbeat, WriteHeartbeat, WriteFails, WriteClose,
     WriterReports, broker
<1>2. DOMAIN writer = Conn /\ DOMAIN out = Conn /\ DOMAIN sent = Conn /\ DOMAIN queue = Conn
  <2>1. LoopTypes /\ BrokerTypes
    BY DEF RealtimeInv
  <2>2. DOMAIN writer = Conn /\ DOMAIN out = Conn /\ DOMAIN sent = Conn
    BY <2>1 DEF LoopTypes
  <2>3. DOMAIN queue = Conn
    BY <2>1 DEF BrokerTypes
  <2> QED
    BY <2>2, <2>3
<1>3. \A d \in Conn \ {c} : /\ writer'[d] = writer[d] /\ queue'[d] = queue[d]
                            /\ out'[d] = out[d] /\ sent'[d] = sent[d]
  <2>1. CASE StopAtTop(c) \/ Select(c) \/ ReceiveClosed(c) \/ CheckBeforeFrame(c) \/ MessageDone(c)
             \/ Heartbeat(c) \/ CheckHeartbeat(c) \/ WriteHeartbeat(c) \/ WriteFails(c)
    BY <1>2, <2>1 DEF StopAtTop, Select, ReceiveClosed, CheckBeforeFrame, MessageDone, Heartbeat,
       CheckHeartbeat, WriteHeartbeat, WriteFails, WriterGoto, broker
  <2>2. CASE ReceiveMessage(c)
    BY <1>2, <2>2 DEF ReceiveMessage, Receive, WriterGoto
  <2>3. CASE WriteFrame(c) \/ WriteClose(c) \/ WriterReports(c)
    BY <1>2, <2>3 DEF WriteFrame, WriteClose, WriterReports, WriterGoto, broker
  <2> QED
    BY <2>1, <2>2, <2>3 DEF WriterStep
<1>4. SUFFICES StreamOK(c)'
  <2>1. ASSUME NEW d \in Conn, d # c PROVE StreamOK(d)'
    BY <1>1, <1>3, <2>1, StreamKept DEF StreamInv
  <2>2. DropsOverflowed'
    BY <1>1 DEF StreamInv, DropsOverflowed
  <2> QED
    BY <2>1, <2>2 DEF StreamInv
\* Nothing is received or written.
<1>5. ASSUME UNCHANGED <<queue, out, sent>>, Sure(c)' = Sure(c),
             writer[c] # "done",
             writer'[c] \in {"top", "select", "ping check", "ping", "beat check", "beat"} =>
               out[c] = <<>>,
             writer'[c] # "off"
      PROVE  StreamOK(c)'
  <2>1. IsPrefix(Sure(c)', DueFrames(c)')
    BY <1>0, <1>1, <1>5, SureKept
  <2>2. ASSUME ~overflow'[c] PROVE \E k \in 0..Len(due'[c]) : Caught(c, k)'
    <3>1. PICK k \in 0..Len(due[c]) : Caught(c, k)
      BY <1>0, <1>1, <1>5, <2>2 DEF StreamOK
    <3>2. Caught(c, k)'
      BY <1>1, <1>5, <3>1 DEF Caught
    <3> QED
      BY <1>1, <3>1, <3>2
  <2> QED
    BY <1>5, <2>1, <2>2 DEF StreamOK
<1>6. CASE StopAtTop(c) \/ Select(c) \/ ReceiveClosed(c) \/ Heartbeat(c) \/ CheckHeartbeat(c)
           \/ WriteHeartbeat(c)
  <2>1. /\ UNCHANGED <<queue, out, sent>> /\ out[c] = <<>>
        /\ writer[c] \notin {"frame", "done"} /\ writer'[c] \notin {"frame", "off"}
    BY <1>0, <1>2, <1>6 DEF StopAtTop, Select, ReceiveClosed, Heartbeat, CheckHeartbeat,
       WriteHeartbeat, WriterGoto, broker, StreamOK
  <2>2. Sure(c)' = Sure(c)
    BY <2>1 DEF Sure
  <2> QED
    BY <1>5, <2>1, <2>2
<1>7. CASE MessageDone(c)
  <2>1. /\ UNCHANGED <<queue, out, sent>> /\ out[c] = <<>> /\ writer[c] = "check"
        /\ writer'[c] = "top"
    BY <1>2, <1>7 DEF MessageDone, WriterGoto, broker
  <2>2. Sure(c)' = Sure(c)
    BY <2>1 DEF Sure
  <2> QED
    BY <1>5, <2>1, <2>2
<1>8. CASE WriteClose(c)
  <2>1. UNCHANGED <<queue, out, sent>> /\ writer[c] = "goodbye" /\ writer'[c] = "report"
    BY <1>2, <1>8 DEF WriteClose, broker
  <2>2. Sure(c)' = Sure(c)
    BY <2>1 DEF Sure
  <2> QED
    BY <1>5, <2>1, <2>2
<1>9. CASE ReceiveMessage(c)
  <2>1. /\ sent' = sent /\ writer[c] = "select" /\ writer'[c] = "check" /\ queue[c] # <<>>
        /\ queue'[c] = Tail(queue[c]) /\ out'[c] = Frames(c, Head(queue[c]))
    BY <1>2, <1>9 DEF ReceiveMessage, Receive, WriterGoto
  <2>2. Sure(c)' = Sure(c)
    BY <2>1 DEF Sure
  <2>3. IsPrefix(Sure(c)', DueFrames(c)')
    BY <1>0, <1>1, <2>2, SureKept
  <2>4. ASSUME ~overflow'[c] PROVE \E k \in 0..Len(due'[c]) : Caught(c, k)'
    <3>1. PICK k \in 0..Len(due[c]) : Caught(c, k)
      BY <1>0, <1>1, <2>1, <2>4 DEF StreamOK
    <3>2. /\ sent[c] \o out[c] = Upto(c, due[c], k) /\ out[c] = <<>>
          /\ Len(due[c]) = k + Len(queue[c]) + (IF c \in todo THEN 1 ELSE 0)
          /\ \A i \in 1..Len(queue[c]) : due[c][k + i] = queue[c][i]
          /\ c \in todo => due[c][Len(due[c])] = current[mu]
      BY <1>0, <2>1, <3>1 DEF Caught, StreamOK
    <3>3. /\ Len(queue[c]) \in Nat \ {0} /\ Len(queue'[c]) = Len(queue[c]) - 1
          /\ Head(queue[c]) = queue[c][1]
          /\ \A i \in 1..Len(queue'[c]) : queue'[c][i] = queue[c][i + 1]
      BY <1>0, <2>1
    <3>4. k < Len(due[c]) /\ k + 1 \in 0..Len(due[c]) /\ due[c][k + 1] = Head(queue[c])
      <4>1. k + Len(queue[c]) <= Len(due[c])
        <5>1. CASE c \in todo
          BY <1>0, <3>2, <3>3, <5>1
        <5>2. CASE c \notin todo
          BY <1>0, <3>2, <3>3, <5>2
        <5> QED
          BY <5>1, <5>2
      <4>2. 1 \in 1..Len(queue[c])
        BY <3>3
      <4>3. due[c][k + 1] = Head(queue[c])
        BY <3>2, <3>3, <4>2
      <4>4. k < Len(due[c]) /\ k + 1 \in 0..Len(due[c])
        BY <1>0, <3>3, <4>1
      <4> QED
        BY <4>3, <4>4
    <3>5. sent'[c] \o out'[c] = Upto(c, due'[c], k + 1)
      <4>1. Upto(c, due[c], k + 1) = Upto(c, due[c], k) \o Frames(c, due[c][k + 1])
        BY <1>0, <3>4, UptoGrows
      <4>2. sent[c] \o out[c] = sent[c]
        BY <1>0, <3>2
      <4> QED
        BY <1>1, <2>1, <3>2, <3>4, <4>1, <4>2
    <3>6. Len(due'[c]) = (k + 1) + Len(queue'[c]) + (IF c \in todo' THEN 1 ELSE 0)
      <4>1. todo' = todo /\ due'[c] = due[c]
        BY <1>1
      <4>2. PICK offered \in Nat : offered = IF c \in todo THEN 1 ELSE 0
        OBVIOUS
      <4>3. Len(due[c]) = k + Len(queue[c]) + offered
        BY <3>2, <4>2
      <4>4. PICK n \in Nat : n = Len(queue[c]) /\ Len(queue'[c]) = n - 1
        BY <3>3
      <4>5. k + n = (k + 1) + (n - 1)
        BY <1>0
      <4> QED
        BY <4>1, <4>2, <4>3, <4>4, <4>5
    <3>7. ASSUME NEW i \in 1..Len(queue'[c]) PROVE due'[c][(k + 1) + i] = queue'[c][i]
      <4>1. i + 1 \in 1..Len(queue[c])
        BY <3>3
      <4>2. (k + 1) + i = k + (i + 1)
        <5>1. k \in Int /\ i \in Int
          BY <1>0, <3>3
        <5> QED
          BY <5>1
      <4> QED
        BY <1>1, <3>2, <3>3, <4>1, <4>2
    <3>8. Caught(c, k + 1)'
      BY <1>1, <3>2, <3>5, <3>6, <3>7 DEF Caught
    <3> QED
      BY <1>1, <3>4, <3>8
  <2> QED
    BY <2>1, <2>3, <2>4 DEF StreamOK
<1>10. CASE CheckBeforeFrame(c)
  <2>1. /\ UNCHANGED <<queue, out, sent>> /\ writer[c] = "check" /\ out[c] # <<>>
        /\ writer'[c] = IF overflow[c] THEN "goodbye" ELSE "frame"
    BY <1>2, <1>10 DEF CheckBeforeFrame, StopsBefore, WriterGoto, broker
  <2>2. CASE overflow[c]
    <3>1. Sure(c)' = Sure(c)
      BY <2>1, <2>2 DEF Sure
    <3> QED
      BY <1>5, <2>1, <2>2, <3>1
  <2>3. CASE ~overflow[c]
    <3>1. PICK k \in 0..Len(due[c]) : Caught(c, k)
      BY <1>0, <2>1, <2>3 DEF StreamOK
    <3>2. sent[c] \o out[c] = Upto(c, due[c], k) /\ Upto(c, due[c], k) \in Seq(Frame)
      BY <1>0, <3>1, UptoGrows DEF Caught
    <3>3. /\ Append(sent[c], Head(out[c])) \in Seq(Frame)
          /\ IsPrefix(Append(sent[c], Head(out[c])), sent[c] \o out[c])
      BY <1>0, <2>1, PrefixOfConcatenation
    <3>4. IsPrefix(Upto(c, due[c], k), DueFrames(c))
      BY <1>0, <3>1, UptoPrefix
    <3>5. IsPrefix(Append(sent[c], Head(out[c])), DueFrames(c))
      BY <1>0, <3>2, <3>3, <3>4, PrefixTransitive
    <3>6. Sure(c)' = Append(sent[c], Head(out[c])) /\ DueFrames(c)' = DueFrames(c)
      BY <1>1, <2>1, <2>3 DEF Sure, DueFrames
    <3>7. Caught(c, k)'
      BY <1>1, <2>1, <3>1 DEF Caught
    <3>8. writer'[c] = "frame" /\ due'[c] = due[c]
      BY <1>1, <2>1, <2>3
    <3> QED
      BY <3>1, <3>5, <3>6, <3>7, <3>8 DEF StreamOK
  <2> QED
    BY <2>2, <2>3
<1>11. CASE WriteFrame(c)
  <2>1. /\ UNCHANGED queue /\ writer[c] = "frame" /\ writer'[c] = "check" /\ out[c] # <<>>
        /\ sent'[c] = Append(sent[c], Head(out[c])) /\ out'[c] = Tail(out[c])
    BY <1>0, <1>2, <1>11 DEF WriteFrame, WriterGoto, broker, LoopsOK
  <2>2. Sure(c)' = Sure(c)
    BY <2>1 DEF Sure
  <2>3. IsPrefix(Sure(c)', DueFrames(c)')
    BY <1>0, <1>1, <2>2, SureKept
  <2>4. sent'[c] \o out'[c] = sent[c] \o out[c]
    BY <1>0, <2>1, PrefixOfConcatenation
  <2>5. ASSUME ~overflow'[c] PROVE \E k \in 0..Len(due'[c]) : Caught(c, k)'
    <3>1. PICK k \in 0..Len(due[c]) : Caught(c, k)
      BY <1>0, <1>1, <2>1, <2>5 DEF StreamOK
    <3>2. Caught(c, k)'
      BY <1>1, <2>1, <2>4, <3>1 DEF Caught
    <3> QED
      BY <1>1, <3>1, <3>2
  <2> QED
    BY <2>1, <2>3, <2>5 DEF StreamOK
<1>12. CASE WriteFails(c)
  <2>1. UNCHANGED <<queue, out, sent>> /\ writer[c] \in {"frame", "ping", "beat"}
        /\ writer'[c] = "report"
    BY <1>2, <1>12 DEF WriteFails, WriterGoto, broker
  <2>2. Sure(c)' = sent[c] /\ Sure(c)' \in Seq(Frame)
    BY <1>0, <2>1 DEF Sure
  <2>3. IsPrefix(sent[c], Sure(c))
    BY <1>0, SentIsSure
  <2>4. IsPrefix(Sure(c), DueFrames(c)) /\ DueFrames(c)' = DueFrames(c)
    BY <1>0, <1>1 DEF StreamOK, DueFrames
  <2>5. IsPrefix(Sure(c)', DueFrames(c)')
    BY <1>0, <2>2, <2>3, <2>4, PrefixTransitive
  <2>6. ASSUME ~overflow'[c] PROVE \E k \in 0..Len(due'[c]) : Caught(c, k)'
    <3>1. PICK k \in 0..Len(due[c]) : Caught(c, k)
      BY <1>0, <1>1, <2>1, <2>6 DEF StreamOK
    <3>2. Caught(c, k)'
      BY <1>1, <2>1, <3>1 DEF Caught
    <3> QED
      BY <1>1, <3>1, <3>2
  <2> QED
    BY <2>1, <2>5, <2>6 DEF StreamOK
<1>13. CASE WriterReports(c)
  <2>1. sent' = sent /\ writer[c] = "report" /\ writer'[c] = "done"
    BY <1>2, <1>13 DEF WriterReports
  <2>2. Sure(c)' = Sure(c)
    BY <2>1 DEF Sure
  <2>3. IsPrefix(Sure(c)', DueFrames(c)')
    BY <1>0, <1>1, <2>2, SureKept
  <2> QED
    BY <2>1, <2>3 DEF StreamOK
<1> QED
  BY <1>6, <1>7, <1>8, <1>9, <1>10, <1>11, <1>12, <1>13 DEF WriterStep

LEMMA StreamInitially == Init => StreamInv
<1> SUFFICES ASSUME Init PROVE StreamInv
  OBVIOUS
<1>1. DropsOverflowed
  BY DEF Init, BrokerInit, DropsOverflowed
<1>2. ASSUME NEW c \in Conn PROVE StreamOK(c)
  <2>1. /\ due[c] = <<>> /\ queue[c] = <<>> /\ todo = {} /\ sent[c] = <<>> /\ out[c] = <<>>
        /\ writer[c] = "off"
    BY <1>2 DEF Init, BrokerInit
  <2>2. <<>> \in Seq(Message) /\ Len(due[c]) = 0 /\ Len(queue[c]) = 0
    BY <2>1
  <2>3. Upto(c, due[c], 0) = <<>>
    BY DEF Upto, FlattenSeq
  <2>4. <<>> \o <<>> = <<>>
    OBVIOUS
  <2>5. Caught(c, 0)
    BY <2>1, <2>2, <2>3, <2>4 DEF Caught
  <2>6. IsPrefix(<<>>, <<>>)
    BY DEF IsPrefix
  <2>7. DueFrames(c) = <<>> /\ Sure(c) = <<>>
    BY <2>1, <2>2, <2>3 DEF DueFrames, Upto, Sure
  <2> QED
    BY <2>1, <2>2, <2>5, <2>6, <2>7 DEF StreamOK
<1> QED
  BY <1>1, <1>2 DEF StreamInv

LEMMA StreamAlways == Spec => []StreamInv
<1>1. RealtimeInv /\ RealtimeInv' /\ StreamInv /\ [Next]_vars => StreamInv'
  <2> SUFFICES ASSUME RealtimeInv, RealtimeInv', StreamInv, [Next]_vars PROVE StreamInv'
    OBVIOUS
  <2>1. CASE UNCHANGED vars
    <3>1. ASSUME NEW c \in Conn PROVE StreamOK(c)'
      BY <2>1, StreamKept DEF StreamInv, vars, broker, loops
    <3>2. DropsOverflowed'
      BY <2>1 DEF StreamInv, DropsOverflowed, vars, broker
    <3> QED
      BY <3>1, <3>2 DEF StreamInv
  <2>2. CASE Next
    BY <2>2, StreamPublisher, StreamHandler, StreamWriter DEF Next
  <2> QED
    BY <2>1, <2>2
<1> QED
  BY <1>1, RealtimeAlways, StreamInitially, PTL DEF Spec

-----------------------------------------------------------------------------

(***************************************************************************)
(* Every variable keeps its type; no queue exceeds its capacity, and errCh *)
(* never holds more than one error of each loop.                           *)
(***************************************************************************)
THEOREM RealtimeTypesHold == Spec => []TypeOK
<1>1. RealtimeInv => TypeOK
  BY TypeParts DEF RealtimeInv
<1> QED
  BY <1>1, RealtimeAlways, PTL

(***************************************************************************)
(* No channel is closed twice or sent on after it was closed, however      *)
(* Publish, cancel and the loops interleave: a publisher in the mutex      *)
(* visits registered subscribers only, and both Publish and cancel close a *)
(* channel only while it is registered.                                    *)
(***************************************************************************)
THEOREM ChannelsCloseOnce == Spec => []NoPanic
<1>1. RealtimeInv => NoPanic
  BY DEF RealtimeInv
<1> QED
  BY <1>1, RealtimeAlways, PTL

(***************************************************************************)
(* What is registered is open, its handler has not returned, and nobody    *)
(* but the subscriber being dropped has its overflow channel closed.       *)
(***************************************************************************)
THEOREM RegisteredStaysOpen == Spec => []RegisteredIsOpen
<1>1. RealtimeInv => RegisteredIsOpen
  BY DEF RealtimeInv, SubsOK, RegisteredIsOpen
<1> QED
  BY <1>1, RealtimeAlways, PTL

(***************************************************************************)
(* The frames written to a connection are the first ones of all that was   *)
(* published to it since it subscribed, for any number of messages and     *)
(* connections and any capacity: while it is registered nothing is lost    *)
(* between the queue and the loop's hands, and from the drop on only a     *)
(* frame that was checked before is still written.                         *)
(***************************************************************************)
THEOREM StreamsHaveNoGap == Spec => []NoGap
<1>1. RealtimeInv /\ StreamInv => NoGap
  <2> SUFFICES ASSUME RealtimeInv, StreamInv, NEW c \in Conn PROVE IsPrefix(sent[c], DueFrames(c))
    BY DEF NoGap
  <2>1. /\ sent[c] \in Seq(Frame) /\ out[c] \in Seq(Frame) /\ Sure(c) \in Seq(Frame)
        /\ DueFrames(c) \in Seq(Frame)
    BY StreamTypes
  <2>2. IsPrefix(Sure(c), DueFrames(c))
    BY DEF StreamInv, StreamOK
  <2>3. IsPrefix(sent[c], Sure(c))
    BY <2>1, SentIsSure
  <2> QED
    BY <2>1, <2>2, <2>3, PrefixTransitive
<1> QED
  BY <1>1, RealtimeAlways, StreamAlways, PTL
=============================================================================
