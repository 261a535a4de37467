------------------------------- MODULE Broker --------------------------------
(***************************************************************************)
(* The realtime broker, internal/infra/realtime/broker.go: publishers that *)
(* offer a message to every subscriber of a workspace, one at a time and   *)
(* under the broker's mutex, and never wait for a subscriber.  A slow      *)
(* subscriber is dropped: its overflow channel is closed first, then its   *)
(* queue is emptied, then its message channel is closed.  The receiving    *)
(* side does not take the mutex, so every one of these is a step.          *)
(***************************************************************************)
EXTENDS Integers, Sequences

CONSTANTS
    Conn,         \* connections; each subscribes at most once
    Publisher,    \* goroutines that publish
    Workspace,
    WorkspaceOf,  \* the workspace of each connection
    Capacity,     \* subscriberBufferSize (128 in the code)
    MaxMessages,  \* bound: messages published
    MaxItems,     \* bound: orders in one order.upsert_many message
    Nobody        \* no publisher, no connection

ASSUME BrokerAssumption ==
    /\ WorkspaceOf \in [Conn -> Workspace]
    /\ Capacity \in Nat \ {0}
    /\ MaxMessages \in Nat /\ MaxItems \in Nat
    /\ Nobody \notin Publisher /\ Nobody \notin Conn

\* items = 0 is an event that is not a batch; a batch has items >= 1 orders.
Message == [id : 1..MaxMessages, ws : Workspace, items : 0..MaxItems]

VARIABLES
    mu,         \* the publisher inside the mutex, or Nobody
    subs,       \* broker.subscribers: the registered connections
    queue,      \* per connection: the buffered message channel
    closed,     \* per connection: the message channel is closed
    overflow,   \* per connection: the overflow channel is closed
    pub,        \* per publisher: where it stands in Publish
    todo,       \* the subscribers the publisher in the mutex has not visited
    victim,     \* the subscriber whose queue is being discarded, or Nobody
    current,    \* per publisher: the message
    published,  \* number of messages so far
    due,        \* history: the messages published while a connection was
                \*          registered, the one that dropped it included
    panicked    \* a closed channel was closed again or sent on

broker == <<mu, subs, queue, closed, overflow, pub, todo, victim, current,
            published, due, panicked>>

NoMessage == [id |-> 0, ws |-> Nobody, items |-> 0]

BrokerInit ==
    /\ mu = Nobody
    /\ subs = {}
    /\ queue = [c \in Conn |-> <<>>]
    /\ closed = [c \in Conn |-> FALSE]
    /\ overflow = [c \in Conn |-> FALSE]
    /\ pub = [p \in Publisher |-> "idle"]
    /\ todo = {}
    /\ victim = Nobody
    /\ current = [p \in Publisher |-> NoMessage]
    /\ published = 0
    /\ due = [c \in Conn |-> <<>>]
    /\ panicked = FALSE

SubscribersOf(w) == {c \in subs : WorkspaceOf[c] = w}

-----------------------------------------------------------------------------
(* Publish *)

\* A service calls Publish; NewMessage never fails on the events it is given.
PublishCall(p) ==
    /\ pub[p] = "idle"
    /\ published < MaxMessages
    /\ published' = published + 1
    /\ \E w \in Workspace, n \in 0..MaxItems :
        current' = [current EXCEPT ![p] = [id |-> published + 1, ws |-> w, items |-> n]]
    /\ pub' = [pub EXCEPT ![p] = "lock"]
    /\ UNCHANGED <<mu, subs, queue, closed, overflow, todo, victim, due, panicked>>

LockPublish(p) ==
    /\ pub[p] = "lock"
    /\ mu = Nobody
    /\ mu' = p
    /\ todo' = SubscribersOf(current[p].ws)
    /\ due' = [c \in Conn |->
                 IF c \in subs /\ WorkspaceOf[c] = current[p].ws
                 THEN Append(due[c], current[p]) ELSE due[c]]
    /\ pub' = [pub EXCEPT ![p] = "offer"]
    /\ UNCHANGED <<subs, queue, closed, overflow, victim, current, published, panicked>>

\* Mutant: one message too many.
HasRoomForOneMore(c) == Len(queue[c]) <= Capacity

HasRoom(c) == Len(queue[c]) < Capacity

\* case subscriber.channel <- message
Deliver(p, c) ==
    /\ pub[p] = "offer" /\ c \in todo
    /\ HasRoom(c)
    /\ queue' = [queue EXCEPT ![c] = Append(@, current[p])]
    /\ todo' = todo \ {c}
    /\ panicked' = (panicked \/ closed[c])
    /\ UNCHANGED <<mu, subs, closed, overflow, pub, victim, current, published, due>>

\* Mutant: a message that does not fit is skipped.
SkipSlow(p, c) ==
    /\ pub[p] = "offer" /\ c \in todo
    /\ ~HasRoom(c)
    /\ todo' = todo \ {c}
    /\ UNCHANGED <<mu, subs, queue, closed, overflow, pub, victim, current,
                   published, due, panicked>>

\* Mutant: Publish waits until the subscriber has room.
WaitForRoom(p, c) ==
    /\ pub[p] = "offer" /\ c \in todo
    /\ ~HasRoom(c)
    /\ UNCHANGED broker

\* default: close(subscriber.overflow)
DropSlow(p, c) ==
    /\ pub[p] = "offer" /\ c \in todo
    /\ ~HasRoom(c)
    /\ overflow' = [overflow EXCEPT ![c] = TRUE]
    /\ panicked' = (panicked \/ overflow[c])
    /\ victim' = c
    /\ pub' = [pub EXCEPT ![p] = "discard"]
    /\ UNCHANGED <<mu, subs, queue, closed, todo, current, published, due>>

\* discardQueuedMessages, one receive at a time; the write loop may receive too.
DiscardOne(p) ==
    /\ pub[p] = "discard"
    /\ queue[victim] # <<>>
    /\ queue' = [queue EXCEPT ![victim] = Tail(@)]
    /\ UNCHANGED <<mu, subs, closed, overflow, pub, todo, victim, current,
                   published, due, panicked>>

\* Mutant: the dropped subscriber stays registered.
CloseSlowKeeps(p) ==
    /\ pub[p] = "discard"
    /\ queue[victim] = <<>>
    /\ closed' = [closed EXCEPT ![victim] = TRUE]
    /\ panicked' = (panicked \/ closed[victim])
    /\ todo' = todo \ {victim}
    /\ victim' = Nobody
    /\ pub' = [pub EXCEPT ![p] = "offer"]
    /\ UNCHANGED <<mu, subs, queue, overflow, current, published, due>>

\* close(subscriber.channel); delete(subscribers, subscriber)
CloseSlow(p) ==
    /\ pub[p] = "discard"
    /\ queue[victim] = <<>>
    /\ closed' = [closed EXCEPT ![victim] = TRUE]
    /\ panicked' = (panicked \/ closed[victim])
    /\ subs' = subs \ {victim}
    /\ todo' = todo \ {victim}
    /\ victim' = Nobody
    /\ pub' = [pub EXCEPT ![p] = "offer"]
    /\ UNCHANGED <<mu, queue, overflow, current, published, due>>

PublishReturns(p) ==
    /\ pub[p] = "offer" /\ todo = {}
    /\ mu' = Nobody
    /\ pub' = [pub EXCEPT ![p] = "idle"]
    /\ current' = [current EXCEPT ![p] = NoMessage]
    /\ UNCHANGED <<subs, queue, closed, overflow, todo, victim, published, due, panicked>>

PublishStep(p) ==
    \/ LockPublish(p)
    \/ \E c \in Conn : Deliver(p, c) \/ DropSlow(p, c)
    \/ DiscardOne(p) \/ CloseSlow(p) \/ PublishReturns(p)

-----------------------------------------------------------------------------
(* Subscribe, and the cancel function it returns: short critical sections *)

Subscribe(c) ==
    /\ mu = Nobody
    /\ subs' = subs \cup {c}
    /\ UNCHANGED <<mu, queue, closed, overflow, pub, todo, victim, current,
                   published, due, panicked>>

\* Mutant: the channel is closed whether or not the broker dropped it before.
CancelAlways(c) ==
    /\ mu = Nobody
    /\ subs' = subs \ {c}
    /\ closed' = [closed EXCEPT ![c] = TRUE]
    /\ panicked' = (panicked \/ closed[c])
    /\ UNCHANGED <<mu, queue, overflow, pub, todo, victim, current, published, due>>

\* Nothing happens when Publish dropped the subscriber before.
Cancel(c) ==
    /\ mu = Nobody
    /\ subs' = subs \ {c}
    /\ closed' = [closed EXCEPT ![c] = @ \/ c \in subs]
    /\ panicked' = (panicked \/ (c \in subs /\ closed[c]))
    /\ UNCHANGED <<mu, queue, overflow, pub, todo, victim, current, published, due>>

\* The receiving end of the message channel, in the write loop.
Receive(c) ==
    /\ queue[c] # <<>>
    /\ queue' = [queue EXCEPT ![c] = Tail(@)]
    /\ UNCHANGED <<mu, subs, closed, overflow, pub, todo, victim, current,
                   published, due, panicked>>
=============================================================================
