-------------------------------- MODULE Board --------------------------------
(***************************************************************************)
(* A client keeps the board of active orders on its screen: it connects to *)
(* the realtime stream, reads a snapshot with ListActive, and from then on *)
(* applies the events that operations publish after they commit.           *)
(*                                                                         *)
(* Between the commit and Publish of an operation other operations commit  *)
(* and publish: events may come in any order, and the snapshot may be read *)
(* before or after any of them.  Each event is published once, and what is *)
(* published while the client is connected reaches it (Realtime); a crash  *)
(* loses the events of the commits it cut off.                             *)
(*                                                                         *)
(* The client is another program.  Its rules are the ones this repository  *)
(* relies on: it keeps the newest version of an order, remembers deletions *)
(* for as long as it is connected, hides orders created before the date of *)
(* a before_today clear, and starts anew after a clear of all orders       *)
(* (internal/service/v1/order.go:343, internal/domain/order_events.go:41). *)
(***************************************************************************)
EXTENDS OrderTable

CONSTANTS
    MaxVersion,   \* per id: bound on its version
    MaxPending    \* bound on the events in flight and the orders ever made

\* What the API tells of orders.
Dtos == [createdAt : Int, completedAt : Int \cup {Nil}, version : Nat]

ASSUME BoardAssumption ==
    /\ MaxVersion \in [OrderId -> Nat] /\ MaxPending \in Nat
    /\ Nil \notin Dtos /\ \A S \in SUBSET OrderId : Nil \notin [S -> Dtos]

VARIABLES
    version,   \* the version column of each row
    pending,   \* events whose operation has committed and not yet published
    link,      \* whether the client is connected
    due,       \* whether it has to ask for a snapshot
    answer,    \* the snapshot on its way to it, or Nil
    view,      \* per id: the row the client knows, or Nil
    deleted,   \* ids it was told of being deleted
    barrier,   \* it hides orders created before this date
    missed,    \* history: ids changed by a commit without event (see Snapshot)
    unsure     \* history: deleted ids an upsert may bring back (see Ghost)

client == <<link, due, answer, view, deleted, barrier>>
service == <<board, version, pending>>
everything == <<service, client, missed, unsure>>

BoardInit ==
    /\ version = [o \in OrderId |-> 0]
    /\ pending = {}
    /\ link = FALSE
    /\ due = FALSE
    /\ answer = Nil
    /\ view = [o \in OrderId |-> Nil]
    /\ deleted = {}
    /\ barrier = 0
    /\ missed = {}
    /\ unsure = {}

Dto(o) == [createdAt |-> table[o].createdAt, completedAt |-> table[o].completedAt,
           version |-> version[o]]

Upserted(S) == [kind |-> "upserted", rows |-> [o \in S |-> Dto(o)]]
Deleted(o) == [kind |-> "deleted", id |-> o]
Cleared(key) == [kind |-> "cleared", before |-> key]

\* The operation goes on to Publish, or its caller dies or is told that the
\* commit failed although it did not.
Commits(S, event) ==
    \/ /\ Cardinality(pending) + Cardinality(Stored \cup erased) < MaxPending
       /\ pending' = pending \cup {event}
       /\ missed' = missed \ S
       /\ unsure' = unsure \ S
    \/ /\ pending' = pending
       /\ missed' = missed \cup S
       /\ unsure' = unsure

CreateBatch(S, t) ==
    /\ Add(S, t)
    /\ version' = [o \in OrderId |-> IF o \in S THEN 1 ELSE version[o]]
    /\ Commits(S, Upserted(S)')
    /\ UNCHANGED client

\* Mutant: the version stays.
SameVersion(v) == v
NextVersion(v) == v + 1

\* Update, ToggleStep and ToggleServed.
Mutate(o, t) ==
    /\ version[o] < MaxVersion[o]
    /\ Revise(o, t)
    /\ version' = [version EXCEPT ![o] = NextVersion(@)]
    /\ Commits({o}, Upserted({o})')
    /\ UNCHANGED client

Remove(o) ==
    /\ Erase({o})
    /\ Commits({o}, Deleted(o))
    /\ UNCHANGED <<version, client>>

\* What a clear of the day of t leaves alone was created from its midnight on.
CreatedBeforeToday(t) == {o \in Stored : table[o].createdAt < Midnight(DateOf(t))}

\* A clear that finds no order is announced like any other.
Clear(S, key) ==
    /\ IF S = {} THEN UNCHANGED board ELSE Erase(S)
    /\ Commits(S, Cleared(key))
    /\ UNCHANGED <<version, client>>

ClearAll == Clear(Stored, Nil)
ClearBeforeToday(t) == Clear(CreatedBeforeToday(t), DateOf(t))

\* Creation may have begun on an earlier day.
Operation(Batches, Began, Today) ==
    \/ \E S \in Batches, t \in Began : CreateBatch(S, t)
    \/ \E o \in OrderId, t \in Today : Mutate(o, t)
    \/ \E o \in OrderId : Remove(o)
    \/ ClearAll
    \/ \E t \in Today : ClearBeforeToday(t)

-----------------------------------------------------------------------------
(* The client *)

Hidden(row, date) == DateOf(row.createdAt) < date

\* Of some events: those that carry a row of an order, and those that take it
\* off every board.
Upserts(o, events) == {e \in events : e.kind = "upserted" /\ o \in DOMAIN e.rows}
Removals(o, events) ==
    {e \in events : \/ e = Deleted(o) \/ e = Cleared(Nil)
                    \/ /\ e.kind = "cleared" /\ e.before # Nil
                       /\ \E u \in Upserts(o, events) : Hidden(u.rows[o], e.before)}

\* Orders that left the board, and an older row of them is still to be
\* published while the event that told of their leaving is not.
Ghost(events) ==
    {o \in OrderId \ Active :
        /\ Upserts(o, events) # {}
        /\ IF o \in erased THEN Removals(o, events) = {}
           ELSE \A e \in Upserts(o, events) : e.rows[o].version < version[o]}

StartsAnew ==
    /\ due' = TRUE
    /\ answer' = Nil
    /\ view' = [o \in OrderId |-> Nil]
    /\ deleted' = {}
    /\ barrier' = 0

\* The rows it merges into its view: the newest of each order that is neither
\* deleted nor behind the barrier.
Merged(rows) ==
    [o \in OrderId |->
        IF \/ o \notin DOMAIN rows \/ o \in deleted
           \/ o \in DOMAIN rows /\ Hidden(rows[o], barrier)
           \/ o \in DOMAIN rows /\ view[o] # Nil /\ view[o].version >= rows[o].version
        THEN view[o] ELSE rows[o]]

OnUpserted(e) ==
    /\ e.kind = "upserted"
    /\ view' = Merged(e.rows)
    /\ UNCHANGED <<due, answer, deleted, barrier, unsure>>

OnDeleted(e) ==
    /\ e.kind = "deleted"
    /\ view' = [view EXCEPT ![e.id] = Nil]
    /\ deleted' = deleted \cup {e.id}
    /\ UNCHANGED <<due, answer, barrier, unsure>>

OnCleared(e) ==
    /\ e.kind = "cleared"
    /\ IF e.before = Nil
       THEN StartsAnew /\ unsure' = unsure \cup Ghost(pending \ {e})
       ELSE /\ barrier' = IF e.before > barrier THEN e.before ELSE barrier
            /\ view' = [o \in OrderId |-> IF view[o] # Nil /\ Hidden(view[o], e.before)
                                          THEN Nil ELSE view[o]]
            /\ UNCHANGED <<due, answer, deleted, unsure>>

\* Publish hands the event to the connected client, or to nobody.
Publish(e) ==
    /\ pending' = pending \ {e}
    /\ UNCHANGED <<board, version, link, missed>>
    /\ IF link THEN OnUpserted(e) \/ OnDeleted(e) \/ OnCleared(e)
               ELSE UNCHANGED <<due, answer, view, deleted, barrier, unsure>>

Connect ==
    /\ ~link
    /\ link' = TRUE
    /\ StartsAnew
    /\ unsure' = Ghost(pending)
    /\ UNCHANGED <<service, missed>>

\* ListActive, one statement, on behalf of the client.  It makes up for missing
\* events, unless the order is gone from the snapshot and an older row of it has
\* reached the client or will.
Snapshot ==
    /\ link /\ due
    /\ due' = FALSE
    /\ answer' = [o \in Active |-> Dto(o)]
    /\ missed' = {o \in missed \ Active : view[o] # Nil \/ Upserts(o, pending) # {}}
    /\ UNCHANGED <<service, link, view, deleted, barrier, unsure>>

Merge ==
    /\ answer # Nil
    /\ view' = Merged(answer)
    /\ answer' = Nil
    /\ UNCHANGED <<service, link, due, deleted, barrier, missed, unsure>>

Disconnect ==
    /\ link
    /\ link' = FALSE
    /\ answer' = Nil
    /\ UNCHANGED <<service, due, view, deleted, barrier, missed, unsure>>

\* The server stops and starts again.
Crash ==
    /\ pending' = {}
    /\ link' = FALSE
    /\ answer' = Nil
    /\ UNCHANGED <<board, version, due, view, deleted, barrier, missed, unsure>>

BoardNext(Batches, Began, Today) ==
    \/ Operation(Batches, Began, Today)
    \/ \E e \in pending : Publish(e)
    \/ Connect \/ Snapshot \/ Merge \/ Disconnect \/ Crash

BoardSpec(Batches, Began, Today) ==
    TableInit /\ BoardInit /\ [][BoardNext(Batches, Began, Today)]_everything

-----------------------------------------------------------------------------
(* Correctness *)

Quiet == link /\ pending = {} /\ ~due /\ answer = Nil

Shown == {o \in OrderId : view[o] # Nil /\ view[o].completedAt = Nil}

(***************************************************************************)
(* Once every event is published and its snapshot has arrived, a connected *)
(* client shows the active orders as the table has them, whatever the      *)
(* order of events and the moment of the snapshot, but for what the code   *)
(* leaves open: an order whose change was committed without an event that  *)
(* the snapshot does not make up for, one created before the date of a     *)
(* clear it survived, and one whose deletion was published before the      *)
(* client connected, or before it started anew, and its upsert only        *)
(* afterwards.                                                             *)
(***************************************************************************)
QuietClientShowsBoard ==
    Quiet =>
        /\ \A o \in Active \ missed : Hidden(table[o], barrier) \/ view[o] = Dto(o)
        /\ \A o \in Shown \ (missed \cup unsure) : o \in Active /\ view[o] = Dto(o)
=============================================================================
