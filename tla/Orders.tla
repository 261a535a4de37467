------------------------------- MODULE Orders --------------------------------
(***************************************************************************)
(* The order service of one workspace: CreateBatch, UpdateForm,            *)
(* ToggleStep, ToggleServed, Remove and ClearWorkspace of                  *)
(* internal/service/v1/order.go over the statements of internal/repo,      *)
(* executed by concurrent requests on PostgreSQL at READ COMMITTED.        *)
(*                                                                         *)
(* A request runs one SQL statement per step.  What it wrote and has not   *)
(* committed is its write set (rows, ctrs): invisible to the others, and a *)
(* lock on every row it names until the transaction ends.  Publishing the  *)
(* realtime event is a step of its own, after the commit.                  *)
(***************************************************************************)
EXTENDS OrderStatus, Integers, FiniteSets

CONSTANTS
    Req,          \* concurrent requests (HTTP handlers in flight)
    Form,         \* the normalized forms clients submit
    Ops,          \* the operations clients call in this instance
    Modes,        \* the clear modes clients use in this instance
    MaxOrders,    \* bound: orders ever created
    MaxBatch,     \* bound: quantity of one CreateBatch
    MaxVersion,   \* bound: version of an order
    MaxClock,     \* bound: the clock, in seconds
    TicksPerDay,  \* seconds of a business day
    Nil,          \* no row, no counter, no value
    Untouched     \* a row or counter a transaction has not written

AllOps   == {"create", "update", "step", "served", "remove", "clear"}
AllModes == {"all", "before_today"}

Time    == 0..MaxClock
DayOf(t) == t \div TicksPerDay
Day     == 0..DayOf(MaxClock)
OrderId == 1..MaxOrders

Row ==
    [form : Form, staple : StepStatus, meat : StepStatus, served : BOOLEAN,
     version : Nat \ {0}, seq : Nat \ {0}, createdAt : Time, updatedAt : Time]

Call ==
    [op : AllOps, id : Nat, qty : Nat, form : Form \cup {Nil},
     step : Step \cup {Nil}, mode : AllModes \cup {Nil},
     expVersion : Nat \cup {Nil}, expUpdatedAt : Time \cup {Nil}, now : Time]

PC == {"idle", "ensure", "allocate", "insert", "read", "write", "delete",
       "scan", "sweep", "reset", "commit", "publish"}

ASSUME OrdersAssumption ==
    /\ Form \subseteq FormInput
    /\ Ops \subseteq AllOps /\ Modes \subseteq AllModes
    /\ MaxOrders \in Nat /\ MaxBatch \in Nat
    /\ MaxVersion \in Nat /\ MaxClock \in Nat
    /\ TicksPerDay \in Nat \ {0}
    /\ Nil \notin Row /\ Nil \notin Nat /\ Nil \notin Call
    /\ Untouched \notin Row /\ Untouched \notin Nat /\ Untouched # Nil

VARIABLES
    clock,     \* the server's clock
    orders,    \* table orders: the committed row of each id, or Nil
    counters,  \* table workspace_daily_counters: last_seq per business day
    issued,    \* how many order ids were generated; ids are never reused
    gone,      \* history: ids whose deletion was committed
    event,     \* the event most recently handed to the broker
    pc,        \* per request: the statement it executes next
    call,      \* per request: its arguments and the instant it began
    cur,       \* per request: the row read by GetByID
    start,     \* per request: the first sequence number it allocated
    scan,      \* per request: the rows its DELETE found
    rows,      \* per request: uncommitted order rows, Nil for a deletion
    ctrs       \* per request: uncommitted counters, Nil for a deletion

tables == <<orders, counters, gone>>
local  == <<cur, start, scan, rows, ctrs>>
vars   == <<clock, tables, issued, event, pc, call, local>>

NoRows == [o \in OrderId |-> Untouched]
NoCtrs == [d \in Day |-> Untouched]

NoEvent == [kind |-> "none"]

Init ==
    /\ clock = 0
    /\ orders = [o \in OrderId |-> Nil]
    /\ counters = [d \in Day |-> Nil]
    /\ issued = 0
    /\ gone = {}
    /\ event = NoEvent
    /\ pc = [r \in Req |-> "idle"]
    /\ call = [r \in Req |-> Nil]
    /\ cur = [r \in Req |-> Nil]
    /\ start = [r \in Req |-> 0]
    /\ scan = [r \in Req |-> {}]
    /\ rows = [r \in Req |-> NoRows]
    /\ ctrs = [r \in Req |-> NoCtrs]

Live == {o \in OrderId : orders[o] # Nil}

-----------------------------------------------------------------------------
(* Transactions and locks *)

InTx(r) == pc[r] \notin {"idle", "publish"}

\* Another transaction wrote the row (counter) and is still running.
RowLocked(r, o) == \E s \in Req \ {r} : InTx(s) /\ rows[s][o] # Untouched
\* Mutant: the counter is read and written back without a row lock.
NeverLocked(r, d) == FALSE
CtrLocked(r, d) == \E s \in Req \ {r} : InTx(s) /\ ctrs[s][d] # Untouched

Goto(r, label) == pc' = [pc EXCEPT ![r] = label]

\* The request is over: a rollback, or the return after the publication.
Finish(r) ==
    /\ Goto(r, "idle")
    /\ call' = [call EXCEPT ![r] = Nil]
    /\ cur' = [cur EXCEPT ![r] = Nil]
    /\ start' = [start EXCEPT ![r] = 0]
    /\ scan' = [scan EXCEPT ![r] = {}]
    /\ rows' = [rows EXCEPT ![r] = NoRows]
    /\ ctrs' = [ctrs EXCEPT ![r] = NoCtrs]

Rollback(r) == Finish(r) /\ UNCHANGED <<clock, tables, issued, event>>

-----------------------------------------------------------------------------
(* A call arrives.  time.Now() is read here, before the transaction begins.*)

NoToken == <<Nil, Nil>>

Args(op, id, qty, form, step, mode, token) ==
    [op |-> op, id |-> id, qty |-> qty, form |-> form, step |-> step, mode |-> mode,
     expVersion |-> token[1], expUpdatedAt |-> token[2], now |-> clock]

Begin(r, op, c, label) ==
    /\ pc[r] = "idle"
    /\ op \in Ops
    /\ call' = [call EXCEPT ![r] = c]
    /\ Goto(r, label)
    /\ UNCHANGED <<clock, tables, event, local>>

\* uuid.New for each order of the batch: ids issued + 1 .. issued + q.
CreateBatch(r) ==
    \E q \in 1..MaxBatch, f \in Form :
        /\ issued + q <= MaxOrders
        /\ issued' = issued + q
        /\ Begin(r, "create",
                 Args("create", issued + 1, q, f, Nil, Nil, NoToken),
                 "ensure")

Mutating(s, o) == call[s] # Nil /\ call[s].id = o

\* Bound: an order on which enough calls are pending gets no more of them.
VersionRoom(o) ==
    orders[o] # Nil =>
        orders[o].version + Cardinality({s \in Req : Mutating(s, o)}) < MaxVersion

\* The token a client sends is a version or a second it may have seen, or
\* none; expectedUpdatedAt is only looked at when expectedVersion is absent.
Tokens(o) ==
    {NoToken} \cup
        IF orders[o] = Nil THEN {}
        ELSE {<<v, Nil>> : v \in 1..orders[o].version} \cup {<<Nil, t>> : t \in 0..clock}

Mutation(r, op, o, args) ==
    /\ o <= issued
    /\ VersionRoom(o)
    /\ Begin(r, op, args, "read")
    /\ UNCHANGED issued

UpdateForm(r) ==
    \E o \in OrderId, f \in Form : \E t \in Tokens(o) :
        Mutation(r, "update", o,
                 Args("update", o, 0, f, Nil, Nil, t))

ToggleOrderStep(r) ==
    \E o \in OrderId, s \in Step : \E t \in Tokens(o) :
        Mutation(r, "step", o,
                 Args("step", o, 0, Nil, s, Nil, t))

ToggleOrderServed(r) ==
    \E o \in OrderId : \E t \in Tokens(o) :
        Mutation(r, "served", o,
                 Args("served", o, 0, Nil, Nil, Nil, t))

Remove(r) ==
    \E o \in OrderId :
        /\ o <= issued
        /\ Begin(r, "remove", Args("remove", o, 0, Nil, Nil, Nil, NoToken), "delete")
        /\ UNCHANGED issued

\* The cutoff of a before_today clear is the day of the call, fixed here.
ClearWorkspace(r) ==
    \E m \in Modes :
        /\ Begin(r, "clear", Args("clear", 0, 0, Nil, Nil, m, NoToken), "scan")
        /\ UNCHANGED issued

-----------------------------------------------------------------------------
(* CreateBatch: the counter, then the rows *)

CreateDay(r) == DayOf(call[r].now)

\* INSERT .. ON CONFLICT DO NOTHING waits for a transaction that is writing
\* the counter, then inserts last_seq = 0 only if there is no counter.
EnsureCounter(r) ==
    LET d == CreateDay(r) IN
    /\ pc[r] = "ensure"
    /\ ~CtrLocked(r, d)
    /\ ctrs' = IF counters[d] = Nil THEN [ctrs EXCEPT ![r][d] = 0] ELSE ctrs
    /\ Goto(r, "allocate")
    /\ UNCHANGED <<clock, tables, issued, event, call, cur, start, scan, rows>>

\* What the transaction sees of a counter: its own write, or what is committed.
SeenCounter(r, d) == IF ctrs[r][d] # Untouched THEN ctrs[r][d] ELSE counters[d]

\* Mutant: the number before the first one.
StartSeqTooLow(lastSeq, quantity) == lastSeq - quantity
StartSeq(lastSeq, quantity) == lastSeq - quantity + 1

\* UPDATE .. SET last_seq = last_seq + quantity RETURNING last_seq: locks the
\* counter until the transaction ends; without a counter the call fails.
Allocate(r) ==
    LET d == CreateDay(r)
        lastSeq == SeenCounter(r, d) + call[r].qty
    IN  /\ pc[r] = "allocate"
        /\ ~CtrLocked(r, d)
        /\ SeenCounter(r, d) # Nil
        /\ ctrs' = [ctrs EXCEPT ![r][d] = lastSeq]
        /\ start' = [start EXCEPT ![r] = StartSeq(lastSeq, call[r].qty)]
        /\ Goto(r, "insert")
        /\ UNCHANGED <<clock, tables, issued, event, call, cur, scan, rows>>

AllocateFails(r) ==
    /\ pc[r] = "allocate"
    /\ ~CtrLocked(r, CreateDay(r))
    /\ SeenCounter(r, CreateDay(r)) = Nil
    /\ Rollback(r)

\* display_no is the business date followed by the sequence number.
DisplayNo(row) == <<DayOf(row.createdAt), row.seq>>

Batch(r) == call[r].id..(call[r].id + call[r].qty - 1)

\* Mutant: every order of the batch gets the first number.
SeqOfFirst(r, o) == start[r]

SeqOf(r, o) == start[r] + o - call[r].id

NewRow(r, o) ==
    [form |-> call[r].form,
     staple |-> InitialStaple(call[r].form), meat |-> InitialMeat(call[r].form),
     served |-> FALSE, version |-> 1, seq |-> SeqOf(r, o),
     createdAt |-> call[r].now, updatedAt |-> call[r].now]

NewDisplayNos(r) == {DisplayNo(NewRow(r, o)) : o \in Batch(r)}

\* The unique index on (workspace_id, display_no): rows that hold a number of
\* the batch, committed or being inserted by another transaction.
TakenBy(r) == {o \in Live : DisplayNo(orders[o]) \in NewDisplayNos(r)}

InsertingTaken(r) ==
    \E s \in Req \ {r}, o \in OrderId :
        /\ InTx(s)
        /\ rows[s][o] \notin {Nil, Untouched}
        /\ DisplayNo(rows[s][o]) \in NewDisplayNos(r)

\* The index check waits while a transaction that writes such a row runs.
InsertWaits(r) == InsertingTaken(r) \/ \E o \in TakenBy(r) : RowLocked(r, o)

InsertMany(r) ==
    /\ pc[r] = "insert"
    /\ ~InsertWaits(r)
    /\ TakenBy(r) = {}
    /\ rows' = [rows EXCEPT ![r] =
                  [o \in OrderId |-> IF o \in Batch(r) THEN NewRow(r, o) ELSE Untouched]]
    /\ Goto(r, "commit")
    /\ UNCHANGED <<clock, tables, issued, event, call, cur, start, scan, ctrs>>

\* Mutant: the rejected INSERT is tried again, with the same numbers.
InsertRetries(r) ==
    /\ pc[r] = "insert"
    /\ ~InsertWaits(r)
    /\ TakenBy(r) # {}
    /\ Goto(r, "insert")
    /\ UNCHANGED <<clock, tables, issued, event, call, local>>

\* The unique index rejects the batch; the client gets an internal error.
InsertConflict(r) ==
    /\ pc[r] = "insert"
    /\ ~InsertWaits(r)
    /\ TakenBy(r) # {}
    /\ Rollback(r)

-----------------------------------------------------------------------------
(* UpdateForm, ToggleStep, ToggleServed: read, check, write the whole row *)

VersionMatches(row, expected) == expected # Nil => row.version = expected

UpdatedAtMatches(row, expected) == expected # Nil => row.updatedAt = expected

TokenMatches(row, c) ==
    IF c.expVersion # Nil THEN VersionMatches(row, c.expVersion)
                          ELSE UpdatedAtMatches(row, c.expUpdatedAt)

\* UpdateForm starts the order over: steps reset, served mark removed.
WithForm(row, f) ==
    [row EXCEPT !.form = f, !.staple = InitialStaple(f), !.meat = InitialMeat(f),
                !.served = FALSE]

\* The row the call wants to write, computed from the row it read.
Updated(row, c) ==
    [(CASE c.op = "update" -> WithForm(row, c.form)
        [] c.op = "step"   -> ToggleStep(row, c.step)
        [] c.op = "served" -> ToggleServed(row))
     EXCEPT !.updatedAt = c.now]

\* ToggleStep that toggles nothing writes and publishes nothing.
NoProgress(row, c) == c.op = "step" /\ SameOrderProgress(row, ToggleStep(row, c.step))

MayServe(row, c) == c.op = "served" => CanServe(row)

\* GetByID is a plain SELECT: it takes no lock and sees committed rows only.
ReadOrder(r) ==
    LET row == orders[call[r].id] IN
    /\ pc[r] = "read"
    /\ row # Nil
    /\ TokenMatches(row, call[r])
    /\ MayServe(row, call[r])
    /\ ~NoProgress(row, call[r])
    /\ cur' = [cur EXCEPT ![r] = row]
    /\ Goto(r, "write")
    /\ UNCHANGED <<clock, tables, issued, event, call, start, scan, rows, ctrs>>

\* Not found, conflict, not ready to be served, or nothing to change.
ReadRejected(r) ==
    LET row == orders[call[r].id] IN
    /\ pc[r] = "read"
    /\ \/ row = Nil
       \/ row # Nil /\ ~TokenMatches(row, call[r])
       \/ row # Nil /\ TokenMatches(row, call[r]) /\ ~MayServe(row, call[r])
       \/ row # Nil /\ TokenMatches(row, call[r]) /\ NoProgress(row, call[r])
    /\ Rollback(r)

\* Mutant: the version is checked on the row that was read, and not again.
WriteHitsAnyVersion(r) == orders[call[r].id] # Nil

\* UPDATE .. SET every column, version = version + 1 [WHERE version = expected]:
\* waits for the row's lock, then looks at the row as it is now.
WriteHits(r) ==
    LET row == orders[call[r].id] IN
    row # Nil /\ VersionMatches(row, call[r].expVersion)

\* Mutants: the version read plus one; the version left alone.
NextVersionStale(r) == cur[r].version + 1
NextVersionSame(r) == orders[call[r].id].version

NextVersion(r) == orders[call[r].id].version + 1

\* Mutant: toggling served updates the completed_at column alone.
WrittenServedOnly(r) ==
    IF call[r].op = "served"
    THEN [orders[call[r].id] EXCEPT !.served = ~cur[r].served, !.version = NextVersion(r)]
    ELSE [Updated(cur[r], call[r]) EXCEPT !.version = NextVersion(r)]

WrittenRow(r) == [Updated(cur[r], call[r]) EXCEPT !.version = NextVersion(r)]

WriteOrder(r) ==
    LET o == call[r].id IN
    /\ pc[r] = "write"
    /\ ~RowLocked(r, o)
    /\ WriteHits(r)
    /\ rows' = [rows EXCEPT ![r][o] = WrittenRow(r)]
    /\ Goto(r, "commit")
    /\ UNCHANGED <<clock, tables, issued, event, call, cur, start, scan, ctrs>>

\* No row matched: ErrOrderConflict, or an internal error without a version.
WriteMisses(r) ==
    /\ pc[r] = "write"
    /\ ~RowLocked(r, call[r].id)
    /\ ~WriteHits(r)
    /\ Rollback(r)

-----------------------------------------------------------------------------
(* Remove and ClearWorkspace *)

DeleteOrder(r) ==
    LET o == call[r].id IN
    /\ pc[r] = "delete"
    /\ ~RowLocked(r, o)
    /\ orders[o] # Nil
    /\ rows' = [rows EXCEPT ![r][o] = Nil]
    /\ Goto(r, "commit")
    /\ UNCHANGED <<clock, tables, issued, event, call, cur, start, scan, ctrs>>

DeleteMisses(r) ==
    /\ pc[r] = "delete"
    /\ ~RowLocked(r, call[r].id)
    /\ orders[call[r].id] = Nil
    /\ Rollback(r)

\* The days a clear covers: every day, or those before the day of the call.
Covers(c, d) == c.mode = "before_today" => d < DayOf(c.now)

\* DELETE FROM orders: the rows are those of the snapshot taken when the
\* statement starts; rows another transaction has not committed are missed.
ScanOrders(r) ==
    /\ pc[r] = "scan"
    /\ scan' = [scan EXCEPT ![r] =
                  {o \in Live : Covers(call[r], DayOf(orders[o].createdAt))}]
    /\ Goto(r, "sweep")
    /\ UNCHANGED <<clock, tables, issued, event, call, cur, start, rows, ctrs>>

\* It waits for their locks and deletes those that still exist.
SweepOrders(r) ==
    /\ pc[r] = "sweep"
    /\ \A o \in scan[r] : ~RowLocked(r, o)
    /\ rows' = [rows EXCEPT ![r] =
                  [o \in OrderId |-> IF o \in scan[r] \cap Live THEN Nil ELSE Untouched]]
    /\ Goto(r, "reset")
    /\ UNCHANGED <<clock, tables, issued, event, call, cur, start, scan, ctrs>>

\* DELETE FROM workspace_daily_counters, a second statement with a snapshot
\* of its own: a counter updated meanwhile is deleted after its lock is free,
\* a counter another transaction has inserted and not committed is missed.
\* Mutant: the counter of the day of the call is reset with the older ones.
StaleCountersToday(r) ==
    {d \in Day : counters[d] # Nil
                   /\ (call[r].mode = "before_today" => d <= DayOf(call[r].now))}
StaleCounters(r) == {d \in Day : counters[d] # Nil /\ Covers(call[r], d)}

ResetCounters(r) ==
    /\ pc[r] = "reset"
    /\ \A d \in StaleCounters(r) : ~CtrLocked(r, d)
    /\ ctrs' = [ctrs EXCEPT ![r] =
                  [d \in Day |-> IF d \in StaleCounters(r) THEN Nil ELSE Untouched]]
    /\ Goto(r, "commit")
    /\ UNCHANGED <<clock, tables, issued, event, call, cur, start, scan, rows>>

-----------------------------------------------------------------------------
(* The end of a transaction, and the event *)

\* The write set becomes visible in one step.
Install(r) ==
    /\ orders' = [o \in OrderId |->
                    IF rows[r][o] = Untouched THEN orders[o] ELSE rows[r][o]]
    /\ counters' = [d \in Day |->
                    IF ctrs[r][d] = Untouched THEN counters[d] ELSE ctrs[r][d]]
    /\ gone' = gone \cup {o \in OrderId : rows[r][o] = Nil}

Commit(r) ==
    /\ pc[r] = "commit"
    /\ Install(r)
    /\ Goto(r, "publish")
    /\ UNCHANGED <<clock, issued, event, call, local>>

\* The server committed and the connection broke before it said so: the call
\* reports an error and publishes nothing.
CommitUnacknowledged(r) ==
    /\ pc[r] = "commit"
    /\ Install(r)
    /\ Finish(r)
    /\ UNCHANGED <<clock, issued, event>>

\* Mutant: the cutoff is computed again when the event is built.
ClearDateKeyNow(r) == IF call[r].mode = "all" THEN Nil ELSE DayOf(clock)

ClearDateKey(r) == IF call[r].mode = "all" THEN Nil ELSE DayOf(call[r].now)

\* One event per call; how publishUpserts splits a batch is another matter.
EventOf(r) ==
    CASE call[r].op = "remove" -> [kind |-> "deleted", id |-> call[r].id]
      [] call[r].op = "clear"  ->
           [kind |-> "cleared", ids |-> {o \in OrderId : rows[r][o] = Nil},
            before |-> ClearDateKey(r)]
      [] OTHER -> [kind |-> "upsert", items |-> rows[r]]

\* The orders an order.upsert event shows.
Shown(e) == {o \in OrderId : e.kind = "upsert" /\ e.items[o] # Untouched}

\* Mutant: the event is published inside the transaction.
PublishInTx(r) ==
    /\ pc[r] = "commit"
    /\ event' = EventOf(r)
    /\ UNCHANGED <<clock, tables, issued, pc, call, local>>

Publish(r) ==
    /\ pc[r] = "publish"
    /\ event' = EventOf(r)
    /\ Finish(r)
    /\ UNCHANGED <<clock, tables, issued>>

\* A statement fails, or the client goes away and its context is cancelled.
Fail(r) == InTx(r) /\ Rollback(r)

\* The process stops and starts again: every request in flight is lost.
Crash ==
    /\ \E r \in Req : pc[r] # "idle"
    /\ pc' = [r \in Req |-> "idle"]
    /\ call' = [r \in Req |-> Nil]
    /\ cur' = [r \in Req |-> Nil]
    /\ start' = [r \in Req |-> 0]
    /\ scan' = [r \in Req |-> {}]
    /\ rows' = [r \in Req |-> NoRows]
    /\ ctrs' = [r \in Req |-> NoCtrs]
    /\ UNCHANGED <<clock, tables, issued, event>>

Tick ==
    /\ clock < MaxClock
    /\ clock' = clock + 1
    /\ UNCHANGED <<tables, issued, event, pc, call, local>>

-----------------------------------------------------------------------------
(* Specification *)

Arrive(r) ==
    \/ CreateBatch(r) \/ UpdateForm(r) \/ ToggleOrderStep(r)
    \/ ToggleOrderServed(r) \/ Remove(r) \/ ClearWorkspace(r)

Advance(r) ==
    \/ EnsureCounter(r) \/ Allocate(r) \/ AllocateFails(r)
    \/ InsertMany(r) \/ InsertConflict(r)
    \/ ReadOrder(r) \/ ReadRejected(r) \/ WriteOrder(r) \/ WriteMisses(r)
    \/ DeleteOrder(r) \/ DeleteMisses(r)
    \/ ScanOrders(r) \/ SweepOrders(r) \/ ResetCounters(r)
    \/ Commit(r) \/ Publish(r)

Next ==
    \/ \E r \in Req :
        \/ Arrive(r) \/ Advance(r) \/ CommitUnacknowledged(r) \/ Fail(r)
    \/ Crash
    \/ Tick

Spec == Init /\ [][Next]_vars

\* r's next statement waits for a lock that s holds.
Blocks(s, r) ==
    /\ s # r /\ InTx(s)
    /\ \/ pc[r] \in {"ensure", "allocate"} /\ ctrs[s][CreateDay(r)] # Untouched
       \/ pc[r] = "insert" /\ \/ \E o \in TakenBy(r) : rows[s][o] # Untouched
                              \/ InsertingTaken(r)
       \/ pc[r] \in {"write", "delete"} /\ rows[s][call[r].id] # Untouched
       \/ pc[r] = "sweep" /\ \E o \in scan[r] : rows[s][o] # Untouched
       \/ pc[r] = "reset" /\ \E d \in StaleCounters(r) : ctrs[s][d] # Untouched

\* PostgreSQL aborts one of two transactions that wait for each other.
DeadlockAbort(r) == (\E s \in Req : Blocks(s, r) /\ Blocks(r, s)) /\ Fail(r)

\* A handler runs on; a lock wait is first come first served, so a statement
\* that can go on again and again does go on.  Nothing is assumed of
\* failures, crashes, the clock, or that clients call.
Fairness == \A r \in Req : SF_vars(Advance(r)) /\ WF_vars(DeadlockAbort(r))

FairSpec == Spec /\ Fairness

\* Not promised by the code: clears run when no other call does.  What a clear
\* loses to a concurrent create holds then, CounterCoversOrders and
\* ClearDateKeyIsBarrier below.
ClearsRunAlone ==
    \A r, s \in Req :
        r # s /\ pc[r] # "idle" /\ call[r].op = "clear" => pc[s] = "idle"

ClearsAloneSpec == Init /\ [][Next /\ ClearsRunAlone']_vars

-----------------------------------------------------------------------------
(* Correctness *)

RowImage == Row \cup {Nil, Untouched}
CtrImage == Nat \cup {Nil, Untouched}

EventOK ==
    \/ event = NoEvent
    \/ event \in [kind : {"deleted"}, id : OrderId]
    \/ event \in [kind : {"cleared"}, ids : SUBSET OrderId, before : Day \cup {Nil}]
    \/ event \in [kind : {"upsert"}, items : [OrderId -> Row \cup {Untouched}]]

(***************************************************************************)
(* Type correctness of the tables, the requests and the events.            *)
(***************************************************************************)
TypeOK ==
    /\ clock \in Time
    /\ orders \in [OrderId -> Row \cup {Nil}]
    /\ counters \in [Day -> Nat \cup {Nil}]
    /\ issued \in 0..MaxOrders
    /\ gone \subseteq OrderId
    /\ EventOK
    /\ pc \in [Req -> PC]
    /\ call \in [Req -> Call \cup {Nil}]
    /\ cur \in [Req -> Row \cup {Nil}]
    /\ start \in [Req -> Nat]
    /\ scan \in [Req -> SUBSET OrderId]
    /\ rows \in [Req -> [OrderId -> RowImage]]
    /\ ctrs \in [Req -> [Day -> CtrImage]]

(***************************************************************************)
(* No interleaving of mutations, however stale the rows they read, commits *)
(* an order whose steps do not match its form or that is served with a     *)
(* required step open, and no event shows such an order ("An order can be  *)
(* marked served only when all required steps are completed",              *)
(* docs/agents/project.md; CanServe is evaluated on the row that was read, *)
(* not on the row that is overwritten).                                    *)
(***************************************************************************)
OrdersConsistent ==
    /\ \A o \in Live : ConsistentOrder(orders[o])
    /\ \A o \in Shown(event) : ConsistentOrder(event.items[o])

(***************************************************************************)
(* A mutation that sends expectedVersion overwrites exactly the row it     *)
(* read: from its UPDATE to its commit the committed row is the one its    *)
(* changes were computed from, so it never undoes a concurrent change.     *)
(***************************************************************************)
VersionedWriteLosesNothing ==
    \A r \in Req :
        pc[r] = "commit" /\ cur[r] # Nil /\ call[r].expVersion # Nil
            => orders[call[r].id] = cur[r]

(***************************************************************************)
(* Every commit that changes an existing order advances its version by     *)
(* exactly one, with or without an expected version ("Orders advance it    *)
(* atomically on every successful state-changing mutation ... so commits   *)
(* within the same second remain distinguishable", docs/agents/project.md).*)
(***************************************************************************)
VersionAdvances ==
    [][\A o \in OrderId :
          orders[o] # Nil /\ orders'[o] \notin {Nil, orders[o]}
              => orders'[o].version = orders[o].version + 1]_vars

(***************************************************************************)
(* A published version identifies the row: as long as the order still has  *)
(* the version an event showed, it has the contents the event showed, and  *)
(* its version never falls behind a published one.  Clients order what     *)
(* they receive by version.                                                *)
(***************************************************************************)
PublishedVersionIsCurrent ==
    \A o \in Shown(event) \cap Live :
        /\ orders[o].version >= event.items[o].version
        /\ orders[o].version = event.items[o].version => orders[o] = event.items[o]

(***************************************************************************)
(* Commit, then publish: what an event announces is durable and visible to *)
(* every later snapshot: an upserted order exists or was deleted since, a  *)
(* deleted or cleared one is gone, and what is gone stays gone, whatever   *)
(* stale writes are still in flight (service/v1/order.go:346-353).         *)
(***************************************************************************)
PublishedIsCommitted ==
    /\ gone \cap Live = {}
    /\ Shown(event) \subseteq gone \cup Live
    /\ event.kind = "deleted" => event.id \in gone
    /\ event.kind = "cleared" => event.ids \subseteq gone

CounterOf(c, d) == IF c[d] = Nil THEN 0 ELSE c[d]

(***************************************************************************)
(* The committed tables change as the abstract OrderLedger allows: whole   *)
(* consistent batches, one-version revisions that keep an order's number   *)
(* and creation time, deletions that are final.                            *)
(***************************************************************************)
Ledger == INSTANCE OrderLedger WITH
    board <- orders, dead <- gone, Id <- OrderId, Days <- Day,
    last <- [d \in Day |-> CounterOf(counters, d)]

ImplementsLedger == Ledger!LedgerSpec

(***************************************************************************)
(* Batches are atomic and numbered without gap or overlap: the orders a    *)
(* commit adds to a business day take exactly the numbers by which that    *)
(* commit advances the day's counter; failed and crashed batches leave no  *)
(* hole (CreateBatch, "allocating display numbers atomically").            *)
(***************************************************************************)
NumbersFollowCounter ==
    [][\A d \in Day :
          LET born == {o \in OrderId : /\ orders[o] = Nil /\ orders'[o] # Nil
                                       /\ DayOf(orders'[o].createdAt) = d}
          IN  /\ {orders'[o].seq : o \in born} =
                   (CounterOf(counters, d) + 1)..CounterOf(counters', d)
              /\ \A o, p \in born : orders'[o].seq = orders'[p].seq => o = p]_vars

(***************************************************************************)
(* The counter of a business day is never behind the orders of that day,   *)
(* so the next number it yields is free ("display_no sequenced by          *)
(* workspace_daily_counters", docs/agents/project.md).                     *)
(***************************************************************************)
CounterCoversOrders ==
    \A o \in Live :
        orders[o].seq <= CounterOf(counters, DayOf(orders[o].createdAt))

(***************************************************************************)
(* The server keeps no order from before the day an order.cleared event    *)
(* carries: a client that drops those orders drops none the server kept    *)
(* (internal/domain/order_events.go:43-47).                                *)
(***************************************************************************)
ClearDateKeyIsBarrier ==
    event.kind = "cleared" /\ event.before # Nil =>
        \A o \in Live : DayOf(orders[o].createdAt) >= event.before

(***************************************************************************)
(* Every call ends: no lock wait is forever, whatever the other requests   *)
(* do, as long as deadlocks between two transactions are broken.           *)
(***************************************************************************)
CallsFinish == \A r \in Req : pc[r] # "idle" ~> pc[r] = "idle"
=============================================================================
