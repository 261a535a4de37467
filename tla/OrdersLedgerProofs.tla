------------------------- MODULE OrdersLedgerProofs --------------------------
(***************************************************************************)
(* Proofs that Orders implements OrderLedger, that the numbers of a day    *)
(* follow its counter, and that with clears alone counters cover their     *)
(* orders and clears are barriers.                                         *)
(***************************************************************************)
EXTENDS OrdersLockProofs

\* The counters a running transaction has locked.
CtrHeld(r) == {d \in Day : InTx(r) /\ ctrs[r][d] # Untouched}

CountersExclusive ==
    \A r \in Req : \A s \in Req \ {r} : \A d \in CtrHeld(r) : d \notin CtrHeld(s)

Creating(r) == InTx(r) /\ call[r].op = "create"

\* All ids of a batch are rows of the table.
BatchFits(r) ==
    Creating(r) =>
        /\ call[r].id > 0 /\ call[r].qty > 0
        /\ call[r].id + call[r].qty - 1 <= MaxOrders

\* From its UPDATE on a create holds the counter of its day, which it moves
\* from just before its first number to its last one.
CounterTaken(r) ==
    Creating(r) =>
        /\ \A d \in CtrHeld(r) : d = CreateDay(r)
        /\ pc[r] = "ensure" => CtrHeld(r) = {}
        /\ pc[r] = "allocate" =>
             \A d \in CtrHeld(r) : counters[d] = Nil /\ ctrs[r][d] = 0
        /\ pc[r] \in {"insert", "commit"} =>
             /\ CreateDay(r) \in CtrHeld(r)
             /\ start[r] = CounterOf(counters, CreateDay(r)) + 1
             /\ ctrs[r][CreateDay(r)] = start[r] + call[r].qty - 1

\* The others leave counters alone, or delete them.
CounterLeft(r) ==
    InTx(r) =>
        /\ call[r].op \in Edits \cup {"remove"} => CtrHeld(r) = {}
        /\ call[r].op = "clear" => \A d \in CtrHeld(r) : ctrs[r][d] = Nil

BatchWritten(r) ==
    pc[r] = "commit" /\ call[r].op = "create" =>
        \A o \in OrderId :
            /\ rows[r][o] = IF o \in Batch(r) THEN NewRow(r, o) ELSE Untouched
            /\ o \in Batch(r) => rows[r][o] # Untouched

SameIdentity(row, other) == row.seq = other.seq /\ row.createdAt = other.createdAt

\* An edit never gives an order another number or creation time.
IdentityKept(r) ==
    /\ pc[r] = "write" /\ orders[call[r].id] # Nil =>
         SameIdentity(cur[r], orders[call[r].id])
    /\ pc[r] = "commit" /\ call[r].op \in Edits =>
         SameIdentity(rows[r][call[r].id], orders[call[r].id])

Numbers(r) ==
    /\ BatchFits(r) /\ CounterTaken(r) /\ CounterLeft(r)
    /\ BatchWritten(r) /\ IdentityKept(r)

NumberInv == CountersExclusive /\ \A r \in Req : Numbers(r)

-----------------------------------------------------------------------------
(* Steps of one request that commit nothing *)

LEMMA OthersCounters ==
  ASSUME NEW r \in Req, OthersKeep(r), NEW s \in Req \ {r}
  PROVE  CtrHeld(s)' = CtrHeld(s)
  BY DEF OthersKeep, CtrHeld, InTx

LEMMA LocalNumbers ==
  ASSUME NumberInv, NEW r \in Req, OthersKeep(r), UNCHANGED <<orders, counters>>,
         \A d \in CtrHeld(r)' : \A s \in Req \ {r} : d \notin CtrHeld(s),
         Numbers(r)'
  PROVE  NumberInv'
<1>1. \A s \in Req \ {r} : CtrHeld(s)' = CtrHeld(s)
  BY OthersCounters
<1>2. CountersExclusive'
  BY <1>1 DEF NumberInv, CountersExclusive
<1>3. ASSUME NEW s \in Req \ {r} PROVE Numbers(s)'
  <2>1. Numbers(s)
    BY DEF NumberInv
  <2>2. /\ pc'[s] = pc[s] /\ call'[s] = call[s] /\ cur'[s] = cur[s]
        /\ start'[s] = start[s] /\ rows'[s] = rows[s] /\ ctrs'[s] = ctrs[s]
        /\ CtrHeld(s)' = CtrHeld(s)
    BY <1>1 DEF OthersKeep
  <2>3. BatchFits(s)' /\ CounterTaken(s)' /\ CounterLeft(s)'
    BY <2>1, <2>2 DEF Numbers, BatchFits, CounterTaken, CounterLeft, Creating, InTx,
       CreateDay, CounterOf
  <2>4. BatchWritten(s)' /\ IdentityKept(s)'
    BY <2>1, <2>2 DEF Numbers, BatchWritten, IdentityKept, SameIdentity, Batch, NewRow, SeqOf
  <2> QED
    BY <2>3, <2>4 DEF Numbers
<1> QED
  BY <1>2, <1>3 DEF NumberInv

LEMMA FinishNumbers ==
  ASSUME TypeOK, NumberInv, NEW r \in Req, Finish(r), UNCHANGED <<orders, counters>>
  PROVE  NumberInv'
<1>1. OthersKeep(r) /\ pc'[r] = "idle"
  BY FinishKeeps
<1>2. CtrHeld(r)' = {} /\ Numbers(r)'
  BY <1>1 DEF CtrHeld, InTx, Numbers, BatchFits, CounterTaken, CounterLeft, BatchWritten,
     IdentityKept, Creating
<1> QED
  BY <1>1, <1>2, LocalNumbers

LEMMA RollbackNumbers ==
  ASSUME TypeOK, NumberInv, NEW r \in Req, Rollback(r)
  PROVE  NumberInv'
  BY FinishNumbers DEF Rollback, tables

LEMMA ArriveNumbers ==
  ASSUME TypeInv, NumberInv, NEW r \in Req, Arrive(r)
  PROVE  NumberInv'
<1>0. TypeOK /\ issued \in Nat /\ IdleShape(r)
  BY OrdersAssumption DEF TypeInv, TypeOK, Shape
<1>1. ASSUME NEW op, NEW c, NEW label \in {"ensure", "read", "delete", "scan"},
             Begin(r, op, c, label),
             c.op = "create" => /\ c.id > 0 /\ c.qty > 0 /\ c.id + c.qty - 1 <= MaxOrders
                                /\ label = "ensure"
      PROVE  NumberInv'
  <2>1. /\ pc[r] = "idle" /\ pc' = [pc EXCEPT ![r] = label] /\ call' = [call EXCEPT ![r] = c]
        /\ UNCHANGED <<orders, counters, cur, start, scan, rows, ctrs>>
    BY <1>1 DEF Begin, Goto, tables, local
  <2>2. OthersKeep(r) /\ pc'[r] = label /\ call'[r] = c /\ ctrs'[r] = NoCtrs
    BY <1>0, <2>1 DEF TypeOK, OthersKeep, IdleShape
  <2>3. CtrHeld(r)' = {}
    BY <2>2 DEF CtrHeld, NoCtrs
  <2>4. Numbers(r)'
    BY <1>1, <2>2, <2>3 DEF Numbers, BatchFits, CounterTaken, CounterLeft, BatchWritten,
       IdentityKept, Creating
  <2> QED
    BY <2>1, <2>2, <2>3, <2>4, LocalNumbers
<1>2. CASE CreateBatch(r)
  <2>1. PICK q \in 1..MaxBatch, f \in Form :
          /\ issued + q <= MaxOrders
          /\ Begin(r, "create", Args("create", issued + 1, q, f, Nil, Nil, NoToken), "ensure")
    BY <1>2 DEF CreateBatch
  <2> DEFINE c == Args("create", issued + 1, q, f, Nil, Nil, NoToken)
  <2>2. c.id = issued + 1 /\ c.qty = q
    BY DEF Args
  <2> HIDE DEF c
  <2>3. c.id > 0 /\ c.qty > 0 /\ c.id + c.qty - 1 <= MaxOrders
    BY <1>0, <2>1, <2>2, OrdersAssumption
  <2> QED
    BY <1>1, <2>1, <2>3 DEF c
<1>3. CASE ~CreateBatch(r)
  <2>1. \E op \in AllOps \ {"create"}, label \in {"read", "delete", "scan"} :
          \E id, f, s, m, t : Begin(r, op, Args(op, id, 0, f, s, m, t), label)
    BY <1>3 DEF Arrive, UpdateForm, ToggleOrderStep, ToggleOrderServed, Remove,
       ClearWorkspace, Mutation, AllOps
  <2>2. PICK op \in AllOps \ {"create"}, label \in {"read", "delete", "scan"} :
          \E id, f, s, m, t : Begin(r, op, Args(op, id, 0, f, s, m, t), label)
    BY <2>1
  <2>3. PICK id, f, s, m, t : Begin(r, op, Args(op, id, 0, f, s, m, t), label)
    BY <2>2
  <2>4. Args(op, id, 0, f, s, m, t).op = op
    BY DEF Args
  <2> QED
    BY <1>1, <2>2, <2>3, <2>4
<1> QED
  BY <1>2, <1>3

LEMMA EnsureCounterNumbers ==
  ASSUME TypeInv, NumberInv, NEW r \in Req, EnsureCounter(r)
  PROVE  NumberInv'
<1> DEFINE d == CreateDay(r)
<1>1. TypeOK /\ CreateShape(r) /\ Numbers(r) /\ Creating(r) /\ pc[r] = "ensure"
  BY DEF TypeInv, Shape, NumberInv, EnsureCounter, CreateShape, Creating, InTx
<1>2. d \in Day
  BY <1>1, DayOfTime DEF CreateShape, CreateDay, Call
<1>3. /\ OthersKeep(r) /\ pc'[r] = "allocate" /\ call' = call
      /\ UNCHANGED <<orders, counters>>
      /\ ctrs' = IF counters[d] = Nil THEN [ctrs EXCEPT ![r][d] = 0] ELSE ctrs
      /\ ~CtrLocked(r, d)
  BY <1>1 DEF TypeOK, EnsureCounter, Goto, OthersKeep, tables
<1>4. CtrHeld(r) = {}
  BY <1>1 DEF Numbers, CounterTaken
<1>5. \A e \in CtrHeld(r)' : e = d /\ counters[d] = Nil /\ ctrs'[r][d] = 0
  <2> SUFFICES ASSUME NEW e \in CtrHeld(r)'
               PROVE  e = d /\ counters[d] = Nil /\ ctrs'[r][d] = 0
    OBVIOUS
  <2>1. e \in Day /\ ctrs'[r][e] # Untouched
    BY DEF CtrHeld
  <2>2. ctrs[r][e] = Untouched
    BY <1>1, <1>4, <2>1 DEF CtrHeld, Creating
  <2> QED
    BY <1>1, <1>2, <1>3, <2>1, <2>2 DEF TypeOK
<1>6. \A e \in CtrHeld(r)' : \A s \in Req \ {r} : e \notin CtrHeld(s)
  BY <1>2, <1>3, <1>5 DEF CtrHeld, CtrLocked
<1>7. call'[r] = call[r] /\ CreateDay(r)' = d /\ Creating(r)'
  BY <1>1, <1>3 DEF CreateDay, Creating, InTx
<1> HIDE DEF d
<1>8. Numbers(r)'
  BY <1>1, <1>3, <1>5, <1>7 DEF Numbers, BatchFits, CounterTaken, CounterLeft, BatchWritten,
     IdentityKept, Creating, CreateShape, Edits
<1> QED
  BY <1>3, <1>6, <1>8, LocalNumbers

LEMMA AllocateNumbers ==
  ASSUME TypeInv, NumberInv, NEW r \in Req, Allocate(r)
  PROVE  NumberInv'
<1> DEFINE d == CreateDay(r)
           n == SeenCounter(r, d) + call[r].qty
<1>1. TypeOK /\ CreateShape(r) /\ Numbers(r) /\ Creating(r) /\ pc[r] = "allocate"
  BY DEF TypeInv, Shape, NumberInv, Allocate, CreateShape, Creating, InTx
<1>2. d \in Day /\ call[r].qty \in Nat
  BY <1>1, DayOfTime DEF CreateShape, CreateDay, Call
<1>3. /\ OthersKeep(r) /\ pc'[r] = "insert" /\ call' = call
      /\ UNCHANGED <<orders, counters>>
      /\ ctrs' = [ctrs EXCEPT ![r][d] = n]
      /\ start' = [start EXCEPT ![r] = StartSeq(n, call[r].qty)]
      /\ SeenCounter(r, d) # Nil /\ ~CtrLocked(r, d)
  BY <1>1 DEF TypeOK, Allocate, Goto, OthersKeep, tables
<1>4. SeenCounter(r, d) = CounterOf(counters, d) /\ CounterOf(counters, d) \in Nat
  <2>1. CASE d \in CtrHeld(r)
    <3>1. counters[d] = Nil /\ ctrs[r][d] = 0
      BY <1>1, <2>1 DEF Numbers, CounterTaken
    <3> QED
      BY <2>1, <3>1 DEF SeenCounter, CounterOf, CtrHeld
  <2>2. CASE d \notin CtrHeld(r)
    <3>1. ctrs[r][d] = Untouched
      BY <1>1, <1>2, <2>2 DEF CtrHeld, Creating
    <3>2. SeenCounter(r, d) = counters[d]
      BY <3>1 DEF SeenCounter
    <3> QED
      BY <1>1, <1>2, <1>3, <3>2 DEF CounterOf, TypeOK
  <2> QED
    BY <2>1, <2>2
<1>5. start'[r] = CounterOf(counters, d) + 1 /\ ctrs'[r][d] = start'[r] + call[r].qty - 1
  BY <1>1, <1>2, <1>3, <1>4 DEF TypeOK, StartSeq
<1>6. ctrs'[r][d] # Untouched
  <2>1. ctrs'[r][d] \in Nat
    BY <1>2, <1>4, <1>5
  <2> QED
    BY <2>1, OrdersAssumption
<1>7. CtrHeld(r)' = {d}
  <2>1. \A e \in Day \ {d} : ctrs'[r][e] = Untouched
    BY <1>1, <1>2, <1>3 DEF TypeOK, Numbers, CounterTaken, CtrHeld, Creating
  <2>2. InTx(r)'
    BY <1>3 DEF InTx
  <2> QED
    BY <1>2, <1>6, <2>1, <2>2 DEF CtrHeld
<1>8. \A e \in CtrHeld(r)' : \A s \in Req \ {r} : e \notin CtrHeld(s)
  BY <1>2, <1>3, <1>7 DEF CtrHeld, CtrLocked
<1>9. call'[r] = call[r] /\ CreateDay(r)' = d /\ Creating(r)'
  BY <1>1, <1>3 DEF CreateDay, Creating, InTx
<1> HIDE DEF d, n
<1>10. Numbers(r)'
  BY <1>1, <1>3, <1>5, <1>7, <1>9 DEF Numbers, BatchFits, CounterTaken, CounterLeft,
     BatchWritten, IdentityKept, Creating, CreateShape, CounterOf, Edits
<1> QED
  BY <1>3, <1>8, <1>10, LocalNumbers

\* A statement that leaves counters, call and start alone.
KeepsCounters(r) ==
    /\ OthersKeep(r) /\ InTx(r) /\ InTx(r)'
    /\ call'[r] = call[r] /\ start'[r] = start[r] /\ ctrs'[r] = ctrs[r]
    /\ UNCHANGED <<orders, counters>>

LEMMA KeepsCountersNumbers ==
  ASSUME NumberInv, NEW r \in Req, KeepsCounters(r),
         call[r].op = "create" => pc[r] = "insert" /\ pc'[r] = "commit",
         BatchWritten(r)', IdentityKept(r)'
  PROVE  NumberInv'
<1>1. CtrHeld(r)' = CtrHeld(r) /\ CreateDay(r)' = CreateDay(r) /\ (Creating(r)' <=> Creating(r))
  BY DEF KeepsCounters, CtrHeld, CreateDay, Creating
<1>2. Numbers(r)'
  BY <1>1 DEF KeepsCounters, NumberInv, Numbers, BatchFits, CounterTaken, CounterLeft,
     Creating, CounterOf
<1>3. \A d \in CtrHeld(r)' : \A s \in Req \ {r} : d \notin CtrHeld(s)
  BY <1>1 DEF NumberInv, CountersExclusive
<1> QED
  BY <1>2, <1>3, LocalNumbers DEF KeepsCounters

LEMMA InsertManyNumbers ==
  ASSUME TypeInv, NumberInv, NEW r \in Req, InsertMany(r)
  PROVE  NumberInv'
<1>1. TypeOK /\ CreateShape(r) /\ pc[r] = "insert"
  BY DEF TypeInv, Shape, InsertMany
<1>2. KeepsCounters(r) /\ pc'[r] = "commit" /\ call[r].op = "create"
  BY <1>1 DEF TypeOK, InsertMany, CreateShape, Goto, tables, KeepsCounters, OthersKeep, InTx
<1>3. \A o \in OrderId :
        rows'[r][o] = IF o \in Batch(r) THEN NewRow(r, o) ELSE Untouched
  BY <1>1 DEF TypeOK, InsertMany
<1>4. \A o \in Batch(r) : NewRow(r, o) # Untouched
  BY <1>1, NewRowType, OrdersAssumption DEF CreateShape
<1>5. BatchWritten(r)' /\ IdentityKept(r)'
  BY <1>2, <1>3, <1>4 DEF KeepsCounters, BatchWritten, IdentityKept, Batch, NewRow, SeqOf, Edits
<1> QED
  BY <1>1, <1>2, <1>5, KeepsCountersNumbers

LEMMA ReadOrderNumbers ==
  ASSUME TypeInv, NumberInv, NEW r \in Req, ReadOrder(r)
  PROVE  NumberInv'
<1>1. TypeOK /\ EditShape(r) /\ pc[r] = "read"
  BY DEF TypeInv, Shape, ReadOrder
<1>2. /\ KeepsCounters(r) /\ pc'[r] = "write" /\ call[r].op \in Edits
      /\ cur'[r] = orders[call[r].id]
  BY <1>1 DEF TypeOK, ReadOrder, EditShape, Goto, tables, KeepsCounters, OthersKeep, InTx
<1>3. BatchWritten(r)' /\ IdentityKept(r)'
  BY <1>2 DEF KeepsCounters, BatchWritten, IdentityKept, SameIdentity
<1> QED
  BY <1>2, <1>3, KeepsCountersNumbers DEF Edits

LEMMA UpdatedKeepsIdentity ==
  ASSUME NEW row \in Row, NEW c \in Call, c.op \in Edits,
         c.op = "update" => c.form \in Form, c.op = "step" => c.step \in Step,
         NEW n
  PROVE  SameIdentity([Updated(row, c) EXCEPT !.version = n], row)
<1> DEFINE new == CASE c.op = "update" -> WithForm(row, c.form)
                    [] c.op = "step"   -> ToggleStep(row, c.step)
                    [] c.op = "served" -> ToggleServed(row)
<1>1. new \in Row
  BY WithFormType, ToggleStepType, ToggleServedType DEF Edits
<1>2. SameIdentity(WithForm(row, c.form), row) /\ SameIdentity(ToggleServed(row), row)
  BY DEF WithForm, ToggleServed, SameIdentity, Row
<1>3. c.op = "step" => SameIdentity(ToggleStep(row, c.step), row)
  BY DEF ToggleStep, FlipStep, SameIdentity, Row
<1>4. SameIdentity(new, row)
  BY <1>2, <1>3 DEF Edits
<1>5. Updated(row, c) = [new EXCEPT !.updatedAt = c.now]
  BY DEF Updated
<1> HIDE DEF new
<1> QED
  BY <1>1, <1>4, <1>5 DEF SameIdentity, Row

LEMMA WriteOrderNumbers ==
  ASSUME TypeInv, NumberInv, NEW r \in Req, WriteOrder(r)
  PROVE  NumberInv'
<1> DEFINE o == call[r].id
<1>1. TypeOK /\ EditShape(r) /\ pc[r] = "write" /\ IdentityKept(r)
  BY DEF TypeInv, Shape, WriteOrder, NumberInv, Numbers
<1>2. /\ KeepsCounters(r) /\ pc'[r] = "commit" /\ call[r].op \in Edits
      /\ o \in OrderId /\ rows'[r][o] = WrittenRow(r) /\ orders[o] # Nil
  BY <1>1 DEF TypeOK, WriteOrder, WriteHits, EditShape, Goto, tables, KeepsCounters,
     OthersKeep, InTx
<1>3. SameIdentity(WrittenRow(r), cur[r])
  BY <1>1, UpdatedKeepsIdentity DEF EditShape, WrittenRow
<1>4. BatchWritten(r)' /\ IdentityKept(r)'
  BY <1>1, <1>2, <1>3 DEF KeepsCounters, BatchWritten, IdentityKept, SameIdentity, Edits
<1> QED
  BY <1>2, <1>4, KeepsCountersNumbers DEF Edits

LEMMA DeleteNumbers ==
  ASSUME TypeInv, NumberInv, NEW r \in Req,
         DeleteOrder(r) \/ ScanOrders(r) \/ SweepOrders(r)
  PROVE  NumberInv'
<1>1. TypeOK /\ DeleteShape(r) /\ ClearShape(r)
  BY DEF TypeInv, Shape
<1>2. KeepsCounters(r) /\ pc'[r] # "write" /\ call[r].op \in {"remove", "clear"}
  BY <1>1 DEF TypeOK, DeleteOrder, ScanOrders, SweepOrders, DeleteShape, ClearShape, Goto,
     tables, KeepsCounters, OthersKeep, InTx
<1>3. BatchWritten(r)' /\ IdentityKept(r)'
  BY <1>2 DEF KeepsCounters, BatchWritten, IdentityKept, Edits
<1> QED
  BY <1>2, <1>3, KeepsCountersNumbers

LEMMA ResetNumbers ==
  ASSUME TypeInv, NumberInv, NEW r \in Req, ResetCounters(r)
  PROVE  NumberInv'
<1>1. TypeOK /\ ClearShape(r)
  BY DEF TypeInv, Shape
<1>2. /\ OthersKeep(r) /\ pc'[r] = "commit" /\ call'[r] = call[r] /\ call[r].op = "clear"
      /\ UNCHANGED <<orders, counters>>
      /\ \A d \in Day : ctrs'[r][d] = IF d \in StaleCounters(r) THEN Nil ELSE Untouched
      /\ \A d \in StaleCounters(r) : ~CtrLocked(r, d)
  BY <1>1 DEF TypeOK, ResetCounters, ClearShape, Goto, tables, OthersKeep
<1>3. \A d \in CtrHeld(r)' : d \in StaleCounters(r) /\ ctrs'[r][d] = Nil
  BY <1>2 DEF CtrHeld
<1>4. \A d \in CtrHeld(r)' : \A s \in Req \ {r} : d \notin CtrHeld(s)
  BY <1>2, <1>3 DEF CtrHeld, CtrLocked
<1>5. Numbers(r)'
  BY <1>2, <1>3 DEF Numbers, BatchFits, CounterTaken, CounterLeft, BatchWritten, IdentityKept,
     Creating, Edits
<1> QED
  BY <1>2, <1>4, <1>5, LocalNumbers

-----------------------------------------------------------------------------
(* Commits *)

LEMMA CommitIdentity ==
  ASSUME TypeInv, LockInv, NumberInv, NEW r \in Req, pc[r] = "commit", Install(r),
         NEW o \in Held(r), orders[o] # Nil, orders'[o] # Nil
  PROVE  SameIdentity(orders'[o], orders[o])
<1>1. EndShape(r) /\ Works(r) /\ IdentityKept(r)
  BY DEF TypeInv, Shape, LockInv, NumberInv, Numbers
<1>2. o \in OrderId /\ rows[r][o] # Untouched /\ orders'[o] = rows[r][o]
  BY DEF Held, Install
<1>3. call[r].op \in {"create", "remove", "clear"} \cup Edits
  BY <1>1 DEF EndShape, Call, AllOps, Edits
<1>4. call[r].op # "create"
  BY <1>1 DEF Works, HeldRows, LockInv, FreshIdsUnused
<1>5. call[r].op \notin {"remove", "clear"}
  BY <1>1, <1>2, <1>4 DEF Works, HeldRows
<1>6. o = call[r].id
  BY <1>1, <1>3, <1>4, <1>5 DEF Works, EditHolds
<1> QED
  BY <1>1, <1>2, <1>3, <1>4, <1>5, <1>6 DEF IdentityKept

LEMMA CommitNumbers ==
  ASSUME TypeInv, LockInv, NumberInv, NEW r \in Req, pc[r] = "commit", Install(r),
         OthersKeep(r), ~InTx(r)'
  PROVE  NumberInv'
<1>0. TypeOK /\ InTx(r)
  BY DEF TypeInv, InTx
<1>1. \A s \in Req \ {r} : CtrHeld(s)' = CtrHeld(s)
  BY OthersCounters
<1>2. CtrHeld(r)' = {} /\ pc'[r] \notin {"write", "commit"}
  BY DEF CtrHeld, InTx
<1>3. Numbers(r)'
  BY <1>2 DEF Numbers, BatchFits, CounterTaken, CounterLeft, BatchWritten, IdentityKept, Creating
<1>4. CountersExclusive'
  BY <1>1, <1>2 DEF NumberInv, CountersExclusive
<1>5. ASSUME NEW s \in Req \ {r} PROVE Numbers(s)'
  <2>1. Numbers(s) /\ Works(s)
    BY DEF NumberInv, LockInv
  <2>2. /\ pc'[s] = pc[s] /\ call'[s] = call[s] /\ cur'[s] = cur[s]
        /\ start'[s] = start[s] /\ rows'[s] = rows[s] /\ ctrs'[s] = ctrs[s]
        /\ CtrHeld(s)' = CtrHeld(s)
    BY <1>1 DEF OthersKeep
  <2>3. \A d \in CtrHeld(s) : d \in Day /\ counters'[d] = counters[d]
    BY <1>0 DEF NumberInv, CountersExclusive, CtrHeld, Install
  <2>4. BatchFits(s)' /\ CounterTaken(s)' /\ CounterLeft(s)'
    BY <2>1, <2>2, <2>3 DEF Numbers, BatchFits, CounterTaken, CounterLeft, Creating, InTx,
       CreateDay, CounterOf
  <2>5. BatchWritten(s)'
    BY <2>1, <2>2 DEF Numbers, BatchWritten, Batch, NewRow, SeqOf
  <2>6. IdentityKept(s)'
    <3> DEFINE o == call[s].id
    <3>1. CASE pc[s] = "write"
      <4>1. o \in OrderId /\ o \notin Fresh(r)
        BY <2>1, <3>1 DEF Works, ReadIsPast, TypeInv, Shape, EditShape
      <4>2. orders'[o] # Nil => orders[o] # Nil
        BY <4>1, CommitEffect
      <4>3. o \in Held(r) /\ orders'[o] # Nil => SameIdentity(orders'[o], orders[o])
        BY <4>2, CommitIdentity
      <4>4. o \notin Held(r) => orders'[o] = orders[o]
        BY <4>1, CommitEffect
      <4> QED
        BY <2>1, <2>2, <3>1, <4>2, <4>3, <4>4 DEF Numbers, IdentityKept, SameIdentity
    <3>2. CASE pc[s] = "commit" /\ call[s].op \in Edits
      <4>1. o \in Held(s)
        BY <2>1, <3>2 DEF Works, EditHolds
      <4>2. o \in OrderId /\ orders'[o] = orders[o]
        BY <4>1, CommitEffect DEF LockInv, LocksExclusive, Held
      <4> QED
        BY <2>1, <2>2, <3>2, <4>2 DEF Numbers, IdentityKept
    <3> QED
      BY <2>2, <3>1, <3>2 DEF IdentityKept
  <2> QED
    BY <2>4, <2>5, <2>6 DEF Numbers
<1> QED
  BY <1>3, <1>4, <1>5 DEF NumberInv

-----------------------------------------------------------------------------
(* The invariant *)

LEMMA NumberInit == Init => NumberInv
<1> SUFFICES ASSUME Init PROVE NumberInv
  OBVIOUS
<1>1. \A r \in Req : ~InTx(r) /\ pc[r] = "idle"
  BY DEF Init, InTx
<1>2. \A r \in Req : CtrHeld(r) = {} /\ Numbers(r)
  BY <1>1 DEF CtrHeld, Numbers, BatchFits, CounterTaken, CounterLeft, BatchWritten,
     IdentityKept, Creating
<1> QED
  BY <1>2 DEF NumberInv, CountersExclusive

LEMMA CrashNumbers ==
  ASSUME Crash
  PROVE  NumberInv'
<1>1. \A r \in Req : ~InTx(r)' /\ pc'[r] = "idle"
  BY DEF Crash, InTx
<1>2. \A r \in Req : CtrHeld(r)' = {} /\ Numbers(r)'
  BY <1>1 DEF CtrHeld, Numbers, BatchFits, CounterTaken, CounterLeft, BatchWritten,
     IdentityKept, Creating
<1> QED
  BY <1>2 DEF NumberInv, CountersExclusive

LEMMA StutterNumbers ==
  ASSUME NumberInv, Tick \/ UNCHANGED vars
  PROVE  NumberInv'
<1>1. UNCHANGED <<orders, counters, pc, call, cur, start, rows, ctrs>>
  BY DEF Tick, vars, tables, local
<1>2. \A r \in Req : CtrHeld(r)' = CtrHeld(r)
  BY <1>1 DEF CtrHeld, InTx
<1>3. \A r \in Req : Numbers(r)'
  BY <1>1, <1>2 DEF NumberInv, Numbers, BatchFits, CounterTaken, CounterLeft, BatchWritten,
     IdentityKept, SameIdentity, Creating, InTx, CreateDay, CounterOf, Batch, NewRow, SeqOf
<1> QED
  BY <1>2, <1>3 DEF NumberInv, CountersExclusive

LEMMA NumberStep == TypeInv /\ LockInv /\ NumberInv /\ [Next]_vars => NumberInv'
<1> SUFFICES ASSUME TypeInv, LockInv, NumberInv, [Next]_vars PROVE NumberInv'
  OBVIOUS
<1>0. TypeOK
  BY DEF TypeInv
<1>1. ASSUME NEW r \in Req, Commit(r) \/ CommitUnacknowledged(r) PROVE NumberInv'
  <2>1. pc[r] = "commit" /\ Install(r)
    BY <1>1 DEF Commit, CommitUnacknowledged
  <2>2. OthersKeep(r)
    BY <1>0, <1>1, ContinueKeeps DEF Continues, Advance
  <2>3. pc'[r] \in {"idle", "publish"}
    BY <1>0, <1>1, FinishKeeps DEF Commit, CommitUnacknowledged, Goto, TypeOK
  <2> QED
    BY <2>1, <2>2, <2>3, CommitNumbers DEF InTx
<1>2. ASSUME NEW r \in Req, Publish(r) PROVE NumberInv'
  BY <1>0, <1>2, FinishNumbers DEF Publish, tables
<1>3. ASSUME NEW r \in Req, Advance(r) PROVE NumberInv'
  <2>1. CASE AllocateFails(r) \/ InsertConflict(r) \/ ReadRejected(r)
             \/ WriteMisses(r) \/ DeleteMisses(r)
    BY <1>0, <2>1, RollbackNumbers
       DEF AllocateFails, InsertConflict, ReadRejected, WriteMisses, DeleteMisses
  <2> QED
    BY <1>1, <1>2, <1>3, <2>1, EnsureCounterNumbers, AllocateNumbers, InsertManyNumbers,
       ReadOrderNumbers, WriteOrderNumbers, DeleteNumbers, ResetNumbers DEF Advance
<1>4. ASSUME NEW r \in Req, Fail(r) PROVE NumberInv'
  BY <1>0, <1>4, RollbackNumbers DEF Fail
<1> QED
  BY <1>1, <1>3, <1>4, ArriveNumbers, CrashNumbers, StutterNumbers DEF Next

(***************************************************************************)
(* No two transactions hold the same counter, and a create that is about   *)
(* to commit holds its day's counter moved over exactly its own numbers.   *)
(***************************************************************************)
THEOREM NumbersCorrect == Spec => []NumberInv
<1> QED
  BY TypeCorrect, LocksCorrect, NumberInit, NumberStep, PTL DEF Spec

-----------------------------------------------------------------------------
(* Refinement: a commit is a step of the ledger *)

Inv == TypeInv /\ RowsConsistent /\ LockInv /\ EventInv /\ NumberInv

LEMMA SameConsistency ==
  ASSUME NEW row
  PROVE  Ledger!ConsistentOrder(row) <=> ConsistentOrder(row)
  BY DEF Ledger!ConsistentOrder, Ledger!StepsMatchForm, Ledger!ServedIsReady,
     Ledger!CanServe, Ledger!NeedsStapleStep, Ledger!NeedsMeatStep, Ledger!Unrequired,
     Ledger!Completed, Ledger!NotStarted, Ledger!InitialStaple, Ledger!InitialMeat,
     ConsistentOrder, StepsMatchForm, ServedIsReady, CanServe, NeedsStapleStep,
     NeedsMeatStep, Unrequired, Completed, NotStarted, InitialStaple, InitialMeat

LEMMA CreateRefines ==
  ASSUME Inv, NEW r \in Req, pc[r] = "commit", call[r].op = "create", Install(r)
  PROVE  Ledger!AddBatch
<1> DEFINE B == Batch(r)
           d == CreateDay(r)
<1>1. /\ TypeOK /\ EndShape(r) /\ Numbers(r) /\ Creating(r) /\ call[r] \in Call
      /\ call[r].id \in Nat /\ call[r].qty \in Nat /\ start[r] \in Nat
  BY DEF Inv, TypeInv, Shape, EndShape, NumberInv, Numbers, Creating, InTx, Call, TypeOK
<1>2. d \in Day
  BY <1>1, DayOfTime DEF CreateDay, Call
<1>3. B \subseteq OrderId /\ B # {}
  <2>1. \A o \in B : o \in OrderId
    BY <1>1, OrdersAssumption DEF Numbers, BatchFits, Batch, OrderId
  <2>2. call[r].id \in B
    BY <1>1 DEF Numbers, BatchFits, Batch
  <2> QED
    BY <2>1, <2>2
<1>4. B \in SUBSET (OrderId \ (Ledger!Listed \cup gone))
  <2>1. \A o \in B : o \in Fresh(r)
    BY <1>1, <1>3 DEF Fresh, Creating
  <2> QED
    BY <1>3, <2>1 DEF Inv, LockInv, FreshIdsUnused, EventInv, GoneIsFinal, Ledger!Listed
<1>5. \A o \in B : /\ orders'[o] = NewRow(r, o) /\ RealRow(rows[r][o])
                   /\ rows[r][o] = NewRow(r, o)
  BY <1>1, <1>3 DEF Numbers, BatchWritten, EndShape, RealRow, Install
<1>6. Ledger!SameOutside(B)
  BY <1>1 DEF Numbers, BatchWritten, Install, Ledger!SameOutside
<1>7. \A o \in B : Ledger!IsFresh(orders'[o]) /\ DayOf(orders'[o].createdAt) = d
  <2> SUFFICES ASSUME NEW o \in B
               PROVE  Ledger!IsFresh(orders'[o]) /\ DayOf(orders'[o].createdAt) = d
    OBVIOUS
  <2>1. ConsistentOrder(orders'[o]) /\ orders'[o] # Nil
    BY <1>3, <1>5 DEF Inv, RowsConsistent, RealRow
  <2>2. /\ NewRow(r, o).version = 1 /\ NewRow(r, o).served = FALSE
        /\ NewRow(r, o).createdAt = call[r].now /\ NewRow(r, o).updatedAt = call[r].now
    BY DEF NewRow
  <2>3. /\ orders'[o].version = 1 /\ ~orders'[o].served
        /\ orders'[o].createdAt = call[r].now /\ orders'[o].updatedAt = call[r].now
    BY <1>5, <2>2
  <2> QED
    BY <2>1, <2>3, SameConsistency DEF Ledger!IsFresh, CreateDay
<1>8. \A o \in B : orders'[o].seq = start[r] + o - call[r].id
  <2>1. \A o \in B : NewRow(r, o).seq = SeqOf(r, o)
    BY DEF NewRow
  <2> QED
    BY <1>5, <2>1 DEF SeqOf
<1>9. \A o, p \in B : orders'[o].seq = orders'[p].seq => o = p
  <2>1. \A o \in B : o \in Nat
    BY <1>3 DEF OrderId
  <2> QED
    BY <1>1, <1>8, <2>1
<1>10. /\ d \in CtrHeld(r) /\ start[r] = CounterOf(counters, d) + 1
       /\ ctrs[r][d] = start[r] + call[r].qty - 1
       /\ \A e \in Day \ {d} : ctrs[r][e] = Untouched
  BY <1>1 DEF Numbers, CounterTaken, CtrHeld, Creating
<1>11. /\ CounterOf(counters', d) = start[r] + call[r].qty - 1
       /\ \A e \in Day \ {d} : CounterOf(counters', e) = CounterOf(counters, e)
  <2>1. ctrs[r][d] \in Nat /\ ctrs[r][d] # Nil
    BY <1>1, <1>10, OrdersAssumption DEF Numbers, BatchFits
  <2> QED
    BY <1>2, <1>10, <2>1 DEF CtrHeld, CounterOf, Install
<1>12. {orders'[o].seq : o \in B} = (CounterOf(counters, d) + 1)..CounterOf(counters', d)
  <2> DEFINE first == start[r]
             final == start[r] + call[r].qty - 1
  <2>1. \A o \in B : orders'[o].seq \in first..final
    BY <1>1, <1>8 DEF Batch
  <2>2. ASSUME NEW k \in first..final PROVE \E o \in B : orders'[o].seq = k
    <3>1. call[r].id + (k - first) \in B
      BY <1>1 DEF Batch
    <3>2. orders'[call[r].id + (k - first)].seq = k
      BY <1>1, <1>8, <3>1
    <3> QED
      BY <3>1, <3>2
  <2> QED
    BY <1>10, <1>11, <2>1, <2>2
<1>13. gone' = gone
  <2>1. \A o \in OrderId : rows[r][o] # Nil
    BY <1>1 DEF EndShape
  <2> QED
    BY <2>1 DEF Install
<1> HIDE DEF B, d
<1> QED
  BY <1>2, <1>3, <1>4, <1>6, <1>7, <1>9, <1>11, <1>12, <1>13 DEF Ledger!AddBatch

LEMMA EditRefines ==
  ASSUME Inv, NEW r \in Req, pc[r] = "commit", call[r].op \in Edits, Install(r)
  PROVE  Ledger!Revise
<1> DEFINE o == call[r].id
<1>1. TypeOK /\ EndShape(r) /\ Works(r) /\ Numbers(r) /\ InTx(r)
  BY DEF Inv, TypeInv, Shape, LockInv, NumberInv, InTx
<1>2. o \in Held(r) /\ o \in OrderId /\ orders[o] # Nil
  BY <1>1 DEF Works, EditHolds, HeldRows, Held, Edits
<1>3. orders'[o] = rows[r][o] /\ RealRow(rows[r][o])
  BY <1>1, <1>2 DEF Held, Install, EndShape, RealRow, Edits
<1>4. Ledger!SameOutside({o})
  BY <1>1 DEF Works, EditHolds, Held, Install, Ledger!SameOutside
<1>5. orders'[o].version = orders[o].version + 1
  BY <1>1, <1>2, <1>3 DEF Works, EditHolds
<1>6. orders'[o].seq = orders[o].seq /\ orders'[o].createdAt = orders[o].createdAt
  BY <1>1, <1>3 DEF Numbers, IdentityKept, SameIdentity
<1>7. Ledger!ConsistentOrder(orders'[o]) /\ orders'[o] # Nil
  BY <1>2, <1>3, SameConsistency DEF Inv, RowsConsistent, RealRow
<1>8. gone' = gone
  <2>1. \A p \in OrderId : rows[r][p] # Nil
    BY <1>1 DEF EndShape, Edits
  <2> QED
    BY <2>1 DEF Install
<1>9. \A d \in Day : CounterOf(counters', d) = CounterOf(counters, d)
  BY <1>1 DEF Numbers, CounterLeft, CtrHeld, CounterOf, Install
<1>10. [d \in Day |-> CounterOf(counters', d)] = [d \in Day |-> CounterOf(counters, d)]
  BY <1>9
<1> HIDE DEF o
<1> QED
  BY <1>2, <1>4, <1>5, <1>6, <1>7, <1>8, <1>10 DEF Ledger!Revise, Ledger!Listed

LEMMA DeleteRefines ==
  ASSUME Inv, NEW r \in Req, pc[r] = "commit", call[r].op \in {"remove", "clear"}, Install(r)
  PROVE  Ledger!Erase
<1> DEFINE S == {o \in OrderId : rows[r][o] = Nil}
<1>1. TypeOK /\ EndShape(r) /\ Works(r) /\ Numbers(r) /\ InTx(r)
  BY DEF Inv, TypeInv, Shape, LockInv, NumberInv, InTx
<1>2. S \in SUBSET Ledger!Listed
  BY DeletedExisted DEF Inv, Ledger!Listed
<1>3. \A o \in OrderId : rows[r][o] \in {Nil, Untouched}
  BY <1>1 DEF Works, HeldRows, Held
<1>4. Ledger!SameOutside(S) /\ \A o \in S : orders'[o] = Nil
  BY <1>3, OrdersAssumption DEF Install, Ledger!SameOutside
<1>5. gone' = gone \cup S
  BY DEF Install
<1>6. \A d \in Day : ctrs[r][d] \in {Nil, Untouched}
  BY <1>1 DEF Numbers, CounterLeft, CtrHeld
<1>7. \A d \in Day : CounterOf(counters', d) \in {CounterOf(counters, d), 0}
  BY <1>6 DEF CounterOf, Install
<1> HIDE DEF S
<1> QED
  BY <1>2, <1>4, <1>5, <1>7 DEF Ledger!Erase

LEMMA CommitRefines ==
  ASSUME Inv, NEW r \in Req, pc[r] = "commit", Install(r)
  PROVE  Ledger!LedgerNext
<1>1. call[r].op \in {"create", "remove", "clear"} \cup Edits
  BY DEF Inv, TypeInv, Shape, EndShape, Call, AllOps, Edits
<1> QED
  BY <1>1, CreateRefines, EditRefines, DeleteRefines DEF Ledger!LedgerNext

LEMMA StepRefines == Inv /\ [Next]_vars => [Ledger!LedgerNext]_(Ledger!ledger)
<1> SUFFICES ASSUME Inv, [Next]_vars PROVE Ledger!LedgerNext \/ UNCHANGED Ledger!ledger
  OBVIOUS
<1>1. \/ \E r \in Req : pc[r] = "commit" /\ Install(r)
      \/ UNCHANGED tables
  BY DEF Next, Arrive, CreateBatch, UpdateForm, ToggleOrderStep, ToggleOrderServed,
     Remove, ClearWorkspace, Mutation, Begin, Advance, EnsureCounter, Allocate,
     AllocateFails, InsertMany, InsertConflict, ReadOrder, ReadRejected, WriteOrder,
     WriteMisses, DeleteOrder, DeleteMisses, ScanOrders, SweepOrders, ResetCounters,
     Commit, Publish, CommitUnacknowledged, Fail, Rollback, Crash, Tick, vars
<1>2. CASE UNCHANGED tables
  BY <1>2 DEF tables, Ledger!ledger, CounterOf
<1> QED
  BY <1>1, <1>2, CommitRefines

LEMMA LedgerInitially == Init => Ledger!LedgerInit
  BY DEF Init, Ledger!LedgerInit, CounterOf

(***************************************************************************)
(* The conjunction of the inductive invariants holds in every reachable    *)
(* state: row types, consistency, locks, events and numbers.               *)
(***************************************************************************)
THEOREM InvCorrect == Spec => []Inv
<1>1. Spec => []RowsConsistent
  BY TypeCorrect, ConsistentInit, ConsistentStep, PTL DEF Spec
<1> QED
  BY <1>1, TypeCorrect, LocksCorrect, EventsCorrect, NumbersCorrect, PTL DEF Inv

(***************************************************************************)
(* Orders implements OrderLedger, in every instance: whatever requests run *)
(* together, fail, or are lost in a crash, the committed board changes by  *)
(* whole batches with consecutive numbers, single revisions and deletions. *)
(***************************************************************************)
THEOREM LedgerImplemented == Spec => ImplementsLedger
<1>1. Spec => [][Ledger!LedgerNext]_(Ledger!ledger)
  BY InvCorrect, StepRefines, PTL DEF Spec
<1> QED
  BY <1>1, LedgerInitially, PTL DEF Spec, ImplementsLedger, Ledger!LedgerSpec

-----------------------------------------------------------------------------
(* Numbers *)

Born(d) == {o \in OrderId : /\ orders[o] = Nil /\ orders'[o] # Nil
                            /\ DayOf(orders'[o].createdAt) = d}

LEMMA NothingBorn ==
  ASSUME TypeOK, NEW d \in Day, Born(d) = {},
         CounterOf(counters', d) \in {CounterOf(counters, d), 0}
  PROVE  /\ {orders'[o].seq : o \in Born(d)} =
              (CounterOf(counters, d) + 1)..CounterOf(counters', d)
         /\ \A o, p \in Born(d) : orders'[o].seq = orders'[p].seq => o = p
<1>1. CounterOf(counters, d) \in Nat
  BY DEF CounterOf, TypeOK
<1>2. (CounterOf(counters, d) + 1)..CounterOf(counters', d) = {}
  BY <1>1
<1> QED
  BY <1>2

LEMMA NumbersOfStep ==
  ASSUME Inv, [Next]_vars, NEW d \in Day
  PROVE  /\ {orders'[o].seq : o \in Born(d)} =
              (CounterOf(counters, d) + 1)..CounterOf(counters', d)
         /\ \A o, p \in Born(d) : orders'[o].seq = orders'[p].seq => o = p
<1>0. TypeOK
  BY DEF Inv, TypeInv
<1>1. CASE Ledger!AddBatch
  <2>1. PICK B \in SUBSET (OrderId \ (Ledger!Listed \cup gone)), e \in Day :
          /\ Ledger!SameOutside(B)
          /\ \A o \in B : Ledger!IsFresh(orders'[o]) /\ DayOf(orders'[o].createdAt) = e
          /\ {orders'[o].seq : o \in B} =
               (CounterOf(counters, e) + 1)..CounterOf(counters', e)
          /\ \A o, p \in B : orders'[o].seq = orders'[p].seq => o = p
          /\ \A x \in Day \ {e} : CounterOf(counters', x) = CounterOf(counters, x)
    BY <1>1 DEF Ledger!AddBatch
  <2>2. \A o \in OrderId : o \in B <=> orders[o] = Nil /\ orders'[o] # Nil
    BY <2>1 DEF Ledger!Listed, Ledger!SameOutside, Ledger!IsFresh
  <2>3. CASE d = e
    <3>1. Born(d) = B
      BY <2>1, <2>2, <2>3 DEF Born
    <3> QED
      BY <2>1, <2>3, <3>1
  <2>4. CASE d # e
    <3>1. Born(d) = {}
      BY <2>1, <2>2, <2>4 DEF Born
    <3> QED
      BY <1>0, <2>1, <2>4, <3>1, NothingBorn
  <2> QED
    BY <2>3, <2>4
<1>2. CASE Ledger!Revise
  <2>1. Born(d) = {}
    BY <1>2 DEF Ledger!Revise, Ledger!Listed, Ledger!SameOutside, Born
  <2>2. [x \in Day |-> CounterOf(counters', x)] = [x \in Day |-> CounterOf(counters, x)]
    BY <1>2 DEF Ledger!Revise
  <2>3. CounterOf(counters', d) = CounterOf(counters, d)
    BY <2>2
  <2> QED
    BY <1>0, <2>1, <2>3, NothingBorn
<1>3. CASE Ledger!Erase
  <2>1. Born(d) = {}
    BY <1>3 DEF Ledger!Erase, Ledger!Listed, Ledger!SameOutside, Born
  <2>2. CounterOf(counters', d) \in {CounterOf(counters, d), 0}
    BY <1>3 DEF Ledger!Erase
  <2> QED
    BY <1>0, <2>1, <2>2, NothingBorn
<1>4. CASE UNCHANGED Ledger!ledger
  <2>1. Born(d) = {}
    BY <1>4 DEF Ledger!ledger, Born
  <2>2. [x \in Day |-> CounterOf(counters', x)] = [x \in Day |-> CounterOf(counters, x)]
    BY <1>4 DEF Ledger!ledger
  <2>3. CounterOf(counters', d) = CounterOf(counters, d)
    BY <2>2
  <2> QED
    BY <1>0, <2>1, <2>3, NothingBorn
<1> QED
  BY <1>1, <1>2, <1>3, <1>4, StepRefines DEF Ledger!LedgerNext

(***************************************************************************)
(* Batches take exactly the numbers by which their commit advances the     *)
(* counter, in every instance: no number is used twice within a count, and *)
(* failed or crashed batches leave no hole.                                *)
(***************************************************************************)
THEOREM NumbersFollow == Spec => NumbersFollowCounter
<1> DEFINE Follows ==
      \A d \in Day :
          LET born == {o \in OrderId : /\ orders[o] = Nil /\ orders'[o] # Nil
                                       /\ DayOf(orders'[o].createdAt) = d}
          IN  /\ {orders'[o].seq : o \in born} =
                   (CounterOf(counters, d) + 1)..CounterOf(counters', d)
              /\ \A o, p \in born : orders'[o].seq = orders'[p].seq => o = p
<1>1. Inv /\ [Next]_vars => Follows
  BY NumbersOfStep DEF Born
<1>2. Inv /\ [Next]_vars => [Follows]_vars
  BY <1>1
<1> QED
  BY <1>2, InvCorrect, PTL DEF Spec, NumbersFollowCounter
-----------------------------------------------------------------------------
(* Clears that run alone *)

\* From its first statement on a clear deletes every order it covers, and only
\* counters of days it covers.
ClearReaches(r) ==
    pc[r] # "idle" /\ call[r].op = "clear" =>
        /\ pc[r] = "sweep" =>
             \A o \in Live : Covers(call[r], DayOf(orders[o].createdAt)) => o \in scan[r]
        /\ pc[r] \in {"reset", "commit"} =>
             \A o \in Live : Covers(call[r], DayOf(orders[o].createdAt)) => rows[r][o] = Nil
        /\ pc[r] = "commit" => \A d \in Day : ctrs[r][d] = Nil => Covers(call[r], d)
        /\ pc[r] = "publish" =>
             \A o \in Live : ~Covers(call[r], DayOf(orders[o].createdAt))

\* Calls began in the past, and since the clear that was published last.
Barrier == IF event.kind = "cleared" THEN event.before ELSE Nil

CallsFollowBarrier ==
    /\ \A r \in Req : pc[r] # "idle" => call[r].now \in Time /\ call[r].now <= clock
    /\ Barrier # Nil =>
         /\ Barrier \in Nat /\ Barrier <= DayOf(clock)
         /\ \A r \in Req : pc[r] # "idle" => Barrier <= DayOf(call[r].now)

CoverInv ==
    /\ ClearsRunAlone
    /\ \A r \in Req : ClearReaches(r)
    /\ CallsFollowBarrier
    /\ CounterCoversOrders
    /\ ClearDateKeyIsBarrier

\* Days follow times.
LEMMA LaterDay ==
  ASSUME NEW t \in Time, NEW u \in Time, t <= u
  PROVE  DayOf(t) \in Nat /\ DayOf(u) \in Nat /\ DayOf(t) <= DayOf(u)
  BY OrdersAssumption DEF Time, DayOf

\* The orders that a commit leaves: a create adds its batch, an edit keeps number
\* and day of its order, the others add and change none.
LEMMA CommitLeaves ==
  ASSUME Inv, NEW r \in Req, pc[r] = "commit", Install(r),
         NEW o \in OrderId, orders'[o] # Nil
  PROVE  \/ orders[o] # Nil /\ SameIdentity(orders'[o], orders[o])
         \/ call[r].op = "create" /\ o \in Batch(r) /\ orders'[o] = NewRow(r, o)
<1>1. EndShape(r) /\ Works(r) /\ Numbers(r) /\ InTx(r)
  BY DEF Inv, TypeInv, Shape, LockInv, NumberInv, InTx
<1>2. CASE rows[r][o] = Untouched
  BY <1>2 DEF Install, SameIdentity
<1>3. CASE rows[r][o] # Untouched
  <2>1. orders'[o] = rows[r][o] /\ o \in Held(r)
    BY <1>1, <1>3 DEF Install, Held
  <2>2. CASE call[r].op = "create"
    BY <1>1, <1>3, <2>1, <2>2 DEF Numbers, BatchWritten
  <2>3. CASE call[r].op # "create"
    BY <1>1, <2>1, <2>3, CommitIdentity DEF Works, HeldRows, Inv
  <2> QED
    BY <2>2, <2>3
<1> QED
  BY <1>2, <1>3

\* What a commit does to the counter of a day.
LEMMA CommitCounts ==
  ASSUME Inv, NEW r \in Req, pc[r] = "commit", Install(r), NEW d \in Day
  PROVE  /\ CounterOf(counters, d) \in Nat /\ CounterOf(counters', d) \in Nat
         /\ CounterOf(counters', d) >= CounterOf(counters, d)
              \/ (call[r].op = "clear" /\ ctrs[r][d] = Nil)
         /\ call[r].op = "create" /\ d = CreateDay(r) =>
              CounterOf(counters', d) = start[r] + call[r].qty - 1
<1>1. TypeOK /\ EndShape(r) /\ Numbers(r) /\ InTx(r) /\ call[r] \in Call
  BY DEF Inv, TypeInv, Shape, EndShape, NumberInv, InTx
<1>2. /\ CounterOf(counters, d) \in Nat
      /\ counters'[d] = IF ctrs[r][d] = Untouched THEN counters[d] ELSE ctrs[r][d]
      /\ start[r] \in Nat /\ call[r].qty \in Nat
      /\ CounterOf(counters', d) \in Nat
  BY <1>1 DEF CounterOf, TypeOK, Install, Call, CtrImage
<1>3. CASE call[r].op = "create"
  <2>1. /\ \A e \in CtrHeld(r) : e = CreateDay(r)
        /\ CreateDay(r) \in CtrHeld(r) /\ start[r] = CounterOf(counters, CreateDay(r)) + 1
        /\ ctrs[r][CreateDay(r)] = start[r] + call[r].qty - 1 /\ call[r].qty > 0
    BY <1>1, <1>3 DEF Numbers, CounterTaken, BatchFits, Creating
  <2>2. CASE d = CreateDay(r)
    <3>1. PICK n \in Nat : n = start[r] + call[r].qty - 1
      BY <1>2, <2>1
    <3>2. ctrs[r][d] = n /\ n # Nil /\ n # Untouched
      BY <2>1, <2>2, <3>1, OrdersAssumption
    <3>3. CounterOf(counters', d) = n
      BY <1>2, <3>2 DEF CounterOf
    <3> QED
      BY <1>2, <2>1, <2>2, <3>1, <3>3
  <2>3. CASE d # CreateDay(r)
    <3>1. ctrs[r][d] = Untouched
      BY <1>1, <2>1, <2>3 DEF CtrHeld
    <3>2. CounterOf(counters', d) = CounterOf(counters, d)
      BY <1>2, <3>1 DEF CounterOf
    <3> QED
      BY <1>2, <2>3, <3>2
  <2> QED
    BY <2>2, <2>3
<1>4. CASE call[r].op # "create"
  <2>1. call[r].op \in Edits \cup {"remove", "clear"}
    BY <1>1, <1>4 DEF Call, AllOps, Edits
  <2>2. ctrs[r][d] = Untouched \/ (call[r].op = "clear" /\ ctrs[r][d] = Nil)
    BY <1>1, <2>1 DEF Numbers, CounterLeft, CtrHeld
  <2>3. ctrs[r][d] = Untouched => CounterOf(counters', d) = CounterOf(counters, d)
    BY <1>2 DEF CounterOf
  <2> QED
    BY <1>2, <1>4, <2>2, <2>3
<1> QED
  BY <1>3, <1>4

\* A commit leaves no order ahead of its counter or behind the barrier.
LEMMA CommitCovers ==
  ASSUME Inv, CoverInv, NEW r \in Req, pc[r] = "commit", Install(r), UNCHANGED event
  PROVE  CounterCoversOrders' /\ ClearDateKeyIsBarrier'
<1>1. TypeOK /\ EndShape(r) /\ Works(r) /\ InTx(r) /\ call[r] \in Call /\ Numbers(r)
      /\ \A o \in Live : orders[o] \in Row /\ DayOf(orders[o].createdAt) \in Day
  BY DayOfTime DEF Inv, TypeInv, TypeOK, Shape, EndShape, LockInv, NumberInv, InTx, Live, Row
<1>2. SUFFICES ASSUME NEW o \in OrderId, orders'[o] # Nil
               PROVE  /\ orders'[o].seq <= CounterOf(counters', DayOf(orders'[o].createdAt))
                      /\ event.kind = "cleared" /\ event.before # Nil =>
                           DayOf(orders'[o].createdAt) >= event.before
  BY DEF CounterCoversOrders, ClearDateKeyIsBarrier, Live
<1>3. CASE orders[o] # Nil /\ SameIdentity(orders'[o], orders[o])
  <2> DEFINE d == DayOf(orders[o].createdAt)
  <2>1. /\ orders'[o].seq = orders[o].seq /\ DayOf(orders'[o].createdAt) = d /\ d \in Day
        /\ orders[o].seq \in Nat /\ o \in Live
    BY <1>1, <1>3 DEF SameIdentity, Live, Row
  <2>2. orders[o].seq <= CounterOf(counters, d)
    BY <2>1 DEF CoverInv, CounterCoversOrders
  <2>3. ~(call[r].op = "clear" /\ ctrs[r][d] = Nil)
    <3> SUFFICES ASSUME call[r].op = "clear", ctrs[r][d] = Nil PROVE FALSE
      OBVIOUS
    <3>1. Covers(call[r], d)
      BY <2>1 DEF CoverInv, ClearReaches
    <3>2. rows[r][o] = Nil
      BY <2>1, <3>1 DEF CoverInv, ClearReaches
    <3> QED
      BY <1>2, <3>2, OrdersAssumption DEF Install
  <2> HIDE DEF d
  <2>4. /\ CounterOf(counters, d) \in Nat /\ CounterOf(counters', d) \in Nat
        /\ CounterOf(counters', d) >= CounterOf(counters, d)
    BY <2>1, <2>3, CommitCounts
  <2>5. event.kind = "cleared" /\ event.before # Nil => d >= event.before
    BY <2>1 DEF CoverInv, ClearDateKeyIsBarrier, d
  <2> QED
    BY <2>1, <2>2, <2>4, <2>5
<1>4. CASE call[r].op = "create" /\ o \in Batch(r) /\ orders'[o] = NewRow(r, o)
  <2>1. orders'[o].seq = start[r] + o - call[r].id /\ DayOf(orders'[o].createdAt) = CreateDay(r)
    BY <1>4 DEF NewRow, SeqOf, CreateDay
  <2>2. /\ call[r].id \in Nat /\ call[r].qty \in Nat /\ start[r] \in Nat /\ o \in Nat
        /\ o <= call[r].id + call[r].qty - 1 /\ CreateDay(r) \in Day
    BY <1>1, <1>4, DayOfTime DEF Call, Batch, TypeOK, OrderId, CreateDay
  <2>3. CounterOf(counters', CreateDay(r)) = start[r] + call[r].qty - 1
    BY <1>4, <2>2, CommitCounts
  <2>4. event.kind = "cleared" /\ event.before # Nil =>
            event.before \in Nat /\ event.before <= CreateDay(r)
    BY DEF CoverInv, CallsFollowBarrier, Barrier, CreateDay
  <2>5. CreateDay(r) \in Nat
    BY <2>2, OrdersAssumption DEF Day, DayOf
  <2> QED
    BY <2>1, <2>2, <2>3, <2>4, <2>5
<1> QED
  BY <1>2, <1>3, <1>4, CommitLeaves

\* Who arrives, arrives now.
LEMMA ArriveNow ==
  ASSUME TypeInv, NEW r \in Req, Arrive(r)
  PROVE  /\ OthersKeep(r) /\ UNCHANGED <<clock, tables, event>>
         /\ pc'[r] \in {"ensure", "read", "delete", "scan"} /\ call'[r].now = clock
<1>1. TypeOK
  BY DEF TypeInv
<1>2. \E op, id, q, f, s, m, t : \E label \in {"ensure", "read", "delete", "scan"} :
        Begin(r, op, Args(op, id, q, f, s, m, t), label)
  BY DEF Arrive, CreateBatch, UpdateForm, ToggleOrderStep, ToggleOrderServed, Remove,
     ClearWorkspace, Mutation
<1>3. PICK op, id, q, f, s, m, t : \E label \in {"ensure", "read", "delete", "scan"} :
        Begin(r, op, Args(op, id, q, f, s, m, t), label)
  BY <1>2
<1>4. PICK label \in {"ensure", "read", "delete", "scan"} :
        Begin(r, op, Args(op, id, q, f, s, m, t), label)
  BY <1>3
<1>5. Args(op, id, q, f, s, m, t).now = clock
  BY DEF Args
<1> QED
  BY <1>1, <1>4, <1>5 DEF Begin, Goto, TypeOK, OthersKeep, local

\* While one clears, nobody else does a step.
LEMMA ClearingIsAlone ==
  ASSUME TypeInv, ClearsRunAlone, ClearsRunAlone', NEW r \in Req, Arrive(r) \/ Continues(r),
         NEW s \in Req \ {r}, pc'[s] # "idle", call'[s].op = "clear"
  PROVE  FALSE
<1>1. TypeOK
  BY DEF TypeInv
<1>2. OthersKeep(r)
  BY <1>1, ArriveNow, ContinueKeeps
<1>3. pc[s] # "idle" /\ call[s].op = "clear"
  BY <1>2 DEF OthersKeep
<1>4. pc[r] = "idle" /\ pc'[r] = "idle"
  BY <1>3 DEF ClearsRunAlone
<1>5. ~Arrive(r)
  BY <1>4, ArriveNow
<1>6. ~Continues(r)
  BY <1>4 DEF Continues, Advance, EnsureCounter, Allocate, AllocateFails, InsertMany,
     InsertConflict, ReadOrder, ReadRejected, WriteOrder, WriteMisses, DeleteOrder, DeleteMisses,
     ScanOrders, SweepOrders, ResetCounters, Commit, Publish, CommitUnacknowledged, Fail, InTx
<1> QED
  BY <1>5, <1>6

\* A statement of a clear.
LEMMA ClearStatement ==
  ASSUME Inv, NEW r \in Req, ClearReaches(r), Continues(r)
  PROVE  ClearReaches(r)'
<1> SUFFICES ASSUME pc'[r] # "idle", call'[r].op = "clear" PROVE ClearReaches(r)'
  BY DEF ClearReaches
<1>1. TypeOK /\ DeleteShape(r) /\ CreateShape(r) /\ EditShape(r)
  BY DEF Inv, TypeInv, Shape
<1>2. call'[r] = call[r] /\ pc[r] # "idle" /\ call[r].op = "clear"
  BY <1>1, ContinueKeeps DEF InTx
<1>3. CASE ScanOrders(r)
  <2>1. /\ pc'[r] = "sweep" /\ UNCHANGED tables
        /\ scan'[r] = {o \in Live : Covers(call[r], DayOf(orders[o].createdAt))}
    BY <1>1, <1>3 DEF ScanOrders, Goto, TypeOK
  <2> QED
    BY <1>2, <2>1 DEF ClearReaches, tables, Live
<1>4. CASE SweepOrders(r)
  <2>1. /\ pc[r] = "sweep" /\ pc'[r] = "reset" /\ UNCHANGED tables
        /\ \A o \in OrderId :
              rows'[r][o] = IF o \in scan[r] \cap Live THEN Nil ELSE Untouched
    BY <1>1, <1>4 DEF SweepOrders, Goto, TypeOK
  <2>2. \A o \in Live : o \in OrderId /\ (o \in scan[r] => rows'[r][o] = Nil)
    BY <2>1 DEF Live
  <2> QED
    BY <1>2, <2>1, <2>2 DEF ClearReaches, tables, Live
<1>5. CASE ResetCounters(r)
  <2>1. /\ pc[r] = "reset" /\ pc'[r] = "commit" /\ UNCHANGED tables /\ rows' = rows
        /\ \A d \in Day : ctrs'[r][d] = IF d \in StaleCounters(r) THEN Nil ELSE Untouched
    BY <1>1, <1>5 DEF ResetCounters, Goto, TypeOK
  <2>2. \A d \in Day : ctrs'[r][d] = Nil => Covers(call[r], d)
    BY <2>1, OrdersAssumption DEF StaleCounters
  <2> QED
    BY <1>2, <2>1, <2>2 DEF ClearReaches, tables, Live
<1>6. CASE Commit(r)
  <2>1. pc[r] = "commit" /\ pc'[r] = "publish" /\ Install(r)
    BY <1>1, <1>6 DEF Commit, Goto, TypeOK
  <2>2. ASSUME NEW o \in OrderId, orders'[o] # Nil
        PROVE  ~Covers(call[r], DayOf(orders'[o].createdAt))
    <3>1. orders[o] # Nil /\ SameIdentity(orders'[o], orders[o])
      BY <1>2, <2>1, <2>2, CommitLeaves
    <3>2. rows[r][o] # Nil
      BY <2>1, <2>2, OrdersAssumption DEF Install
    <3> QED
      BY <1>2, <2>1, <3>1, <3>2 DEF ClearReaches, Live, SameIdentity
  <2> QED
    BY <1>2, <2>1, <2>2 DEF ClearReaches, Live
<1>7. ~Finish(r)
  BY <1>1, FinishKeeps
<1> QED
  BY <1>1, <1>2, <1>3, <1>4, <1>5, <1>6, <1>7
     DEF Continues, Advance, EnsureCounter, Allocate, AllocateFails, InsertMany, InsertConflict,
         ReadOrder, ReadRejected, WriteOrder, WriteMisses, DeleteOrder, DeleteMisses, Publish,
         CommitUnacknowledged, Fail, Rollback, CreateShape, EditShape, DeleteShape, Edits

\* The tables and the event stay as they are.
LEMMA TablesCover ==
  ASSUME CoverInv, UNCHANGED <<tables, event>>
  PROVE  CounterCoversOrders' /\ ClearDateKeyIsBarrier'
  BY DEF CoverInv, CounterCoversOrders, ClearDateKeyIsBarrier, Live, CounterOf, tables

\* A clear publishes the day up to which it deleted.
LEMMA PublishCovers ==
  ASSUME Inv, CoverInv, NEW r \in Req, Publish(r), ClearsRunAlone'
  PROVE  CounterCoversOrders' /\ ClearDateKeyIsBarrier' /\ CallsFollowBarrier'
<1>1. /\ TypeOK /\ pc[r] = "publish" /\ event' = EventOf(r) /\ UNCHANGED <<clock, tables>>
      /\ pc'[r] = "idle" /\ OthersKeep(r) /\ call[r] \in Call
  BY FinishKeeps DEF Inv, TypeInv, Publish, Shape, EndShape
<1>2. CounterCoversOrders'
  BY <1>1 DEF CoverInv, CounterCoversOrders, Live, CounterOf, tables
<1>3. \A s \in Req : pc'[s] # "idle" =>
        s # r /\ pc[s] # "idle" /\ call'[s] = call[s] /\ call[s].now \in Time /\ call[s].now <= clock
  BY <1>1 DEF OthersKeep, CoverInv, CallsFollowBarrier
<1>4. CASE call[r].op = "clear" /\ call[r].mode # "all"
  <2>1. event'.kind = "cleared" /\ event'.before = DayOf(call[r].now)
    BY <1>1, <1>4 DEF EventOf, ClearDateKey
  <2>2. call[r].now \in Time /\ call[r].now <= clock /\ clock \in Time
    BY <1>1 DEF CoverInv, CallsFollowBarrier, TypeOK
  <2>3. DayOf(call[r].now) \in Nat /\ DayOf(call[r].now) <= DayOf(clock)
    BY <2>2, LaterDay
  <2>4. \A s \in Req : pc'[s] = "idle"
    BY <1>1, <1>3, <1>4 DEF CoverInv, ClearsRunAlone
  <2>5. ASSUME NEW o \in Live PROVE DayOf(orders[o].createdAt) >= DayOf(call[r].now)
    <3>1. orders[o].createdAt \in Time
      BY <1>1 DEF TypeOK, Live, Row
    <3>2. ~(DayOf(orders[o].createdAt) < DayOf(call[r].now))
      BY <1>1, <1>4 DEF CoverInv, ClearReaches, Covers
    <3>3. DayOf(orders[o].createdAt) \in Int
      BY <3>1, DayOfTime DEF Day
    <3> QED
      BY <2>3, <3>2, <3>3
  <2>6. ClearDateKeyIsBarrier'
    BY <1>1, <2>1, <2>5 DEF ClearDateKeyIsBarrier, Live, tables
  <2>7. CallsFollowBarrier'
    BY <1>1, <2>1, <2>3, <2>4 DEF CallsFollowBarrier, Barrier
  <2> QED
    BY <1>2, <2>6, <2>7
<1>5. CASE ~(call[r].op = "clear" /\ call[r].mode # "all")
  <2>1. event'.kind = "cleared" => event'.before = Nil
    BY <1>1, <1>5 DEF EventOf, ClearDateKey
  <2>2. Barrier' = Nil /\ ClearDateKeyIsBarrier'
    BY <2>1 DEF Barrier, ClearDateKeyIsBarrier
  <2>3. CallsFollowBarrier'
    BY <1>1, <1>3, <2>2 DEF CallsFollowBarrier
  <2> QED
    BY <1>2, <2>2, <2>3
<1> QED
  BY <1>4, <1>5

\* Calls that go on, or begin now, are not behind the barrier.
LEMMA BarrierKept ==
  ASSUME Inv, CoverInv, clock' \in Time, clock <= clock', UNCHANGED event,
         \A s \in Req : pc'[s] # "idle" =>
            (pc[s] # "idle" /\ call'[s] = call[s]) \/ call'[s].now = clock
  PROVE  CallsFollowBarrier'
<1>1. clock \in Time /\ clock \in Nat /\ clock' \in Nat
  BY OrdersAssumption DEF Inv, TypeInv, TypeOK, Time
<1>2. /\ DayOf(clock) \in Nat /\ DayOf(clock') \in Nat /\ DayOf(clock) <= DayOf(clock')
  BY <1>1, LaterDay
<1>3. \A s \in Req : pc'[s] # "idle" => call'[s].now \in Time /\ call'[s].now <= clock'
  <2> SUFFICES ASSUME NEW s \in Req, pc'[s] # "idle"
               PROVE  call'[s].now \in Time /\ call'[s].now <= clock'
    OBVIOUS
  <2>1. call'[s].now \in Time /\ call'[s].now <= clock
    BY <1>1 DEF CoverInv, CallsFollowBarrier
  <2>2. call'[s].now \in Nat
    BY <2>1, OrdersAssumption DEF Time
  <2> QED
    BY <1>1, <2>1, <2>2
<1>4. Barrier' = Barrier
  BY DEF Barrier
<1>5. Barrier # Nil => Barrier \in Nat /\ Barrier <= DayOf(clock')
  BY <1>2 DEF CoverInv, CallsFollowBarrier
<1>6. Barrier # Nil => \A s \in Req : pc'[s] # "idle" => Barrier <= DayOf(call'[s].now)
  BY DEF CoverInv, CallsFollowBarrier
<1> QED
  BY <1>3, <1>4, <1>5, <1>6 DEF CallsFollowBarrier

\* One step per action: a commit is CommitCovers, a publication PublishCovers.
LEMMA CoverStep ==
  ASSUME Inv, CoverInv, Next, ClearsRunAlone'
  PROVE  CoverInv'
<1>0. TypeInv /\ TypeOK /\ clock \in Time /\ clock \in Nat
  BY OrdersAssumption DEF Inv, TypeInv, TypeOK, Time
<1>1. ASSUME NEW r \in Req, Arrive(r) PROVE CoverInv'
  <2>1. /\ OthersKeep(r) /\ UNCHANGED <<clock, tables, event>>
        /\ pc'[r] \in {"ensure", "read", "delete", "scan"} /\ call'[r].now = clock
    BY <1>0, <1>1, ArriveNow
  <2>2. ASSUME NEW s \in Req PROVE ClearReaches(s)'
    <3>1. CASE s = r
      BY <2>1, <3>1 DEF ClearReaches
    <3>2. CASE s # r
      BY <1>0, <1>1, <3>2, ClearingIsAlone DEF ClearReaches, CoverInv
    <3> QED
      BY <3>1, <3>2
  <2>3. CallsFollowBarrier'
    BY <1>0, <2>1, BarrierKept DEF OthersKeep
  <2> QED
    BY <2>1, <2>2, <2>3, TablesCover DEF CoverInv
<1>2. ASSUME NEW r \in Req, Continues(r) PROVE CoverInv'
  <2>1. OthersKeep(r) /\ (pc'[r] # "idle" => call'[r] = call[r] /\ pc[r] # "idle")
    BY <1>0, <1>2, ContinueKeeps DEF InTx
  <2>2. ASSUME NEW s \in Req PROVE ClearReaches(s)'
    <3>1. CASE s = r
      BY <1>2, <3>1, ClearStatement DEF CoverInv
    <3>2. CASE s # r
      BY <1>0, <1>2, <3>2, ClearingIsAlone DEF ClearReaches, CoverInv
    <3> QED
      BY <3>1, <3>2
  <2>3. CASE Publish(r)
    BY <2>2, <2>3, PublishCovers DEF CoverInv
  <2>4. CASE ~Publish(r)
    <3>1. /\ UNCHANGED <<clock, event>>
          /\ (pc[r] = "commit" /\ Install(r)) \/ UNCHANGED tables
      BY <1>2, <2>4 DEF Continues, Advance, EnsureCounter, Allocate, AllocateFails, InsertMany,
         InsertConflict, ReadOrder, ReadRejected, WriteOrder, WriteMisses, DeleteOrder,
         DeleteMisses, ScanOrders, SweepOrders, ResetCounters, Commit, CommitUnacknowledged, Fail,
         Rollback
    <3>2. CallsFollowBarrier'
      BY <1>0, <2>1, <3>1, BarrierKept DEF OthersKeep
    <3>3. CounterCoversOrders' /\ ClearDateKeyIsBarrier'
      BY <3>1, CommitCovers, TablesCover
    <3> QED
      BY <2>2, <3>2, <3>3 DEF CoverInv
  <2> QED
    BY <2>3, <2>4
<1>3. CASE Crash
  <2>1. UNCHANGED <<clock, tables, event>> /\ \A s \in Req : pc'[s] = "idle"
    BY <1>3 DEF Crash
  <2>2. (\A s \in Req : ClearReaches(s)') /\ CallsFollowBarrier'
    BY <1>0, <2>1, BarrierKept DEF ClearReaches
  <2> QED
    BY <2>1, <2>2, TablesCover DEF CoverInv
<1>4. CASE Tick
  <2>1. /\ UNCHANGED <<tables, event, pc, call, scan, rows, ctrs>>
        /\ clock' = clock + 1 /\ clock' \in Time
    BY <1>0, <1>4, OrdersAssumption DEF Tick, Time, local
  <2>2. \A s \in Req : ClearReaches(s)'
    BY <2>1 DEF CoverInv, ClearReaches, Live, tables
  <2>3. CallsFollowBarrier'
    BY <1>0, <2>1, BarrierKept
  <2> QED
    BY <2>1, <2>2, <2>3, TablesCover DEF CoverInv
<1> QED
  BY <1>1, <1>2, <1>3, <1>4 DEF Next, Continues

\* Nothing is there at first, and a stuttering step changes nothing.
LEMMA CoverInitially == Init => CoverInv
  BY DEF Init, CoverInv, ClearsRunAlone, ClearReaches, CallsFollowBarrier, Barrier, NoEvent,
     CounterCoversOrders, ClearDateKeyIsBarrier, Live

LEMMA CoverStutter == CoverInv /\ UNCHANGED vars => CoverInv'
  BY DEF vars, tables, local, CoverInv, ClearsRunAlone, ClearReaches, CallsFollowBarrier, Barrier,
     CounterCoversOrders, ClearDateKeyIsBarrier, Live, CounterOf

LEMMA CoverAlways == ClearsAloneSpec => []CoverInv
<1>1. ClearsAloneSpec => Spec
  <2>1. [Next /\ ClearsRunAlone']_vars => [Next]_vars
    OBVIOUS
  <2> QED
    BY <2>1, PTL DEF ClearsAloneSpec, Spec
<1>2. Inv /\ CoverInv /\ [Next /\ ClearsRunAlone']_vars => CoverInv'
  BY CoverStep, CoverStutter
<1> QED
  BY <1>1, <1>2, InvCorrect, CoverInitially, PTL DEF ClearsAloneSpec

(***************************************************************************)
(* When clears run alone, the counter of a day is never behind its orders, *)
(* however creates, removals, failures and crashes interleave: the         *)
(* numbers that Allocate hands out are free.  The race of finding          *)
(* orders_clear_race is the only way to lose this.                         *)
(***************************************************************************)
THEOREM CountersCover == ClearsAloneSpec => []CounterCoversOrders
<1>1. CoverInv => CounterCoversOrders
  BY DEF CoverInv
<1> QED
  BY CoverAlways, <1>1, PTL

(***************************************************************************)
(* When clears run alone, no order from before the day that a cleared      *)
(* event carries is kept, nor made later by a call that is still running.  *)
(***************************************************************************)
THEOREM ClearsAreBarriers == ClearsAloneSpec => []ClearDateKeyIsBarrier
<1>1. CoverInv => ClearDateKeyIsBarrier
  BY DEF CoverInv
<1> QED
  BY CoverAlways, <1>1, PTL
=============================================================================
