--------------------------- MODULE OrdersLockProofs ---------------------------
(***************************************************************************)
(* Proofs about the row locks and the versions of Orders: what a request   *)
(* holds at its commit, and how far the row it read can be behind.  Then   *)
(* about its events: what is published was committed, and its versions     *)
(* identify rows.                                                          *)
(***************************************************************************)
EXTENDS OrdersProofs

\* The ids a running CreateBatch has generated.
Fresh(r) ==
    {o \in OrderId : InTx(r) /\ call[r].op = "create" /\ o \in Batch(r)}

\* The rows a running transaction has locked.
Held(r) == {o \in OrderId : InTx(r) /\ rows[r][o] # Untouched}

LiveIdsIssued == \A o \in OrderId : orders[o] # Nil => o <= issued

FreshIdsUnused ==
    \A r \in Req : \A o \in Fresh(r) :
        /\ orders[o] = Nil
        /\ o <= issued
        /\ \A s \in Req \ {r} : o \notin Fresh(s)

LocksExclusive ==
    \A r \in Req : \A s \in Req \ {r} : \A o \in Held(r) : o \notin Held(s)

\* A create writes its own ids, the others rows that exist; only edits leave
\* a row behind.
HeldRows(r) ==
    \A o \in Held(r) :
        /\ call[r].op = "create" => o \in Fresh(r)
        /\ call[r].op # "create" => orders[o] # Nil
        /\ call[r].op \in {"remove", "clear"} => rows[r][o] = Nil

\* An edit that is about to commit holds its row, one version ahead; a
\* versioned one computed it from the row that is still there.
EditHolds(r) ==
    pc[r] = "commit" /\ call[r].op \in Edits =>
        /\ call[r].id \in Held(r)
        /\ \A o \in Held(r) : /\ o = call[r].id
                              /\ rows[r][o].version = orders[o].version + 1
        /\ call[r].expVersion # Nil => orders[call[r].id] = cur[r]

\* What an edit has read is a past of the row, the row itself or one of a lower
\* version, and has the version the call expects.
ReadIsPast(r) ==
    pc[r] = "write" =>
        /\ call[r].id <= issued
        /\ VersionMatches(cur[r], call[r].expVersion)
        /\ \A s \in Req : call[r].id \notin Fresh(s)
        /\ orders[call[r].id] # Nil =>
             /\ cur[r].version <= orders[call[r].id].version
             /\ cur[r].version = orders[call[r].id].version => orders[call[r].id] = cur[r]

OnlyEditsRead(r) == InTx(r) /\ call[r].op \notin Edits => cur[r] = Nil

Works(r) == HeldRows(r) /\ EditHolds(r) /\ ReadIsPast(r) /\ OnlyEditsRead(r)

LockInv ==
    /\ LiveIdsIssued /\ FreshIdsUnused /\ LocksExclusive
    /\ \A r \in Req : Works(r)

-----------------------------------------------------------------------------
(* A step of one request that commits nothing *)

LEMMA OthersFresh ==
  ASSUME NEW r \in Req, OthersKeep(r), NEW s \in Req \ {r}
  PROVE  /\ Fresh(s)' = Fresh(s)
         /\ Held(s)' = Held(s)
         /\ InTx(s)' = InTx(s)
  BY DEF OthersKeep, Fresh, Held, InTx, Batch

LEMMA LocalStep ==
  ASSUME TypeInv, LockInv, NEW r \in Req, OthersKeep(r), UNCHANGED orders,
         issued' \in Nat, issued <= issued',
         \A o \in Fresh(r)' : o \in Fresh(r) \/ (issued < o /\ o <= issued'),
         \A o \in Held(r)' : \A s \in Req \ {r} : o \notin Held(s),
         Works(r)'
  PROVE  LockInv'
<1>0. \A s \in Req \ {r} : Fresh(s)' = Fresh(s) /\ Held(s)' = Held(s)
  BY OthersFresh
<1>1. issued \in Nat /\ OrderId \subseteq Nat
  BY OrdersAssumption DEF TypeInv, TypeOK, OrderId
<1>2. LiveIdsIssued'
  BY <1>1 DEF LockInv, LiveIdsIssued
<1>3. \A s \in Req : \A o \in Fresh(s) : o \in OrderId /\ o <= issued /\ orders[o] = Nil
  BY DEF LockInv, FreshIdsUnused, Fresh
<1>4. \A o \in Fresh(r)' :
        /\ o \in OrderId /\ orders[o] = Nil /\ o <= issued'
        /\ \A s \in Req \ {r} : o \notin Fresh(s)
  <2> SUFFICES ASSUME NEW o \in Fresh(r)'
               PROVE  /\ o \in OrderId /\ orders[o] = Nil /\ o <= issued'
                      /\ \A s \in Req \ {r} : o \notin Fresh(s)
    OBVIOUS
  <2>1. o \in OrderId
    BY DEF Fresh
  <2>2. CASE o \in Fresh(r)
    BY <1>1, <1>3, <2>1, <2>2 DEF LockInv, FreshIdsUnused
  <2>3. CASE issued < o /\ o <= issued'
    <3>1. orders[o] = Nil
      BY <1>1, <2>1, <2>3 DEF LockInv, LiveIdsIssued
    <3>2. \A s \in Req : o \notin Fresh(s)
      BY <1>1, <1>3, <2>1, <2>3
    <3> QED
      BY <2>1, <2>3, <3>1, <3>2
  <2> QED
    BY <2>2, <2>3
<1>5. FreshIdsUnused'
  <2> SUFFICES ASSUME NEW s \in Req, NEW o \in Fresh(s)'
               PROVE  /\ orders[o] = Nil /\ o <= issued'
                      /\ \A t \in Req \ {s} : o \notin Fresh(t)'
    BY DEF FreshIdsUnused
  <2>1. CASE s = r
    BY <1>0, <1>4, <2>1
  <2>2. CASE s # r
    <3>1. o \in Fresh(s)
      BY <1>0, <2>2
    <3>2. orders[o] = Nil /\ o <= issued'
      <4>1. orders[o] = Nil /\ o <= issued /\ o \in Nat
        BY <1>1, <1>3, <3>1
      <4> QED
        BY <1>1, <4>1
    <3>3. \A t \in Req \ {s, r} : o \notin Fresh(t)'
      BY <1>0, <3>1 DEF LockInv, FreshIdsUnused
    <3>4. o \notin Fresh(r)'
      BY <1>4, <2>2, <3>1
    <3> QED
      BY <3>2, <3>3, <3>4
  <2> QED
    BY <2>1, <2>2
<1>6. LocksExclusive'
  <2> SUFFICES ASSUME NEW s \in Req, NEW t \in Req \ {s}, NEW o \in Held(s)'
               PROVE  o \notin Held(t)'
    BY DEF LocksExclusive
  <2> QED
    BY <1>0 DEF LockInv, LocksExclusive
<1>7. ASSUME NEW s \in Req \ {r} PROVE Works(s)'
  <2>1. Works(s)
    BY DEF LockInv
  <2>2. /\ pc'[s] = pc[s] /\ call'[s] = call[s] /\ cur'[s] = cur[s] /\ rows'[s] = rows[s]
    BY DEF OthersKeep
  <2>3. HeldRows(s)' /\ EditHolds(s)' /\ OnlyEditsRead(s)'
    BY <1>0, <2>1, <2>2 DEF Works, InTx, HeldRows, EditHolds, OnlyEditsRead
  <2>4. ReadIsPast(s)'
    <3> SUFFICES ASSUME pc[s] = "write" PROVE ReadIsPast(s)'
      BY <2>2 DEF ReadIsPast
    <3>1. ReadIsPast(s)
      BY <2>1 DEF Works
    <3>2. call[s].id \in Nat
      BY DEF TypeInv, Shape, EditShape, Call
    <3>3. \A t \in Req : call[s].id \notin Fresh(t)'
      BY <1>0, <1>1, <3>1, <3>2 DEF ReadIsPast
    <3>4. call[s].id <= issued'
      BY <1>1, <3>1, <3>2 DEF ReadIsPast
    <3> QED
      BY <2>2, <3>1, <3>3, <3>4 DEF ReadIsPast
  <2> QED
    BY <2>3, <2>4 DEF Works
<1> QED
  BY <1>2, <1>5, <1>6, <1>7 DEF LockInv

LEMMA NoRowsHeld ==
  ASSUME NEW r \in Req, rows[r] = NoRows
  PROVE  Held(r) = {} /\ HeldRows(r)
  BY DEF Held, NoRows, HeldRows

\* The request leaves its transaction without a commit, or after it.
LEMMA FinishLocks ==
  ASSUME TypeInv, LockInv, NEW r \in Req, Finish(r), UNCHANGED <<orders, issued>>
  PROVE  LockInv'
<1>1. OthersKeep(r) /\ pc'[r] = "idle"
  BY FinishType DEF TypeInv, TypeOK, Finish, Goto
<1>2. ~InTx(r)'
  BY <1>1 DEF InTx
<1>3. Fresh(r)' = {} /\ Held(r)' = {} /\ Works(r)'
  BY <1>1, <1>2 DEF Fresh, Held, Works, HeldRows, EditHolds, ReadIsPast, OnlyEditsRead
<1>4. issued \in Nat
  BY OrdersAssumption DEF TypeInv, TypeOK
<1> QED
  BY <1>1, <1>3, <1>4, LocalStep

LEMMA RollbackLocks ==
  ASSUME TypeInv, LockInv, NEW r \in Req, Rollback(r)
  PROVE  LockInv'
  BY FinishLocks DEF Rollback, tables

\* A call arrives: only a create generates ids.
LEMMA BeginLocks ==
  ASSUME TypeInv, LockInv, NEW r \in Req, NEW op \in AllOps, NEW c, NEW label,
         Begin(r, op, c, label), c.op = op,
         label \in {"ensure", "read", "delete", "scan"},
         issued' \in Nat, issued <= issued',
         op = "create" => /\ c.id = issued + 1 /\ c.qty \in Nat
                          /\ issued' = issued + c.qty
  PROVE  LockInv'
<1>1. /\ pc[r] = "idle" /\ pc' = [pc EXCEPT ![r] = label]
      /\ call' = [call EXCEPT ![r] = c]
      /\ UNCHANGED <<orders, cur, start, scan, rows, ctrs>>
  BY DEF Begin, Goto, tables, local
<1>2. rows[r] = NoRows /\ cur[r] = Nil /\ TypeOK /\ issued \in Nat
  BY <1>1, OrdersAssumption DEF TypeInv, TypeOK, Shape, IdleShape
<1>3. OthersKeep(r) /\ pc'[r] = label /\ call'[r] = c
  BY <1>1, <1>2 DEF OthersKeep, TypeOK
<1>4. rows'[r] = NoRows /\ cur'[r] = Nil
  BY <1>1, <1>2
<1>5. Held(r)' = {} /\ HeldRows(r)'
  BY <1>4, NoRowsHeld DEF Held, NoRows, HeldRows
<1>6. Works(r)'
  BY <1>3, <1>4, <1>5 DEF Works, EditHolds, ReadIsPast, OnlyEditsRead
<1>7. \A o \in Fresh(r)' : issued < o /\ o <= issued'
  <2> SUFFICES ASSUME NEW o \in Fresh(r)' PROVE issued < o /\ o <= issued'
    OBVIOUS
  <2>1. op = "create" /\ o \in c.id..(c.id + c.qty - 1)
    BY <1>3 DEF Fresh, Batch
  <2> QED
    BY <1>2, <2>1
<1> QED
  BY <1>1, <1>3, <1>5, <1>6, <1>7, LocalStep

LEMMA ArriveLocks ==
  ASSUME TypeInv, LockInv, NEW r \in Req, Arrive(r)
  PROVE  LockInv'
<1>0. issued \in Nat
  BY OrdersAssumption DEF TypeInv, TypeOK
<1>1. CASE CreateBatch(r)
  <2>1. PICK q \in 1..MaxBatch, f \in Form :
          /\ issued' = issued + q
          /\ Begin(r, "create",
                   Args("create", issued + 1, q, f, Nil, Nil, NoToken), "ensure")
    BY <1>1 DEF CreateBatch
  <2> DEFINE c == Args("create", issued + 1, q, f, Nil, Nil, NoToken)
  <2>2. c.op = "create" /\ c.id = issued + 1 /\ c.qty = q
    BY DEF Args
  <2>3. q \in Nat /\ issued' \in Nat /\ issued <= issued'
    BY <1>0, <2>1
  <2> HIDE DEF c
  <2>4. Begin(r, "create", c, "ensure")
    BY <2>1 DEF c
  <2> QED
    BY <2>1, <2>2, <2>3, <2>4, BeginLocks DEF AllOps
<1>2. ASSUME NEW op \in AllOps \ {"create"}, NEW c, NEW label,
             label \in {"read", "delete", "scan"},
             c.op = op, Begin(r, op, c, label), issued' = issued
      PROVE  LockInv'
  BY <1>0, <1>2, BeginLocks
<1>3. CASE UpdateForm(r) \/ ToggleOrderStep(r) \/ ToggleOrderServed(r)
           \/ Remove(r) \/ ClearWorkspace(r)
  <2>1. \E op \in AllOps \ {"create"}, label \in {"read", "delete", "scan"} :
          \E id, f, s, m, t :
            /\ Begin(r, op, Args(op, id, 0, f, s, m, t), label)
            /\ issued' = issued
    BY <1>3 DEF UpdateForm, ToggleOrderStep, ToggleOrderServed, Remove, ClearWorkspace,
       Mutation, AllOps
  <2>2. \A op, id, f, s, m, t : Args(op, id, 0, f, s, m, t).op = op
    BY DEF Args
  <2> QED
    BY <1>2, <2>1, <2>2
<1> QED
  BY <1>1, <1>3 DEF Arrive

\* A statement that keeps the request in its transaction and its call.
Stays(r) ==
    /\ OthersKeep(r) /\ InTx(r) /\ InTx(r)' /\ call' = call
    /\ UNCHANGED <<orders, issued>>

LEMMA StayLocks ==
  ASSUME TypeInv, LockInv, NEW r \in Req, Stays(r),
         \A o \in Held(r)' : \A s \in Req \ {r} : o \notin Held(s),
         Works(r)'
  PROVE  LockInv'
<1>1. Fresh(r)' = Fresh(r)
  BY DEF Stays, Fresh, Batch
<1>2. issued \in Nat
  BY OrdersAssumption DEF TypeInv, TypeOK
<1> QED
  BY <1>1, <1>2, LocalStep DEF Stays

LEMMA CounterLocks ==
  ASSUME TypeInv, LockInv, NEW r \in Req,
         EnsureCounter(r) \/ Allocate(r) \/ ScanOrders(r) \/ ResetCounters(r)
  PROVE  LockInv'
<1>1. TypeOK /\ CreateShape(r) /\ ClearShape(r) /\ Works(r)
  BY DEF TypeInv, Shape, LockInv
<1>2. Stays(r) /\ UNCHANGED <<cur, rows>> /\ pc'[r] # "write"
  BY <1>1 DEF TypeOK, EnsureCounter, Allocate, ScanOrders, ResetCounters, Goto, tables,
     Stays, OthersKeep, InTx
<1>3. call[r].op \notin Edits
  BY <1>1 DEF CreateShape, ClearShape, EnsureCounter, Allocate, ScanOrders, ResetCounters, Edits
<1>4. Held(r)' = Held(r) /\ Fresh(r)' = Fresh(r)
  BY <1>2 DEF Stays, Held, Fresh, Batch
<1>5. Works(r)'
  BY <1>1, <1>2, <1>3, <1>4 DEF Stays, Works, HeldRows, EditHolds, ReadIsPast, OnlyEditsRead
<1> QED
  BY <1>2, <1>4, <1>5, StayLocks DEF LockInv, LocksExclusive

LEMMA InsertManyLocks ==
  ASSUME TypeInv, LockInv, NEW r \in Req, InsertMany(r)
  PROVE  LockInv'
<1>1. TypeOK /\ CreateShape(r) /\ Works(r)
  BY DEF TypeInv, Shape, LockInv
<1>2. Stays(r) /\ cur' = cur /\ pc'[r] = "commit" /\ call[r].op = "create"
  BY <1>1 DEF TypeOK, InsertMany, CreateShape, Goto, tables, Stays, OthersKeep, InTx
<1>3. \A o \in Held(r)' : o \in Fresh(r)
  <2>1. \A o \in OrderId : rows'[r][o] # Untouched => o \in Batch(r)
    BY <1>1 DEF TypeOK, InsertMany
  <2> QED
    BY <1>2, <2>1 DEF Held, Fresh, Stays
<1>4. \A o \in Held(r)' : \A s \in Req \ {r} : o \notin Held(s)
  <2> SUFFICES ASSUME NEW o \in Fresh(r), NEW s \in Req \ {r}, o \in Held(s) PROVE FALSE
    BY <1>3
  <2>1. orders[o] = Nil /\ o \notin Fresh(s)
    BY DEF LockInv, FreshIdsUnused
  <2> QED
    BY <2>1 DEF LockInv, Works, HeldRows
<1>5. Fresh(r)' = Fresh(r)
  BY <1>2 DEF Stays, Fresh, Batch
<1>6. Works(r)'
  BY <1>1, <1>2, <1>3, <1>5
     DEF Stays, Works, HeldRows, EditHolds, ReadIsPast, OnlyEditsRead, Edits
<1> QED
  BY <1>2, <1>4, <1>6, StayLocks

LEMMA ReadOrderLocks ==
  ASSUME TypeInv, LockInv, NEW r \in Req, ReadOrder(r)
  PROVE  LockInv'
<1> DEFINE o == call[r].id
<1>1. TypeOK /\ EditShape(r) /\ pc[r] = "read"
  BY DEF TypeInv, Shape, ReadOrder
<1>2. Stays(r) /\ rows' = rows /\ pc'[r] = "write" /\ cur'[r] = orders[o] /\ orders[o] # Nil
  BY <1>1 DEF TypeOK, ReadOrder, Goto, tables, Stays, OthersKeep, InTx
<1>3. /\ o \in OrderId /\ call[r].op \in Edits /\ rows'[r] = NoRows
      /\ orders[o] \in Row /\ issued \in Nat
  BY <1>1, <1>2, OrdersAssumption DEF EditShape, TypeOK
<1>4. Held(r)' = {} /\ HeldRows(r)'
  BY <1>3 DEF Held, NoRows, HeldRows
<1>5. o <= issued /\ \A s \in Req : o \notin Fresh(s)
  BY <1>2, <1>3 DEF LockInv, LiveIdsIssued, FreshIdsUnused
<1>6. \A s \in Req : Fresh(s)' = Fresh(s)
  <2>1. \A s \in Req : InTx(s)' = InTx(s)
    BY <1>2 DEF Stays, OthersKeep, InTx
  <2> QED
    BY <1>2, <2>1 DEF Stays, Fresh, Batch
<1>7. ReadIsPast(r)'
  <2>1. VersionMatches(orders[o], call[r].expVersion)
    BY DEF ReadOrder, TokenMatches, VersionMatches
  <2> QED
    BY <1>2, <1>3, <1>5, <1>6, <2>1 DEF Stays, ReadIsPast, VersionMatches, Row
<1>8. Works(r)'
  BY <1>2, <1>3, <1>4, <1>7 DEF Stays, Works, EditHolds, OnlyEditsRead
<1> QED
  BY <1>2, <1>4, <1>8, StayLocks

LEMMA UpdatedHasVersion ==
  ASSUME NEW row \in Row, NEW c \in Call, c.op \in Edits,
         c.op = "update" => c.form \in Form, c.op = "step" => c.step \in Step,
         NEW n \in Nat \ {0}
  PROVE  [Updated(row, c) EXCEPT !.version = n].version = n
<1> DEFINE new == CASE c.op = "update" -> WithForm(row, c.form)
                    [] c.op = "step"   -> ToggleStep(row, c.step)
                    [] c.op = "served" -> ToggleServed(row)
<1>1. new \in Row
  BY WithFormType, ToggleStepType, ToggleServedType DEF Edits
<1>2. Updated(row, c) = [new EXCEPT !.updatedAt = c.now]
  BY DEF Updated
<1> HIDE DEF new
<1> QED
  BY <1>1, <1>2 DEF Row

LEMMA WriteOrderLocks ==
  ASSUME TypeInv, LockInv, NEW r \in Req, WriteOrder(r)
  PROVE  LockInv'
<1> DEFINE o == call[r].id
<1>1. TypeOK /\ EditShape(r) /\ pc[r] = "write" /\ ReadIsPast(r)
  BY DEF TypeInv, Shape, LockInv, Works, WriteOrder
<1>2. /\ Stays(r) /\ cur' = cur /\ pc'[r] = "commit"
      /\ rows' = [rows EXCEPT ![r][o] = WrittenRow(r)]
      /\ ~RowLocked(r, o) /\ WriteHits(r)
  BY <1>1 DEF TypeOK, WriteOrder, Goto, tables, Stays, OthersKeep, InTx
<1>3. /\ o \in OrderId /\ call[r] \in Call /\ call[r].op \in Edits /\ rows[r] = NoRows
      /\ cur[r] \in Row
  BY <1>1 DEF EditShape
<1>4. orders[o] # Nil /\ orders[o] \in Row
  BY <1>1, <1>2, <1>3 DEF WriteHits, TypeOK
<1>5. rows'[r][o].version = orders[o].version + 1
  <2>1. rows'[r][o] = WrittenRow(r)
    BY <1>1, <1>2, <1>3 DEF TypeOK
  <2>2. NextVersion(r) \in Nat \ {0}
    BY <1>4 DEF NextVersion, Row
  <2>3. WrittenRow(r).version = NextVersion(r)
    BY <1>1, <1>3, <2>2, UpdatedHasVersion DEF EditShape, WrittenRow
  <2> QED
    BY <2>1, <2>3 DEF NextVersion
<1>6. rows'[r][o] # Untouched
  <2>1. rows'[r][o] = WrittenRow(r)
    BY <1>1, <1>2, <1>3 DEF TypeOK
  <2>2. NextVersion(r) \in Nat \ {0}
    BY <1>4 DEF NextVersion, Row
  <2>3. WrittenRow(r) \in Row
    BY <1>1, <1>3, <2>2, UpdatedType DEF EditShape, WrittenRow
  <2> QED
    BY <2>1, <2>3, OrdersAssumption
<1>7. Held(r)' = {o}
  BY <1>1, <1>2, <1>3, <1>6 DEF Held, Stays, TypeOK, NoRows
<1>8. \A s \in Req \ {r} : o \notin Held(s)
  BY <1>2, <1>3 DEF Held, RowLocked
<1>9. call[r].expVersion # Nil => orders[o] = cur[r]
  BY <1>1, <1>2, <1>4 DEF WriteHits, VersionMatches, ReadIsPast
<1>10. Works(r)'
  BY <1>2, <1>3, <1>4, <1>5, <1>7, <1>9
     DEF Stays, Works, HeldRows, EditHolds, ReadIsPast, OnlyEditsRead, Edits
<1> QED
  BY <1>2, <1>7, <1>8, <1>10, StayLocks

LEMMA DeleteLocks ==
  ASSUME TypeInv, LockInv, NEW r \in Req, DeleteOrder(r) \/ SweepOrders(r)
  PROVE  LockInv'
<1>1. TypeOK /\ DeleteShape(r) /\ ClearShape(r) /\ Works(r)
  BY DEF TypeInv, Shape, LockInv
<1>2. Stays(r) /\ cur' = cur /\ pc'[r] # "write" /\ call[r].op \in {"remove", "clear"}
  BY <1>1 DEF TypeOK, DeleteOrder, SweepOrders, DeleteShape, ClearShape, Goto, tables,
     Stays, OthersKeep, InTx
<1>3. \A o \in Held(r)' : /\ rows'[r][o] = Nil /\ orders[o] # Nil
                          /\ \A s \in Req \ {r} : o \notin Held(s)
  <2>1. CASE DeleteOrder(r)
    <3>1. /\ call[r].id \in OrderId /\ rows[r] = NoRows /\ orders[call[r].id] # Nil
          /\ ~RowLocked(r, call[r].id) /\ rows' = [rows EXCEPT ![r][call[r].id] = Nil]
      BY <1>1, <2>1 DEF DeleteOrder, DeleteShape
    <3>2. \A o \in Held(r)' : o = call[r].id
      BY <1>1, <3>1 DEF TypeOK, Held, NoRows
    <3>3. rows'[r][call[r].id] = Nil
      BY <1>1, <3>1 DEF TypeOK
    <3> QED
      BY <3>1, <3>2, <3>3 DEF Held, RowLocked
  <2>2. CASE SweepOrders(r)
    <3>1. \A o \in OrderId :
            rows'[r][o] = IF o \in scan[r] \cap Live THEN Nil ELSE Untouched
      BY <1>1, <2>2 DEF TypeOK, SweepOrders
    <3>2. \A o \in scan[r] : ~RowLocked(r, o)
      BY <2>2 DEF SweepOrders
    <3>3. \A o \in Held(r)' : o \in scan[r] /\ o \in Live /\ rows'[r][o] = Nil
      BY <3>1 DEF Held
    <3> QED
      BY <3>2, <3>3 DEF Held, RowLocked, Live
  <2> QED
    BY <2>1, <2>2
<1>4. Works(r)'
  BY <1>1, <1>2, <1>3
     DEF Stays, Works, HeldRows, EditHolds, ReadIsPast, OnlyEditsRead, Edits
<1> QED
  BY <1>2, <1>3, <1>4, StayLocks

-----------------------------------------------------------------------------
(* The commit *)

\* What a commit does to a row: nothing, a deletion, a birth, or a revision
\* that advances the version by one.
LEMMA CommitEffect ==
  ASSUME TypeInv, LockInv, NEW r \in Req, pc[r] = "commit", Install(r), NEW o \in OrderId
  PROVE  /\ o \notin Held(r) => orders'[o] = orders[o]
         /\ orders[o] = Nil /\ orders'[o] # Nil => o \in Fresh(r)
         /\ orders[o] # Nil /\ orders'[o] # Nil /\ o \in Held(r) =>
              orders'[o].version = orders[o].version + 1
<1>1. TypeOK /\ EndShape(r) /\ Works(r) /\ InTx(r)
  BY DEF TypeInv, Shape, LockInv, InTx
<1>2. orders'[o] = IF rows[r][o] = Untouched THEN orders[o] ELSE rows[r][o]
  BY DEF Install
<1>3. o \in Held(r) <=> rows[r][o] # Untouched
  BY <1>1 DEF Held
<1>4. call[r] \in Call /\ call[r].op \in {"create", "remove", "clear"} \cup Edits
  BY <1>1 DEF EndShape, Call, AllOps, Edits
<1>5. o \in Fresh(r) => orders[o] = Nil
  BY DEF LockInv, FreshIdsUnused
<1>6. CASE call[r].op = "create"
  BY <1>1, <1>2, <1>3, <1>5, <1>6 DEF Works, HeldRows
<1>7. CASE call[r].op \in {"remove", "clear"}
  BY <1>1, <1>2, <1>3, <1>7 DEF Works, HeldRows
<1>8. CASE call[r].op \in Edits
  BY <1>1, <1>2, <1>3, <1>8 DEF Works, HeldRows, EditHolds, Edits
<1> QED
  BY <1>4, <1>6, <1>7, <1>8

LEMMA CommitLocks ==
  ASSUME TypeInv, LockInv, NEW r \in Req, pc[r] = "commit", Install(r),
         OthersKeep(r), ~InTx(r)', UNCHANGED issued
  PROVE  LockInv'
<1>0. TypeOK /\ issued \in Nat /\ OrderId \subseteq Nat
  BY OrdersAssumption DEF TypeInv, TypeOK, OrderId
<1>1. \A s \in Req \ {r} : Fresh(s)' = Fresh(s) /\ Held(s)' = Held(s)
  BY OthersFresh
<1>2. Fresh(r)' = {} /\ Held(r)' = {} /\ Works(r)'
  BY DEF InTx, Fresh, Held, Works, HeldRows, EditHolds, ReadIsPast, OnlyEditsRead
<1>3. \A o \in OrderId :
        /\ o \notin Held(r) => orders'[o] = orders[o]
        /\ orders[o] = Nil /\ orders'[o] # Nil => o \in Fresh(r)
        /\ orders[o] # Nil /\ orders'[o] # Nil /\ o \in Held(r) =>
             orders'[o].version = orders[o].version + 1
  BY CommitEffect
<1>4. LiveIdsIssued'
  BY <1>3 DEF LockInv, LiveIdsIssued, FreshIdsUnused
<1>5. \A s \in Req : \A o \in Fresh(s) : o \in OrderId
  BY DEF Fresh
<1>6. FreshIdsUnused'
  <2> SUFFICES ASSUME NEW s \in Req \ {r}, NEW o \in Fresh(s)
               PROVE  /\ orders'[o] = Nil /\ o <= issued
                      /\ \A t \in Req \ {s} : o \notin Fresh(t)'
    BY <1>1, <1>2 DEF FreshIdsUnused
  <2>1. /\ orders[o] = Nil /\ o <= issued
        /\ \A t \in Req \ {s} : o \notin Fresh(t)
    BY DEF LockInv, FreshIdsUnused
  <2> QED
    BY <1>1, <1>2, <1>3, <1>5, <2>1
<1>7. LocksExclusive'
  BY <1>1, <1>2 DEF LockInv, LocksExclusive
<1>8. ASSUME NEW s \in Req \ {r} PROVE Works(s)'
  <2>1. Works(s)
    BY DEF LockInv
  <2>2. /\ pc'[s] = pc[s] /\ call'[s] = call[s] /\ cur'[s] = cur[s] /\ rows'[s] = rows[s]
    BY DEF OthersKeep
  <2>3. \A o \in Held(s) : o \in OrderId /\ orders'[o] = orders[o]
    BY <1>3 DEF LockInv, LocksExclusive, Held
  <2>4. HeldRows(s)'
    BY <1>1, <2>1, <2>2, <2>3 DEF Works, HeldRows
  <2>5. EditHolds(s)' /\ OnlyEditsRead(s)'
    BY <1>1, <2>1, <2>2, <2>3 DEF Works, EditHolds, OnlyEditsRead, InTx
  <2>6. ReadIsPast(s)'
    <3> DEFINE o == call[s].id
    <3> SUFFICES ASSUME pc[s] = "write" PROVE ReadIsPast(s)'
      BY <2>2 DEF ReadIsPast
    <3>1. ReadIsPast(s) /\ o \in OrderId /\ cur[s] \in Row
      BY <2>1 DEF Works, TypeInv, Shape, EditShape
    <3>2. \A t \in Req : o \notin Fresh(t)'
      BY <1>1, <1>2, <3>1 DEF ReadIsPast
    <3>3. orders'[o] # Nil => orders[o] # Nil
      BY <1>3, <3>1 DEF ReadIsPast
    <3>4. orders[o] # Nil => orders[o].version \in Nat
      BY <1>0, <3>1 DEF TypeOK, Row
    <3>5. cur[s].version \in Nat
      BY <3>1 DEF Row
    <3>6. orders'[o] # Nil =>
            /\ cur[s].version <= orders'[o].version
            /\ cur[s].version = orders'[o].version => orders'[o] = cur[s]
      <4>1. CASE o \in Held(r)
        BY <1>3, <3>1, <3>3, <3>4, <3>5, <4>1 DEF ReadIsPast
      <4>2. CASE o \notin Held(r)
        BY <1>3, <3>1, <4>2 DEF ReadIsPast
      <4> QED
        BY <4>1, <4>2
    <3>7. o <= issued /\ VersionMatches(cur[s], call[s].expVersion)
      BY <3>1 DEF ReadIsPast
    <3> QED
      BY <2>2, <3>2, <3>6, <3>7 DEF ReadIsPast, VersionMatches
  <2> QED
    BY <2>4, <2>5, <2>6 DEF Works
<1> QED
  BY <1>2, <1>4, <1>6, <1>7, <1>8 DEF LockInv

-----------------------------------------------------------------------------
(* The invariant *)

LEMMA LockInit == Init => LockInv
<1> SUFFICES ASSUME Init PROVE LockInv
  OBVIOUS
<1>1. \A r \in Req : ~InTx(r) /\ pc[r] = "idle"
  BY DEF Init, InTx
<1>2. \A r \in Req : Fresh(r) = {} /\ Held(r) = {} /\ Works(r)
  BY <1>1 DEF Fresh, Held, Works, HeldRows, EditHolds, ReadIsPast, OnlyEditsRead
<1> QED
  BY <1>2 DEF Init, LockInv, LiveIdsIssued, FreshIdsUnused, LocksExclusive

LEMMA CrashLocks ==
  ASSUME LockInv, Crash
  PROVE  LockInv'
<1>1. \A r \in Req : ~InTx(r)' /\ pc'[r] = "idle"
  BY DEF Crash, InTx
<1>2. \A r \in Req : Fresh(r)' = {} /\ Held(r)' = {} /\ Works(r)'
  BY <1>1 DEF Fresh, Held, Works, HeldRows, EditHolds, ReadIsPast, OnlyEditsRead
<1> QED
  BY <1>2 DEF Crash, tables, LockInv, LiveIdsIssued, FreshIdsUnused, LocksExclusive

LEMMA StutterLocks ==
  ASSUME LockInv, Tick \/ UNCHANGED vars
  PROVE  LockInv'
<1>1. UNCHANGED <<orders, issued, pc, call, cur, rows>>
  BY DEF Tick, vars, tables, local
<1>2. \A r \in Req : Fresh(r)' = Fresh(r) /\ Held(r)' = Held(r) /\ InTx(r)' = InTx(r)
  BY <1>1 DEF Fresh, Held, InTx, Batch
<1>3. \A r \in Req : Works(r)'
  BY <1>1, <1>2 DEF LockInv, Works, HeldRows, EditHolds, ReadIsPast, OnlyEditsRead,
     VersionMatches
<1> QED
  BY <1>1, <1>2, <1>3 DEF LockInv, LiveIdsIssued, FreshIdsUnused, LocksExclusive

LEMMA LockStep == TypeInv /\ LockInv /\ [Next]_vars => LockInv'
<1> SUFFICES ASSUME TypeInv, LockInv, [Next]_vars PROVE LockInv'
  OBVIOUS
<1>1. ASSUME NEW r \in Req, Commit(r) PROVE LockInv'
  <2>1. pc[r] = "commit" /\ Install(r) /\ OthersKeep(r) /\ ~InTx(r)' /\ UNCHANGED issued
    BY <1>1 DEF Commit, Goto, local, TypeInv, TypeOK, OthersKeep, InTx
  <2> QED
    BY <2>1, CommitLocks
<1>2. ASSUME NEW r \in Req, CommitUnacknowledged(r) PROVE LockInv'
  <2>1. pc[r] = "commit" /\ Install(r) /\ Finish(r) /\ UNCHANGED issued
    BY <1>2 DEF CommitUnacknowledged
  <2>2. OthersKeep(r) /\ ~InTx(r)'
    BY <2>1, FinishType DEF TypeInv, TypeOK, Finish, Goto, InTx
  <2> QED
    BY <2>1, <2>2, CommitLocks
<1>3. ASSUME NEW r \in Req, Publish(r) PROVE LockInv'
  BY <1>3, FinishLocks DEF Publish, tables
<1>4. ASSUME NEW r \in Req, Advance(r) PROVE LockInv'
  <2>1. CASE AllocateFails(r) \/ InsertConflict(r) \/ ReadRejected(r)
             \/ WriteMisses(r) \/ DeleteMisses(r)
    BY <2>1, RollbackLocks
       DEF AllocateFails, InsertConflict, ReadRejected, WriteMisses, DeleteMisses
  <2> QED
    BY <1>1, <1>3, <1>4, <2>1, CounterLocks, InsertManyLocks, ReadOrderLocks,
       WriteOrderLocks, DeleteLocks DEF Advance
<1>5. ASSUME NEW r \in Req, Fail(r) PROVE LockInv'
  BY <1>5, RollbackLocks DEF Fail
<1> QED
  BY <1>2, <1>4, <1>5, ArriveLocks, CrashLocks, StutterLocks DEF Next

(***************************************************************************)
(* No two transactions hold the same row, the ids of a batch are used by   *)
(* nobody else, and every edit that is about to commit holds its row one   *)
(* version ahead.                                                          *)
(***************************************************************************)
THEOREM LocksCorrect == Spec => []LockInv
<1> QED
  BY TypeCorrect, LockInit, LockStep, PTL DEF Spec

(***************************************************************************)
(* A mutation with an expected version commits over exactly the row it     *)
(* read, in every instance and whatever the other requests do.             *)
(***************************************************************************)
THEOREM VersionedWritesLoseNothing == Spec => []VersionedWriteLosesNothing
<1>1. TypeInv /\ LockInv => VersionedWriteLosesNothing
  <2> SUFFICES ASSUME TypeInv, LockInv, NEW r \in Req,
                      pc[r] = "commit", cur[r] # Nil, call[r].expVersion # Nil
               PROVE  orders[call[r].id] = cur[r]
    BY DEF VersionedWriteLosesNothing
  <2>1. Works(r) /\ InTx(r)
    BY DEF LockInv, InTx
  <2>2. call[r].op \in Edits
    BY <2>1 DEF Works, OnlyEditsRead
  <2> QED
    BY <2>1, <2>2 DEF Works, EditHolds
<1> QED
  BY <1>1, TypeCorrect, LocksCorrect, PTL

(***************************************************************************)
(* Every commit that changes an existing order advances its version by     *)
(* exactly one, in every instance.                                         *)
(***************************************************************************)
THEOREM VersionsAdvance == Spec => VersionAdvances
<1> DEFINE Advances == \A o \in OrderId :
             orders[o] # Nil /\ orders'[o] \notin {Nil, orders[o]}
                => orders'[o].version = orders[o].version + 1
<1>1. TypeInv /\ LockInv /\ [Next]_vars => Advances
  <2> SUFFICES ASSUME TypeInv, LockInv, [Next]_vars, NEW o \in OrderId,
                      orders[o] # Nil, orders'[o] \notin {Nil, orders[o]}
               PROVE  orders'[o].version = orders[o].version + 1
    OBVIOUS
  <2>1. PICK r \in Req : pc[r] = "commit" /\ Install(r)
    BY DEF Next, Arrive, CreateBatch, UpdateForm, ToggleOrderStep, ToggleOrderServed,
       Remove, ClearWorkspace, Mutation, Begin, Advance, EnsureCounter, Allocate,
       AllocateFails, InsertMany, InsertConflict, ReadOrder, ReadRejected, WriteOrder,
       WriteMisses, DeleteOrder, DeleteMisses, ScanOrders, SweepOrders, ResetCounters,
       Commit, Publish, CommitUnacknowledged, Fail, Rollback, Crash, Tick, vars, tables
  <2> QED
    BY <2>1, CommitEffect
<1>2. TypeInv /\ LockInv /\ [Next]_vars => [Advances]_vars
  BY <1>1
<1> QED
  BY <1>2, TypeCorrect, LocksCorrect, PTL DEF Spec, VersionAdvances

-----------------------------------------------------------------------------
(* Events *)

\* The row was once committed as order o: the order now has that row, a later
\* version, or is gone for good.
PastOf(o, row) ==
    /\ o <= issued
    /\ \A s \in Req : o \notin Fresh(s)
    /\ o \in gone \cup Live
    /\ orders[o] # Nil =>
         /\ row.version <= orders[o].version
         /\ row.version = orders[o].version => orders[o] = row

\* An id that is gone is never used again.
GoneIsFinal ==
    \A o \in gone : orders[o] = Nil /\ o <= issued /\ \A s \in Req : o \notin Fresh(s)

RemovesItsOrder(r) ==
    pc[r] \in {"commit", "publish"} /\ call[r].op = "remove" => rows[r][call[r].id] = Nil

\* A request that is about to publish wrote what the event will say.
PublishesPast(r) ==
    pc[r] = "publish" =>
        \A o \in OrderId : /\ RealRow(rows[r][o]) => PastOf(o, rows[r][o])
                           /\ rows[r][o] = Nil => o \in gone

EventIsPast ==
    /\ \A o \in Shown(event) : PastOf(o, event.items[o])
    /\ event.kind = "deleted" => event.id \in gone
    /\ event.kind = "cleared" => event.ids \subseteq gone

EventInv ==
    /\ GoneIsFinal /\ EventIsPast
    /\ \A r \in Req : RemovesItsOrder(r) /\ PublishesPast(r)

-----------------------------------------------------------------------------
(* What a step does to ids, rows and requests *)

\* Statements and endings of a request: everything but the arrival of a call.
Continues(r) == Advance(r) \/ CommitUnacknowledged(r) \/ Fail(r)

LEMMA FinishKeeps ==
  ASSUME TypeOK, NEW r \in Req, Finish(r)
  PROVE  pc'[r] = "idle" /\ OthersKeep(r)
  BY FinishType DEF TypeOK, Finish, Goto

LEMMA ContinueKeeps ==
  ASSUME TypeOK, NEW r \in Req, Continues(r)
  PROVE  /\ OthersKeep(r) /\ issued' = issued
         /\ pc'[r] # "idle" => call'[r] = call[r] /\ InTx(r)
<1>1. CASE Finish(r) /\ issued' = issued
  BY <1>1, FinishKeeps
<1>2. CASE ~Finish(r)
  <2>1. /\ pc[r] \notin {"idle", "publish"} /\ \E label : Goto(r, label)
        /\ UNCHANGED <<issued, call>>
        /\ \A s \in Req \ {r} : /\ cur'[s] = cur[s] /\ start'[s] = start[s]
                                /\ rows'[s] = rows[s] /\ ctrs'[s] = ctrs[s]
    <3>1. CASE EnsureCounter(r) \/ Allocate(r) \/ InsertMany(r) \/ ReadOrder(r)
      BY <3>1 DEF TypeOK, EnsureCounter, Allocate, InsertMany, ReadOrder
    <3>2. CASE WriteOrder(r) \/ DeleteOrder(r) \/ ScanOrders(r) \/ SweepOrders(r)
               \/ ResetCounters(r) \/ Commit(r)
      BY <3>2 DEF TypeOK, WriteOrder, DeleteOrder, ScanOrders, SweepOrders, ResetCounters,
         Commit, local
    <3> QED
      BY <1>2, <3>1, <3>2 DEF Continues, Advance, AllocateFails, InsertConflict, ReadRejected,
         WriteMisses, DeleteMisses, Publish, CommitUnacknowledged, Fail, Rollback
  <2>2. \A s \in Req \ {r} : pc'[s] = pc[s]
    BY <2>1 DEF TypeOK, Goto
  <2> QED
    BY <2>1, <2>2 DEF OthersKeep, InTx
<1>3. Finish(r) => issued' = issued
  BY DEF Continues, Advance, EnsureCounter, Allocate, AllocateFails, InsertMany, InsertConflict,
     ReadOrder, ReadRejected, WriteOrder, WriteMisses, DeleteOrder, DeleteMisses, ScanOrders,
     SweepOrders, ResetCounters, Commit, Publish, CommitUnacknowledged, Fail, Rollback
<1> QED
  BY <1>1, <1>2, <1>3

\* The ids a step generates are beyond all issued ones.
LEMMA FreshGrows ==
  ASSUME TypeInv, [Next]_vars
  PROVE  /\ issued <= issued'
         /\ \A s \in Req : \A o \in Fresh(s)' : o \in Fresh(s) \/ issued < o
<1>0. TypeOK /\ issued \in Nat
  BY OrdersAssumption DEF TypeInv, TypeOK
<1>1. ASSUME issued' = issued,
             \A s \in Req : InTx(s)' /\ call'[s].op = "create"
                              => InTx(s) /\ call'[s] = call[s]
      PROVE  /\ issued <= issued'
             /\ \A s \in Req : \A o \in Fresh(s)' : o \in Fresh(s) \/ issued < o
  BY <1>0, <1>1 DEF Fresh, Batch
<1>2. ASSUME NEW r \in Req, CreateBatch(r)
      PROVE  /\ issued <= issued'
             /\ \A s \in Req : \A o \in Fresh(s)' : o \in Fresh(s) \/ issued < o
  <2>1. PICK q \in 1..MaxBatch, f \in Form :
          /\ issued' = issued + q
          /\ Begin(r, "create", Args("create", issued + 1, q, f, Nil, Nil, NoToken), "ensure")
    BY <1>2 DEF CreateBatch
  <2> DEFINE c == Args("create", issued + 1, q, f, Nil, Nil, NoToken)
  <2>2. c.id = issued + 1 /\ c.qty = q
    BY DEF Args
  <2> HIDE DEF c
  <2>3. call' = [call EXCEPT ![r] = c] /\ pc' = [pc EXCEPT ![r] = "ensure"]
    BY <2>1 DEF Begin, Goto, c
  <2>4. \A o \in Fresh(r)' : issued < o
    BY <1>0, <2>2, <2>3 DEF TypeOK, Fresh, Batch
  <2>5. \A s \in Req \ {r} : Fresh(s)' = Fresh(s)
    BY <1>0, <2>3 DEF TypeOK, Fresh, Batch, InTx
  <2> QED
    BY <1>0, <2>1, <2>4, <2>5
<1>3. ASSUME NEW r \in Req, Arrive(r), ~CreateBatch(r)
      PROVE  /\ issued <= issued'
             /\ \A s \in Req : \A o \in Fresh(s)' : o \in Fresh(s) \/ issued < o
  <2>1. \E op \in AllOps \ {"create"}, label \in {"read", "delete", "scan"} :
          \E id, f, s, m, t :
            /\ Begin(r, op, Args(op, id, 0, f, s, m, t), label)
            /\ issued' = issued
    BY <1>3 DEF Arrive, UpdateForm, ToggleOrderStep, ToggleOrderServed, Remove,
       ClearWorkspace, Mutation, AllOps
  <2>2. PICK op \in AllOps \ {"create"}, label \in {"read", "delete", "scan"} :
          \E id, f, s, m, t : Begin(r, op, Args(op, id, 0, f, s, m, t), label)
    BY <2>1
  <2>3. \E c : /\ c.op = op
               /\ call' = [call EXCEPT ![r] = c] /\ pc' = [pc EXCEPT ![r] = label]
    <3>1. PICK id, f, s, m, t : Begin(r, op, Args(op, id, 0, f, s, m, t), label)
      BY <2>2
    <3>2. Args(op, id, 0, f, s, m, t).op = op
      BY DEF Args
    <3> QED
      BY <3>1, <3>2 DEF Begin, Goto
  <2>4. call'[r].op # "create"
    BY <1>0, <2>2, <2>3 DEF TypeOK
  <2>5. \A s \in Req \ {r} : call'[s] = call[s] /\ InTx(s)' = InTx(s)
    BY <1>0, <2>3 DEF TypeOK, InTx
  <2> QED
    BY <1>1, <2>1, <2>4, <2>5
<1>4. ASSUME NEW r \in Req, Continues(r)
      PROVE  /\ issued <= issued'
             /\ \A s \in Req : \A o \in Fresh(s)' : o \in Fresh(s) \/ issued < o
  <2>1. /\ OthersKeep(r) /\ issued' = issued
        /\ pc'[r] # "idle" => call'[r] = call[r] /\ InTx(r)
    BY <1>0, <1>4, ContinueKeeps
  <2>2. \A s \in Req \ {r} : call'[s] = call[s] /\ InTx(s)' = InTx(s)
    BY <2>1 DEF OthersKeep, InTx
  <2>3. InTx(r)' => pc'[r] # "idle"
    BY DEF InTx
  <2> QED
    BY <1>1, <2>1, <2>2, <2>3
<1>5. CASE Crash
  <2>1. issued' = issued /\ \A s \in Req : ~InTx(s)'
    BY <1>5 DEF Crash, InTx
  <2> QED
    BY <1>1, <2>1
<1>6. CASE Tick \/ UNCHANGED vars
  <2>1. UNCHANGED <<issued, call, pc>>
    BY <1>6 DEF Tick, vars
  <2> QED
    BY <1>1, <2>1 DEF InTx
<1> QED
  BY <1>2, <1>3, <1>4, <1>5, <1>6 DEF Next, Continues

\* The committed tables change in commits only.
LEMMA OnlyCommitsChange ==
  ASSUME [Next]_vars
  PROVE  \/ \E r \in Req : pc[r] = "commit" /\ Install(r)
         \/ UNCHANGED <<orders, gone>>
  BY DEF Next, Arrive, CreateBatch, UpdateForm, ToggleOrderStep, ToggleOrderServed,
     Remove, ClearWorkspace, Mutation, Begin, Advance, EnsureCounter, Allocate,
     AllocateFails, InsertMany, InsertConflict, ReadOrder, ReadRejected, WriteOrder,
     WriteMisses, DeleteOrder, DeleteMisses, ScanOrders, SweepOrders, ResetCounters,
     Commit, Publish, CommitUnacknowledged, Fail, Rollback, Finish, Crash, Tick, vars, tables

\* An id that is not fresh after the step, and not before.
LEMMA UsedStaysUsed ==
  ASSUME TypeInv, [Next]_vars, NEW o \in OrderId, o <= issued, \A s \in Req : o \notin Fresh(s)
  PROVE  o <= issued' /\ \A s \in Req : o \notin Fresh(s)'
<1>1. issued \in Nat /\ issued' \in Nat /\ o \in Nat
  BY TypeStep, OrdersAssumption DEF TypeInv, TypeOK, OrderId
<1> QED
  BY <1>1, FreshGrows

\* What was committed once stays the past of its order.
LEMMA PastKept ==
  ASSUME TypeInv, LockInv, [Next]_vars, NEW o \in OrderId, NEW row \in Row, PastOf(o, row)
  PROVE  PastOf(o, row)'
<1>1. o <= issued' /\ \A s \in Req : o \notin Fresh(s)'
  BY UsedStaysUsed DEF PastOf
<1>2. CASE UNCHANGED <<orders, gone>>
  BY <1>1, <1>2 DEF PastOf, Live
<1>3. ASSUME NEW r \in Req, pc[r] = "commit", Install(r) PROVE PastOf(o, row)'
  <2>1. /\ o \notin Held(r) => orders'[o] = orders[o]
        /\ orders[o] = Nil => orders'[o] = Nil
        /\ orders[o] # Nil /\ orders'[o] # Nil /\ o \in Held(r) =>
             orders'[o].version = orders[o].version + 1
    BY <1>3, CommitEffect DEF PastOf
  <2>2. row.version \in Nat /\ (orders[o] # Nil => orders[o].version \in Nat)
    BY DEF TypeInv, TypeOK, Row
  <2>3. gone \subseteq gone' /\ (orders[o] # Nil /\ orders'[o] = Nil => o \in gone')
    BY <1>3 DEF Install
  <2>4. o \in gone' \cup Live'
    BY <2>1, <2>3 DEF PastOf, Live
  <2>5. orders'[o] # Nil => /\ row.version <= orders'[o].version
                            /\ row.version = orders'[o].version => orders'[o] = row
    BY <2>1, <2>2 DEF PastOf
  <2> QED
    BY <1>1, <2>4, <2>5 DEF PastOf, Live
<1> QED
  BY <1>2, <1>3, OnlyCommitsChange

\* A row that a commit deletes existed, and was no create's.
LEMMA DeletedExisted ==
  ASSUME TypeInv, LockInv, NEW r \in Req, pc[r] = "commit", NEW o \in OrderId, rows[r][o] = Nil
  PROVE  /\ orders[o] # Nil /\ o <= issued
         /\ \A s \in Req : o \notin Fresh(s)
<1>1. EndShape(r) /\ Works(r) /\ InTx(r) /\ o \in Held(r)
  BY OrdersAssumption DEF TypeInv, Shape, LockInv, InTx, Held
<1>2. call[r].op # "create"
  BY <1>1 DEF EndShape
<1>3. orders[o] # Nil
  BY <1>1, <1>2 DEF Works, HeldRows
<1> QED
  BY <1>3 DEF LockInv, LiveIdsIssued, FreshIdsUnused

LEMMA GoneStep ==
  ASSUME TypeInv, LockInv, GoneIsFinal, [Next]_vars
  PROVE  GoneIsFinal'
<1>1. gone \subseteq OrderId
  BY DEF TypeInv, TypeOK
<1>2. ASSUME NEW o \in gone PROVE o <= issued' /\ \A s \in Req : o \notin Fresh(s)'
  BY <1>1, UsedStaysUsed DEF GoneIsFinal
<1>3. CASE UNCHANGED <<orders, gone>>
  BY <1>2, <1>3 DEF GoneIsFinal
<1>4. ASSUME NEW r \in Req, pc[r] = "commit", Install(r) PROVE GoneIsFinal'
  <2> SUFFICES ASSUME NEW o \in gone'
               PROVE  orders'[o] = Nil /\ o <= issued' /\ \A s \in Req : o \notin Fresh(s)'
    BY DEF GoneIsFinal
  <2>1. CASE o \in gone
    <3>1. orders'[o] = Nil
      BY <1>1, <1>4, <2>1, CommitEffect DEF GoneIsFinal
    <3> QED
      BY <1>2, <2>1, <3>1
  <2>2. CASE o \notin gone
    <3>1. o \in OrderId /\ rows[r][o] = Nil
      BY <1>4, <2>2 DEF Install
    <3>2. orders'[o] = Nil
      BY <1>4, <3>1, OrdersAssumption DEF Install
    <3>3. o <= issued /\ \A s \in Req : o \notin Fresh(s)
      BY <1>4, <3>1, DeletedExisted
    <3> QED
      BY <3>1, <3>2, <3>3, UsedStaysUsed
  <2> QED
    BY <2>1, <2>2
<1> QED
  BY <1>3, <1>4, OnlyCommitsChange

\* How a request comes to the end of its transaction.
LEMMA ReachesEnd ==
  ASSUME TypeInv, [Next]_vars, NEW r \in Req
  PROVE  /\ pc'[r] = "publish" => /\ rows'[r] = rows[r] /\ call'[r] = call[r]
                                  /\ \/ pc[r] = "publish"
                                     \/ Commit(r)
         /\ pc'[r] = "commit" =>
              \/ rows'[r] = rows[r] /\ call'[r] = call[r] /\ pc[r] = "commit"
              \/ call'[r] = call[r] /\ (InsertMany(r) \/ WriteOrder(r) \/ DeleteOrder(r)
                                          \/ ResetCounters(r))
<1> DEFINE Goal ==
      /\ pc'[r] = "publish" => /\ rows'[r] = rows[r] /\ call'[r] = call[r]
                               /\ \/ pc[r] = "publish"
                                  \/ Commit(r)
      /\ pc'[r] = "commit" =>
           \/ rows'[r] = rows[r] /\ call'[r] = call[r] /\ pc[r] = "commit"
           \/ call'[r] = call[r] /\ (InsertMany(r) \/ WriteOrder(r) \/ DeleteOrder(r)
                                       \/ ResetCounters(r))
<1>0. TypeOK
  BY DEF TypeInv
<1>1. ASSUME pc'[r] \notin {"commit", "publish"} PROVE Goal
  BY <1>1
<1>2. ASSUME pc'[r] = pc[r], call'[r] = call[r], rows'[r] = rows[r] PROVE Goal
  BY <1>2
<1>3. ASSUME NEW s \in Req \ {r}, OthersKeep(s) PROVE Goal
  BY <1>3, <1>2 DEF OthersKeep
<1>4. ASSUME NEW s \in Req, Arrive(s) PROVE Goal
  <2>1. PICK label \in {"ensure", "read", "delete", "scan"} :
          pc' = [pc EXCEPT ![s] = label] /\ \E c : call' = [call EXCEPT ![s] = c]
    BY <1>4 DEF Arrive, CreateBatch, UpdateForm, ToggleOrderStep, ToggleOrderServed,
       Remove, ClearWorkspace, Mutation, Begin, Goto
  <2>2. rows' = rows
    BY <1>4 DEF Arrive, CreateBatch, UpdateForm, ToggleOrderStep, ToggleOrderServed,
       Remove, ClearWorkspace, Mutation, Begin, local
  <2>3. CASE s = r
    BY <1>0, <1>1, <2>1, <2>3 DEF TypeOK
  <2>4. CASE s # r
    BY <1>0, <1>2, <2>1, <2>2, <2>4 DEF TypeOK
  <2> QED
    BY <2>3, <2>4
<1>5. ASSUME NEW s \in Req, Continues(s) PROVE Goal
  <2>1. CASE s # r
    BY <1>0, <1>3, <1>5, <2>1, ContinueKeeps
  <2>2. CASE s = r /\ Finish(r)
    BY <1>0, <1>1, <2>2, FinishKeeps
  <2>3. CASE s = r /\ (EnsureCounter(r) \/ Allocate(r) \/ ReadOrder(r)
                         \/ ScanOrders(r) \/ SweepOrders(r))
    BY <1>0, <1>1, <2>3 DEF TypeOK, EnsureCounter, Allocate, ReadOrder, ScanOrders,
       SweepOrders, Goto
  <2>4. CASE s = r /\ (InsertMany(r) \/ WriteOrder(r) \/ DeleteOrder(r) \/ ResetCounters(r))
    BY <1>0, <2>4 DEF TypeOK, InsertMany, WriteOrder, DeleteOrder, ResetCounters, Goto
  <2>5. CASE s = r /\ Commit(r)
    BY <1>0, <2>5 DEF TypeOK, Commit, Goto, local
  <2> QED
    BY <1>5, <2>1, <2>2, <2>3, <2>4, <2>5 DEF Continues, Advance, AllocateFails,
       InsertConflict, ReadRejected, WriteMisses, DeleteMisses, Publish,
       CommitUnacknowledged, Fail, Rollback
<1>6. CASE Crash
  BY <1>1, <1>6 DEF Crash
<1>7. CASE Tick \/ UNCHANGED vars
  BY <1>2, <1>7 DEF Tick, vars, local
<1> QED
  BY <1>4, <1>5, <1>6, <1>7 DEF Next, Continues

-----------------------------------------------------------------------------
(* The invariant *)

LEMMA RealRowType ==
  ASSUME NEW row \in RowImage
  PROVE  row \in Row \/ row \in {Nil, Untouched}
  BY DEF RowImage

LEMMA GoneGrows ==
  ASSUME [Next]_vars
  PROVE  gone \subseteq gone'
  BY OnlyCommitsChange DEF Install

\* The row of an order that was just committed.
LEMMA LiveIsPast ==
  ASSUME LockInv, NEW o \in OrderId, orders[o] # Nil
  PROVE  o <= issued /\ o \in Live /\ \A s \in Req : o \notin Fresh(s)
  BY DEF LockInv, LiveIdsIssued, FreshIdsUnused, Live

LEMMA PublishesStep ==
  ASSUME TypeInv, LockInv, EventInv, [Next]_vars, NEW r \in Req
  PROVE  RemovesItsOrder(r)' /\ PublishesPast(r)'
<1>0. TypeOK /\ RemovesItsOrder(r) /\ PublishesPast(r)
  BY DEF TypeInv, EventInv
<1>1. RemovesItsOrder(r)'
  <2> SUFFICES ASSUME pc'[r] \in {"commit", "publish"}, call'[r].op = "remove"
               PROVE  rows'[r][call'[r].id] = Nil
    BY DEF RemovesItsOrder
  <2>1. CASE /\ rows'[r] = rows[r] /\ call'[r] = call[r]
             /\ pc[r] \in {"commit", "publish"}
    BY <1>0, <2>1 DEF RemovesItsOrder
  <2>2. CASE DeleteOrder(r)
    <3>1. call[r].id \in OrderId /\ call' = call
      BY <2>2 DEF DeleteOrder, TypeInv, Shape, DeleteShape
    <3> QED
      BY <1>0, <2>2, <3>1 DEF TypeOK, DeleteOrder
  <2>3. CASE call'[r] = call[r] /\ (InsertMany(r) \/ WriteOrder(r) \/ ResetCounters(r))
    <3>1. call[r].op # "remove"
      BY <2>3 DEF InsertMany, WriteOrder, ResetCounters, TypeInv, Shape, CreateShape,
         EditShape, ClearShape, Edits
    <3> QED
      BY <2>3, <3>1
  <2>4. Commit(r) => pc[r] = "commit"
    BY DEF Commit
  <2> QED
    BY <2>1, <2>2, <2>3, <2>4, ReachesEnd
<1>2. PublishesPast(r)'
  <2> SUFFICES ASSUME pc'[r] = "publish", NEW o \in OrderId
               PROVE  /\ RealRow(rows'[r][o]) => PastOf(o, rows[r][o])'
                      /\ rows'[r][o] = Nil => o \in gone'
    BY DEF PublishesPast, RealRow
  <2>1. /\ rows'[r] = rows[r]
        /\ pc[r] = "publish" \/ Commit(r)
    BY ReachesEnd
  <2>2. rows[r][o] \in Row \/ ~RealRow(rows[r][o])
    BY <1>0, RealRowType DEF TypeOK, RealRow
  <2>3. CASE pc[r] = "publish"
    <3>1. RealRow(rows[r][o]) => PastOf(o, rows[r][o])
      BY <1>0, <2>3 DEF PublishesPast
    <3>2. PICK row : row = rows[r][o]
      OBVIOUS
    <3>3. RealRow(row) => PastOf(o, row)'
      BY <2>2, <3>1, <3>2, PastKept
    <3>4. RealRow(rows'[r][o]) => PastOf(o, rows[r][o])'
      BY <2>1, <3>2, <3>3 DEF PastOf
    <3> QED
      BY <1>0, <2>1, <2>3, <3>4, GoneGrows DEF PublishesPast
  <2>4. CASE Commit(r)
    <3>1. /\ RealRow(rows[r][o]) => orders'[o] = rows[r][o]
          /\ rows[r][o] = Nil => o \in gone'
      BY <2>4 DEF Commit, Install, RealRow
    <3>2. RealRow(rows[r][o]) => orders'[o] # Nil
      BY <3>1 DEF RealRow
    <3>3. LockInv'
      BY LockStep
    <3>4. RealRow(rows[r][o]) =>
            o <= issued' /\ o \in Live' /\ \A s \in Req : o \notin Fresh(s)'
      BY <3>2, <3>3 DEF LockInv, LiveIdsIssued, FreshIdsUnused, Live
    <3>5. RealRow(rows[r][o]) => orders'[o].version \in Nat
      BY <2>2, <3>1 DEF Row
    <3> QED
      BY <2>1, <3>1, <3>4, <3>5 DEF PastOf
  <2> QED
    BY <2>1, <2>3, <2>4
<1> QED
  BY <1>1, <1>2

LEMMA EventStep ==
  ASSUME TypeInv, LockInv, EventInv, [Next]_vars
  PROVE  EventIsPast'
<1>0. TypeOK /\ EventIsPast /\ gone \subseteq gone'
  BY GoneGrows DEF TypeInv, EventInv
<1>1. CASE event' = event
  <2>1. \A o \in Shown(event) : event.items[o] \in Row
    BY <1>0, OrdersAssumption DEF TypeOK, EventOK, Shown, NoEvent
  <2>2. \A o \in Shown(event) : PastOf(o, event.items[o])'
    <3> SUFFICES ASSUME NEW o \in Shown(event) PROVE PastOf(o, event.items[o])'
      OBVIOUS
    <3>1. o \in OrderId /\ PastOf(o, event.items[o])
      BY <1>0 DEF Shown, EventIsPast
    <3>2. ASSUME NEW row \in Row, PastOf(o, row) PROVE PastOf(o, row)'
      BY <3>1, <3>2, PastKept
    <3> QED
      BY <1>1, <2>1, <3>1, <3>2 DEF PastOf
  <2> QED
    BY <1>0, <1>1, <2>2 DEF EventIsPast, Shown
<1>2. ASSUME NEW r \in Req, Publish(r) PROVE EventIsPast'
  <2>1. /\ pc[r] = "publish" /\ event' = EventOf(r) /\ UNCHANGED <<orders, gone, issued>>
        /\ EndShape(r) /\ PublishesPast(r) /\ RemovesItsOrder(r)
    BY <1>2 DEF Publish, tables, TypeInv, Shape, EventInv
  <2>2. CASE call[r].op = "remove"
    <3>1. event' = [kind |-> "deleted", id |-> call[r].id]
      BY <2>1, <2>2 DEF EventOf
    <3>2. call[r].id \in gone
      BY <2>1, <2>2 DEF EndShape, PublishesPast, RemovesItsOrder
    <3> QED
      BY <2>1, <3>1, <3>2 DEF EventIsPast, Shown
  <2>3. CASE call[r].op = "clear"
    <3>1. /\ event'.kind = "cleared"
          /\ event'.ids = {o \in OrderId : rows[r][o] = Nil}
      BY <2>1, <2>3 DEF EventOf
    <3> QED
      BY <2>1, <3>1 DEF EventIsPast, Shown, PublishesPast
  <2>4. CASE call[r].op \notin {"remove", "clear"}
    <3>1. event' = [kind |-> "upsert", items |-> rows[r]]
      BY <2>1, <2>4 DEF EventOf
    <3>2. \A o \in Shown(event') : o \in OrderId /\ RealRow(rows[r][o])
      BY <2>1, <2>4, <3>1 DEF Shown, EndShape, RealRow
    <3>3. \A o \in Shown(event') : PastOf(o, rows[r][o])
      BY <2>1, <3>2 DEF PublishesPast
    <3>4. \A s \in Req : \A o \in Fresh(s)' : o \in Fresh(s)
      <4>1. OthersKeep(r) /\ pc'[r] = "idle"
        BY <1>0, <1>2, FinishKeeps DEF Publish
      <4>2. Fresh(r)' = {}
        BY <4>1 DEF Fresh, InTx
      <4> QED
        BY <4>1, <4>2, OthersFresh
    <3> QED
      BY <2>1, <3>1, <3>3, <3>4 DEF EventIsPast, Shown, PastOf, Live
  <2> QED
    BY <2>2, <2>3, <2>4
<1>3. event' = event \/ \E r \in Req : Publish(r)
  BY DEF Next, Arrive, CreateBatch, UpdateForm, ToggleOrderStep, ToggleOrderServed,
     Remove, ClearWorkspace, Mutation, Begin, Advance, EnsureCounter, Allocate,
     AllocateFails, InsertMany, InsertConflict, ReadOrder, ReadRejected, WriteOrder,
     WriteMisses, DeleteOrder, DeleteMisses, ScanOrders, SweepOrders, ResetCounters,
     Commit, CommitUnacknowledged, Fail, Rollback, Crash, Tick, vars
<1> QED
  BY <1>1, <1>2, <1>3

LEMMA EventInit == Init => EventInv
  BY DEF Init, EventInv, GoneIsFinal, EventIsPast, RemovesItsOrder, PublishesPast, Shown, NoEvent

LEMMA EventInvStep == TypeInv /\ LockInv /\ EventInv /\ [Next]_vars => EventInv'
<1> SUFFICES ASSUME TypeInv, LockInv, EventInv, [Next]_vars PROVE EventInv'
  OBVIOUS
<1>1. GoneIsFinal'
  BY GoneStep DEF EventInv
<1> QED
  BY <1>1, EventStep, PublishesStep DEF EventInv

(***************************************************************************)
(* Every row that is published, or about to be, is the past of its order,  *)
(* and an id that is gone stays gone.                                      *)
(***************************************************************************)
THEOREM EventsCorrect == Spec => []EventInv
<1> QED
  BY TypeCorrect, LocksCorrect, EventInit, EventInvStep, PTL DEF Spec

(***************************************************************************)
(* What an event announces is durable: upserted orders exist or were       *)
(* deleted since, deleted and cleared ones are gone, for good, in every    *)
(* instance.                                                               *)
(***************************************************************************)
THEOREM PublishedOrdersCommitted == Spec => []PublishedIsCommitted
<1>1. EventInv => PublishedIsCommitted
  BY DEF EventInv, GoneIsFinal, EventIsPast, PastOf, PublishedIsCommitted, Live
<1> QED
  BY <1>1, EventsCorrect, PTL

(***************************************************************************)
(* A published version identifies the row it was published with, in every  *)
(* instance: clients may order what they receive by version.               *)
(***************************************************************************)
THEOREM PublishedVersionsCurrent == Spec => []PublishedVersionIsCurrent
<1>1. TypeInv /\ EventInv => PublishedVersionIsCurrent
  <2> SUFFICES ASSUME TypeInv, EventInv, NEW o \in Shown(event) \cap Live
               PROVE  /\ orders[o].version >= event.items[o].version
                      /\ orders[o].version = event.items[o].version
                           => orders[o] = event.items[o]
    BY DEF PublishedVersionIsCurrent
  <2>1. PastOf(o, event.items[o]) /\ o \in OrderId /\ orders[o] # Nil
    BY DEF EventInv, EventIsPast, Live
  <2>2. orders[o] \in Row /\ event.items[o] \in Row
    BY <2>1, OrdersAssumption DEF TypeInv, TypeOK, EventOK, Shown, NoEvent
  <2> QED
    BY <2>1, <2>2 DEF PastOf, Row
<1> QED
  BY <1>1, TypeCorrect, EventsCorrect, PTL
=============================================================================
