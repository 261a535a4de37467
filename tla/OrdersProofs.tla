---------------------------- MODULE OrdersProofs -----------------------------
(***************************************************************************)
(* Proofs about Orders, for any number of requests, orders and forms.      *)
(***************************************************************************)
EXTENDS Orders, TLAPS

Edits == {"update", "step", "served"}

\* What a request knows at each statement of its transaction.
IdleShape(r) ==
    pc[r] = "idle" => rows[r] = NoRows /\ ctrs[r] = NoCtrs /\ cur[r] = Nil

CreateShape(r) ==
    pc[r] \in {"ensure", "allocate", "insert"} =>
        /\ call[r] \in Call
        /\ call[r].op = "create"
        /\ call[r].form \in Form
        /\ rows[r] = NoRows
        /\ pc[r] = "insert" => start[r] > 0

EditShape(r) ==
    pc[r] \in {"read", "write"} =>
        /\ call[r] \in Call
        /\ call[r].op \in Edits
        /\ call[r].id \in OrderId
        /\ call[r].op = "update" => call[r].form \in Form
        /\ call[r].op = "step" => call[r].step \in Step
        /\ rows[r] = NoRows /\ ctrs[r] = NoCtrs
        /\ pc[r] = "write" => /\ cur[r] \in Row
                              /\ MayServe(cur[r], call[r])

DeleteShape(r) ==
    pc[r] = "delete" =>
        /\ call[r] \in Call
        /\ call[r].op = "remove"
        /\ call[r].id \in OrderId
        /\ rows[r] = NoRows

ClearShape(r) ==
    pc[r] \in {"scan", "sweep", "reset"} =>
        /\ call[r] \in Call
        /\ call[r].op = "clear"

EndShape(r) ==
    pc[r] \in {"commit", "publish"} =>
        /\ call[r] \in Call
        /\ call[r].op = "remove" => call[r].id \in OrderId
        /\ call[r].op \notin {"remove", "clear"} =>
             \A o \in OrderId : rows[r][o] # Nil

Shape ==
    \A r \in Req :
        /\ IdleShape(r) /\ CreateShape(r) /\ EditShape(r)
        /\ DeleteShape(r) /\ ClearShape(r) /\ EndShape(r)

TypeInv == TypeOK /\ Shape

-----------------------------------------------------------------------------

LEMMA DayOfTime ==
  ASSUME NEW t \in Time
  PROVE  DayOf(t) \in Day
  BY OrdersAssumption DEF Time, Day, DayOf

LEMMA TypeInit == Init => TypeInv
<1> SUFFICES ASSUME Init PROVE TypeInv
  OBVIOUS
<1> USE OrdersAssumption
<1>1. NoRows \in [OrderId -> RowImage] /\ NoCtrs \in [Day -> CtrImage]
  BY DEF NoRows, NoCtrs, RowImage, CtrImage
<1>2. TypeOK
  BY <1>1 DEF Init, TypeOK, EventOK, Time, PC
<1>3. Shape
  BY DEF Init, Shape, IdleShape, CreateShape, EditShape, DeleteShape, ClearShape, EndShape
<1> QED
  BY <1>2, <1>3 DEF TypeInv
-----------------------------------------------------------------------------
(* Steps of one request leave what the others know alone. *)

ShapeOf(r) ==
    /\ IdleShape(r) /\ CreateShape(r) /\ EditShape(r)
    /\ DeleteShape(r) /\ ClearShape(r) /\ EndShape(r)

OthersKeep(r) ==
    \A s \in Req \ {r} :
        /\ pc'[s] = pc[s] /\ call'[s] = call[s] /\ cur'[s] = cur[s]
        /\ start'[s] = start[s] /\ rows'[s] = rows[s] /\ ctrs'[s] = ctrs[s]

LEMMA ShapeKept ==
  ASSUME Shape, NEW r \in Req, OthersKeep(r), ShapeOf(r)'
  PROVE  Shape'
<1> SUFFICES ASSUME NEW s \in Req PROVE ShapeOf(s)'
  BY DEF Shape, ShapeOf
<1>1. CASE s = r
  BY <1>1
<1>2. CASE s # r
  <2>1. ShapeOf(s)
    BY DEF Shape, ShapeOf
  <2> QED
    BY <1>2, <2>1 DEF OthersKeep, ShapeOf, IdleShape, CreateShape, EditShape, DeleteShape,
       ClearShape, EndShape, MayServe
<1> QED
  BY <1>1, <1>2

LEMMA FinishType ==
  ASSUME TypeOK, NEW r \in Req, Finish(r)
  PROVE  /\ pc' \in [Req -> PC]
         /\ call' \in [Req -> Call \cup {Nil}]
         /\ cur' \in [Req -> Row \cup {Nil}]
         /\ start' \in [Req -> Nat]
         /\ scan' \in [Req -> SUBSET OrderId]
         /\ rows' \in [Req -> [OrderId -> RowImage]]
         /\ ctrs' \in [Req -> [Day -> CtrImage]]
         /\ OthersKeep(r)
         /\ ShapeOf(r)'
<1>1. NoRows \in [OrderId -> RowImage] /\ NoCtrs \in [Day -> CtrImage]
  BY DEF NoRows, NoCtrs, RowImage, CtrImage
<1>2. "idle" \in PC
  BY DEF PC
<1>3. ShapeOf(r)'
  BY DEF TypeOK, Finish, Goto, ShapeOf, IdleShape, CreateShape, EditShape,
     DeleteShape, ClearShape, EndShape
<1> QED
  BY <1>1, <1>2, <1>3 DEF TypeOK, Finish, Goto, OthersKeep

LEMMA RollbackType ==
  ASSUME TypeInv, NEW r \in Req, Rollback(r)
  PROVE  TypeInv'
<1>1. Finish(r) /\ UNCHANGED <<clock, tables, issued, event>>
  BY DEF Rollback
<1>2. TypeOK'
  BY <1>1, FinishType DEF TypeInv, TypeOK, EventOK, tables
<1>3. Shape'
  BY <1>1, FinishType, ShapeKept DEF TypeInv
<1> QED
  BY <1>2, <1>3 DEF TypeInv

-----------------------------------------------------------------------------
(* Calls *)

LEMMA TokensType ==
  ASSUME TypeOK, NEW o \in OrderId, NEW t \in Tokens(o)
  PROVE  t[1] \in Nat \cup {Nil} /\ t[2] \in Time \cup {Nil}
<1>1. \A i \in 0..clock : i \in Time
  BY OrdersAssumption DEF TypeOK, Time
<1>2. \A v \in 1..orders[o].version : v \in Nat
  OBVIOUS
<1> QED
  BY <1>1, <1>2 DEF Tokens, NoToken

LEMMA BeginType ==
  ASSUME TypeInv, NEW r \in Req, NEW op, NEW c \in Call, NEW label \in PC,
         Begin(r, op, c, label), issued' \in 0..MaxOrders,
         ShapeOf(r)'
  PROVE  TypeInv'
<1>1. OthersKeep(r)
  BY DEF TypeInv, TypeOK, Begin, Goto, OthersKeep, local
<1>2. TypeOK'
  BY DEF TypeInv, TypeOK, EventOK, Begin, Goto, tables, local
<1>3. Shape'
  BY <1>1, ShapeKept DEF TypeInv
<1> QED
  BY <1>2, <1>3 DEF TypeInv

LEMMA ArriveType ==
  ASSUME TypeInv, NEW r \in Req, Arrive(r)
  PROVE  TypeInv'
<1> USE OrdersAssumption
<1>a. TypeOK /\ IdleShape(r)
  BY DEF TypeInv, Shape
<1>b. {"ensure", "read", "delete", "scan"} \subseteq PC
  BY DEF PC
<1>d. OrderId \subseteq Nat
  BY DEF OrderId
<1>e. clock \in Time
  BY <1>a DEF TypeOK
<1>f. /\ NoToken[1] = Nil /\ NoToken[2] = Nil
      /\ \A o \in OrderId : \A t \in Tokens(o) :
            t[1] \in Nat \cup {Nil} /\ t[2] \in Time \cup {Nil}
  BY <1>a, TokensType DEF NoToken
<1>1. CASE CreateBatch(r)
  <2>1. PICK q \in 1..MaxBatch, f \in Form :
          /\ issued + q <= MaxOrders
          /\ issued' = issued + q
          /\ Begin(r, "create",
                   Args("create", issued + 1, q, f, Nil, Nil, NoToken), "ensure")
    BY <1>1 DEF CreateBatch
  <2> DEFINE c == Args("create", issued + 1, q, f, Nil, Nil, NoToken)
  <2> HIDE DEF c
  <2>2. c \in Call /\ c.op = "create" /\ c.form \in Form
    <3>1. issued + 1 \in Nat /\ q \in Nat
      BY <1>a DEF TypeOK
    <3>2. "create" \in AllOps
      BY DEF AllOps
    <3> QED
      BY <3>1, <3>2, <1>e, <1>f DEF c, Args, Call
  <2>3. ShapeOf(r)'
    BY <2>1, <2>2, <1>a DEF c, TypeOK, Begin, Goto, local, ShapeOf, IdleShape,
       CreateShape, EditShape, DeleteShape, ClearShape, EndShape
  <2>4. issued' \in 0..MaxOrders
    BY <2>1, <1>a DEF TypeOK
  <2> QED
    BY <2>1, <2>2, <2>3, <2>4, <1>b, BeginType DEF c
<1>2. ASSUME NEW op \in Edits, NEW o \in OrderId, NEW c \in Call,
             c.op = op, c.id = o, op = "update" => c.form \in Form,
             op = "step" => c.step \in Step,
             Mutation(r, op, o, c)
      PROVE  TypeInv'
  <2>1. Begin(r, op, c, "read") /\ issued' = issued
    BY <1>2 DEF Mutation
  <2>2. ShapeOf(r)'
    BY <2>1, <1>2, <1>a DEF TypeOK, Begin, Goto, local, ShapeOf, IdleShape,
       CreateShape, EditShape, DeleteShape, ClearShape, EndShape
  <2>3. issued' \in 0..MaxOrders
    BY <2>1, <1>a DEF TypeOK
  <2> QED
    BY <2>1, <2>2, <2>3, <1>b, BeginType
<1>3. CASE UpdateForm(r)
  <2>0. PICK o \in OrderId, f \in Form : \E t \in Tokens(o) :
          Mutation(r, "update", o, Args("update", o, 0, f, Nil, Nil, t))
    BY <1>3 DEF UpdateForm
  <2>1. PICK t \in Tokens(o) : Mutation(r, "update", o, Args("update", o, 0, f, Nil, Nil, t))
    BY <2>0
  <2> DEFINE c == Args("update", o, 0, f, Nil, Nil, t)
  <2> HIDE DEF c
  <2>2. c \in Call /\ c.op = "update" /\ c.id = o /\ c.form \in Form
    <3>1. "update" \in AllOps /\ o \in Nat /\ 0 \in Nat
      BY <1>d DEF AllOps
    <3> QED
      BY <3>1, <1>e, <1>f DEF c, Args, Call
  <2> QED
    BY <2>1, <2>2, <1>2 DEF c, Edits
<1>4. CASE ToggleOrderStep(r)
  <2>0. PICK o \in OrderId, s \in Step : \E t \in Tokens(o) :
          Mutation(r, "step", o, Args("step", o, 0, Nil, s, Nil, t))
    BY <1>4 DEF ToggleOrderStep
  <2>1. PICK t \in Tokens(o) : Mutation(r, "step", o, Args("step", o, 0, Nil, s, Nil, t))
    BY <2>0
  <2> DEFINE c == Args("step", o, 0, Nil, s, Nil, t)
  <2> HIDE DEF c
  <2>2. c \in Call /\ c.op = "step" /\ c.id = o /\ c.step \in Step
    <3>1. "step" \in AllOps /\ o \in Nat /\ 0 \in Nat
      BY <1>d DEF AllOps
    <3> QED
      BY <3>1, <1>e, <1>f DEF c, Args, Call
  <2> QED
    BY <2>1, <2>2, <1>2 DEF c, Edits
<1>5. CASE ToggleOrderServed(r)
  <2>0. PICK o \in OrderId : \E t \in Tokens(o) :
          Mutation(r, "served", o, Args("served", o, 0, Nil, Nil, Nil, t))
    BY <1>5 DEF ToggleOrderServed
  <2>1. PICK t \in Tokens(o) : Mutation(r, "served", o, Args("served", o, 0, Nil, Nil, Nil, t))
    BY <2>0
  <2> DEFINE c == Args("served", o, 0, Nil, Nil, Nil, t)
  <2> HIDE DEF c
  <2>2. c \in Call /\ c.op = "served" /\ c.id = o
    <3>1. "served" \in AllOps /\ o \in Nat /\ 0 \in Nat
      BY <1>d DEF AllOps
    <3> QED
      BY <3>1, <1>e, <1>f DEF c, Args, Call
  <2> QED
    BY <2>1, <2>2, <1>2 DEF c, Edits
<1>6. CASE Remove(r)
  <2>1. PICK o \in OrderId :
          /\ Begin(r, "remove", Args("remove", o, 0, Nil, Nil, Nil, NoToken), "delete")
          /\ issued' = issued
    BY <1>6 DEF Remove
  <2> DEFINE c == Args("remove", o, 0, Nil, Nil, Nil, NoToken)
  <2> HIDE DEF c
  <2>2. c \in Call /\ c.op = "remove" /\ c.id = o
    <3>1. "remove" \in AllOps /\ o \in Nat /\ 0 \in Nat /\ Nil \in AllModes \cup {Nil}
      BY <1>d DEF AllOps
    <3> QED
      BY <3>1, <1>e, <1>f DEF c, Args, Call
  <2>3. ShapeOf(r)'
    BY <2>1, <2>2, <1>a DEF c, TypeOK, Begin, Goto, local, ShapeOf, IdleShape,
       CreateShape, EditShape, DeleteShape, ClearShape, EndShape
  <2>4. issued' \in 0..MaxOrders
    BY <2>1, <1>a DEF TypeOK
  <2> QED
    BY <2>1, <2>2, <2>3, <2>4, <1>b, BeginType DEF c
<1>7. CASE ClearWorkspace(r)
  <2>1. PICK m \in Modes :
          /\ Begin(r, "clear", Args("clear", 0, 0, Nil, Nil, m, NoToken), "scan")
          /\ issued' = issued
    BY <1>7 DEF ClearWorkspace
  <2> DEFINE c == Args("clear", 0, 0, Nil, Nil, m, NoToken)
  <2> HIDE DEF c
  <2>2. c \in Call /\ c.op = "clear"
    <3>1. "clear" \in AllOps /\ 0 \in Nat /\ 0 \in Nat /\ m \in AllModes \cup {Nil}
      BY <1>d DEF AllOps
    <3> QED
      BY <3>1, <1>e, <1>f DEF c, Args, Call
  <2>3. ShapeOf(r)'
    BY <2>1, <2>2, <1>a DEF c, TypeOK, Begin, Goto, local, ShapeOf, IdleShape,
       CreateShape, EditShape, DeleteShape, ClearShape, EndShape
  <2>4. issued' \in 0..MaxOrders
    BY <2>1, <1>a DEF TypeOK
  <2> QED
    BY <2>1, <2>2, <2>3, <2>4, <1>b, BeginType DEF c
<1> QED
  BY <1>1, <1>3, <1>4, <1>5, <1>6, <1>7 DEF Arrive
-----------------------------------------------------------------------------
(* Rows *)

LEMMA StepStatusType ==
  ASSUME NEW f \in FormInput
  PROVE  InitialStaple(f) \in StepStatus /\ InitialMeat(f) \in StepStatus
  BY DEF InitialStaple, InitialMeat, StepStatus

LEMMA WithFormType ==
  ASSUME NEW row \in Row, NEW f \in Form
  PROVE  WithForm(row, f) \in Row
  BY OrdersAssumption, StepStatusType DEF WithForm, Row

LEMMA ToggleStepType ==
  ASSUME NEW row \in Row, NEW step \in Step
  PROVE  ToggleStep(row, step) \in Row
<1>1. FlipStep(row, step) \in Row
  BY DEF FlipStep, Flip, Row, StepStatus
<1>2. KeepServed(FlipStep(row, step)) \in BOOLEAN
  BY <1>1 DEF KeepServed, CanServe, Row
<1> HIDE DEF FlipStep, KeepServed
<1> QED
  BY <1>1, <1>2 DEF ToggleStep, Row

LEMMA ToggleServedType ==
  ASSUME NEW row \in Row
  PROVE  ToggleServed(row) \in Row
  BY DEF ToggleServed, Row

LEMMA UpdatedType ==
  ASSUME NEW row \in Row, NEW c \in Call, c.op \in Edits,
         c.op = "update" => c.form \in Form, c.op = "step" => c.step \in Step,
         NEW n \in Nat \ {0}
  PROVE  [Updated(row, c) EXCEPT !.version = n] \in Row
<1> DEFINE new == CASE c.op = "update" -> WithForm(row, c.form)
                    [] c.op = "step"   -> ToggleStep(row, c.step)
                    [] c.op = "served" -> ToggleServed(row)
<1>1. new \in Row
  BY WithFormType, ToggleStepType, ToggleServedType DEF Edits
<1>2. c.now \in Time
  BY DEF Call
<1>3. Updated(row, c) = [new EXCEPT !.updatedAt = c.now]
  BY DEF Updated
<1> HIDE DEF new
<1>4. Updated(row, c) \in Row
  BY <1>1, <1>2, <1>3 DEF Row
<1> QED
  BY <1>4 DEF Row

LEMMA NewRowType ==
  ASSUME TypeOK, NEW r \in Req, NEW o \in Batch(r),
         call[r] \in Call, call[r].form \in Form, start[r] > 0
  PROVE  NewRow(r, o) \in Row
<1>1. SeqOf(r, o) \in Nat \ {0}
  BY DEF SeqOf, Batch, TypeOK, Call
<1>2. call[r].now \in Time
  BY DEF Call
<1> QED
  BY <1>1, <1>2, StepStatusType, OrdersAssumption DEF NewRow, Row

-----------------------------------------------------------------------------
(* Statements *)

LEMMA EnsureCounterType ==
  ASSUME TypeInv, NEW r \in Req, EnsureCounter(r)
  PROVE  TypeInv'
<1>1. TypeOK /\ CreateShape(r)
  BY DEF TypeInv, Shape
<1>2. CreateDay(r) \in Day
  BY <1>1, DayOfTime DEF CreateShape, EnsureCounter, CreateDay, Call
<1>3. OthersKeep(r)
  BY <1>1 DEF TypeOK, EnsureCounter, Goto, OthersKeep
<1>4. ctrs' \in [Req -> [Day -> CtrImage]]
  BY <1>1, <1>2 DEF TypeOK, EnsureCounter, CtrImage
<1>5. TypeOK'
  BY <1>1, <1>4 DEF TypeOK, EventOK, EnsureCounter, Goto, tables, PC
<1>6. ShapeOf(r)'
  BY <1>1 DEF TypeOK, EnsureCounter, Goto, ShapeOf, IdleShape, CreateShape,
     EditShape, DeleteShape, ClearShape, EndShape
<1> QED
  BY <1>3, <1>5, <1>6, ShapeKept DEF TypeInv

LEMMA AllocateType ==
  ASSUME TypeInv, NEW r \in Req, Allocate(r)
  PROVE  TypeInv'
<1> DEFINE d == CreateDay(r)
           n == SeenCounter(r, d) + call[r].qty
<1>1. TypeOK /\ CreateShape(r)
  BY DEF TypeInv, Shape
<1>2. d \in Day
  BY <1>1, DayOfTime DEF CreateShape, Allocate, CreateDay, Call
<1>3. SeenCounter(r, d) \in Nat /\ call[r].qty \in Nat
  BY <1>1, <1>2 DEF TypeOK, Allocate, SeenCounter, CtrImage, CreateShape, Call
<1>4. n \in Nat /\ StartSeq(n, call[r].qty) \in Nat /\ StartSeq(n, call[r].qty) > 0
  BY <1>3 DEF StartSeq
<1>5. /\ ctrs' = [ctrs EXCEPT ![r][d] = n]
      /\ start' = [start EXCEPT ![r] = StartSeq(n, call[r].qty)]
      /\ pc[r] = "allocate" /\ Goto(r, "insert")
      /\ UNCHANGED <<clock, tables, issued, event, call, cur, scan, rows>>
  BY DEF Allocate
<1> HIDE DEF d, n
<1>6. OthersKeep(r)
  BY <1>1, <1>5 DEF TypeOK, Goto, OthersKeep
<1>7. ctrs' \in [Req -> [Day -> CtrImage]] /\ start' \in [Req -> Nat]
  BY <1>1, <1>2, <1>4, <1>5 DEF TypeOK, CtrImage
<1>8. TypeOK'
  BY <1>1, <1>5, <1>7 DEF TypeOK, EventOK, Goto, tables, PC
<1>9. ShapeOf(r)'
  BY <1>1, <1>4, <1>5 DEF TypeOK, Goto, ShapeOf, IdleShape, CreateShape,
     EditShape, DeleteShape, ClearShape, EndShape
<1> QED
  BY <1>6, <1>8, <1>9, ShapeKept DEF TypeInv

LEMMA InsertManyType ==
  ASSUME TypeInv, NEW r \in Req, InsertMany(r)
  PROVE  TypeInv'
<1> DEFINE new == [o \in OrderId |-> IF o \in Batch(r) THEN NewRow(r, o) ELSE Untouched]
<1>1. TypeOK /\ CreateShape(r)
  BY DEF TypeInv, Shape
<1>2. new \in [OrderId -> Row \cup {Untouched}]
  BY <1>1, NewRowType DEF InsertMany, CreateShape
<1>3. /\ rows' = [rows EXCEPT ![r] = new]
      /\ pc[r] = "insert" /\ Goto(r, "commit")
      /\ UNCHANGED <<clock, tables, issued, event, call, cur, start, scan, ctrs>>
  BY DEF InsertMany
<1> HIDE DEF new
<1>4. OthersKeep(r)
  BY <1>1, <1>3 DEF TypeOK, Goto, OthersKeep
<1>5. new \in [OrderId -> RowImage]
  BY <1>2 DEF RowImage
<1>6. TypeOK'
  BY <1>1, <1>3, <1>5 DEF TypeOK, EventOK, Goto, tables, PC
<1>7. \A o \in OrderId : new[o] # Nil
  BY <1>2, OrdersAssumption
<1>8. ShapeOf(r)'
  BY <1>1, <1>3, <1>7 DEF TypeOK, Goto, ShapeOf, IdleShape, CreateShape,
     EditShape, DeleteShape, ClearShape, EndShape
<1> QED
  BY <1>4, <1>6, <1>8, ShapeKept DEF TypeInv

LEMMA ReadOrderType ==
  ASSUME TypeInv, NEW r \in Req, ReadOrder(r)
  PROVE  TypeInv'
<1>1. TypeOK /\ EditShape(r)
  BY DEF TypeInv, Shape
<1>2. orders[call[r].id] \in Row
  BY <1>1 DEF TypeOK, EditShape, ReadOrder
<1>3. OthersKeep(r)
  BY <1>1 DEF TypeOK, ReadOrder, Goto, OthersKeep
<1>4. TypeOK'
  BY <1>1, <1>2 DEF TypeOK, EventOK, ReadOrder, Goto, tables, PC
<1>5. ShapeOf(r)'
  BY <1>1, <1>2 DEF TypeOK, ReadOrder, Goto, ShapeOf, IdleShape, CreateShape,
     EditShape, DeleteShape, ClearShape, EndShape, MayServe
<1> QED
  BY <1>3, <1>4, <1>5, ShapeKept DEF TypeInv

LEMMA WriteOrderType ==
  ASSUME TypeInv, NEW r \in Req, WriteOrder(r)
  PROVE  TypeInv'
<1>1. TypeOK /\ EditShape(r)
  BY DEF TypeInv, Shape
<1>2. orders[call[r].id] \in Row
  BY <1>1 DEF TypeOK, EditShape, WriteOrder, WriteHits
<1>3. NextVersion(r) \in Nat \ {0}
  BY <1>2 DEF NextVersion, Row
<1>4. WrittenRow(r) \in Row
  BY <1>1, <1>3, UpdatedType DEF EditShape, WriteOrder, WrittenRow
<1>5. /\ rows' = [rows EXCEPT ![r][call[r].id] = WrittenRow(r)]
      /\ pc[r] = "write" /\ Goto(r, "commit")
      /\ UNCHANGED <<clock, tables, issued, event, call, cur, start, scan, ctrs>>
  BY DEF WriteOrder
<1>6. OthersKeep(r)
  BY <1>1, <1>5 DEF TypeOK, Goto, OthersKeep
<1>7. rows' \in [Req -> [OrderId -> RowImage]]
  BY <1>1, <1>4, <1>5 DEF TypeOK, RowImage
<1>8. TypeOK'
  BY <1>1, <1>5, <1>7 DEF TypeOK, EventOK, Goto, tables, PC
<1>9. \A o \in OrderId : rows'[r][o] # Nil
  BY <1>1, <1>4, <1>5, OrdersAssumption DEF TypeOK, EditShape, NoRows
<1>10. ShapeOf(r)'
  BY <1>1, <1>5, <1>9 DEF TypeOK, Goto, ShapeOf, IdleShape, CreateShape,
     EditShape, DeleteShape, ClearShape, EndShape
<1> QED
  BY <1>6, <1>8, <1>10, ShapeKept DEF TypeInv

LEMMA DeleteOrderType ==
  ASSUME TypeInv, NEW r \in Req, DeleteOrder(r)
  PROVE  TypeInv'
<1>1. TypeOK /\ DeleteShape(r)
  BY DEF TypeInv, Shape
<1>2. OthersKeep(r)
  BY <1>1 DEF TypeOK, DeleteOrder, Goto, OthersKeep
<1>3. rows' \in [Req -> [OrderId -> RowImage]]
  BY <1>1 DEF TypeOK, DeleteOrder, RowImage
<1>4. TypeOK'
  BY <1>1, <1>3 DEF TypeOK, EventOK, DeleteOrder, Goto, tables, PC
<1>5. ShapeOf(r)'
  BY <1>1 DEF TypeOK, DeleteOrder, Goto, ShapeOf, IdleShape, CreateShape,
     EditShape, DeleteShape, ClearShape, EndShape
<1> QED
  BY <1>2, <1>4, <1>5, ShapeKept DEF TypeInv

LEMMA ClearType ==
  ASSUME TypeInv, NEW r \in Req, ScanOrders(r) \/ SweepOrders(r) \/ ResetCounters(r)
  PROVE  TypeInv'
<1>1. TypeOK /\ ClearShape(r)
  BY DEF TypeInv, Shape
<1>2. OthersKeep(r)
  BY <1>1 DEF TypeOK, ScanOrders, SweepOrders, ResetCounters, Goto, OthersKeep
<1>3. /\ rows' \in [Req -> [OrderId -> RowImage]]
      /\ ctrs' \in [Req -> [Day -> CtrImage]]
      /\ scan' \in [Req -> SUBSET OrderId]
  <2>1. CASE ScanOrders(r)
    BY <1>1, <2>1 DEF TypeOK, ScanOrders, Live
  <2>2. CASE SweepOrders(r)
    BY <1>1, <2>2 DEF TypeOK, SweepOrders, RowImage
  <2>3. CASE ResetCounters(r)
    BY <1>1, <2>3 DEF TypeOK, ResetCounters, CtrImage
  <2> QED
    BY <2>1, <2>2, <2>3
<1>4. TypeOK'
  BY <1>1, <1>3 DEF TypeOK, EventOK, ScanOrders, SweepOrders, ResetCounters, Goto, tables, PC
<1>5. ShapeOf(r)'
  BY <1>1 DEF TypeOK, ScanOrders, SweepOrders, ResetCounters, Goto, ShapeOf, IdleShape,
     CreateShape, EditShape, DeleteShape, ClearShape, EndShape
<1> QED
  BY <1>2, <1>4, <1>5, ShapeKept DEF TypeInv

-----------------------------------------------------------------------------
(* Commits and events *)

LEMMA InstallType ==
  ASSUME TypeOK, NEW r \in Req, Install(r)
  PROVE  /\ orders' \in [OrderId -> Row \cup {Nil}]
         /\ counters' \in [Day -> Nat \cup {Nil}]
         /\ gone' \subseteq OrderId
  BY DEF TypeOK, Install, RowImage, CtrImage

LEMMA CommitType ==
  ASSUME TypeInv, NEW r \in Req, Commit(r)
  PROVE  TypeInv'
<1>1. TypeOK /\ EndShape(r)
  BY DEF TypeInv, Shape
<1>2. OthersKeep(r)
  BY <1>1 DEF TypeOK, Commit, Goto, OthersKeep, local
<1>3. Install(r)
  BY DEF Commit
<1>4. TypeOK'
  BY <1>1, <1>3, InstallType DEF TypeOK, EventOK, Commit, Goto, local, PC
<1>5. ShapeOf(r)'
  BY <1>1 DEF TypeOK, Commit, Goto, local, ShapeOf, IdleShape, CreateShape,
     EditShape, DeleteShape, ClearShape, EndShape
<1> QED
  BY <1>2, <1>4, <1>5, ShapeKept DEF TypeInv

LEMMA CommitUnacknowledgedType ==
  ASSUME TypeInv, NEW r \in Req, CommitUnacknowledged(r)
  PROVE  TypeInv'
<1>1. TypeOK /\ Install(r) /\ Finish(r) /\ UNCHANGED <<clock, issued, event>>
  BY DEF TypeInv, CommitUnacknowledged
<1>2. TypeOK'
  BY <1>1, InstallType, FinishType DEF TypeOK, EventOK
<1> QED
  BY <1>1, <1>2, FinishType, ShapeKept DEF TypeInv

LEMMA EventType ==
  ASSUME TypeInv, NEW r \in Req, pc[r] = "publish", event' = EventOf(r)
  PROVE  EventOK'
<1>1. TypeOK /\ EndShape(r) /\ call[r] \in Call
  BY DEF TypeInv, Shape, EndShape
<1>2. CASE call[r].op = "remove"
  BY <1>1, <1>2 DEF EventOf, EventOK, EndShape
<1>3. CASE call[r].op = "clear"
  <2>1. ClearDateKey(r) \in Day \cup {Nil}
    BY <1>1, DayOfTime DEF ClearDateKey, Call
  <2> QED
    BY <1>3, <2>1 DEF EventOf, EventOK
<1>4. CASE call[r].op \notin {"remove", "clear"}
  <2>1. rows[r] \in [OrderId -> Row \cup {Untouched}]
    BY <1>1, <1>4 DEF TypeOK, EndShape, RowImage
  <2>2. event' = [kind |-> "upsert", items |-> rows[r]]
    BY <1>4 DEF EventOf
  <2> QED
    BY <2>1, <2>2 DEF EventOK
<1> QED
  BY <1>2, <1>3, <1>4

LEMMA PublishType ==
  ASSUME TypeInv, NEW r \in Req, Publish(r)
  PROVE  TypeInv'
<1>1. TypeOK /\ Finish(r) /\ UNCHANGED <<clock, tables, issued>>
  BY DEF TypeInv, Publish
<1>2. EventOK'
  BY EventType DEF Publish
<1>3. TypeOK'
  BY <1>1, <1>2, FinishType DEF TypeOK, tables
<1> QED
  BY <1>1, <1>3, FinishType, ShapeKept DEF TypeInv

LEMMA CrashType ==
  ASSUME TypeInv, Crash
  PROVE  TypeInv'
<1>1. NoRows \in [OrderId -> RowImage] /\ NoCtrs \in [Day -> CtrImage]
  BY DEF NoRows, NoCtrs, RowImage, CtrImage
<1>2. TypeOK'
  BY <1>1 DEF TypeInv, TypeOK, EventOK, Crash, tables, PC
<1>3. Shape'
  BY DEF Crash, Shape, IdleShape, CreateShape, EditShape, DeleteShape, ClearShape, EndShape
<1> QED
  BY <1>2, <1>3 DEF TypeInv

LEMMA StutterType ==
  ASSUME TypeInv, UNCHANGED vars \/ Tick
  PROVE  TypeInv'
<1>1. clock' \in Time
  BY OrdersAssumption DEF TypeInv, TypeOK, Time, vars, Tick
<1>2. UNCHANGED <<tables, issued, event, pc, call, local>>
  BY DEF vars, Tick
<1>3. TypeOK'
  BY <1>1, <1>2 DEF TypeInv, TypeOK, EventOK, tables, local
<1>4. Shape'
  BY <1>2 DEF TypeInv, Shape, IdleShape, CreateShape, EditShape, DeleteShape, ClearShape,
     EndShape, local, MayServe
<1> QED
  BY <1>3, <1>4 DEF TypeInv

LEMMA TypeStep == TypeInv /\ [Next]_vars => TypeInv'
<1> SUFFICES ASSUME TypeInv, [Next]_vars PROVE TypeInv'
  OBVIOUS
<1>1. ASSUME NEW r \in Req, Advance(r) PROVE TypeInv'
  <2>1. CASE AllocateFails(r) \/ InsertConflict(r) \/ ReadRejected(r)
             \/ WriteMisses(r) \/ DeleteMisses(r)
    BY <2>1, RollbackType
       DEF AllocateFails, InsertConflict, ReadRejected, WriteMisses, DeleteMisses
  <2> QED
    BY <1>1, <2>1, EnsureCounterType, AllocateType, InsertManyType, ReadOrderType,
       WriteOrderType, DeleteOrderType, ClearType, CommitType, PublishType DEF Advance
<1>2. ASSUME NEW r \in Req, Fail(r) PROVE TypeInv'
  BY <1>2, RollbackType DEF Fail
<1> QED
  BY <1>1, <1>2, ArriveType, CommitUnacknowledgedType, CrashType, StutterType DEF Next

(***************************************************************************)
(* The tables, the requests and the events keep their types, and every     *)
(* request has at each statement what that statement works with.           *)
(***************************************************************************)
THEOREM TypeCorrect == Spec => []TypeInv
<1> QED
  BY TypeInit, TypeStep, PTL DEF Spec

(***************************************************************************)
(* TypeOK of Orders holds in every reachable state.                        *)
(***************************************************************************)
THEOREM TypesHold == Spec => []TypeOK
<1>1. TypeInv => TypeOK
  BY DEF TypeInv
<1> QED
  BY <1>1, TypeCorrect, PTL

-----------------------------------------------------------------------------
(* Consistent orders.  A write is computed from the row that was read, and *)
(* replaces the whole row: it is consistent because every row ever read or *)
(* about to be committed is, whatever was committed in between.            *)

RealRow(row) == row \notin {Nil, Untouched}

RowsConsistent ==
    /\ \A o \in OrderId : RealRow(orders[o]) => ConsistentOrder(orders[o])
    /\ \A r \in Req : cur[r] # Nil => ConsistentOrder(cur[r])
    /\ \A r \in Req, o \in OrderId :
         RealRow(rows[r][o]) => ConsistentOrder(rows[r][o])
    /\ \A o \in Shown(event) : ConsistentOrder(event.items[o])

LEMMA NilRows ==
  /\ \A row \in Row : RealRow(row)
  /\ \A o \in OrderId : ~RealRow(NoRows[o])
  BY OrdersAssumption DEF RealRow, NoRows

LEMMA NewFormConsistent ==
  ASSUME NEW row, row.staple = InitialStaple(row.form),
         row.meat = InitialMeat(row.form), row.served = FALSE
  PROVE  ConsistentOrder(row)
  BY DEF ConsistentOrder, StepsMatchForm, ServedIsReady, InitialStaple, InitialMeat,
     NotStarted, Unrequired

LEMMA FlipConsistent ==
  ASSUME NEW row \in Row, NEW step \in Step, StepsMatchForm(row), CanToggle(row, step)
  PROVE  StepsMatchForm(FlipStep(row, step))
  BY DEF StepsMatchForm, CanToggle, FlipStep, Flip, Row, StepStatus,
     Completed, NotStarted, Unrequired

LEMMA ToggleStepConsistent ==
  ASSUME NEW row \in Row, NEW step \in Step, ConsistentOrder(row)
  PROVE  ConsistentOrder(ToggleStep(row, step))
<1>1. CASE CanToggle(row, step)
  <2> DEFINE flipped == FlipStep(row, step)
  <2>1. StepsMatchForm(flipped)
    BY <1>1, FlipConsistent DEF ConsistentOrder
  <2>2. flipped \in Row
    BY DEF FlipStep, Flip, Row, StepStatus
  <2>3. ToggleStep(row, step) = [flipped EXCEPT !.served = KeepServed(flipped)]
    BY <1>1 DEF ToggleStep
  <2> HIDE DEF flipped
  <2>4. StepsMatchForm(ToggleStep(row, step))
    BY <2>1, <2>2, <2>3 DEF StepsMatchForm, Row
  <2>5. ServedIsReady(ToggleStep(row, step))
    BY <2>2, <2>3 DEF ServedIsReady, KeepServed, CanServe, Row
  <2> QED
    BY <2>4, <2>5 DEF ConsistentOrder
<1>2. CASE ~CanToggle(row, step)
  BY <1>2 DEF ToggleStep
<1> QED
  BY <1>1, <1>2

LEMMA ToggleServedConsistent ==
  ASSUME NEW row \in Row, ConsistentOrder(row), CanServe(row)
  PROVE  ConsistentOrder(ToggleServed(row))
  BY DEF ToggleServed, ConsistentOrder, StepsMatchForm, ServedIsReady, CanServe, Row

LEMMA WithFormConsistent ==
  ASSUME NEW row \in Row, NEW f \in Form
  PROVE  ConsistentOrder(WithForm(row, f))
<1>1. /\ WithForm(row, f).form = f /\ WithForm(row, f).served = FALSE
      /\ WithForm(row, f).staple = InitialStaple(f)
      /\ WithForm(row, f).meat = InitialMeat(f)
  BY DEF WithForm, Row
<1> QED
  BY <1>1, NewFormConsistent

LEMMA UpdatedConsistent ==
  ASSUME NEW row \in Row, NEW c \in Call, c.op \in Edits, ConsistentOrder(row),
         MayServe(row, c),
         c.op = "update" => c.form \in Form, c.op = "step" => c.step \in Step,
         NEW n
  PROVE  ConsistentOrder([Updated(row, c) EXCEPT !.version = n])
<1> DEFINE new == CASE c.op = "update" -> WithForm(row, c.form)
                    [] c.op = "step"   -> ToggleStep(row, c.step)
                    [] c.op = "served" -> ToggleServed(row)
<1>1. new \in Row
  BY WithFormType, ToggleStepType, ToggleServedType DEF Edits
<1>2. ConsistentOrder(new)
  BY WithFormConsistent, ToggleStepConsistent, ToggleServedConsistent DEF Edits, MayServe
<1>3. Updated(row, c) = [new EXCEPT !.updatedAt = c.now]
  BY DEF Updated
<1> HIDE DEF new
<1>4. \A t : ConsistentOrder([[new EXCEPT !.updatedAt = t] EXCEPT !.version = n])
  <2> TAKE t
  <2> DEFINE dated == [new EXCEPT !.updatedAt = t]
             w     == [dated EXCEPT !.version = n]
  <2>1. /\ dated.form = new.form /\ dated.staple = new.staple
        /\ dated.meat = new.meat /\ dated.served = new.served
        /\ DOMAIN dated = DOMAIN new
    BY <1>1 DEF Row
  <2>2. /\ w.form = new.form /\ w.staple = new.staple
        /\ w.meat = new.meat /\ w.served = new.served
    BY <1>1, <2>1 DEF Row
  <2> HIDE DEF w
  <2>3. ConsistentOrder(w)
    BY <1>2, <2>2 DEF ConsistentOrder, StepsMatchForm, ServedIsReady, CanServe
  <2> QED
    BY <2>3 DEF w
<1> QED
  BY <1>3, <1>4

LEMMA InstallConsistent ==
  ASSUME TypeOK, RowsConsistent, NEW r \in Req, Install(r)
  PROVE  \A o \in OrderId : RealRow(orders'[o]) => ConsistentOrder(orders'[o])
  BY DEF RowsConsistent, Install, RealRow

\* An action that touches neither cur nor the committed rows need only show
\* that the rows it writes are consistent.
LEMMA QuietConsistent ==
  ASSUME RowsConsistent, UNCHANGED <<orders, event>>,
         \A r \in Req : cur'[r] \in {Nil, cur[r]},
         \A r \in Req, o \in OrderId :
            RealRow(rows'[r][o]) => ConsistentOrder(rows'[r][o])
  PROVE  RowsConsistent'
  BY DEF RowsConsistent, Shown

LEMMA FinishConsistent ==
  ASSUME TypeOK, RowsConsistent, NEW r \in Req, Finish(r)
  PROVE  /\ \A s \in Req : cur'[s] \in {Nil, cur[s]}
         /\ \A s \in Req, o \in OrderId :
              RealRow(rows'[s][o]) => ConsistentOrder(rows'[s][o])
  BY NilRows DEF TypeOK, RowsConsistent, Finish

LEMMA RollbackConsistent ==
  ASSUME TypeOK, RowsConsistent, NEW r \in Req, Rollback(r)
  PROVE  RowsConsistent'
  BY FinishConsistent, QuietConsistent DEF Rollback, tables

LEMMA ArriveConsistent ==
  ASSUME RowsConsistent, NEW r \in Req, Arrive(r)
  PROVE  RowsConsistent'
<1>1. UNCHANGED <<orders, event, cur, rows>>
  BY DEF Arrive, CreateBatch, UpdateForm, ToggleOrderStep, ToggleOrderServed,
     Remove, ClearWorkspace, Mutation, Begin, tables, local
<1> QED
  BY <1>1, QuietConsistent DEF RowsConsistent

LEMMA InsertManyConsistent ==
  ASSUME TypeInv, RowsConsistent, NEW r \in Req, InsertMany(r)
  PROVE  RowsConsistent'
<1> DEFINE new == [o \in OrderId |-> IF o \in Batch(r) THEN NewRow(r, o) ELSE Untouched]
<1>1. \A o \in OrderId : RealRow(new[o]) => ConsistentOrder(new[o])
  <2> SUFFICES ASSUME NEW o \in OrderId, RealRow(new[o]) PROVE ConsistentOrder(NewRow(r, o))
    BY DEF RealRow
  <2> QED
    BY NewFormConsistent DEF NewRow
<1>2. rows' = [rows EXCEPT ![r] = new] /\ UNCHANGED <<orders, event, cur>>
  BY DEF InsertMany, tables
<1> HIDE DEF new
<1> QED
  BY <1>1, <1>2, QuietConsistent DEF TypeInv, TypeOK, RowsConsistent

LEMMA ReadOrderConsistent ==
  ASSUME TypeInv, RowsConsistent, NEW r \in Req, ReadOrder(r)
  PROVE  RowsConsistent'
<1>1. TypeOK /\ call[r].id \in OrderId
  BY DEF TypeInv, Shape, EditShape, ReadOrder
<1>2. orders[call[r].id] \in Row
  BY <1>1 DEF TypeOK, ReadOrder
<1>3. ConsistentOrder(orders[call[r].id])
  BY <1>1, <1>2, NilRows DEF RowsConsistent
<1>4. UNCHANGED <<orders, event, rows>> /\ cur' = [cur EXCEPT ![r] = orders[call[r].id]]
  BY DEF ReadOrder, tables
<1> QED
  BY <1>1, <1>3, <1>4 DEF RowsConsistent, TypeOK, Shown

LEMMA WriteOrderConsistent ==
  ASSUME TypeInv, RowsConsistent, NEW r \in Req, WriteOrder(r)
  PROVE  RowsConsistent'
<1>1. TypeOK /\ EditShape(r) /\ pc[r] = "write"
  BY DEF TypeInv, Shape, WriteOrder
<1>2. cur[r] \in Row /\ ConsistentOrder(cur[r])
  BY <1>1, OrdersAssumption DEF EditShape, RowsConsistent
<1>3. ConsistentOrder(WrittenRow(r))
  BY <1>1, <1>2, UpdatedConsistent DEF EditShape, WrittenRow
<1>4. /\ rows' = [rows EXCEPT ![r][call[r].id] = WrittenRow(r)]
      /\ UNCHANGED <<orders, event, cur>>
  BY DEF WriteOrder, tables
<1> QED
  BY <1>1, <1>3, <1>4, QuietConsistent DEF TypeOK, RowsConsistent

LEMMA DeleteConsistent ==
  ASSUME TypeOK, RowsConsistent, NEW r \in Req, DeleteOrder(r) \/ SweepOrders(r)
  PROVE  RowsConsistent'
<1>1. UNCHANGED <<orders, event, cur>>
  BY DEF DeleteOrder, SweepOrders, tables
<1>2. \A s \in Req, o \in OrderId :
        RealRow(rows'[s][o]) => ConsistentOrder(rows'[s][o])
  <2>1. CASE DeleteOrder(r)
    BY <2>1 DEF TypeOK, RowsConsistent, DeleteOrder, RealRow
  <2>2. CASE SweepOrders(r)
    BY <2>2 DEF TypeOK, RowsConsistent, SweepOrders, RealRow
  <2> QED
    BY <2>1, <2>2
<1> QED
  BY <1>1, <1>2, QuietConsistent

LEMMA CommitConsistent ==
  ASSUME TypeOK, RowsConsistent, NEW r \in Req, Commit(r) \/ CommitUnacknowledged(r)
  PROVE  RowsConsistent'
<1>1. Install(r) /\ event' = event
  BY DEF Commit, CommitUnacknowledged
<1>2. /\ \A s \in Req : cur'[s] \in {Nil, cur[s]}
      /\ \A s \in Req, o \in OrderId :
           RealRow(rows'[s][o]) => ConsistentOrder(rows'[s][o])
  BY FinishConsistent DEF RowsConsistent, Commit, CommitUnacknowledged, local
<1> QED
  BY <1>1, <1>2, InstallConsistent DEF RowsConsistent, Shown

LEMMA PublishConsistent ==
  ASSUME TypeInv, RowsConsistent, NEW r \in Req, Publish(r)
  PROVE  RowsConsistent'
<1>1. TypeOK /\ EndShape(r) /\ pc[r] = "publish"
  BY DEF TypeInv, Shape, Publish
<1>2. event' = EventOf(r) /\ Finish(r) /\ orders' = orders
  BY DEF Publish, tables
<1>3. \A o \in Shown(event') : ConsistentOrder(event'.items[o])
  <2> SUFFICES ASSUME NEW o \in Shown(event') PROVE ConsistentOrder(event'.items[o])
    OBVIOUS
  <2>1. call[r].op \notin {"remove", "clear"}
    BY <1>2 DEF Shown, EventOf
  <2>2. event' = [kind |-> "upsert", items |-> rows[r]]
    BY <1>2, <2>1 DEF EventOf
  <2>3. o \in OrderId /\ RealRow(rows[r][o])
    BY <1>1, <2>1, <2>2 DEF Shown, EndShape, RealRow
  <2> QED
    BY <2>2, <2>3 DEF RowsConsistent
<1> QED
  BY <1>1, <1>2, <1>3, FinishConsistent DEF RowsConsistent, Shown

LEMMA ConsistentInit == Init => RowsConsistent
<1> SUFFICES ASSUME Init PROVE RowsConsistent
  OBVIOUS
<1>1. Shown(event) = {}
  BY DEF Init, Shown, NoEvent
<1> QED
  BY <1>1, NilRows DEF Init, RowsConsistent, RealRow

LEMMA ConsistentStep == TypeInv /\ RowsConsistent /\ [Next]_vars => RowsConsistent'
<1> SUFFICES ASSUME TypeInv, RowsConsistent, [Next]_vars PROVE RowsConsistent'
  OBVIOUS
<1>a. TypeOK
  BY DEF TypeInv
<1>1. ASSUME NEW r \in Req, Advance(r) PROVE RowsConsistent'
  <2>1. CASE AllocateFails(r) \/ InsertConflict(r) \/ ReadRejected(r)
             \/ WriteMisses(r) \/ DeleteMisses(r)
    BY <2>1, <1>a, RollbackConsistent
       DEF AllocateFails, InsertConflict, ReadRejected, WriteMisses, DeleteMisses
  <2>2. CASE EnsureCounter(r) \/ Allocate(r) \/ ScanOrders(r) \/ ResetCounters(r)
    <3>1. UNCHANGED <<orders, event, cur, rows>>
      BY <2>2 DEF EnsureCounter, Allocate, ScanOrders, ResetCounters, tables
    <3> QED
      BY <3>1, QuietConsistent DEF RowsConsistent
  <2> QED
    BY <1>1, <1>a, <2>1, <2>2, InsertManyConsistent, ReadOrderConsistent,
       WriteOrderConsistent, DeleteConsistent, CommitConsistent, PublishConsistent
       DEF Advance
<1>2. ASSUME NEW r \in Req, Fail(r) PROVE RowsConsistent'
  BY <1>2, <1>a, RollbackConsistent DEF Fail
<1>3. CASE Crash
  BY <1>3, NilRows, QuietConsistent DEF Crash, tables
<1>4. CASE Tick \/ UNCHANGED vars
  <2>1. UNCHANGED <<orders, event, cur, rows>>
    BY <1>4 DEF Tick, vars, tables, local
  <2> QED
    BY <2>1, QuietConsistent DEF RowsConsistent
<1> QED
  BY <1>a, <1>1, <1>2, <1>3, <1>4, ArriveConsistent, CommitConsistent DEF Next

(***************************************************************************)
(* In every reachable state of every instance no committed order and no    *)
(* published order is served with a required step open, or tracks a step   *)
(* its form does not have.                                                 *)
(***************************************************************************)
THEOREM OrdersStayConsistent == Spec => []OrdersConsistent
<1>1. RowsConsistent /\ TypeInv => OrdersConsistent
  <2>1. TypeInv => \A o \in Live : RealRow(orders[o])
    BY NilRows DEF TypeInv, TypeOK, Live
  <2> QED
    BY <2>1 DEF RowsConsistent, OrdersConsistent, Live
<1> QED
  BY <1>1, ConsistentInit, ConsistentStep, TypeCorrect, PTL DEF Spec
=============================================================================
