----------------------------- MODULE OrderStatus -----------------------------
(***************************************************************************)
(* The cooking steps of one order: which steps its form requires, when it  *)
(* may be served, and what toggling a step or the served mark does to it.  *)
(* Translated from internal/domain/order_status.go.  An order here is any  *)
(* record with the fields form, staple, meat and served; completedAt is    *)
(* abstracted to the Boolean served (the time itself is only reported).    *)
(***************************************************************************)

CONSTANTS
    StapleType,  \* the staple codes, rice included
    MeatType,    \* the meat codes
    Rice,        \* the staple that needs no cooking
    NoStaple     \* stapleTypeCode = nil

ASSUME StapleAssumption == Rice \in StapleType /\ NoStaple \notin StapleType

Unrequired == "unrequired"
NotStarted == "not-started"
Completed  == "completed"

StepStatus == {Unrequired, NotStarted, Completed}
Step       == {"staple", "meat"}

\* The part of a form that decides the steps; sizes, prices, condiments and
\* packaging never influence an order's progress.
FormInput == [staple : StapleType \cup {NoStaple}, meats : SUBSET MeatType]

NeedsStapleStep(f) == f.staple \notin {NoStaple, Rice}
NeedsMeatStep(f)   == f.meats # {}

InitialStaple(f) == IF NeedsStapleStep(f) THEN NotStarted ELSE Unrequired
InitialMeat(f)   == IF NeedsMeatStep(f) THEN NotStarted ELSE Unrequired

CanServe(o) ==
    /\ NeedsStapleStep(o.form) => o.staple = Completed
    /\ NeedsMeatStep(o.form) => o.meat = Completed

Flip(status) == IF status = Completed THEN NotStarted ELSE Completed

CanToggle(o, step) ==
    \/ step = "staple" /\ NeedsStapleStep(o.form) /\ o.staple # Unrequired
    \/ step = "meat" /\ o.meat # Unrequired

FlipStep(o, step) ==
    IF step = "staple" THEN [o EXCEPT !.staple = Flip(@)]
                       ELSE [o EXCEPT !.meat = Flip(@)]

\* A step that is not required is left alone; undoing a step of a served
\* order takes the served mark back.
KeepServed(o) == o.served /\ CanServe(o)

ToggleStep(o, step) ==
    IF CanToggle(o, step)
    THEN [FlipStep(o, step) EXCEPT !.served = KeepServed(FlipStep(o, step))]
    ELSE o

ToggleServed(o) == [o EXCEPT !.served = ~@]

SameOrderProgress(before, after) ==
    /\ before.staple = after.staple
    /\ before.meat = after.meat
    /\ before.served = after.served

(***************************************************************************)
(* What every order row must satisfy, whatever calls produced it: a step   *)
(* is tracked exactly when the form requires it, and a served order has    *)
(* all its required steps completed (the rule of CanServe, which only      *)
(* ToggleServed checks, must survive every other mutation).                *)
(***************************************************************************)
StepsMatchForm(o) ==
    /\ NeedsStapleStep(o.form) <=> o.staple # Unrequired
    /\ NeedsMeatStep(o.form) <=> o.meat # Unrequired

ServedIsReady(o) == o.served => CanServe(o)

ConsistentOrder(o) == StepsMatchForm(o) /\ ServedIsReady(o)
=============================================================================
