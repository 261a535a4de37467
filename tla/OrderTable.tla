----------------------------- MODULE OrderTable ------------------------------
(***************************************************************************)
(* The committed table of orders as its readers meet it, and the calendar  *)
(* they read it with.                                                      *)
(*                                                                         *)
(* Orders models how requests arrive at a commit, and implements           *)
(* OrderLedger: a commit adds a batch, revises one order or erases some.   *)
(* Here a commit is one step, and a row keeps the two columns its readers  *)
(* select, sort and group by.                                              *)
(*                                                                         *)
(* An instant is a natural number, a business day is numbered, and         *)
(* SlotsPerDay instants pass on a day on which the clocks are not changed. *)
(***************************************************************************)
EXTENDS Integers, FiniteSets

CONSTANTS
    OrderId,      \* ids; which of two is the smaller says nothing about their age
    Nil,          \* no row, or no completion
    SlotsPerDay,  \* the length of an ordinary day
    Offset(_)     \* how far the business time zone is ahead at an instant

\* The columns created_at and completed_at.
Columns == [createdAt : Int, completedAt : Int \cup {Nil}]

ASSUME TableAssumption ==
    /\ OrderId \subseteq Int /\ IsFiniteSet(OrderId)
    /\ Nil \notin Int \cup Columns
    /\ SlotsPerDay \in Nat \ {0}

VARIABLES
    table,   \* the row of each id, or Nil
    erased   \* ids whose row was deleted: an id is never used again

board == <<table, erased>>

TableInit ==
    /\ table = [o \in OrderId |-> Nil]
    /\ erased = {}

Stored == {o \in OrderId : table[o] # Nil}
\* completed_at IS NULL, IS NOT NULL
Active == {o \in Stored : table[o].completedAt = Nil}
Finished == {o \in Stored : table[o].completedAt # Nil}

\* Every order of a batch is given the instant read when the call began.
Add(S, t) ==
    /\ S # {} /\ S \subseteq OrderId \ (Stored \cup erased)
    /\ \E done \in {Nil, t} :
          table' = [o \in OrderId |->
                        IF o \in S THEN [createdAt |-> t, completedAt |-> done] ELSE table[o]]
    /\ UNCHANGED erased

\* An order is changed, served at the instant t, or taken back to the kitchen.
\* The clock may have been set back since the order was created.
Revise(o, t) ==
    /\ o \in Stored
    /\ \E done \in {Nil, t, table[o].completedAt} :
          table' = [table EXCEPT ![o].completedAt = done]
    /\ UNCHANGED erased

\* One order is removed, or those that a clear selects.
Erase(S) ==
    /\ S # {} /\ S \subseteq Stored
    /\ table' = [o \in OrderId |-> IF o \in S THEN Nil ELSE table[o]]
    /\ erased' = erased \cup S

-----------------------------------------------------------------------------
(* The business calendar: time.Time.In and time.Date of the Go library. *)

LocalTime(t) == t + Offset(t)
DateOf(t) == LocalTime(t) \div SlotsPerDay
SlotOf(t) == LocalTime(t) % SlotsPerDay

\* time.Date with hour, minute and second 0: the offset is looked up at the
\* instant at which it would be midnight in UTC, and again at the one this gives.
Midnight(d) ==
    LET local == d * SlotsPerDay
        guess == local - Offset(local)
    IN  local - Offset(guess)

\* An instant is on a date or later exactly if it is at its midnight or later, and
\* no date is left out: true of a zone, on the dates in use, as long as no clock in
\* it is put forward at midnight or back across it.
ZoneHolds(Instants, Dates) ==
    /\ \A t \in Instants : Offset(t) \in Int
    /\ \A t \in Instants, d \in Dates : Midnight(d) <= t <=> d <= DateOf(t)
    /\ \A d \in Dates : DateOf(Midnight(d)) = d
=============================================================================
