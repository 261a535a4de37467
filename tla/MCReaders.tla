------------------------------ MODULE MCReaders ------------------------------
(***************************************************************************)
(* A small instance of the readers of the order table for TLC: a client    *)
(* that walks through pages, one that keeps a board on its screen, and one *)
(* that asks for statistics.  Readers change nothing another one sees, so  *)
(* that a behaviour has one of them, chosen at the start.                  *)
(*                                                                         *)
(* Days of four instants.  The clock is put forward within day 1, which    *)
(* has three (4..6), and back within day 2, which has five (7..11) and     *)
(* goes through its second slot twice.                                     *)
(***************************************************************************)
EXTENDS OrderPages, Board, Reports, TLC

VARIABLE reader

variables == <<board, walking, version, pending, client, missed, unsure, asked, reader>>

ZoneOffset(t) == IF t \in 5..8 THEN 1 ELSE 0

ASSUME ZoneAssumption == ZoneHolds(-8..19, 0..3)

\* The first order is changed and served twice, the second only made and removed.
VersionBound == (1 :> 3) @@ (2 :> 1) @@ (3 :> 1)

Lean ==
    [staple |-> YiNoodle, size |-> Small, price |-> None, amount |-> Normal, taste |-> 1,
     extra |-> 0, eggs |-> 2, tofu |-> 0, meats |-> <<1>>, dining |-> Takeout,
     pack |-> Container, method |-> Together, note |-> 0]

Forms ==
    <<Lean,
      [Lean EXCEPT !.staple = None, !.size = Custom, !.price = 701, !.meats = <<2, 4>>],
      [Lean EXCEPT !.staple = Rice, !.size = Medium, !.dining = DineIn, !.pack = None,
                   !.method = None, !.eggs = 0, !.meats = <<>>]>>

Init ==
    /\ reader \in {"pages", "board", "reports"}
    /\ TableInit /\ PagesInit /\ BoardInit /\ ReportsInit

NoPages == UNCHANGED walking
NoBoard == UNCHANGED <<version, pending, client, missed, unsure>>
NoReports == UNCHANGED asked

Next ==
    /\ reader' = reader
    /\ \/ reader = "pages" /\ PagesNext({0, 1}) /\ NoBoard /\ NoReports
       \/ reader = "board" /\ BoardNext({{1}, {1, 2}}, {0, 4}, {4}) /\ NoPages /\ NoReports
       \/ reader = "reports" /\ ReportsNext({3, 4, 7, 9, 11}) /\ NoPages /\ NoBoard

Spec == Init /\ [][Next]_variables
=============================================================================
