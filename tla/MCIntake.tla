------------------------------ MODULE MCIntake -------------------------------
(***************************************************************************)
(* A small instance of OrderIntake for TLC.  Every code is valid somewhere *)
(* and invalid somewhere; RiceVermicelli is priced and cooked like         *)
(* RiceSheet, and the codes of meats differ in the kidneys only.           *)
(***************************************************************************)
EXTENDS OrderIntake

Drafts ==
    {[staple |-> RiceSheet, size |-> Small, price |-> None, amount |-> Normal, taste |-> 1,
      extra |-> 0, eggs |-> 0, tofu |-> 0, meats |-> <<>>, dining |-> DineIn,
      pack |-> None, method |-> None, note |-> 0]}

FieldValues ==
    [staple |-> {None, RiceSheet, YiNoodle, Rice, 9},
     size |-> {Small, Medium, Large, Custom, 9},
     price |-> {None, -1, 0, 700},
     amount |-> {Normal, 2, 9},
     taste |-> {1, 9},
     extra |-> {-1, 1},
     eggs |-> {-1, 0, 2},
     tofu |-> {-1, 1},
     meats |-> {<<>>, <<6>>, <<4, 1, 4>>, <<6, 1>>, <<7>>},
     dining |-> {DineIn, Takeout, 9},
     pack |-> {None, Container, Bag, 9},
     method |-> {None, Together, 9},
     note |-> {0, MaxNote, MaxNote + 1, 4 * MaxNote}]
=============================================================================
