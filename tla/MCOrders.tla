------------------------------ MODULE MCOrders -------------------------------
(***************************************************************************)
(* Small instances of Orders for TLC.  The configurations choose which     *)
(* operations run together and how far the bounds reach.                   *)
(***************************************************************************)
EXTENDS Orders, TLC

CONSTANTS noodle, pork

PlainForm  == [staple |-> Rice, meats |-> {}]         \* nothing to cook
NoodleForm == [staple |-> noodle, meats |-> {}]       \* one step
FullForm   == [staple |-> noodle, meats |-> {pork}]   \* both steps

Plain          == {PlainForm}
Noodle         == {NoodleForm}
PlainAndFull   == {PlainForm, FullForm}

Staples == {Rice, noodle}
Meats   == {pork}

EditOps     == {"create", "update", "step", "served", "remove"}
NumberOps   == {"create", "remove", "clear"}
ClearOps    == {"create", "clear"}

BothModes   == {"all", "before_today"}
BeforeToday == {"before_today"}
AllMode     == {"all"}
NoModes     == {}

LiveOps     == {"create", "served", "clear"}

\* After a clear raced with the creation of a batch of two, their numbers are
\* taken while the counter starts over (Orders_clear_race).  Here the first of
\* them was removed and one more order was created: the next create meets
\* number 2, and may find it locked by a clear that waits for its counter.
PlainRow(n) ==
    [form |-> PlainForm, staple |-> Unrequired, meat |-> Unrequired,
     served |-> FALSE, version |-> 1, seq |-> n, createdAt |-> 0, updatedAt |-> 0]

InitAfterRace ==
    /\ clock = 0
    /\ orders = [o \in OrderId |-> CASE o = 2 -> PlainRow(2)
                                     [] o = 3 -> PlainRow(1) [] OTHER -> Nil]
    /\ counters = [d \in Day |-> 1]
    /\ issued = 3
    /\ gone = {1}
    /\ event = NoEvent
    /\ pc = [r \in Req |-> "idle"]
    /\ call = [r \in Req |-> Nil]
    /\ cur = [r \in Req |-> Nil]
    /\ start = [r \in Req |-> 0]
    /\ scan = [r \in Req |-> {}]
    /\ rows = [r \in Req |-> NoRows]
    /\ ctrs = [r \in Req |-> NoCtrs]

FairSpecAfterRace == InitAfterRace /\ [][Next]_vars /\ Fairness

Requests == Permutations(Req)
=============================================================================
