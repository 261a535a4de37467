----------------------------- MODULE OrderPages ------------------------------
(***************************************************************************)
(* GET /orders: a client walks through the orders of one status page by    *)
(* page, while other requests change the table between two pages.          *)
(*                                                                         *)
(* List of internal/repo/order.go sorts in the database and cuts the page  *)
(* off; the page here is the set of orders that come first.  A page is one *)
(* statement and sees one committed state of the table.                    *)
(***************************************************************************)
EXTENDS OrderTable

CONSTANTS
    Status,        \* ListStatus
    Limit,         \* values clients give for limit
    Absent,        \* no limit, or no cursor
    DefaultLimit,  \* 50 in the code
    MaxLimit       \* 200 in the code

ASSUME PagesAssumption ==
    /\ Status \subseteq {"uncompleted", "completed", "all"}
    /\ Limit \subseteq Int /\ Absent \notin Limit \cup (Int \X Int \X Int)
    /\ DefaultLimit \in Nat \ {0} /\ MaxLimit \in Nat \ {0}

VARIABLES
    walk,     \* where the client is: idle, walking, or done with the last page
    status,   \* the status it lists
    cursor,   \* the key of the last order it was given, or Absent
    seen,     \* per id: how often it was on a page of this walk
    steady    \* history: orders listed under one key ever since the walk began

walking == <<walk, status, cursor, seen, steady>>

PagesInit ==
    /\ walk = "idle"
    /\ status = "all"
    /\ cursor = Absent
    /\ seen = [o \in OrderId |-> 0]
    /\ steady = {}

Listed(s) == CASE s = "uncompleted" -> Active [] s = "completed" -> Finished [] OTHER -> Stored

\* The columns of ORDER BY.
Key(s, o) ==
    <<IF s = "completed" THEN table[o].completedAt ELSE 0, table[o].createdAt, o>>

Less(k, l) ==
    \/ k[1] < l[1]
    \/ k[1] = l[1] /\ k[2] < l[2]
    \/ k[1] = l[1] /\ k[2] = l[2] /\ k[3] < l[3]

\* ASC for what is still to be cooked, DESC otherwise.
Before(s, k, l) == IF s = "uncompleted" THEN Less(k, l) ELSE Less(l, k)

\* The WHERE clause.
Candidates ==
    {o \in Listed(status) : cursor = Absent \/ Before(status, cursor, Key(status, o))}

\* LIMIT after ORDER BY.
First(S, n) ==
    {o \in S : Cardinality({p \in S : Before(status, Key(status, p), Key(status, o))}) < n}

\* parseLimit, for what it accepts, and the bounds List sets.
PageSize(limit) ==
    LET asked == IF limit = Absent THEN DefaultLimit ELSE limit
    IN  IF asked > MaxLimit THEN MaxLimit ELSE asked

AcceptedLimit == {l \in Limit : l > 0} \cup {Absent}

\* Mutant: the cursor is taken from the order after the page.
CursorFromNext(S, n) ==
    \E last \in First(S, n + 1) \ First(S, n) : cursor' = Key(status, last)
CursorFrom(S, n) ==
    \E last \in First(S, n) :
        /\ \A o \in First(S, n) \ {last} : Before(status, Key(status, o), Key(status, last))
        /\ cursor' = Key(status, last)

Start(s) ==
    /\ walk' = "walking"
    /\ status' = s
    /\ cursor' = Absent
    /\ seen' = [o \in OrderId |-> 0]
    /\ steady' = Listed(s)
    /\ UNCHANGED board

\* A request that names a limit or a status the handler rejects changes nothing.
Page(limit) ==
    LET n == PageSize(limit) IN
    /\ walk = "walking"
    /\ seen' = [o \in OrderId |-> IF o \in First(Candidates, n) THEN seen[o] + 1 ELSE seen[o]]
    /\ \/ /\ Cardinality(Candidates) > n
          /\ CursorFrom(Candidates, n)
          /\ walk' = walk
       \/ /\ Cardinality(Candidates) <= n
          /\ walk' = "done"
          /\ cursor' = cursor
    /\ UNCHANGED <<status, steady, board>>

\* A commit while the client walks.
Meanwhile(Commit) ==
    /\ Commit
    /\ UNCHANGED <<walk, status, cursor, seen>>
    /\ steady' = {o \in steady : o \in Listed(status)' /\ Key(status, o)' = Key(status, o)}

PagesNext(Instant) ==
    \/ \E s \in Status : Start(s)
    \/ \E limit \in AcceptedLimit : Page(limit)
    \/ \E t \in Instant :
          \/ \E S \in SUBSET OrderId : Meanwhile(Add(S, t))
          \/ \E o \in OrderId : Meanwhile(Revise(o, t))
    \/ \E S \in SUBSET OrderId : Meanwhile(Erase(S))

PagesSpec(Instant) == TableInit /\ PagesInit /\ [][PagesNext(Instant)]_<<board, walking>>

-----------------------------------------------------------------------------
(* Correctness *)

(***************************************************************************)
(* Whatever commits between two pages, a client that walked to the last    *)
(* page was given every order that was listed under the same key all the   *)
(* time exactly once (List, internal/repo/order.go), and one whose place   *)
(* in the order can never change, active or of any status, never twice.    *)
(***************************************************************************)
PagesComplete ==
    /\ walk = "done" => \A o \in steady : seen[o] = 1
    /\ status # "completed" => \A o \in OrderId : seen[o] <= 1
=============================================================================
