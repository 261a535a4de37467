----------------------------- MODULE OrderLedger -----------------------------
(***************************************************************************)
(* What the order service promises to whoever reads its committed state:   *)
(* the board of orders of a workspace changes only in whole batches,       *)
(* single revisions and deletions.  Orders implements it.                  *)
(***************************************************************************)
EXTENDS OrderStatus, Integers

CONSTANTS
    Id,         \* order ids
    Days,       \* business days
    DayOf(_),   \* the business day of an instant
    Nil         \* no order

VARIABLES
    board,      \* the order of each id, or Nil
    last,       \* the last display number of each day
    dead        \* ids deleted so far

ledger == <<board, last, dead>>

Listed == {o \in Id : board[o] # Nil}

LedgerInit ==
    /\ board = [o \in Id |-> Nil]
    /\ last = [d \in Days |-> 0]
    /\ dead = {}

IsFresh(order) ==
    /\ order # Nil
    /\ order.version = 1 /\ ~order.served
    /\ order.createdAt = order.updatedAt
    /\ ConsistentOrder(order)

SameOutside(S) == \A o \in Id \ S : board'[o] = board[o]

\* A batch of new orders of one day takes the next numbers of that day.
AddBatch ==
    \E B \in SUBSET (Id \ (Listed \cup dead)), d \in Days :
        /\ B # {}
        /\ SameOutside(B)
        /\ \A o \in B : IsFresh(board'[o]) /\ DayOf(board'[o].createdAt) = d
        /\ {board'[o].seq : o \in B} = (last[d] + 1)..last'[d]
        /\ \A o, p \in B : board'[o].seq = board'[p].seq => o = p
        /\ \A e \in Days \ {d} : last'[e] = last[e]
        /\ dead' = dead

\* One order takes its next version; its identity never changes.
Revise ==
    \E o \in Listed :
        /\ SameOutside({o})
        /\ board'[o] # Nil
        /\ board'[o].version = board[o].version + 1
        /\ board'[o].seq = board[o].seq
        /\ board'[o].createdAt = board[o].createdAt
        /\ ConsistentOrder(board'[o])
        /\ UNCHANGED <<last, dead>>

\* Orders disappear for good; the numbering of a day may start over.
Erase ==
    \E S \in SUBSET Listed :
        /\ SameOutside(S)
        /\ \A o \in S : board'[o] = Nil
        /\ dead' = dead \cup S
        /\ \A d \in Days : last'[d] \in {last[d], 0}

LedgerNext == AddBatch \/ Revise \/ Erase

LedgerSpec == LedgerInit /\ [][LedgerNext]_ledger
=============================================================================
