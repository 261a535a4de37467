---------------------------- MODULE ReadersProofs ----------------------------
(***************************************************************************)
(* Proofs about the readers of the order table, for any finite set of      *)
(* orders and any commits: a walk through the pages of a list misses and   *)
(* repeats nothing it should not (OrderPages), a client ends up with the   *)
(* board (Board), and statistics agree and add up (Reports).               *)
(***************************************************************************)
EXTENDS OrderPages, Board, Reports, FiniteSetTheorems, WellFoundedInduction, TLAPS

TableOK ==
    /\ table \in [OrderId -> Columns \cup {Nil}]
    /\ erased \subseteq OrderId
    /\ erased \cap Stored = {}

LEMMA AddKeepsTable ==
  ASSUME TableOK, NEW S, NEW t \in Int, Add(S, t)
  PROVE  /\ TableOK' /\ Stored' = Stored \cup S /\ erased' = erased
         /\ S \in SUBSET OrderId /\ S \cap Stored = {} /\ S \cap erased = {}
         /\ \A o \in S : table'[o].createdAt = t
         /\ \A o \in OrderId \ S : table'[o] = table[o]
<1>1. PICK done \in {Nil, t} :
         table' = [o \in OrderId |->
                      IF o \in S THEN [createdAt |-> t, completedAt |-> done] ELSE table[o]]
  BY DEF Add
<1>2. S \in SUBSET OrderId /\ S \cap Stored = {} /\ S \cap erased = {} /\ erased' = erased
  BY DEF Add
<1>3. [createdAt |-> t, completedAt |-> done] \in Columns
  BY DEF Columns
<1>4. Stored' = Stored \cup S
  BY <1>1, <1>2, <1>3, TableAssumption DEF Stored
<1> QED
  BY <1>1, <1>2, <1>3, <1>4 DEF TableOK

LEMMA ReviseKeepsTable ==
  ASSUME TableOK, NEW o \in OrderId, NEW t \in Int, Revise(o, t)
  PROVE  /\ TableOK' /\ Stored' = Stored /\ erased' = erased
         /\ o \in Stored /\ o \notin erased /\ table'[o].createdAt = table[o].createdAt
         /\ \A p \in OrderId \ {o} : table'[p] = table[p]
<1>1. PICK done \in {Nil, t, table[o].completedAt} :
         table' = [table EXCEPT ![o].completedAt = done]
  BY DEF Revise
<1>2. o \in Stored /\ o \notin erased /\ erased' = erased /\ table[o] \in Columns
  BY DEF Revise, TableOK, Stored
<1>3. table'[o] \in Columns /\ table'[o].createdAt = table[o].createdAt
  BY <1>1, <1>2 DEF Columns, TableOK
<1>4. \A p \in OrderId \ {o} : table'[p] = table[p]
  BY <1>1 DEF TableOK
<1>5. table' \in [OrderId -> Columns \cup {Nil}]
  BY <1>1, <1>3, <1>4 DEF TableOK
<1>6. Stored' = Stored
  BY <1>2, <1>3, <1>4, TableAssumption DEF Stored
<1> QED
  BY <1>2, <1>3, <1>4, <1>5, <1>6 DEF TableOK

LEMMA EraseKeepsTable ==
  ASSUME TableOK, NEW S, Erase(S)
  PROVE  /\ TableOK' /\ S \subseteq Stored /\ Stored' = Stored \ S /\ erased' = erased \cup S
         /\ \A o \in OrderId \ S : table'[o] = table[o]
<1>1. /\ table' = [o \in OrderId |-> IF o \in S THEN Nil ELSE table[o]]
      /\ S \subseteq Stored /\ erased' = erased \cup S
  BY DEF Erase
<1>2. Stored' = Stored \ S
  BY <1>1 DEF Stored
<1> QED
  BY <1>1, <1>2 DEF TableOK, Stored

-----------------------------------------------------------------------------
(* The calendar *)

LEMMA DateType ==
  ASSUME NEW Dates, ZoneHolds(Int, Dates), NEW t \in Int
  PROVE  DateOf(t) \in Int
<1>1. Offset(t) \in Int /\ SlotsPerDay \in Nat \ {0}
  BY TableAssumption DEF ZoneHolds
<1>2. PICK local \in Int : local = t + Offset(t)
  BY <1>1
<1>3. local \div SlotsPerDay \in Int
  BY <1>1
<1> QED
  BY <1>2, <1>3 DEF DateOf, LocalTime

LEMMA MidnightType ==
  ASSUME NEW Dates, ZoneHolds(Int, Dates), NEW d \in Int
  PROVE  Midnight(d) \in Int
<1>1. PICK local \in Int : local = d * SlotsPerDay
  BY TableAssumption
<1>2. PICK guess \in Int : guess = local - Offset(local)
  BY <1>1 DEF ZoneHolds
<1>3. local - Offset(guess) \in Int
  BY DEF ZoneHolds
<1> QED
  BY <1>1, <1>2, <1>3 DEF Midnight

\* The instants of a date are those from its midnight to the next one.
LEMMA DayLasts ==
  ASSUME NEW Dates \in SUBSET Int, ZoneHolds(Int, Dates), NEW d \in Dates, d + 1 \in Dates
  PROVE  /\ Midnight(d) \in Int /\ Midnight(d + 1) \in Int
         /\ \A t \in Int : Midnight(d) <= t /\ t < Midnight(d + 1) <=> DateOf(t) = d
         /\ DateOf(Midnight(d + 1) - 1) = d
<1>1. Midnight(d) \in Int /\ Midnight(d + 1) \in Int
  BY MidnightType
<1>2. ASSUME NEW t \in Int
      PROVE  Midnight(d) <= t /\ t < Midnight(d + 1) <=> DateOf(t) = d
  <2>1. DateOf(t) \in Int
    BY DateType
  <2>2. Midnight(d) <= t <=> d <= DateOf(t)
    BY DEF ZoneHolds
  <2>3. Midnight(d + 1) <= t <=> d + 1 <= DateOf(t)
    BY DEF ZoneHolds
  <2> QED
    BY <1>1, <2>1, <2>2, <2>3
<1>3. Midnight(d) < Midnight(d + 1)
  <2>1. DateOf(Midnight(d + 1)) = d + 1 /\ DateOf(Midnight(d)) = d
    BY DEF ZoneHolds
  <2>2. Midnight(d) <= Midnight(d + 1)
    BY <1>1, <2>1 DEF ZoneHolds
  <2> QED
    BY <1>1, <2>1, <2>2
<1>4. Midnight(d + 1) - 1 \in Int
  BY <1>1
<1>5. Midnight(d) <= Midnight(d + 1) - 1 /\ Midnight(d + 1) - 1 < Midnight(d + 1)
  BY <1>1, <1>3
<1> QED
  BY <1>1, <1>2, <1>4, <1>5

-----------------------------------------------------------------------------
(* Pages *)

SortKey == Int \X Int \X Int

\* The orders the client still has to be given, and those it is past.
Ahead(o) == cursor = Absent \/ Before(status, cursor, Key(status, o))

WalkOK ==
    /\ walk \in {"idle", "walking", "done"}
    /\ status \in {"uncompleted", "completed", "all"}
    /\ cursor \in SortKey \cup {Absent}
    /\ seen \in [OrderId -> Nat]
    /\ steady \subseteq Listed(status)

\* An order that kept its place was seen once if the client is past it, and
\* not at all if it is ahead.
SteadySeen ==
    /\ walk = "walking" => \A o \in steady : seen[o] = IF Ahead(o) THEN 0 ELSE 1
    /\ walk = "done" => \A o \in steady : seen[o] = 1

\* Where places are for ever, an order that was seen is not met again.
SeenIsPast ==
    /\ walk = "idle" => \A o \in OrderId : seen[o] = 0
    /\ status # "completed" => \A o \in OrderId :
          /\ seen[o] <= 1
          /\ walk = "walking" /\ seen[o] = 1 => o \in erased \/ (o \in Stored /\ ~Ahead(o))

PagesInv == TableOK /\ WalkOK /\ SteadySeen /\ SeenIsPast

-----------------------------------------------------------------------------
(* The order of the list *)

\* The sort key is a total order: its last column is the id.
LEMMA LessIsTotal ==
  ASSUME NEW k \in SortKey, NEW l \in SortKey
  PROVE  /\ ~Less(k, k)
         /\ ~(Less(k, l) /\ Less(l, k))
         /\ k[3] # l[3] => Less(k, l) \/ Less(l, k)
         /\ \A m \in SortKey : Less(k, l) /\ Less(l, m) => Less(k, m)
  BY DEF Less, SortKey

\* So is either direction of it.
LEMMA BeforeIsTotal ==
  ASSUME NEW s, NEW k \in SortKey, NEW l \in SortKey
  PROVE  /\ ~Before(s, k, k)
         /\ ~(Before(s, k, l) /\ Before(s, l, k))
         /\ k[3] # l[3] => Before(s, k, l) \/ Before(s, l, k)
         /\ \A m \in SortKey : Before(s, k, l) /\ Before(s, l, m) => Before(s, k, m)
  BY LessIsTotal DEF Before

\* A listed order has a key of its own.
LEMMA KeyType ==
  ASSUME TableOK, NEW s \in {"uncompleted", "completed", "all"}, NEW o \in Listed(s)
  PROVE  o \in OrderId /\ o \in Stored /\ Key(s, o) \in SortKey /\ Key(s, o)[3] = o
<1>1. o \in OrderId /\ table[o] # Nil /\ (s = "completed" => table[o].completedAt # Nil)
  BY DEF Listed, Active, Finished, Stored
<1>2. table[o] \in Columns
  BY <1>1 DEF TableOK
<1>3. o \in Int /\ table[o].createdAt \in Int /\ (s = "completed" => table[o].completedAt \in Int)
  BY <1>1, <1>2, TableAssumption DEF Columns
<1> QED
  BY <1>1, <1>3 DEF Key, SortKey, Stored

\* Except in the list of the completed, every stored order has a place.
LEMMA PlaceType ==
  ASSUME TableOK, NEW s, s # "completed", NEW o \in Stored
  PROVE  Key(s, o) \in SortKey
<1>1. o \in Int /\ table[o] \in Columns
  BY TableAssumption DEF TableOK, Stored
<1> QED
  BY <1>1 DEF Key, SortKey, Columns

-----------------------------------------------------------------------------
(* What a page holds *)

\* Everything, when no more is left than fits.
LEMMA LastPageIsWhole ==
  ASSUME TableOK, status \in {"uncompleted", "completed", "all"},
         NEW S \in SUBSET Listed(status), NEW n \in Nat, Cardinality(S) <= n
  PROVE  First(S, n) = S
<1> SUFFICES ASSUME NEW o \in S
             PROVE  Cardinality({p \in S : Before(status, Key(status, p), Key(status, o))}) < n
  BY DEF First
<1> DEFINE earlier == {p \in S : Before(status, Key(status, p), Key(status, o))}
<1>1. IsFiniteSet(S)
  BY KeyType, TableAssumption, FS_Subset
<1>2. o \notin earlier
  BY KeyType, BeforeIsTotal
<1>3. /\ IsFiniteSet(earlier)
      /\ Cardinality(earlier) <= Cardinality(S)
      /\ Cardinality(earlier) # Cardinality(S)
  BY <1>1, <1>2, FS_Subset
<1>4. Cardinality(earlier) \in Nat /\ Cardinality(S) \in Nat
  BY <1>1, <1>3, FS_CardinalityType
<1> QED
  BY <1>3, <1>4

\* Otherwise, the orders up to the one the cursor is taken from.
LEMMA PageEndsAtCursor ==
  ASSUME TableOK, status \in {"uncompleted", "completed", "all"},
         NEW S \in SUBSET Listed(status), NEW n \in Nat, NEW last \in First(S, n),
         \A o \in First(S, n) \ {last} : Before(status, Key(status, o), Key(status, last)),
         NEW o \in S
  PROVE  o \in First(S, n) <=> ~Before(status, Key(status, last), Key(status, o))
<1>1. last \in S
  BY DEF First
<1>2. /\ Key(status, o) \in SortKey /\ Key(status, last) \in SortKey
      /\ Key(status, o)[3] = o /\ Key(status, last)[3] = last
  BY <1>1, KeyType
<1>3. ASSUME o \in First(S, n)
      PROVE  ~Before(status, Key(status, last), Key(status, o))
  BY <1>2, <1>3, BeforeIsTotal
<1>4. ASSUME ~Before(status, Key(status, last), Key(status, o)), o # last
      PROVE  o \in First(S, n)
  <2> DEFINE before(x) == {p \in S : Before(status, Key(status, p), Key(status, x))}
  <2>1. Before(status, Key(status, o), Key(status, last))
    BY <1>2, <1>4, BeforeIsTotal
  <2>2. before(o) \subseteq before(last)
    <3> SUFFICES ASSUME NEW p \in S, Before(status, Key(status, p), Key(status, o))
                 PROVE  Before(status, Key(status, p), Key(status, last))
      OBVIOUS
    <3>1. Key(status, p) \in SortKey
      BY KeyType
    <3> QED
      BY <1>2, <2>1, <3>1, BeforeIsTotal
  <2>3. IsFiniteSet(before(last))
    BY KeyType, TableAssumption, FS_Subset
  <2>4. Cardinality(before(last)) < n
    BY DEF First
  <2>5. /\ Cardinality(before(o)) <= Cardinality(before(last))
        /\ Cardinality(before(o)) \in Nat /\ Cardinality(before(last)) \in Nat
    BY <2>2, <2>3, FS_Subset, FS_CardinalityType
  <2>6. Cardinality(before(o)) < n
    BY <2>4, <2>5
  <2> QED
    BY <2>6 DEF First
<1> QED
  BY <1>1, <1>3, <1>4

-----------------------------------------------------------------------------
(* The steps *)

LEMMA PagesInitially == TableInit /\ PagesInit => PagesInv
<1> SUFFICES ASSUME TableInit, PagesInit PROVE PagesInv
  OBVIOUS
<1>1. TableOK
  BY DEF TableInit, TableOK, Stored
<1>2. WalkOK
  BY DEF PagesInit, WalkOK
<1>3. SteadySeen /\ SeenIsPast
  BY DEF PagesInit, SteadySeen, SeenIsPast
<1> QED
  BY <1>1, <1>2, <1>3 DEF PagesInv

LEMMA StartStep ==
  ASSUME PagesInv, NEW s \in {"uncompleted", "completed", "all"}, Start(s)
  PROVE  PagesInv'
<1>1. TableOK'
  BY DEF PagesInv, TableOK, Start, board, Stored
<1>2. Listed(s)' = Listed(s) /\ Listed(s) \subseteq OrderId
  BY KeyType DEF PagesInv, Start, board, Listed, Active, Finished, Stored
<1>3. WalkOK'
  BY <1>2 DEF WalkOK, Start
<1>4. SteadySeen' /\ SeenIsPast'
  BY <1>2 DEF SteadySeen, SeenIsPast, Ahead, Start
<1> QED
  BY <1>1, <1>3, <1>4 DEF PagesInv

\* What the next page is taken from.
LEMMA CandidatesAhead ==
  ASSUME WalkOK
  PROVE  /\ Candidates \in SUBSET Listed(status)
         /\ \A o \in Listed(status) : o \in Candidates <=> Ahead(o)
  BY DEF Candidates, Ahead

LEMMA PageStep ==
  ASSUME PagesInv, NEW limit \in AcceptedLimit, Page(limit)
  PROVE  PagesInv'
<1> DEFINE n == PageSize(limit)
           C == Candidates
           F == First(C, n)
<1>1. n \in Nat
  BY PagesAssumption DEF PageSize, AcceptedLimit
<1>2. /\ status \in {"uncompleted", "completed", "all"}
      /\ C \in SUBSET Listed(status)
      /\ \A o \in Listed(status) : o \in C <=> Ahead(o)
      /\ TableOK
  BY CandidatesAhead DEF PagesInv, WalkOK
<1>3. F \subseteq C /\ C \subseteq OrderId
  BY <1>2, KeyType DEF First
<1>4. /\ walk = "walking"
      /\ seen' = [o \in OrderId |-> IF o \in F THEN seen[o] + 1 ELSE seen[o]]
      /\ UNCHANGED <<status, steady, table, erased>>
  BY DEF Page, board
<1>5. /\ TableOK'
      /\ seen' \in [OrderId -> Nat] /\ steady' \subseteq Listed(status)'
      /\ Stored' = Stored /\ \A o \in OrderId : Key(status, o)' = Key(status, o)
  BY <1>2, <1>4 DEF PagesInv, TableOK, WalkOK, Stored, Listed, Active, Finished, Key
<1> HIDE DEF n, C, F
<1>6. ASSUME NEW o \in steady
      PROVE  o \in OrderId /\ seen[o] = IF o \in C THEN 0 ELSE 1
  BY <1>2, <1>4, <1>6, KeyType DEF PagesInv, WalkOK, SteadySeen
<1>7. ASSUME NEW o \in OrderId, status # "completed"
      PROVE  /\ seen[o] \in 0..1
             /\ seen[o] = 1 => o \in erased \/ (o \in Stored /\ ~Ahead(o))
             /\ seen[o] = 1 => o \notin C
  <2>1. /\ seen[o] \in 0..1
        /\ seen[o] = 1 => o \in erased \/ (o \in Stored /\ ~Ahead(o))
    BY <1>4, <1>7 DEF PagesInv, WalkOK, SeenIsPast
  <2>2. ASSUME o \in C PROVE o \in Stored /\ Ahead(o) /\ o \notin erased
    BY <1>2, <2>2, KeyType DEF TableOK
  <2> QED
    BY <2>1, <2>2
<1>8. CASE walk' = "done" /\ Cardinality(C) <= n /\ cursor' = cursor
  <2>1. F = C
    BY <1>1, <1>2, <1>8, LastPageIsWhole DEF F
  <2>2. WalkOK'
    BY <1>4, <1>5, <1>8 DEF PagesInv, WalkOK
  <2>3. \A o \in steady : seen'[o] = 1
    BY <1>4, <1>6, <2>1
  <2>4. status # "completed" => \A o \in OrderId : seen'[o] <= 1
    BY <1>4, <1>7, <2>1
  <2>5. SteadySeen' /\ SeenIsPast'
    BY <1>4, <1>8, <2>3, <2>4 DEF SteadySeen, SeenIsPast
  <2> QED
    BY <1>5, <2>2, <2>5 DEF PagesInv
<1>9. CASE walk' = walk /\ CursorFrom(C, n)
  <2>1. PICK last \in F :
           /\ \A o \in F \ {last} : Before(status, Key(status, o), Key(status, last))
           /\ cursor' = Key(status, last)
    BY <1>9 DEF CursorFrom, F
  <2>2. last \in C /\ last \in Listed(status) /\ cursor' \in SortKey
    BY <1>2, <1>3, <2>1, KeyType
  <2>3. cursor' # Absent
    BY <2>2, PagesAssumption DEF SortKey
  <2>4. \A o \in C : o \in F <=> ~Before(status, cursor', Key(status, o))
    BY <1>1, <1>2, <2>1, PageEndsAtCursor DEF F
  <2>5. \A o \in OrderId : Ahead(o)' <=> Before(status, cursor', Key(status, o))
    BY <1>4, <1>5, <2>3 DEF Ahead
  <2>6. ASSUME NEW o, Key(status, o) \in SortKey, ~Ahead(o)
        PROVE  ~Before(status, cursor', Key(status, o))
    <3>1. /\ cursor \in SortKey /\ ~Before(status, cursor, Key(status, o))
          /\ Before(status, cursor, cursor')
      BY <1>2, <2>1, <2>2, <2>6 DEF Ahead, PagesInv, WalkOK
    <3> QED
      BY <2>2, <2>6, <3>1, BeforeIsTotal
  <2>7. WalkOK'
    BY <1>4, <1>5, <1>9, <2>2 DEF PagesInv, WalkOK
  <2>8. ASSUME NEW o \in steady
        PROVE  seen'[o] = IF Ahead(o)' THEN 0 ELSE 1
    <3>1. o \in OrderId /\ o \in Listed(status) /\ seen[o] = IF o \in C THEN 0 ELSE 1
      BY <1>6 DEF PagesInv, WalkOK
    <3>2. CASE o \in C
      BY <1>4, <2>4, <2>5, <3>1, <3>2
    <3>3. CASE o \notin C
      <4>1. Key(status, o) \in SortKey
        BY <1>2, <3>1, KeyType
      <4> QED
        BY <1>2, <1>3, <1>4, <2>5, <2>6, <3>1, <3>3, <4>1
    <3> QED
      BY <3>2, <3>3
  <2>9. ASSUME NEW o \in OrderId, status # "completed"
        PROVE  seen'[o] <= 1 /\ (seen'[o] = 1 => o \in erased \/ (o \in Stored /\ ~Ahead(o)'))
    <3>1. CASE o \in F
      <4>1. o \in C /\ o \in Stored /\ seen[o] = 0
        BY <1>2, <1>3, <1>7, <2>9, <3>1, KeyType
      <4> QED
        BY <1>4, <2>4, <2>5, <3>1, <4>1
    <3>2. CASE o \notin F
      <4>1. seen'[o] = seen[o] /\ seen[o] \in 0..1
        BY <1>4, <1>7, <2>9, <3>2
      <4>2. ASSUME seen[o] = 1, o \notin erased PROVE o \in Stored /\ ~Ahead(o)'
        <5>1. o \in Stored /\ ~Ahead(o)
          BY <1>7, <2>9, <4>2
        <5>2. Key(status, o) \in SortKey
          BY <1>2, <2>9, <5>1, PlaceType
        <5> QED
          BY <2>5, <2>6, <5>1, <5>2
      <4> QED
        BY <4>1, <4>2
    <3> QED
      BY <3>1, <3>2
  <2>10. SteadySeen'
    BY <1>4, <1>9, <2>8 DEF SteadySeen
  <2>11. SeenIsPast'
    BY <1>4, <1>5, <1>9, <2>9 DEF SeenIsPast
  <2> QED
    BY <1>5, <2>7, <2>10, <2>11 DEF PagesInv
<1> QED
  BY <1>8, <1>9 DEF Page, n, C

\* A commit that keeps the keys of what it does not erase.
LEMMA MeanwhileStep ==
  ASSUME PagesInv, TableOK',
         UNCHANGED <<walk, status, cursor, seen>>,
         steady' = {o \in steady : o \in Listed(status)' /\ Key(status, o)' = Key(status, o)},
         \A o \in Stored : \/ o \in erased'
                           \/ o \in Stored' /\ table'[o].createdAt = table[o].createdAt,
         erased \subseteq erased'
  PROVE  PagesInv'
<1>1. WalkOK'
  BY DEF PagesInv, WalkOK
<1>2. \A o \in steady' : o \in steady /\ Ahead(o)' = Ahead(o)
  BY DEF Ahead
<1>3. SteadySeen'
  BY <1>2 DEF PagesInv, SteadySeen
<1>4. ASSUME status # "completed", NEW o \in Stored
      PROVE  o \in erased' \/ (o \in Stored' /\ Ahead(o)' = Ahead(o))
  BY <1>4 DEF Key, Ahead
<1>5. SeenIsPast'
  BY <1>4 DEF PagesInv, SeenIsPast
<1> QED
  BY <1>1, <1>3, <1>5 DEF PagesInv

LEMMA CommitStep ==
  ASSUME PagesInv, NEW Instant \in SUBSET Int,
         \/ \E t \in Instant, S \in SUBSET OrderId : Meanwhile(Add(S, t))
         \/ \E t \in Instant, o \in OrderId : Meanwhile(Revise(o, t))
         \/ \E S \in SUBSET OrderId : Meanwhile(Erase(S))
  PROVE  PagesInv'
<1>1. ASSUME NEW t \in Instant, NEW S \in SUBSET OrderId, Meanwhile(Add(S, t))
      PROVE  PagesInv'
  <2>1. TableOK' /\ erased' = erased /\ \A o \in Stored : o \in Stored' /\ table'[o] = table[o]
    BY <1>1, AddKeepsTable DEF Meanwhile, PagesInv, Stored
  <2> QED
    BY <1>1, <2>1, MeanwhileStep DEF Meanwhile
<1>2. ASSUME NEW t \in Instant, NEW o \in OrderId, Meanwhile(Revise(o, t))
      PROVE  PagesInv'
  <2>1. /\ TableOK' /\ erased' = erased /\ Stored' = Stored
        /\ \A p \in Stored : table'[p].createdAt = table[p].createdAt
    BY <1>2, ReviseKeepsTable DEF Meanwhile, PagesInv, Stored
  <2> QED
    BY <1>2, <2>1, MeanwhileStep DEF Meanwhile
<1>3. ASSUME NEW S \in SUBSET OrderId, Meanwhile(Erase(S))
      PROVE  PagesInv'
  <2>1. /\ TableOK' /\ erased \subseteq erased'
        /\ \A o \in Stored : o \in erased' \/ (o \in Stored' /\ table'[o] = table[o])
    BY <1>3, EraseKeepsTable DEF Meanwhile, PagesInv, Stored
  <2> QED
    BY <1>3, <2>1, MeanwhileStep DEF Meanwhile
<1> QED
  BY <1>1, <1>2, <1>3

LEMMA PagesStep ==
  ASSUME PagesInv, NEW Instant \in SUBSET Int, [PagesNext(Instant)]_<<board, walking>>
  PROVE  PagesInv'
<1>1. CASE UNCHANGED <<board, walking>>
  BY <1>1 DEF board, walking, PagesInv, TableOK, WalkOK, SteadySeen, SeenIsPast, Ahead, Key,
              Stored, Listed, Active, Finished
<1>2. CASE \E s \in Status : Start(s)
  BY <1>2, StartStep, PagesAssumption
<1>3. CASE \E limit \in AcceptedLimit : Page(limit)
  BY <1>3, PageStep
<1> QED
  BY <1>1, <1>2, <1>3, CommitStep DEF PagesNext

-----------------------------------------------------------------------------

(***************************************************************************)
(* A client that reached the last page was given every order that kept its *)
(* place in the list exactly once, and no order of a list whose places are *)
(* for ever twice, however many orders there are, whatever page sizes it   *)
(* asked for and whatever committed between two pages (List,               *)
(* internal/repo/order.go).                                                *)
(***************************************************************************)
THEOREM PagesAreComplete ==
  ASSUME NEW CONSTANT Instant \in SUBSET Int
  PROVE  PagesSpec(Instant) => []PagesComplete
<1>1. PagesInv => PagesComplete
  BY DEF PagesInv, SteadySeen, SeenIsPast, PagesComplete
<1>2. PagesInv /\ [PagesNext(Instant)]_<<board, walking>> => PagesInv'
  BY PagesStep
<1> QED
  BY <1>1, <1>2, PagesInitially, PTL DEF PagesSpec
-----------------------------------------------------------------------------
(* The board of a client *)

\* The rows of an order that are on their way to the client, or have arrived.
InFlight(o) == {e.rows[o] : e \in Upserts(o, pending)}
InAnswer(o) == IF answer # Nil /\ o \in DOMAIN answer THEN {answer[o]} ELSE {}
InView(o) == {view[o]} \ {Nil}
Traces(o) == InFlight(o) \cup InAnswer(o) \cup InView(o)

VersionsOK(Began) ==
    /\ TableOK
    /\ \A o \in Stored : table[o].createdAt \in Began
    /\ version \in [OrderId -> Nat]
    /\ \A o \in OrderId : version[o] = 0 <=> o \notin Stored \cup erased

EventOK(e) ==
    /\ e.kind = "deleted" => e.id \in erased
    /\ e.kind = "cleared" => e.before \in Int \cup {Nil}

ClientOK ==
    /\ \A e \in pending : EventOK(e)
    /\ view \in [OrderId -> Dtos \cup {Nil}]
    /\ barrier \in Int

\* A row that was told is one the order had.
PastRow(o, r, Began) ==
    /\ r \in Dtos /\ r.createdAt \in Began
    /\ r.version \in 1..version[o]
    /\ o \in Stored => /\ r.createdAt = table[o].createdAt
                       /\ r.version = version[o] => r = Dto(o)

RowsOK(o, Began) ==
    /\ \A r \in Traces(o) : PastRow(o, r, Began)
    /\ \A r, q \in Traces(o) : r.createdAt = q.createdAt

ViewOK(o) ==
    /\ o \in deleted => o \in erased /\ view[o] = Nil
    /\ view[o] # Nil => ~Hidden(view[o], barrier)

\* What the client is still to learn of an active order, it will be told.
Announced(o) ==
    link /\ o \in Active /\ o \notin missed =>
        \/ due \/ Hidden(table[o], barrier) \/ view[o] = Dto(o)
        \/ Dto(o) \in InAnswer(o) \cup InFlight(o)

\* The event that takes an order off the board is still to come.
Withdrawn(o) ==
    \/ Deleted(o) \in pending \/ Cleared(Nil) \in pending
    \/ \E e \in pending : /\ e.kind = "cleared" /\ e.before # Nil
                          /\ \A r \in Traces(o) : Hidden(r, e.before)

\* What the client has to forget, it has forgotten or will be told to forget.
Retracted(o) ==
    link /\ o \notin Active /\ o \notin missed /\ o \notin unsure /\ Traces(o) # {} =>
        \/ o \in Stored /\ (view[o] = Dto(o) \/ Dto(o) \in InFlight(o))
        \/ o \in erased /\ (o \in deleted \/ Withdrawn(o))
        \/ \A r \in Traces(o) : Hidden(r, barrier)

OrderOK(o, Began) == RowsOK(o, Began) /\ ViewOK(o) /\ Announced(o) /\ Retracted(o)

BoardInv(Began) ==
    VersionsOK(Began) /\ ClientOK /\ \A o \in OrderId : OrderOK(o, Began)

-----------------------------------------------------------------------------

LEMMA BoardInitially ==
  ASSUME NEW Began, TableInit, BoardInit
  PROVE  BoardInv(Began)
<1>1. Stored = {} /\ VersionsOK(Began)
  BY DEF TableInit, BoardInit, TableOK, VersionsOK, Stored
<1>2. ClientOK
  BY DEF BoardInit, ClientOK
<1>3. ASSUME NEW o \in OrderId PROVE OrderOK(o, Began)
  <2>1. Traces(o) = {}
    BY DEF BoardInit, Traces, InFlight, InAnswer, InView, Upserts
  <2> QED
    BY <2>1 DEF BoardInit, OrderOK, RowsOK, ViewOK, Announced, Retracted
<1> QED
  BY <1>1, <1>2, <1>3 DEF BoardInv

LEMMA DtoType ==
  ASSUME NEW Began, VersionsOK(Began), NEW o \in Stored
  PROVE  Dto(o) \in Dtos
<1>1. o \in OrderId /\ table[o] \in Columns /\ version[o] \in Nat
  BY DEF VersionsOK, TableOK, Stored
<1> QED
  BY <1>1 DEF Dto, Dtos, Columns

\* A step that does not concern an order.
LEMMA KeepOrder ==
  ASSUME NEW Began, NEW o \in OrderId, OrderOK(o, Began),
         UNCHANGED <<link, due, barrier>>,
         table'[o] = table[o], version'[o] = version[o], view'[o] = view[o],
         o \in erased' <=> o \in erased, o \in deleted' <=> o \in deleted,
         o \in missed' <=> o \in missed, o \in unsure' <=> o \in unsure,
         InFlight(o)' = InFlight(o), InAnswer(o)' = InAnswer(o),
         \A e \in pending : \/ e \in pending' \/ e.kind = "upserted"
                            \/ e.kind = "deleted" /\ e.id # o
  PROVE  OrderOK(o, Began)'
<1>1. /\ Dto(o)' = Dto(o)
      /\ o \in Stored' <=> o \in Stored
      /\ o \in Active' <=> o \in Active
  BY DEF Dto, Stored, Active
<1>2. Traces(o)' = Traces(o)
  BY DEF Traces, InView
<1>3. RowsOK(o, Began)'
  BY <1>1, <1>2 DEF OrderOK, RowsOK, PastRow
<1>4. ViewOK(o)'
  BY DEF OrderOK, ViewOK, Hidden
<1>5. Announced(o)'
  BY <1>1 DEF OrderOK, Announced, Hidden
<1>6. Withdrawn(o) => Withdrawn(o)'
  <2>1. Deleted(o) \in pending => Deleted(o) \in pending'
    BY DEF Deleted
  <2>2. Cleared(Nil) \in pending => Cleared(Nil) \in pending'
    BY DEF Cleared
  <2>3. \A e \in pending : e.kind = "cleared" => e \in pending'
    OBVIOUS
  <2> QED
    BY <1>2, <2>1, <2>2, <2>3 DEF Withdrawn, Hidden, Deleted, Cleared
<1>7. Retracted(o)'
  BY <1>1, <1>2, <1>6 DEF OrderOK, Retracted, Hidden
<1> QED
  BY <1>3, <1>4, <1>5, <1>7 DEF OrderOK

\* A commit that makes or changes an order.
LEMMA UpsertOrder ==
  ASSUME NEW Began, NEW o \in OrderId, OrderOK(o, Began), VersionsOK(Began),
         UNCHANGED client,
         o \notin erased, o \notin erased', o \in Stored', Dto(o)' \in Dtos,
         table'[o].createdAt \in Began,
         o \in Stored => table'[o].createdAt = table[o].createdAt,
         version'[o] = version[o] + 1,
         \/ o \in missed' /\ InFlight(o)' = InFlight(o)
         \/ InFlight(o)' = InFlight(o) \cup {Dto(o)'}
  PROVE  OrderOK(o, Began)'
<1>1. version[o] \in Nat /\ (o \notin Stored => version[o] = 0)
  BY DEF VersionsOK
<1>2. \A r \in Traces(o) : PastRow(o, r, Began)
  BY DEF OrderOK, RowsOK
<1>3. \A r \in Traces(o) :
         /\ r \in Dtos /\ r.createdAt \in Began /\ r.version \in 1..version[o]
         /\ r.createdAt = table'[o].createdAt
  BY <1>1, <1>2 DEF PastRow
<1>4. Traces(o)' \subseteq Traces(o) \cup {Dto(o)'}
  BY DEF Traces, InView, InAnswer, client
<1>5. Dto(o)'.createdAt = table'[o].createdAt /\ Dto(o)'.version = version[o] + 1
  BY DEF Dto
<1>6. RowsOK(o, Began)'
  <2>1. ASSUME NEW r \in Traces(o)
        PROVE  PastRow(o, r, Began)'
    BY <1>1, <1>3, <2>1 DEF PastRow, Dtos
  <2>2. PastRow(o, Dto(o), Began)'
    BY <1>1, <1>5 DEF PastRow
  <2> QED
    BY <1>3, <1>4, <1>5, <2>1, <2>2 DEF RowsOK
<1>7. ViewOK(o)'
  BY DEF OrderOK, ViewOK, Hidden, client
<1>8. Announced(o)' /\ Retracted(o)'
  BY DEF Announced, Retracted
<1> QED
  BY <1>6, <1>7, <1>8 DEF OrderOK

\* A commit that removes an order.
LEMMA RemoveOrder ==
  ASSUME NEW Began, NEW o \in OrderId, OrderOK(o, Began),
         UNCHANGED <<client, version>>,
         o \in Stored, o \notin Stored', o \in erased',
         InFlight(o)' = InFlight(o),
         \/ o \in missed' \/ Deleted(o) \in pending' \/ Cleared(Nil) \in pending'
         \/ \E e \in pending' : /\ e.kind = "cleared" /\ e.before # Nil
                                /\ Hidden(table[o], e.before)
  PROVE  OrderOK(o, Began)'
<1>1. Traces(o)' = Traces(o) /\ o \notin Active'
  BY DEF Traces, InView, InAnswer, client, Active
<1>2. RowsOK(o, Began)'
  BY <1>1 DEF OrderOK, RowsOK, PastRow
<1>3. ViewOK(o)'
  BY DEF OrderOK, ViewOK, Hidden, client
<1>4. Announced(o)'
  BY <1>1 DEF Announced
<1>5. \A r \in Traces(o) : r.createdAt = table[o].createdAt
  BY DEF OrderOK, RowsOK, PastRow
<1>6. o \notin missed' => Withdrawn(o)'
  BY <1>1, <1>5 DEF Withdrawn, Hidden, Deleted, Cleared
<1>7. Retracted(o)'
  BY <1>6 DEF Retracted
<1> QED
  BY <1>2, <1>3, <1>4, <1>7 DEF OrderOK
-----------------------------------------------------------------------------

\* A client that is not connected is promised nothing.
LEMMA LoseLink ==
  ASSUME NEW Began, NEW o \in OrderId, OrderOK(o, Began), ~link',
         UNCHANGED <<board, version, view, deleted, barrier>>,
         InFlight(o)' \subseteq InFlight(o), InAnswer(o)' \subseteq InAnswer(o)
  PROVE  OrderOK(o, Began)'
<1>1. Traces(o)' \subseteq Traces(o)
  BY DEF Traces, InView
<1>2. RowsOK(o, Began)'
  BY <1>1 DEF OrderOK, RowsOK, PastRow, Dto, Stored, board
<1>3. ViewOK(o)'
  BY DEF OrderOK, ViewOK, Hidden, board
<1> QED
  BY <1>2, <1>3 DEF OrderOK, Announced, Retracted

\* A client that starts anew, when what it forgets and may be told of later is
\* counted as unsure.
LEMMA ForgetOrder ==
  ASSUME NEW Began, NEW o \in OrderId, OrderOK(o, Began), VersionsOK(Began), StartsAnew,
         UNCHANGED <<board, version, missed>>,
         InFlight(o)' = InFlight(o),
         Ghost(pending') \subseteq unsure'
  PROVE  OrderOK(o, Began)'
<1>1. /\ view'[o] = Nil /\ deleted' = {} /\ due' /\ answer' = Nil
      /\ Dto(o)' = Dto(o) /\ Stored' = Stored /\ Active' = Active
  BY DEF StartsAnew, Dto, Stored, Active, board
<1>2. Traces(o)' = InFlight(o) /\ InFlight(o) \subseteq Traces(o)
  BY <1>1 DEF Traces, InView, InAnswer
<1>3. RowsOK(o, Began)'
  BY <1>1, <1>2 DEF OrderOK, RowsOK, PastRow, board
<1>4. ViewOK(o)' /\ Announced(o)'
  BY <1>1 DEF ViewOK, Announced
<1>5. ASSUME o \notin Active, o \notin unsure', Traces(o)' # {}
      PROVE  \/ o \in Stored /\ Dto(o) \in InFlight(o)
             \/ o \in erased /\ Withdrawn(o)'
  <2>1. /\ \A e \in Upserts(o, pending') : e.rows[o] \in InFlight(o)
        /\ \A r \in InFlight(o) : \E e \in Upserts(o, pending') : r = e.rows[o]
    BY DEF InFlight
  <2>2. Upserts(o, pending') # {} /\ o \notin Ghost(pending')
    BY <1>2, <1>5, <2>1
  <2>3. CASE o \in erased
    <3>1. PICK e \in pending' :
             \/ e = Deleted(o) \/ e = Cleared(Nil)
             \/ /\ e.kind = "cleared" /\ e.before # Nil
                /\ \E u \in Upserts(o, pending') : Hidden(u.rows[o], e.before)
      BY <1>5, <2>2, <2>3 DEF Ghost, Removals
    <3>2. \A r, q \in InFlight(o) : r.createdAt = q.createdAt
      BY <1>2 DEF OrderOK, RowsOK
    <3>3. Withdrawn(o)'
      BY <1>2, <2>1, <3>1, <3>2 DEF Withdrawn, Hidden, Deleted, Cleared
    <3> QED
      BY <2>3, <3>3
  <2>4. CASE o \notin erased
    <3>1. PICK e \in Upserts(o, pending') : ~(e.rows[o].version < version[o])
      BY <1>5, <2>2, <2>4 DEF Ghost
    <3>2. e.rows[o] \in InFlight(o) /\ PastRow(o, e.rows[o], Began)
      BY <1>2, <2>1 DEF OrderOK, RowsOK
    <3>3. version[o] \in Nat /\ e.rows[o].version \in 1..version[o]
      BY <3>2 DEF PastRow, VersionsOK
    <3>4. e.rows[o].version = version[o] /\ version[o] # 0
      BY <3>1, <3>3
    <3>5. o \in Stored
      BY <2>4, <3>4 DEF VersionsOK
    <3> QED
      BY <3>2, <3>4, <3>5 DEF PastRow
  <2> QED
    BY <2>3, <2>4
<1>6. Retracted(o)'
  BY <1>1, <1>5 DEF Retracted, board
<1> QED
  BY <1>3, <1>4, <1>6 DEF OrderOK

\* The client merges a row of an order that it was sent.
LEMMA MergeOrder ==
  ASSUME NEW Began, NEW o \in OrderId, OrderOK(o, Began), VersionsOK(Began),
         NEW rows, o \in DOMAIN rows, rows[o] \in Traces(o), view'[o] = Merged(rows)[o],
         UNCHANGED <<board, version, link, due, deleted, barrier, missed, unsure>>,
         InFlight(o)' \subseteq InFlight(o), InFlight(o) \subseteq InFlight(o)' \cup {rows[o]},
         InAnswer(o)' \subseteq InAnswer(o), InAnswer(o) \subseteq InAnswer(o)' \cup {rows[o]},
         \A e \in pending : e \in pending' \/ e.kind = "upserted"
  PROVE  OrderOK(o, Began)'
<1> DEFINE q == rows[o]
<1>1. /\ Dto(o)' = Dto(o) /\ Stored' = Stored /\ Active' = Active
      /\ Active \subseteq Stored /\ erased \cap Stored = {}
  BY DEF Dto, Stored, Active, board, VersionsOK, TableOK
<1>2. /\ \A r \in Traces(o) : PastRow(o, r, Began)
      /\ \A r, p \in Traces(o) : r.createdAt = p.createdAt
      /\ PastRow(o, q, Began)
  BY DEF OrderOK, RowsOK
<1>3. q # Nil /\ q.version \in Int /\ version[o] \in Nat /\ q.version <= version[o]
  BY <1>2, BoardAssumption DEF PastRow, VersionsOK
<1>4. view[o] # Nil => view[o] \in Traces(o) /\ view[o].version \in 1..version[o]
  BY <1>2 DEF PastRow, Traces, InView
<1>5. view'[o] = IF \/ o \in deleted \/ Hidden(q, barrier)
                    \/ view[o] # Nil /\ view[o].version >= q.version
                 THEN view[o] ELSE q
  BY DEF Merged
<1>6. Traces(o)' \subseteq Traces(o)
  BY <1>5 DEF Traces, InView
<1>7. RowsOK(o, Began)'
  BY <1>1, <1>2, <1>6 DEF RowsOK, PastRow, board
<1>8. ViewOK(o)'
  BY <1>5 DEF OrderOK, ViewOK, Hidden, board
<1>9. ASSUME o \in Stored, view[o] = Dto(o) \/ q = Dto(o)
      PROVE  Hidden(q, barrier) \/ view'[o] = Dto(o)
  <2>1. o \notin deleted
    BY <1>1, <1>9 DEF OrderOK, ViewOK
  <2>2. Dto(o).version = version[o]
    BY DEF Dto
  <2>3. CASE view[o] = Dto(o) /\ view[o] # Nil
    BY <1>3, <1>5, <2>2, <2>3
  <2>4. CASE q = Dto(o)
    <3>1. CASE view[o] # Nil /\ view[o].version >= q.version
      <4>1. view[o].version = version[o]
        BY <1>3, <1>4, <2>2, <2>4, <3>1
      <4> QED
        BY <1>2, <1>4, <1>5, <1>9, <3>1, <4>1 DEF PastRow
    <3> QED
      BY <1>5, <2>1, <2>4, <3>1
  <2>5. CASE view[o] = Dto(o) /\ view[o] = Nil
    BY <1>9, <2>5, DtoType, BoardAssumption
  <2> QED
    BY <1>9, <2>3, <2>4, <2>5
<1>10. o \in Stored => (Hidden(q, barrier) <=> Hidden(table[o], barrier))
  BY <1>2 DEF PastRow, Hidden
<1>11. Announced(o)'
  <2> SUFFICES ASSUME link, o \in Active, o \notin missed, ~due, ~Hidden(table[o], barrier)
               PROVE  view'[o] = Dto(o) \/ Dto(o) \in InAnswer(o)' \cup InFlight(o)'
    BY <1>1 DEF Announced, board, Hidden
  <2>1. view[o] = Dto(o) \/ Dto(o) \in InAnswer(o) \cup InFlight(o)
    BY DEF OrderOK, Announced
  <2> QED
    BY <1>1, <1>9, <1>10, <2>1
<1>12. Hidden(q, barrier) => \A r \in Traces(o) : Hidden(r, barrier)
  BY <1>2 DEF Hidden
<1>13. Withdrawn(o) => Withdrawn(o)'
  <2>1. Deleted(o) \in pending => Deleted(o) \in pending'
    BY DEF Deleted
  <2>2. Cleared(Nil) \in pending => Cleared(Nil) \in pending'
    BY DEF Cleared
  <2>3. \A e \in pending : e.kind = "cleared" => e \in pending'
    OBVIOUS
  <2> QED
    BY <1>6, <2>1, <2>2, <2>3 DEF Withdrawn, Hidden, Deleted, Cleared
<1>14. Retracted(o)'
  <2> SUFFICES ASSUME link, o \notin Active, o \notin missed, o \notin unsure
               PROVE  \/ o \in Stored /\ (view'[o] = Dto(o) \/ Dto(o) \in InFlight(o)')
                      \/ o \in erased /\ (o \in deleted \/ Withdrawn(o)')
                      \/ \A r \in Traces(o)' : Hidden(r, barrier)
    BY <1>1 DEF Retracted, board, Hidden
  <2>1. \/ o \in Stored /\ (view[o] = Dto(o) \/ Dto(o) \in InFlight(o))
        \/ o \in erased /\ (o \in deleted \/ Withdrawn(o))
        \/ \A r \in Traces(o) : Hidden(r, barrier)
    BY DEF OrderOK, Retracted
  <2>2. CASE o \in Stored /\ (view[o] = Dto(o) \/ Dto(o) \in InFlight(o))
    BY <1>6, <1>9, <1>12, <2>2
  <2> QED
    BY <1>6, <1>13, <2>1, <2>2
<1> QED
  BY <1>7, <1>8, <1>11, <1>14 DEF OrderOK

\* The client is told that an order was deleted.
LEMMA DeletedOrder ==
  ASSUME NEW Began, NEW o \in OrderId, OrderOK(o, Began), VersionsOK(Began),
         UNCHANGED <<board, version>>,
         o \in erased, o \in deleted', view'[o] = Nil,
         InFlight(o)' \subseteq InFlight(o), InAnswer(o)' \subseteq InAnswer(o)
  PROVE  OrderOK(o, Began)'
<1>1. Traces(o)' \subseteq Traces(o)
  BY DEF Traces, InView
<1>2. RowsOK(o, Began)'
  BY <1>1 DEF OrderOK, RowsOK, PastRow, Dto, Stored, board
<1>3. ViewOK(o)'
  BY DEF ViewOK, board
<1>4. o \notin Active' /\ o \in erased'
  BY DEF VersionsOK, TableOK, board, Stored, Active
<1> QED
  BY <1>2, <1>3, <1>4 DEF OrderOK, Announced, Retracted

\* The client is told of a clear that left the orders of a date.
LEMMA HideOrder ==
  ASSUME NEW Began, NEW o \in OrderId, OrderOK(o, Began), VersionsOK(Began), ClientOK,
         NEW e \in pending,
         \A t \in Began : DateOf(t) \in Int,
         OnCleared(e), e.before # Nil, pending' = pending \ {e},
         UNCHANGED <<board, version, link, missed>>,
         InFlight(o)' = InFlight(o)
  PROVE  OrderOK(o, Began)'
<1>1. /\ view'[o] = IF view[o] # Nil /\ Hidden(view[o], e.before) THEN Nil ELSE view[o]
      /\ UNCHANGED <<due, answer, deleted, unsure>>
      /\ barrier' = IF e.before > barrier THEN e.before ELSE barrier
      /\ e.kind = "cleared"
  BY DEF OnCleared
<1>2. e.before \in Int /\ barrier \in Int
  BY <1>1 DEF ClientOK, EventOK
<1>3. Dto(o)' = Dto(o) /\ Stored' = Stored /\ Active' = Active
  BY DEF Dto, Stored, Active, board
<1>4. InAnswer(o)' = InAnswer(o) /\ Traces(o)' \subseteq Traces(o)
  BY <1>1 DEF Traces, InView, InAnswer
<1>5. ASSUME NEW r, r.createdAt \in Began
      PROVE  Hidden(r, barrier') <=> Hidden(r, e.before) \/ Hidden(r, barrier)
  <2>1. DateOf(r.createdAt) \in Int
    BY <1>5
  <2> QED
    BY <1>1, <1>2, <2>1 DEF Hidden
<1>6. /\ \A r \in Traces(o) : r.createdAt \in Began
      /\ o \in Stored => \A r \in Traces(o) : r.createdAt = table[o].createdAt
      /\ \A r, q \in Traces(o) : r.createdAt = q.createdAt
  BY DEF OrderOK, RowsOK, PastRow
<1>7. view[o] # Nil => view[o] \in Traces(o)
  BY DEF Traces, InView
<1>8. RowsOK(o, Began)'
  BY <1>3, <1>4 DEF OrderOK, RowsOK, PastRow, board
<1>9. ViewOK(o)'
  <2>1. o \in deleted' => o \in erased' /\ view'[o] = Nil
    BY <1>1 DEF OrderOK, ViewOK, board
  <2>2. view'[o] # Nil => ~Hidden(view'[o], barrier')
    BY <1>1, <1>5, <1>6, <1>7 DEF OrderOK, ViewOK
  <2> QED
    BY <2>1, <2>2 DEF ViewOK, Hidden
<1>10. \A r \in Traces(o) : Hidden(r, e.before) \/ Hidden(r, barrier) => Hidden(r, barrier')
  BY <1>5, <1>6
<1>11. view[o] # Nil /\ view'[o] # view[o] => \A r \in Traces(o) : Hidden(r, barrier')
  BY <1>1, <1>6, <1>7, <1>10 DEF Hidden
<1>12. Announced(o)'
  <2> SUFFICES ASSUME link, o \in Active, o \notin missed, ~due, ~Hidden(table[o], barrier')
               PROVE  view'[o] = Dto(o) \/ Dto(o) \in InAnswer(o) \cup InFlight(o)
    BY <1>1, <1>3, <1>4 DEF Announced, board, Hidden
  <2>1. o \in Stored /\ Dto(o).createdAt = table[o].createdAt
    BY DEF Active, Dto
  <2>2. CASE Hidden(table[o], barrier)
    <3>1. table[o].createdAt \in Began
      BY <2>1 DEF VersionsOK
    <3> QED
      BY <1>5, <2>2, <3>1
  <2>3. CASE view[o] = Dto(o) /\ view[o] # Nil /\ view'[o] # view[o]
    <3>1. Hidden(Dto(o), barrier')
      BY <1>7, <1>11, <2>3
    <3> QED
      BY <2>1, <3>1 DEF Hidden
  <2>4. CASE view[o] = Nil
    BY <1>1, <2>2, <2>4 DEF OrderOK, Announced
  <2> QED
    BY <2>2, <2>3, <2>4 DEF OrderOK, Announced
<1>13. Withdrawn(o) => Withdrawn(o)' \/ \A r \in Traces(o) : Hidden(r, barrier')
  <2>1. Deleted(o) \in pending => Deleted(o) \in pending'
    BY <1>1 DEF Deleted
  <2>2. Cleared(Nil) \in pending => Cleared(Nil) \in pending'
    BY DEF Cleared
  <2>3. ASSUME NEW x \in pending, x.kind = "cleared", x.before # Nil,
               \A r \in Traces(o) : Hidden(r, x.before)
        PROVE  Withdrawn(o)' \/ \A r \in Traces(o) : Hidden(r, barrier')
    BY <1>4, <1>10, <2>3 DEF Withdrawn, Hidden
  <2> QED
    BY <2>1, <2>2, <2>3 DEF Withdrawn, Deleted, Cleared
<1>14. Retracted(o)'
  <2> SUFFICES ASSUME link, o \notin Active, o \notin missed, o \notin unsure, Traces(o) # {}
               PROVE  \/ o \in Stored /\ (view'[o] = Dto(o) \/ Dto(o) \in InFlight(o))
                      \/ o \in erased /\ (o \in deleted \/ Withdrawn(o)')
                      \/ \A r \in Traces(o) : Hidden(r, barrier')
    BY <1>1, <1>3, <1>4 DEF Retracted, board, Hidden
  <2>1. CASE \A r \in Traces(o) : Hidden(r, barrier)
    BY <1>10, <2>1
  <2>2. CASE o \in erased /\ (o \in deleted \/ Withdrawn(o))
    BY <1>13, <2>2
  <2>3. CASE o \in Stored /\ (view[o] = Dto(o) \/ Dto(o) \in InFlight(o))
    BY <1>1, <1>11, <2>3
  <2> QED
    BY <2>1, <2>2, <2>3 DEF OrderOK, Retracted
<1> QED
  BY <1>8, <1>9, <1>12, <1>14 DEF OrderOK

\* The snapshot is read.
LEMMA SnapshotOrder ==
  ASSUME NEW Began, NEW o \in OrderId, OrderOK(o, Began), VersionsOK(Began), Snapshot
  PROVE  OrderOK(o, Began)'
<1>1. /\ answer' = [p \in Active |-> Dto(p)]
      /\ missed' = {p \in missed \ Active : view[p] # Nil \/ Upserts(p, pending) # {}}
      /\ UNCHANGED <<table, erased, version, pending, link, view, deleted, barrier, unsure>>
  BY DEF Snapshot, service, board
<1>2. Dto(o)' = Dto(o) /\ Stored' = Stored /\ Active' = Active /\ InFlight(o)' = InFlight(o)
  BY <1>1 DEF Dto, Stored, Active, InFlight, Upserts
<1>3. InAnswer(o)' = IF o \in Active THEN {Dto(o)} ELSE {}
  <2>1. \A p \in Active : Dto(p) \in Dtos
    BY DtoType DEF Active
  <2>2. Active \in SUBSET OrderId /\ answer' \in [Active -> Dtos]
    BY <1>1, <2>1 DEF Active, Stored
  <2>3. answer' # Nil
    BY <2>2, BoardAssumption
  <2>4. Active = DOMAIN answer' /\ (o \in Active => answer'[o] = Dto(o))
    BY <1>1
  <2> QED
    BY <2>3, <2>4 DEF InAnswer
<1>4. Traces(o)' \subseteq Traces(o) \cup (IF o \in Active THEN {Dto(o)} ELSE {})
  BY <1>1, <1>2, <1>3 DEF Traces, InView
<1>5. o \in Active => PastRow(o, Dto(o), Began)
  <2>1. ASSUME o \in Active
        PROVE  version[o] \in Nat /\ version[o] # 0 /\ o \in Stored
    BY <2>1 DEF VersionsOK, Active
  <2> QED
    BY <2>1, DtoType DEF PastRow, Dto, VersionsOK
<1>6. RowsOK(o, Began)'
  <2>1. \A r \in Traces(o)' : PastRow(o, r, Began)
    BY <1>4, <1>5 DEF OrderOK, RowsOK
  <2>2. \A r, q \in Traces(o)' : r.createdAt = q.createdAt
    BY <1>4, <1>5, <2>1 DEF OrderOK, RowsOK, PastRow, Active
  <2> QED
    BY <1>1, <1>2, <2>1, <2>2 DEF RowsOK, PastRow
<1>7. ViewOK(o)'
  BY <1>1 DEF OrderOK, ViewOK, Hidden
<1>8. Announced(o)'
  BY <1>1, <1>2, <1>3 DEF Announced
<1>9. ASSUME o \notin Active', o \notin missed', o \notin unsure', Traces(o)' # {}
      PROVE  o \notin missed /\ Traces(o)' = InFlight(o) \cup InView(o) /\ Traces(o) # {}
  <2>1. Traces(o)' = InFlight(o) \cup InView(o)
    BY <1>1, <1>2, <1>3, <1>9 DEF Traces, InView
  <2>2. view[o] # Nil \/ Upserts(o, pending) # {}
    BY <1>9, <2>1 DEF InFlight, InView
  <2> QED
    BY <1>1, <1>2, <1>9, <2>1, <2>2 DEF Traces
<1>10. Withdrawn(o) => (o \in Active \/ Withdrawn(o)')
  BY <1>1, <1>4 DEF Withdrawn, Hidden, Deleted, Cleared
<1>11. Retracted(o)'
  <2> SUFFICES ASSUME link, o \notin Active, o \notin missed', o \notin unsure', Traces(o)' # {}
               PROVE  \/ o \in Stored /\ (view[o] = Dto(o) \/ Dto(o) \in InFlight(o))
                      \/ o \in erased /\ (o \in deleted \/ Withdrawn(o)')
                      \/ \A r \in Traces(o)' : Hidden(r, barrier)
    BY <1>1, <1>2 DEF Retracted, Hidden
  <2>1. o \notin missed /\ o \notin unsure /\ Traces(o) # {}
    BY <1>1, <1>2, <1>9
  <2> QED
    BY <1>4, <1>10, <2>1 DEF OrderOK, Retracted
<1> QED
  BY <1>6, <1>7, <1>8, <1>11 DEF OrderOK
-----------------------------------------------------------------------------
(* Commits *)

\* What the event of a commit, sent or not, makes of the rows on their way.
LEMMA CommitTells ==
  ASSUME NEW S, NEW e, Commits(S, e), NEW o
  PROVE  /\ pending \subseteq pending' /\ pending' \subseteq pending \cup {e}
         /\ o \in S => o \in missed' \/ e \in pending'
         /\ o \notin S => (o \in missed' <=> o \in missed) /\ (o \in unsure' <=> o \in unsure)
         /\ e.kind # "upserted" \/ o \notin DOMAIN e.rows => InFlight(o)' = InFlight(o)
         /\ e.kind = "upserted" /\ o \in DOMAIN e.rows /\ o \in S =>
               \/ o \in missed' /\ InFlight(o)' = InFlight(o)
               \/ InFlight(o)' = InFlight(o) \cup {e.rows[o]}
<1>1. CASE pending' = pending /\ missed' = missed \cup S /\ unsure' = unsure
  <2>1. InFlight(o)' = InFlight(o)
    BY <1>1 DEF InFlight, Upserts
  <2> QED
    BY <1>1, <2>1
<1>2. CASE pending' = pending \cup {e} /\ missed' = missed \ S /\ unsure' = unsure \ S
  <2>1. InFlight(o)' = IF e.kind = "upserted" /\ o \in DOMAIN e.rows
                       THEN InFlight(o) \cup {e.rows[o]} ELSE InFlight(o)
    BY <1>2 DEF InFlight, Upserts
  <2> QED
    BY <1>2, <2>1
<1>3. \/ pending' = pending /\ missed' = missed \cup S /\ unsure' = unsure
      \/ pending' = pending \cup {e} /\ missed' = missed \ S /\ unsure' = unsure \ S
  BY DEF Commits
<1> QED
  BY <1>1, <1>2, <1>3

\* A commit leaves alone the orders that it does not write.
LEMMA CommitKeeps ==
  ASSUME NEW Began, NEW S, NEW e, Commits(S, e), NEW o \in OrderId, OrderOK(o, Began),
         o \notin S, e.kind # "upserted" \/ o \notin DOMAIN e.rows,
         table'[o] = table[o], version'[o] = version[o], o \in erased' <=> o \in erased,
         UNCHANGED client
  PROVE  OrderOK(o, Began)'
<1>1. /\ pending \subseteq pending' /\ InFlight(o)' = InFlight(o)
      /\ (o \in missed' <=> o \in missed) /\ (o \in unsure' <=> o \in unsure)
  BY CommitTells
<1>2. UNCHANGED <<link, due, answer, view, deleted, barrier>> /\ InAnswer(o)' = InAnswer(o)
  BY DEF client, InAnswer
<1> QED
  BY <1>1, <1>2, KeepOrder

LEMMA CommitClientOK ==
  ASSUME ClientOK, NEW S, NEW e, Commits(S, e), EventOK(e)', erased \subseteq erased',
         UNCHANGED client
  PROVE  ClientOK'
<1>1. pending' \subseteq pending \cup {e}
  BY DEF Commits
<1> QED
  BY <1>1 DEF ClientOK, EventOK, client

\* Creation and changes.
LEMMA UpsertStep ==
  ASSUME NEW Began \in SUBSET Int, BoardInv(Began), NEW S \in SUBSET OrderId, 
         VersionsOK(Began)', Commits(S, Upserted(S)'), UNCHANGED <<erased, client>>,
         S \cap erased = {},
         \A o \in S : /\ o \in Stored' /\ version'[o] = version[o] + 1
                      /\ o \in Stored => table'[o].createdAt = table[o].createdAt,
         \A o \in OrderId \ S : table'[o] = table[o] /\ version'[o] = version[o]
  PROVE  BoardInv(Began)'
<1>1. PICK e : e = Upserted(S)'
  OBVIOUS
<1>2. Commits(S, e) /\ e.kind = "upserted" /\ DOMAIN e.rows = S /\ \A o \in S : e.rows[o] = Dto(o)'
  BY <1>1 DEF Upserted
<1>3. ClientOK'
  BY <1>2, CommitClientOK DEF BoardInv, EventOK
<1>4. ASSUME NEW o \in OrderId, o \notin S PROVE OrderOK(o, Began)'
  BY <1>2, <1>4, CommitKeeps DEF BoardInv
<1>5. ASSUME NEW o \in OrderId, o \in S PROVE OrderOK(o, Began)'
  <2>1. \/ o \in missed' /\ InFlight(o)' = InFlight(o)
        \/ InFlight(o)' = InFlight(o) \cup {Dto(o)'}
    BY <1>2, <1>5, CommitTells
  <2>2. o \in Stored' /\ table'[o] \in Columns /\ version'[o] \in Nat /\ table'[o].createdAt \in Began
    BY <1>5 DEF VersionsOK, TableOK, Stored
  <2>3. Dto(o)' \in Dtos
    BY <2>2 DEF Dto, Dtos, Columns
  <2> QED
    BY <1>5, <2>1, <2>2, <2>3, UpsertOrder DEF BoardInv
<1> QED
  BY <1>3, <1>4, <1>5 DEF BoardInv

LEMMA CreateBatchStep ==
  ASSUME NEW Began \in SUBSET Int, BoardInv(Began), NEW S, NEW t \in Began, CreateBatch(S, t)
  PROVE  BoardInv(Began)'
<1>1. /\ version' = [o \in OrderId |-> IF o \in S THEN 1 ELSE version[o]]
      /\ Commits(S, Upserted(S)') /\ UNCHANGED client
  BY DEF CreateBatch
<1>2. /\ TableOK' /\ Stored' = Stored \cup S /\ erased' = erased
      /\ S \in SUBSET OrderId /\ S \cap Stored = {} /\ S \cap erased = {}
      /\ \A o \in S : table'[o].createdAt = t
      /\ \A o \in OrderId \ S : table'[o] = table[o]
  BY AddKeepsTable DEF CreateBatch, BoardInv, VersionsOK
<1>3. VersionsOK(Began)'
  <2>1. \A o \in Stored' : table'[o].createdAt \in Began
    BY <1>2 DEF BoardInv, VersionsOK, Stored
  <2>2. /\ version' \in [OrderId -> Nat]
        /\ \A o \in OrderId : version'[o] = 0 <=> o \notin Stored' \cup erased'
    BY <1>1, <1>2 DEF BoardInv, VersionsOK
  <2> QED
    BY <1>2, <2>1, <2>2 DEF VersionsOK
<1>4. \A o \in S : version[o] = 0
  BY <1>2 DEF BoardInv, VersionsOK
<1> QED
  BY <1>1, <1>2, <1>3, <1>4, UpsertStep

LEMMA MutateStep ==
  ASSUME NEW Began \in SUBSET Int, BoardInv(Began), NEW o \in OrderId, NEW t \in Int, Mutate(o, t)
  PROVE  BoardInv(Began)'
<1>1. Commits({o}, Upserted({o})') /\ UNCHANGED client
  BY DEF Mutate
<1>2. /\ TableOK' /\ Stored' = Stored /\ erased' = erased
      /\ o \in Stored /\ o \notin erased /\ table'[o].createdAt = table[o].createdAt
      /\ \A p \in OrderId \ {o} : table'[p] = table[p]
  BY ReviseKeepsTable DEF Mutate, BoardInv, VersionsOK
<1>3. /\ version' \in [OrderId -> Nat]
      /\ \A p \in OrderId : version'[p] = IF p = o THEN version[p] + 1 ELSE version[p]
  BY DEF Mutate, NextVersion, BoardInv, VersionsOK
<1>4. VersionsOK(Began)'
  <2>1. \A p \in Stored' : table'[p].createdAt \in Began
    BY <1>2 DEF BoardInv, VersionsOK, Stored
  <2>2. \A p \in OrderId : version'[p] = 0 <=> version[p] = 0
    BY <1>2, <1>3 DEF BoardInv, VersionsOK
  <2> QED
    BY <1>2, <1>3, <2>1, <2>2 DEF BoardInv, VersionsOK
<1> QED
  BY <1>1, <1>2, <1>3, <1>4, UpsertStep

\* Removal of one order, and clears.
LEMMA RemovalStep ==
  ASSUME NEW Began \in SUBSET Int, BoardInv(Began), NEW S \in SUBSET Stored, NEW e, Commits(S, e),
         table' = [o \in OrderId |-> IF o \in S THEN Nil ELSE table[o]],
         erased' = erased \cup S, UNCHANGED <<version, client>>,
         e.kind # "upserted", EventOK(e)',
         \A o \in S : \/ e = Deleted(o) \/ e = Cleared(Nil)
                      \/ e.kind = "cleared" /\ e.before # Nil /\ Hidden(table[o], e.before)
  PROVE  BoardInv(Began)'
<1>1. Stored' = Stored \ S
  BY DEF Stored
<1>2. VersionsOK(Began)'
  BY <1>1 DEF BoardInv, VersionsOK, TableOK, Stored
<1>3. ClientOK'
  BY CommitClientOK DEF BoardInv
<1>4. ASSUME NEW o \in OrderId, o \notin S PROVE OrderOK(o, Began)'
  BY <1>4, CommitKeeps DEF BoardInv
<1>5. ASSUME NEW o \in OrderId, o \in S PROVE OrderOK(o, Began)'
  <2>1. InFlight(o)' = InFlight(o) /\ (o \in missed' \/ e \in pending')
    BY <1>5, CommitTells
  <2>2. o \in Stored /\ o \notin Stored' /\ o \in erased' /\ OrderOK(o, Began)
    BY <1>1, <1>5 DEF BoardInv
  <2>3. \/ o \in missed' \/ Deleted(o) \in pending' \/ Cleared(Nil) \in pending'
        \/ \E x \in pending' : x.kind = "cleared" /\ x.before # Nil /\ Hidden(table[o], x.before)
    BY <1>5, <2>1
  <2> QED
    BY <2>1, <2>2, <2>3, RemoveOrder
<1> QED
  BY <1>2, <1>3, <1>4, <1>5 DEF BoardInv

LEMMA RemoveStep ==
  ASSUME NEW Began \in SUBSET Int, BoardInv(Began), NEW o \in OrderId, Remove(o)
  PROVE  BoardInv(Began)'
<1>1. PICK e : e = Deleted(o)
  OBVIOUS
<1>2. e.kind = "deleted" /\ e.id = o
  BY <1>1 DEF Deleted
<1>3. /\ o \in Stored /\ Commits({o}, e) /\ UNCHANGED <<version, client>>
      /\ table' = [p \in OrderId |-> IF p \in {o} THEN Nil ELSE table[p]]
      /\ erased' = erased \cup {o}
  BY <1>1 DEF Remove, Erase
<1>4. EventOK(e)'
  BY <1>2, <1>3 DEF EventOK
<1> QED
  BY <1>1, <1>2, <1>3, <1>4, RemovalStep

LEMMA ClearStep ==
  ASSUME NEW Began \in SUBSET Int, BoardInv(Began), NEW S \in SUBSET Stored,
         NEW key \in Int \cup {Nil},
         key # Nil => \A o \in S : Hidden(table[o], key), Clear(S, key)
  PROVE  BoardInv(Began)'
<1>1. PICK e : e = Cleared(key)
  OBVIOUS
<1>2. e.kind = "cleared" /\ e.before = key /\ Commits(S, e) /\ UNCHANGED <<version, client>>
  BY <1>1 DEF Cleared, Clear
<1>3. table' = [o \in OrderId |-> IF o \in S THEN Nil ELSE table[o]] /\ erased' = erased \cup S
  <2>1. CASE S = {}
    BY <2>1 DEF Clear, board, BoardInv, VersionsOK, TableOK
  <2>2. CASE S # {}
    BY <2>2 DEF Clear, Erase
  <2> QED
    BY <2>1, <2>2
<1>4. EventOK(e)'
  BY <1>2 DEF EventOK
<1>5. \A o \in S : \/ e = Cleared(Nil)
                   \/ e.kind = "cleared" /\ e.before # Nil /\ Hidden(table[o], e.before)
  BY <1>1, <1>2
<1> QED
  BY <1>2, <1>3, <1>4, <1>5, RemovalStep

\* What a clear of the day of t deletes is of an earlier date.
LEMMA ClearedIsHidden ==
  ASSUME NEW Began \in SUBSET Int, NEW Today \in SUBSET Int,
         ZoneHolds(Int, {DateOf(t) : t \in Today}), BoardInv(Began),
         NEW t \in Today, NEW o \in CreatedBeforeToday(t)
  PROVE  DateOf(t) \in Int /\ Hidden(table[o], DateOf(t))
<1>1. o \in Stored /\ table[o].createdAt \in Began /\ table[o].createdAt < Midnight(DateOf(t))
  BY DEF CreatedBeforeToday, BoardInv, VersionsOK
<1>2. Midnight(DateOf(t)) <= table[o].createdAt <=> DateOf(t) <= DateOf(table[o].createdAt)
  BY <1>1 DEF ZoneHolds
<1>3. DateOf(t) \in Int /\ DateOf(table[o].createdAt) \in Int
  BY <1>1, DateType
<1>4. Midnight(DateOf(t)) \in Int
  BY <1>3, MidnightType
<1>5. table[o].createdAt \in Int
  BY <1>1
<1>6. ~(Midnight(DateOf(t)) <= table[o].createdAt)
  BY <1>1, <1>4, <1>5
<1>7. DateOf(table[o].createdAt) < DateOf(t)
  BY <1>2, <1>3, <1>6
<1> QED
  BY <1>3, <1>7 DEF Hidden

LEMMA OperationStep ==
  ASSUME NEW Batches, NEW Began \in SUBSET Int, NEW Today \in SUBSET Int,
         ZoneHolds(Int, {DateOf(t) : t \in Today}), BoardInv(Began), Operation(Batches, Began, Today)
  PROVE  BoardInv(Began)'
<1>1. ASSUME NEW t \in Today, ClearBeforeToday(t)
      PROVE  BoardInv(Began)'
  <2>1. CreatedBeforeToday(t) \in SUBSET Stored
    BY DEF CreatedBeforeToday
  <2>2. DateOf(t) \in Int /\ \A o \in CreatedBeforeToday(t) : Hidden(table[o], DateOf(t))
    BY ClearedIsHidden, DateType
  <2>3. PICK S, key : /\ S = CreatedBeforeToday(t) /\ key = DateOf(t) /\ Clear(S, key)
    BY <1>1 DEF ClearBeforeToday
  <2> QED
    BY <2>1, <2>2, <2>3, ClearStep
<1>2. ASSUME ClearAll
      PROVE  BoardInv(Began)'
  <2>1. PICK S : S = Stored /\ Clear(S, Nil)
    BY <1>2 DEF ClearAll
  <2> QED
    BY <2>1, ClearStep
<1>3. ASSUME NEW o \in OrderId, NEW t \in Today, Mutate(o, t)
      PROVE  BoardInv(Began)'
  BY <1>3, MutateStep
<1> QED
  BY <1>1, <1>2, <1>3, CreateBatchStep, RemoveStep DEF Operation
-----------------------------------------------------------------------------
(* What happens to the client *)

\* Publish of an event of rows, and the arrival of the snapshot.
LEMMA MergeStep ==
  ASSUME NEW Began \in SUBSET Int, BoardInv(Began), NEW rows, view' = Merged(rows),
         UNCHANGED <<board, version, link, due, deleted, barrier, missed, unsure>>,
         \/ \E e \in pending : /\ e.kind = "upserted" /\ rows = e.rows
                               /\ pending' = pending \ {e} /\ answer' = answer
         \/ answer # Nil /\ rows = answer /\ answer' = Nil /\ pending' = pending
  PROVE  BoardInv(Began)'
<1>1. VersionsOK(Began)'
  BY DEF BoardInv, VersionsOK, TableOK, board, Stored
<1>2. ASSUME NEW o \in OrderId
      PROVE  /\ InFlight(o)' \subseteq InFlight(o) /\ InAnswer(o)' \subseteq InAnswer(o)
             /\ o \in DOMAIN rows =>
                   /\ rows[o] \in Traces(o)
                   /\ InFlight(o) \subseteq InFlight(o)' \cup {rows[o]}
                   /\ InAnswer(o) \subseteq InAnswer(o)' \cup {rows[o]}
             /\ o \notin DOMAIN rows => InFlight(o)' = InFlight(o) /\ InAnswer(o)' = InAnswer(o)
  <2>1. ASSUME NEW e \in pending, e.kind = "upserted", rows = e.rows,
               pending' = pending \ {e}, answer' = answer
        PROVE  /\ InAnswer(o)' = InAnswer(o) /\ InFlight(o)' \subseteq InFlight(o)
               /\ o \in DOMAIN rows =>
                     rows[o] \in InFlight(o) /\ InFlight(o) \subseteq InFlight(o)' \cup {rows[o]}
               /\ o \notin DOMAIN rows => InFlight(o)' = InFlight(o)
    BY <2>1 DEF InFlight, InAnswer, Upserts
  <2>2. ASSUME answer # Nil, rows = answer, answer' = Nil, pending' = pending
        PROVE  /\ InFlight(o)' = InFlight(o) /\ InAnswer(o)' = {}
               /\ InAnswer(o) = IF o \in DOMAIN rows THEN {rows[o]} ELSE {}
    BY <2>2 DEF InFlight, InAnswer, Upserts
  <2> QED
    BY <2>1, <2>2 DEF Traces
<1>3. \A e \in pending : e \in pending' \/ e.kind = "upserted"
  OBVIOUS
<1>4. ASSUME NEW o \in OrderId PROVE OrderOK(o, Began)'
  <2>1. CASE o \in DOMAIN rows
    BY <1>2, <1>3, <2>1, MergeOrder DEF BoardInv
  <2>2. CASE o \notin DOMAIN rows
    <3>1. view'[o] = view[o]
      BY <2>2 DEF Merged
    <3>2. UNCHANGED <<link, due, barrier, table, erased, version, deleted, missed, unsure>>
      BY DEF board
    <3> QED
      BY <1>2, <1>3, <2>2, <3>1, <3>2, KeepOrder DEF BoardInv
  <2> QED
    BY <2>1, <2>2
<1>5. ClientOK'
  <2>1. \A e \in pending' : EventOK(e)'
    BY DEF BoardInv, ClientOK, EventOK, board
  <2>2. ASSUME NEW o \in OrderId PROVE view'[o] \in Dtos \cup {Nil}
    <3>1. view'[o] # Nil => view'[o] \in Traces(o)'
      BY DEF Traces, InView
    <3> QED
      BY <1>4, <3>1 DEF OrderOK, RowsOK, PastRow
  <2>3. view' \in [OrderId -> Dtos \cup {Nil}]
    BY <2>2 DEF Merged
  <2> QED
    BY <2>1, <2>3 DEF BoardInv, ClientOK
<1> QED
  BY <1>1, <1>4, <1>5 DEF BoardInv

\* Connect, and the event of a clear of everything.
LEMMA StartsAnewStep ==
  ASSUME NEW Began \in SUBSET Int, BoardInv(Began), StartsAnew, UNCHANGED <<board, version, missed>>,
         \A o \in OrderId : InFlight(o)' = InFlight(o), pending' \subseteq pending,
         Ghost(pending') \subseteq unsure'
  PROVE  BoardInv(Began)'
<1>1. VersionsOK(Began)'
  BY DEF BoardInv, VersionsOK, TableOK, board, Stored
<1>2. ClientOK'
  BY DEF BoardInv, ClientOK, EventOK, board, StartsAnew
<1>3. ASSUME NEW o \in OrderId PROVE OrderOK(o, Began)'
  BY ForgetOrder DEF BoardInv
<1> QED
  BY <1>1, <1>2, <1>3 DEF BoardInv

\* The connection is lost, or was before.
LEMMA LoseLinkStep ==
  ASSUME NEW Began \in SUBSET Int, BoardInv(Began), ~link',
         UNCHANGED <<board, version, view, deleted, barrier>>,
         pending' \subseteq pending, answer' \in {answer, Nil}
  PROVE  BoardInv(Began)'
<1>1. VersionsOK(Began)'
  BY DEF BoardInv, VersionsOK, TableOK, board, Stored
<1>2. ClientOK'
  BY DEF BoardInv, ClientOK, EventOK, board
<1>3. ASSUME NEW o \in OrderId PROVE OrderOK(o, Began)'
  <2>1. InFlight(o)' \subseteq InFlight(o) /\ InAnswer(o)' \subseteq InAnswer(o)
    BY DEF InFlight, InAnswer, Upserts
  <2> QED
    BY <2>1, LoseLink DEF BoardInv
<1> QED
  BY <1>1, <1>2, <1>3 DEF BoardInv

\* The event of a deletion reaches the client.
LEMMA OnDeletedStep ==
  ASSUME NEW Began \in SUBSET Int, BoardInv(Began), NEW e \in pending, OnDeleted(e),
         pending' = pending \ {e}, UNCHANGED <<board, version, link, missed>>
  PROVE  BoardInv(Began)'
<1>1. VersionsOK(Began)'
  BY DEF BoardInv, VersionsOK, TableOK, board, Stored
<1>2. /\ e.kind = "deleted" /\ e.id \in erased /\ e.id \in OrderId
      /\ view' = [view EXCEPT ![e.id] = Nil] /\ deleted' = deleted \cup {e.id}
      /\ UNCHANGED <<due, answer, barrier, unsure>>
  BY DEF OnDeleted, BoardInv, ClientOK, EventOK, VersionsOK, TableOK
<1>3. ClientOK'
  BY <1>2 DEF BoardInv, ClientOK, EventOK, board
<1>4. \A o \in OrderId : view'[o] = IF o = e.id THEN Nil ELSE view[o]
  BY <1>2 DEF BoardInv, ClientOK
<1>5. ASSUME NEW o \in OrderId PROVE OrderOK(o, Began)'
  <2>1. InFlight(o)' = InFlight(o) /\ InAnswer(o)' = InAnswer(o)
    BY <1>2 DEF InFlight, InAnswer, Upserts
  <2>2. CASE o = e.id
    BY <1>2, <1>4, <2>1, <2>2, DeletedOrder DEF BoardInv
  <2>3. CASE o # e.id
    <3>1. UNCHANGED <<link, due, barrier, table, erased, version, missed, unsure>>
      BY <1>2 DEF board
    <3>2. /\ view'[o] = view[o] /\ (o \in deleted' <=> o \in deleted)
          /\ \A x \in pending : \/ x \in pending' \/ x.kind = "upserted"
                                \/ x.kind = "deleted" /\ x.id # o
      BY <1>2, <1>4, <2>3
    <3> QED
      BY <2>1, <3>1, <3>2, KeepOrder DEF BoardInv
  <2> QED
    BY <2>2, <2>3
<1> QED
  BY <1>1, <1>3, <1>5 DEF BoardInv

\* So does that of a clear.
LEMMA OnClearedStep ==
  ASSUME NEW Began \in SUBSET Int, NEW Dates, ZoneHolds(Int, Dates), BoardInv(Began),
         NEW e \in pending, OnCleared(e),
         pending' = pending \ {e}, UNCHANGED <<board, version, link, missed>>
  PROVE  BoardInv(Began)'
<1>1. e.kind = "cleared" /\ \A o \in OrderId : InFlight(o)' = InFlight(o)
  BY DEF OnCleared, InFlight, Upserts
<1>2. CASE e.before = Nil
  <2>1. StartsAnew /\ Ghost(pending') \subseteq unsure'
    BY <1>2 DEF OnCleared
  <2> QED
    BY <1>1, <2>1, StartsAnewStep
<1>3. CASE e.before # Nil
  <2>1. VersionsOK(Began)'
    BY DEF BoardInv, VersionsOK, TableOK, board, Stored
  <2>2. e.before \in Int
    BY <1>1, <1>3 DEF BoardInv, ClientOK, EventOK
  <2>3. ClientOK'
    BY <1>3, <2>2 DEF BoardInv, ClientOK, EventOK, board, OnCleared
  <2>4. ASSUME NEW o \in OrderId PROVE OrderOK(o, Began)'
    BY <1>1, <1>3, HideOrder, DateType DEF BoardInv
  <2> QED
    BY <2>1, <2>3, <2>4 DEF BoardInv
<1> QED
  BY <1>2, <1>3

LEMMA PublishStep ==
  ASSUME NEW Began \in SUBSET Int, NEW Dates, ZoneHolds(Int, Dates), BoardInv(Began),
         NEW e \in pending, Publish(e)
  PROVE  BoardInv(Began)'
<1>1. pending' = pending \ {e} /\ UNCHANGED <<board, version, link, missed>>
  BY DEF Publish
<1>2. CASE ~link
  BY <1>1, <1>2, LoseLinkStep DEF Publish
<1>3. CASE link /\ OnUpserted(e)
  <2>1. PICK rows : rows = e.rows
    OBVIOUS
  <2> QED
    BY <1>1, <1>3, <2>1, MergeStep DEF OnUpserted
<1> QED
  BY <1>1, <1>2, <1>3, OnDeletedStep, OnClearedStep DEF Publish

LEMMA ClientStep ==
  ASSUME NEW Began \in SUBSET Int, BoardInv(Began),
         Connect \/ Snapshot \/ Merge \/ Disconnect \/ Crash
  PROVE  BoardInv(Began)'
<1>1. CASE Connect
  <2>1. /\ StartsAnew /\ UNCHANGED <<board, version, pending, missed>>
        /\ Ghost(pending') \subseteq unsure'
    BY <1>1 DEF Connect, service
  <2>2. \A o \in OrderId : InFlight(o)' = InFlight(o)
    BY <2>1 DEF InFlight, Upserts
  <2> QED
    BY <2>1, <2>2, StartsAnewStep
<1>2. CASE Snapshot
  <2>1. VersionsOK(Began)' /\ ClientOK'
    BY <1>2 DEF Snapshot, BoardInv, VersionsOK, TableOK, service, board, Stored, ClientOK, EventOK
  <2> QED
    BY <1>2, <2>1, SnapshotOrder DEF BoardInv
<1>3. CASE Merge
  <2>1. PICK rows : rows = answer
    OBVIOUS
  <2> QED
    BY <1>3, <2>1, MergeStep DEF Merge, service
<1>4. CASE Disconnect \/ Crash
  BY <1>4, LoseLinkStep DEF Disconnect, Crash, service
<1> QED
  BY <1>1, <1>2, <1>3, <1>4

LEMMA BoardStep ==
  ASSUME NEW Batches, NEW Began \in SUBSET Int, NEW Today \in SUBSET Int,
         ZoneHolds(Int, {DateOf(t) : t \in Today}), BoardInv(Began),
         [BoardNext(Batches, Began, Today)]_everything
  PROVE  BoardInv(Began)'
<1>1. CASE UNCHANGED everything
  <2>1. UNCHANGED <<table, erased, version, pending, link, due, answer, view, deleted, barrier,
                    missed, unsure>>
    BY <1>1 DEF everything, service, client, board
  <2>2. VersionsOK(Began)' /\ ClientOK'
    BY <2>1 DEF BoardInv, VersionsOK, TableOK, Stored, ClientOK, EventOK
  <2>3. ASSUME NEW o \in OrderId PROVE OrderOK(o, Began)'
    <3>1. InFlight(o)' = InFlight(o) /\ InAnswer(o)' = InAnswer(o)
      BY <2>1 DEF InFlight, InAnswer, Upserts
    <3> QED
      BY <2>1, <3>1, KeepOrder DEF BoardInv
  <2> QED
    BY <2>2, <2>3 DEF BoardInv
<1>3. CASE Operation(Batches, Began, Today)
  BY <1>3, OperationStep
<1>4. CASE \E e \in pending : Publish(e)
  BY <1>4, PublishStep
<1>5. CASE Connect \/ Snapshot \/ Merge \/ Disconnect \/ Crash
  BY <1>5, ClientStep
<1> QED
  BY <1>1, <1>3, <1>4, <1>5 DEF BoardNext

-----------------------------------------------------------------------------

LEMMA BoardInvShows ==
  ASSUME NEW Began \in SUBSET Int, BoardInv(Began)
  PROVE  QuietClientShowsBoard
<1> SUFFICES ASSUME Quiet
             PROVE  /\ \A o \in Active \ missed : Hidden(table[o], barrier) \/ view[o] = Dto(o)
                    /\ \A o \in Shown \ (missed \cup unsure) : o \in Active /\ view[o] = Dto(o)
  BY DEF QuietClientShowsBoard
<1>1. link /\ pending = {} /\ ~due /\ answer = Nil
  BY DEF Quiet
<1>2. \A o \in OrderId : InFlight(o) = {} /\ InAnswer(o) = {} /\ Traces(o) = InView(o)
  BY <1>1 DEF InFlight, InAnswer, Traces, Upserts
<1>3. ASSUME NEW o \in Active \ missed
      PROVE  Hidden(table[o], barrier) \/ view[o] = Dto(o)
  <2>1. o \in OrderId /\ Announced(o)
    BY <1>3 DEF BoardInv, OrderOK, Active, Stored
  <2> QED
    BY <1>1, <1>2, <1>3, <2>1 DEF Announced
<1>4. ASSUME NEW o \in Shown \ (missed \cup unsure)
      PROVE  o \in Active /\ view[o] = Dto(o)
  <2>1. /\ o \in OrderId /\ view[o] # Nil /\ view[o].completedAt = Nil
        /\ OrderOK(o, Began) /\ Traces(o) = {view[o]}
    BY <1>2, <1>4 DEF Shown, InView, BoardInv
  <2>2. ~Hidden(view[o], barrier) /\ PastRow(o, view[o], Began) /\ o \notin deleted
    BY <2>1 DEF OrderOK, ViewOK, RowsOK
  <2>3. CASE o \in Active
    <3>1. ~Hidden(table[o], barrier)
      BY <2>2, <2>3 DEF PastRow, Hidden, Active
    <3> QED
      BY <1>3, <1>4, <2>3, <3>1
  <2>4. CASE o \notin Active
    <3>1. o \in Stored /\ view[o] = Dto(o)
      BY <1>1, <1>2, <1>4, <2>1, <2>2, <2>4 DEF OrderOK, Retracted, Withdrawn
    <3> QED
      BY <2>1, <2>4, <3>1 DEF Dto, Active
  <2> QED
    BY <2>3, <2>4
<1> QED
  BY <1>3, <1>4

(***************************************************************************)
(* A connected client that has received its snapshot and every event shows *)
(* the active orders as the table has them, whatever was committed,        *)
(* published, lost and reordered before (Publish after commit,             *)
(* internal/service/v1/order.go), for any orders and any instants of a     *)
(* zone that puts no clock back across midnight.                           *)
(***************************************************************************)
THEOREM QuietClientsShowBoard ==
  ASSUME NEW CONSTANT Batches, NEW CONSTANT Began \in SUBSET Int,
         NEW CONSTANT Today \in SUBSET Int, ZoneHolds(Int, {DateOf(t) : t \in Today})
  PROVE  BoardSpec(Batches, Began, Today) => []QuietClientShowsBoard
<1>1. TableInit /\ BoardInit => BoardInv(Began)
  BY BoardInitially
<1>2. BoardInv(Began) /\ [BoardNext(Batches, Began, Today)]_everything => BoardInv(Began)'
  BY BoardStep
<1>3. BoardInv(Began) => QuietClientShowsBoard
  BY BoardInvShows
<1> QED
  BY <1>1, <1>2, <1>3, PTL DEF BoardSpec

-----------------------------------------------------------------------------
(* Sums *)

\* h[s] is the sum of f over s, for every part s of S, as MapThenSumSet takes it.
IsSum(h, f, S) ==
    h = [s \in SUBSET S |-> IF s = {} THEN 0
                            ELSE f[CHOOSE x \in s : TRUE] + h[s \ {CHOOSE x \in s : TRUE}]]

\* so that it grows element by element.
AddsUp(h, f, S) ==
    /\ h[{}] = 0
    /\ \A s \in SUBSET S : s # {} => \E x \in s : h[s] = f[x] + h[s \ {x}]

\* A set of numbers has a least one,
LEMMA LeastNumber ==
  ASSUME NEW T, T \subseteq Nat, T # {}
  PROVE  \E n \in T : \A m \in T : n <= m
<1>1. PICK n \in T : \A m \in T : <<m, n>> \notin OpToRel(<, Nat)
  BY WFMin, NatLessThanWellFounded, Zenon
<1>2. \A m \in T : ~(m < n)
  BY <1>1, Zenon DEF OpToRel
<1>3. n \in Nat /\ \A m \in T : m \in Nat
  OBVIOUS
<1>4. \A m \in T : n <= m
  BY <1>2, <1>3
<1> QED
  BY <1>4

\* and a set of finite sets has one of the fewest elements.
LEMMA FewestElements ==
  ASSUME NEW S, IsFiniteSet(S), NEW T, T \subseteq SUBSET S, T # {}
  PROVE  \E s \in T : \A u \in T : Cardinality(s) <= Cardinality(u)
<1> DEFINE N == {Cardinality(s) : s \in T}
<1>1. \A s \in T : Cardinality(s) \in Nat
  BY FS_Subset, FS_CardinalityType
<1>2. N \subseteq Nat /\ N # {}
  BY <1>1
<1>3. PICK n \in N : \A m \in N : n <= m
  <2> HIDE DEF N
  <2> QED
    BY <1>2, LeastNumber
<1> QED
  BY <1>3

\* Sums are there,
LEMMA SumExists ==
  ASSUME NEW S, IsFiniteSet(S), NEW f \in [S -> Int]
  PROVE  \E h : IsSum(h, f, S)
<1> DEFINE Of(h, s) == IF s = {} THEN 0
                       ELSE f[CHOOSE x \in s : TRUE] + h[s \ {CHOOSE x \in s : TRUE}]
           Upto(k) == {s \in SUBSET S : Cardinality(s) <= k}
           Good(k) == \E h \in [Upto(k) -> Int] : \A s \in Upto(k) : h[s] = Of(h, s)
           T == {k \in Nat : ~Good(k)}
<1>1. \A s \in SUBSET S : Cardinality(s) \in Nat /\ IsFiniteSet(s)
  BY FS_Subset, FS_CardinalityType
<1>2. \A s \in SUBSET S : s # {} =>
         /\ (CHOOSE x \in s : TRUE) \in s
         /\ s \ {CHOOSE x \in s : TRUE} \in SUBSET S
         /\ Cardinality(s \ {CHOOSE x \in s : TRUE}) = Cardinality(s) - 1
         /\ f[CHOOSE x \in s : TRUE] \in Int
  <2> SUFFICES ASSUME NEW s \in SUBSET S, s # {}
               PROVE  /\ (CHOOSE x \in s : TRUE) \in s
                      /\ s \ {CHOOSE x \in s : TRUE} \in SUBSET S
                      /\ Cardinality(s \ {CHOOSE x \in s : TRUE}) = Cardinality(s) - 1
                      /\ f[CHOOSE x \in s : TRUE] \in Int
    OBVIOUS
  <2>1. (CHOOSE x \in s : TRUE) \in s
    OBVIOUS
  <2> QED
    BY <1>1, <2>1, FS_RemoveElement
<1>3. Good(0)
  <2>1. \A s \in Upto(0) : s = {}
    BY <1>1, FS_EmptySet
  <2>2. [s \in Upto(0) |-> 0] \in [Upto(0) -> Int]
    OBVIOUS
  <2> QED
    BY <2>1, <2>2
<1>4. ASSUME NEW k \in Nat, Good(k) PROVE Good(k + 1)
  <2>1. PICK h \in [Upto(k) -> Int] : \A s \in Upto(k) : h[s] = Of(h, s)
    BY <1>4
  <2> DEFINE g == [s \in Upto(k + 1) |-> Of(h, s)]
  <2>2. \A s \in Upto(k + 1) : s # {} => s \ {CHOOSE x \in s : TRUE} \in Upto(k)
    BY <1>1, <1>2
  <2>3. g \in [Upto(k + 1) -> Int]
    BY <1>2, <2>2
  <2>4. \A s \in Upto(k) : s \in Upto(k + 1) /\ g[s] = h[s]
    BY <1>1, <2>1
  <2>5. ASSUME NEW s \in Upto(k + 1) PROVE Of(g, s) = Of(h, s)
    <3>1. CASE s = {}
      BY <3>1
    <3>2. CASE s # {}
      <4>1. PICK u \in Upto(k) : u = s \ {CHOOSE x \in s : TRUE}
        BY <2>2, <3>2
      <4>2. g[u] = h[u]
        BY <2>4
      <4> HIDE DEF g
      <4> QED
        BY <4>1, <4>2
    <3> QED
      BY <3>1, <3>2
  <2>6. \A s \in Upto(k + 1) : g[s] = Of(g, s)
    BY <2>5
  <2> QED
    BY <2>3, <2>6
<1>5. T = {}
  <2> SUFFICES ASSUME T # {} PROVE FALSE
    OBVIOUS
  <2>1. PICK k \in T : \A m \in T : k <= m
    <3>1. T \subseteq Nat
      OBVIOUS
    <3> HIDE DEF T
    <3> QED
      BY <3>1, LeastNumber
  <2> HIDE DEF Good
  <2>2. k \in Nat /\ k # 0 /\ ~Good(k)
    BY <1>3, <2>1
  <2>3. k - 1 \in Nat /\ (k - 1) + 1 = k /\ ~(k <= k - 1)
    BY <2>2
  <2>4. Good(k - 1)
    BY <2>1, <2>3
  <2> QED
    BY <1>4, <2>2, <2>3, <2>4
<1>6. PICK n \in Nat : n = Cardinality(S)
  BY FS_CardinalityType
<1>7. Good(n)
  <2> HIDE DEF Good
  <2> QED
    BY <1>5
<1>8. Upto(n) = SUBSET S
  BY <1>1, <1>6, FS_Subset
<1>9. PICK h \in [SUBSET S -> Int] : \A s \in SUBSET S : h[s] = Of(h, s)
  BY <1>7, <1>8
<1>10. h = [s \in SUBSET S |-> Of(h, s)]
  BY <1>9
<1> QED
  BY <1>10 DEF IsSum

\* and are taken element by element.
LEMMA SumStep ==
  ASSUME NEW S, NEW f, NEW h, IsSum(h, f, S)
  PROVE  AddsUp(h, f, S)
<1>1. \A s \in SUBSET S : h[s] = IF s = {} THEN 0
                                 ELSE f[CHOOSE x \in s : TRUE] + h[s \ {CHOOSE x \in s : TRUE}]
  BY DEF IsSum
<1>2. \A s \in SUBSET S : s # {} => (CHOOSE x \in s : TRUE) \in s
  OBVIOUS
<1> QED
  BY <1>1, <1>2 DEF AddsUp

\* and are the sums of the library.
LEMMA SumIs ==
  ASSUME NEW S, IsFiniteSet(S), NEW f \in [S -> Int]
  PROVE  \E h : AddsUp(h, f, S) /\ SumFunction(f) = h[S]
<1> DEFINE iter == CHOOSE h : h = [s \in SUBSET S |-> IF s = {} THEN 0
                         ELSE f[CHOOSE x \in s : TRUE] + h[s \ {CHOOSE x \in s : TRUE}]]
<1>1. DOMAIN f = S
  OBVIOUS
<1>2. SumFunction(f) = iter[S]
  BY <1>1 DEF SumFunction, SumFunctionOnSet, FoldFunctionOnSet, MapThenFoldSet
<1>3. PICK h : IsSum(h, f, S)
  BY SumExists
<1>4. IsSum(iter, f, S)
  BY <1>3 DEF IsSum
<1> HIDE DEF iter
<1>5. AddsUp(iter, f, S)
  BY <1>4, SumStep
<1> QED
  BY <1>2, <1>5

\* A sum of terms that are all at least, or all at most, some number.
LEMMA SumBetween ==
  ASSUME NEW S, IsFiniteSet(S), NEW f \in [S -> Int], NEW b \in Int
  PROVE  /\ SumFunction(f) \in Int
         /\ (\A x \in S : b <= f[x]) => b * Cardinality(S) <= SumFunction(f)
         /\ (\A x \in S : f[x] <= b) => SumFunction(f) <= b * Cardinality(S)
<1>1. PICK h : AddsUp(h, f, S) /\ SumFunction(f) = h[S]
  BY SumIs
<1> DEFINE Least == \A x \in S : b <= f[x]
           Most == \A x \in S : f[x] <= b
           Within(s) == /\ h[s] \in Int
                        /\ Least => b * Cardinality(s) <= h[s]
                        /\ Most => h[s] <= b * Cardinality(s)
           T == {s \in SUBSET S : ~Within(s)}
<1>2. \A s \in SUBSET S : IsFiniteSet(s) /\ Cardinality(s) \in Nat
  BY FS_Subset, FS_CardinalityType
<1>3. T = {}
  <2> SUFFICES ASSUME T # {} PROVE FALSE
    OBVIOUS
  <2>1. PICK s \in T : \A u \in T : Cardinality(s) <= Cardinality(u)
    <3>1. T \subseteq SUBSET S
      OBVIOUS
    <3> HIDE DEF T
    <3> QED
      BY <3>1, FewestElements
  <2>2. s \in SUBSET S /\ ~Within(s)
    BY <2>1
  <2>3. s # {}
    <3>1. Within({})
      <4>1. Cardinality({}) = 0
        BY FS_EmptySet
      <4> QED
        BY <1>1, <4>1 DEF AddsUp
    <3> HIDE DEF Within
    <3> QED
      BY <2>2, <3>1
  <2>4. PICK x \in s : h[s] = f[x] + h[s \ {x}]
    BY <1>1, <2>2, <2>3 DEF AddsUp
  <2>5. PICK u \in SUBSET S, n \in Nat :
           u = s \ {x} /\ n = Cardinality(u) /\ Cardinality(s) = n + 1
    <3>1. Cardinality(s \ {x}) = Cardinality(s) - 1
      BY <1>2, <2>2, <2>4, FS_RemoveElement
    <3>2. s \ {x} \in SUBSET S
      BY <2>2
    <3> QED
      BY <1>2, <2>2, <3>1, <3>2
  <2>6. Within(u)
    <3> HIDE DEF Within
    <3>1. ~(Cardinality(s) <= Cardinality(u))
      BY <2>5
    <3> QED
      BY <2>1, <2>5, <3>1
  <2>7. PICK v \in Int, w \in Int, m \in Int : v = f[x] /\ w = h[u] /\ m = b * n
    BY <2>2, <2>4, <2>6
  <2>8. /\ Least => b <= v /\ m <= w
        /\ Most => v <= b /\ w <= m
        /\ h[s] = v + w
    BY <2>2, <2>4, <2>5, <2>6, <2>7
  <2>9. b * Cardinality(s) = m + b
    BY <2>5, <2>7
  <2> HIDE DEF Least, Most
  <2> QED
    BY <2>2, <2>7, <2>8, <2>9
<1> HIDE DEF Least, Most
<1>4. Within(S)
  BY <1>3
<1> QED
  BY <1>1, <1>4 DEF Least, Most

\* Sums of the sizes of parts that have nothing in common.
LEMMA SumOfParts ==
  ASSUME NEW S, IsFiniteSet(S), NEW f \in [S -> Int], NEW Whole, IsFiniteSet(Whole),
         NEW part \in [S -> SUBSET Whole],
         \A x \in S : f[x] = Cardinality(part[x]),
         \A x, y \in S : x # y => part[x] \cap part[y] = {}
  PROVE  SumFunction(f) = Cardinality(UNION {part[x] : x \in S})
<1>1. PICK h : AddsUp(h, f, S) /\ SumFunction(f) = h[S]
  BY SumIs
<1> DEFINE All(s) == UNION {part[x] : x \in s}
           T == {s \in SUBSET S : h[s] # Cardinality(All(s))}
<1>2. \A s \in SUBSET S : IsFiniteSet(s) /\ Cardinality(s) \in Nat
  BY FS_Subset, FS_CardinalityType
<1>3. \A s \in SUBSET S : All(s) \in SUBSET Whole /\ IsFiniteSet(All(s))
  BY FS_Subset
<1>4. T = {}
  <2> SUFFICES ASSUME T # {} PROVE FALSE
    OBVIOUS
  <2>1. PICK s \in T : \A u \in T : Cardinality(s) <= Cardinality(u)
    <3>1. T \subseteq SUBSET S
      OBVIOUS
    <3> HIDE DEF T
    <3> QED
      BY <3>1, FewestElements
  <2>2. s \in SUBSET S /\ h[s] # Cardinality(All(s))
    BY <2>1
  <2>3. s # {}
    <3>1. All({}) = {} /\ Cardinality({}) = 0
      BY FS_EmptySet
    <3> QED
      BY <1>1, <2>2, <3>1 DEF AddsUp
  <2>4. PICK x \in s : h[s] = f[x] + h[s \ {x}]
    BY <1>1, <2>2, <2>3 DEF AddsUp
  <2>5. PICK u \in SUBSET S : u = s \ {x} /\ Cardinality(u) < Cardinality(s)
    <3>1. Cardinality(s \ {x}) = Cardinality(s) - 1
      BY <1>2, <2>2, <2>4, FS_RemoveElement
    <3>2. s \ {x} \in SUBSET S
      BY <2>2
    <3> QED
      BY <1>2, <2>2, <3>1, <3>2
  <2>6. h[u] = Cardinality(All(u))
    BY <1>2, <2>1, <2>2, <2>5
  <2>7. All(s) = part[x] \cup All(u)
    BY <2>4, <2>5
  <2>8. part[x] \cap All(u) = {}
    BY <2>2, <2>4, <2>5
  <2>9. PICK p, q : p = part[x] /\ q = All(u)
    OBVIOUS
  <2>10. IsFiniteSet(p) /\ IsFiniteSet(q) /\ Cardinality(p \cap q) = 0
    <3>1. part[x] \in SUBSET Whole
      BY <2>2, <2>4
    <3> QED
      BY <1>3, <2>5, <2>8, <2>9, <3>1, FS_Subset, FS_EmptySet
  <2>11. Cardinality(p \cup q) = Cardinality(p) + Cardinality(q)
    <3>1. Cardinality(p) \in Nat /\ Cardinality(q) \in Nat
      BY <2>10, FS_CardinalityType
    <3>2. Cardinality(p \cup q) = Cardinality(p) + Cardinality(q) - Cardinality(p \cap q)
      BY <2>10, FS_Union
    <3> QED
      BY <2>10, <3>1, <3>2
  <2> QED
    BY <2>2, <2>4, <2>5, <2>6, <2>7, <2>9, <2>11
<1> QED
  BY <1>1, <1>4

\* A rounded average is no less than a lower bound, and no more than an upper one.
LEMMA RoundedBetween ==
  ASSUME NEW sum \in Int, NEW n \in Nat \ {0}, NEW b \in Int
  PROVE  /\ Rounded(sum, n) \in Int
         /\ b * n <= sum => b <= Rounded(sum, n)
         /\ sum <= b * n => Rounded(sum, n) <= b
<1>1. PICK a \in Int, d \in Nat \ {0} : a = 2 * sum + n /\ d = 2 * n
  OBVIOUS
<1>2. PICK q \in Int : q = a \div d
  OBVIOUS
<1>3. Rounded(sum, n) = q
  BY <1>1, <1>2 DEF Rounded
<1>4. d * q <= a /\ a < d * q + d
  BY <1>2
<1>5. PICK p \in Int, c \in Int : p = n * q /\ c = n * b
  OBVIOUS
<1>6. d * q = 2 * p /\ b * n = c
  BY <1>1, <1>5
<1>7. 2 * p <= 2 * sum + n /\ 2 * sum + n < 2 * p + 2 * n
  BY <1>1, <1>4, <1>6
<1>8. ASSUME q < b PROVE p <= c - n
  <2>1. n * (b - q - 1) >= 0
    BY <1>8
  <2>2. n * (b - q - 1) = c - p - n
    BY <1>5
  <2> QED
    BY <1>5, <2>1, <2>2
<1>9. ASSUME b < q PROVE p >= c + n
  <2>1. n * (q - b - 1) >= 0
    BY <1>9
  <2>2. n * (q - b - 1) = p - c - n
    BY <1>5
  <2> QED
    BY <1>5, <2>1, <2>2
<1> QED
  BY <1>3, <1>5, <1>6, <1>7, <1>8, <1>9

-----------------------------------------------------------------------------
(* Groups of orders *)

\* A stored form has a size and a staple of the menu, and a price.
LEMMA StoredForm ==
  ASSUME NEW o \in OrderId
  PROVE  /\ FormOf[o].size \in SizeCode
         /\ FormOf[o].staple \in StapleCode \cup {None}
         /\ Price(o) \in Int
<1>1. PICK f \in Form : f = FormOf[o] /\ Normalize(f) = f /\ f # Rejected
  BY ReportsAssumption
<1>2. ValidAnyNote(f)
  BY <1>1 DEF Normalize, Valid
<1>3. /\ f.size \in SizeCode /\ f.staple \in StapleCode \cup {None}
      /\ f.price \in Int \cup {None} /\ f.eggs \in Int /\ f.tofu \in Int /\ f.extra \in Int
  BY <1>2 DEF ValidAnyNote, Form
<1>4. CustomPriced(f)
  BY <1>1 DEF Normalize
<1>5. BasePrice(f) \in Int
  BY <1>3, <1>4 DEF BasePrice, PriceBySize, SizeCode, CustomPriced
<1>6. Extras(f) \in Int
  BY <1>3 DEF Extras
<1>7. TotalPrice(f) \in Int
  BY <1>3, <1>5, <1>6 DEF TotalPrice
<1> QED
  BY <1>1, <1>3, <1>7 DEF Price

\* Two parts that make up a whole and have nothing in common.
LEMMA TwoParts ==
  ASSUME NEW S, IsFiniteSet(S), NEW A, NEW B, A \cup B = S, A \cap B = {}
  PROVE  /\ IsFiniteSet(A) /\ IsFiniteSet(B)
         /\ Cardinality(A) \in Nat /\ Cardinality(B) \in Nat
         /\ Cardinality(A) + Cardinality(B) = Cardinality(S)
<1>1. IsFiniteSet(A) /\ IsFiniteSet(B)
  <2>1. A \in SUBSET S /\ B \in SUBSET S
    OBVIOUS
  <2> QED
    BY <2>1, FS_Subset
<1>2. Cardinality(A) \in Nat /\ Cardinality(B) \in Nat
  BY <1>1, FS_CardinalityType
<1>3. Cardinality(A \cup B) = Cardinality(A) + Cardinality(B) - Cardinality(A \cap B)
  BY <1>1, FS_Union
<1>4. Cardinality(A \cap B) = 0
  BY FS_EmptySet
<1> QED
  BY <1>1, <1>2, <1>3, <1>4

LEMMA SizesAddUp ==
  ASSUME NEW S \in SUBSET OrderId
  PROVE  Sizes(S).standard + Sizes(S).custom = Cardinality(S)
<1> DEFINE Of(size) == {o \in S : FormOf[o].size = size}
<1>1. IsFiniteSet(S)
  BY FS_Subset, TableAssumption
<1>2. \A o \in S : FormOf[o].size \in {Small, Medium, Large, Custom}
  BY StoredForm DEF SizeCode
<1>3. /\ Of(Small) \cap Of(Medium) = {}
      /\ (Of(Small) \cup Of(Medium)) \cap Of(Large) = {}
      /\ (Of(Small) \cup Of(Medium) \cup Of(Large)) \cap Of(Custom) = {}
      /\ Of(Small) \cup Of(Medium) \cup Of(Large) \cup Of(Custom) = S
  BY <1>2 DEF Small, Medium, Large, Custom
<1>4. /\ Sizes(S).standard =
            Cardinality(Of(Small)) + Cardinality(Of(Medium)) + Cardinality(Of(Large))
      /\ Sizes(S).custom = Cardinality(Of(Custom))
  BY DEF Sizes, Count
<1>5. PICK s, m, l, c : s = Of(Small) /\ m = Of(Medium) /\ l = Of(Large) /\ c = Of(Custom)
  OBVIOUS
<1> HIDE DEF Of
<1>6. /\ s \cap m = {} /\ (s \cup m) \cap l = {} /\ (s \cup m \cup l) \cap c = {}
      /\ (s \cup m \cup l) \cup c = S
  BY <1>3, <1>5
<1>7. /\ IsFiniteSet(s \cup m \cup l) /\ Cardinality(s \cup m \cup l) \in Nat /\ Cardinality(c) \in Nat
      /\ Cardinality(s \cup m \cup l) + Cardinality(c) = Cardinality(S)
  BY <1>1, <1>6, TwoParts
<1>8. /\ IsFiniteSet(s \cup m) /\ Cardinality(s \cup m) \in Nat /\ Cardinality(l) \in Nat
      /\ Cardinality(s \cup m) + Cardinality(l) = Cardinality(s \cup m \cup l)
  BY <1>6, <1>7, TwoParts
<1>9. /\ Cardinality(s) \in Nat /\ Cardinality(m) \in Nat
      /\ Cardinality(s) + Cardinality(m) = Cardinality(s \cup m)
  BY <1>6, <1>8, TwoParts
<1> QED
  BY <1>4, <1>5, <1>7, <1>8, <1>9

LEMMA StaplesAddUp ==
  ASSUME NEW S \in SUBSET OrderId
  PROVE  /\ SumFunction(Staples(S).sales) + Staples(S).none = Cardinality(S)
         /\ Staples(S).unknown = 0
<1> DEFINE part == [code \in StapleCode |-> {o \in S : FormOf[o].staple = code}]
           sales == [code \in StapleCode |-> Cardinality(part[code])]
           sold == {o \in S : FormOf[o].staple \in StapleCode}
           none == {o \in S : FormOf[o].staple = None}
<1>1. IsFiniteSet(S)
  BY FS_Subset, TableAssumption
<1>2. \A o \in S : FormOf[o].staple \in StapleCode \cup {None}
  BY StoredForm
<1>3. None \notin StapleCode
  BY FormAssumption DEF StapleCode, RiceSheet, RiceVermicelli, YiNoodle, Rice
<1>4. /\ Staples(S).sales = sales
      /\ Staples(S).none = Cardinality(none)
      /\ Staples(S).unknown =
            Cardinality({o \in S : FormOf[o].staple # None /\ FormOf[o].staple \notin StapleCode})
  <2>1. sales = [code \in StapleCode |-> Cardinality({o \in S : FormOf[o].staple = code})]
    OBVIOUS
  <2> QED
    BY <2>1 DEF Staples, Count
<1>5. SumFunction(sales) = Cardinality(UNION {part[code] : code \in StapleCode})
  <2>1. IsFiniteSet(StapleCode)
    <3>1. StapleCode = 1..4
      BY DEF StapleCode, RiceSheet, RiceVermicelli, YiNoodle, Rice
    <3>2. PICK first \in Int, last \in Int : first = 1 /\ last = 4
      OBVIOUS
    <3>3. IsFiniteSet(first..last)
      BY FS_Interval
    <3> QED
      BY <3>1, <3>2, <3>3
  <2>2. part \in [StapleCode -> SUBSET S]
    OBVIOUS
  <2>3. sales \in [StapleCode -> Int]
    BY <1>1, <2>2, FS_Subset, FS_CardinalityType
  <2>4. /\ \A x \in StapleCode : sales[x] = Cardinality(part[x])
        /\ \A x, y \in StapleCode : x # y => part[x] \cap part[y] = {}
    OBVIOUS
  <2> HIDE DEF part, sales
  <2> QED
    BY <1>1, <2>1, <2>2, <2>3, <2>4, SumOfParts
<1>6. UNION {part[code] : code \in StapleCode} = sold
  OBVIOUS
<1>7. sold \cup none = S /\ sold \cap none = {}
  BY <1>2, <1>3
<1>8. Cardinality(sold) + Cardinality(none) = Cardinality(S)
  <2> HIDE DEF sold, none
  <2> QED
    BY <1>1, <1>7, TwoParts
<1>9. {o \in S : FormOf[o].staple # None /\ FormOf[o].staple \notin StapleCode} = {}
  BY <1>2
<1> QED
  BY <1>4, <1>5, <1>6, <1>8, <1>9, FS_EmptySet

LEMMA OverlapsAddUp ==
  ASSUME NEW S \in SUBSET OrderId
  PROVE  /\ Count(S, LeanMeatOnly) <= Union(S)
         /\ Count(S, NoIntestine) <= Union(S)
         /\ Union(S) <= Cardinality(S)
<1> DEFINE lean == {o \in S : LeanMeatOnly(FormOf[o])}
           noIntestine == {o \in S : NoIntestine(FormOf[o])}
           union == {o \in S : LeanMeatOnly(FormOf[o]) \/ NoIntestine(FormOf[o])}
<1>1. /\ Count(S, LeanMeatOnly) = Cardinality(lean)
      /\ Count(S, NoIntestine) = Cardinality(noIntestine)
      /\ Union(S) = Cardinality(union)
  BY DEF Count, Union
<1>2. lean \in SUBSET union /\ noIntestine \in SUBSET union /\ union \in SUBSET S
  OBVIOUS
<1>3. IsFiniteSet(S)
  BY FS_Subset, TableAssumption
<1> HIDE DEF lean, noIntestine, union
<1>4. IsFiniteSet(union) /\ Cardinality(union) <= Cardinality(S)
  BY <1>2, <1>3, FS_Subset
<1>5. Cardinality(lean) <= Cardinality(union) /\ Cardinality(noIntestine) <= Cardinality(union)
  BY <1>2, <1>4, FS_Subset
<1> QED
  BY <1>1, <1>4, <1>5

-----------------------------------------------------------------------------
(* Averages *)

\* The average value lies between that of some order and that of another.
LEMMA AverageValueFits ==
  ASSUME NEW S \in SUBSET OrderId, S # {}
  PROVE  \E low, high \in S : Rounded(Revenue(S), Cardinality(S)) \in Price(low)..Price(high)
<1> DEFINE f == [o \in S |-> Price(o)]
<1>1. IsFiniteSet(S)
  BY FS_Subset, TableAssumption
<1>2. f \in [S -> Int] /\ Revenue(S) = SumFunction(f) /\ \A o \in S : f[o] = Price(o)
  BY StoredForm DEF Revenue
<1>3. PICK n \in Nat \ {0} : n = Cardinality(S)
  BY <1>1, FS_CardinalityType, FS_EmptySet
<1> HIDE DEF f
<1>4. PICK sum \in Int : sum = Revenue(S)
  <2>1. SumFunction(f) \in Int
    <3>1. 0 \in Int
      OBVIOUS
    <3> QED
      BY <1>1, <1>2, <3>1, SumBetween
  <2> QED
    BY <1>2, <2>1
<1>5. ASSUME NEW b \in Int
      PROVE  /\ (\A o \in S : b <= Price(o)) => b <= Rounded(sum, n)
             /\ (\A o \in S : Price(o) <= b) => Rounded(sum, n) <= b
             /\ Rounded(sum, n) \in Int
  <2>1. /\ (\A o \in S : b <= f[o]) => b * n <= sum
        /\ (\A o \in S : f[o] <= b) => sum <= b * n
    BY <1>1, <1>2, <1>3, <1>4, SumBetween
  <2>2. /\ Rounded(sum, n) \in Int
        /\ b * n <= sum => b <= Rounded(sum, n)
        /\ sum <= b * n => Rounded(sum, n) <= b
    BY RoundedBetween
  <2> QED
    BY <1>2, <2>1, <2>2
<1>6. PICK a \in Int : a = Rounded(sum, n)
  BY <1>5
<1>7. \A o \in S : Price(o) \in Int
  BY StoredForm
<1>8. \E low \in S : Price(low) <= a
  <2> SUFFICES ASSUME \A o \in S : a + 1 <= Price(o) PROVE FALSE
    BY <1>7
  <2>1. a + 1 \in Int
    OBVIOUS
  <2> QED
    BY <1>5, <1>6, <2>1
<1>9. \E high \in S : a <= Price(high)
  <2> SUFFICES ASSUME \A o \in S : Price(o) <= a - 1 PROVE FALSE
    BY <1>7
  <2>1. a - 1 \in Int
    OBVIOUS
  <2> QED
    BY <1>5, <1>6, <2>1
<1> QED
  BY <1>3, <1>4, <1>6, <1>7, <1>8, <1>9

LEMMA AverageTimeFits ==
  ASSUME NEW S \in SUBSET OrderId, TableOK, S \subseteq Finished, \A o \in S : ValidTiming(o)
  PROVE  Rounded(SumFunction([o \in S |-> Preparation(o)]), Cardinality(S)) >= 0
<1> DEFINE f == [o \in S |-> Preparation(o)]
<1>1. IsFiniteSet(S)
  BY FS_Subset, TableAssumption
<1>2. \A o \in S : Preparation(o) \in Int /\ 0 <= Preparation(o)
  <2> SUFFICES ASSUME NEW o \in S PROVE Preparation(o) \in Int /\ 0 <= Preparation(o)
    OBVIOUS
  <2>1. table[o].createdAt \in Int /\ table[o].completedAt \in Int
    BY DEF TableOK, Finished, Stored, Columns
  <2> QED
    BY <2>1 DEF Preparation, ValidTiming
<1>3. f \in [S -> Int] /\ \A o \in S : 0 <= f[o]
  BY <1>2
<1>4. PICK n \in Nat : n = Cardinality(S)
  BY <1>1, FS_CardinalityType
<1> HIDE DEF f
<1>5. PICK sum \in Int : sum = SumFunction(f) /\ 0 * n <= sum
  <2>1. 0 \in Int
    OBVIOUS
  <2> QED
    BY <1>1, <1>3, <1>4, <2>1, SumBetween
<1>6. CASE n = 0
  BY <1>4, <1>6 DEF Rounded, f
<1>7. CASE n # 0
  <2>1. n \in Nat \ {0} /\ 0 \in Int
    BY <1>7
  <2>2. Rounded(sum, n) \in Int /\ 0 <= Rounded(sum, n)
    BY <1>5, <2>1, RoundedBetween
  <2> QED
    BY <1>4, <1>5, <2>2 DEF f
<1> QED
  BY <1>6, <1>7

-----------------------------------------------------------------------------
(* Peaks *)

\* The half hours in which the orders P were placed.
Busy(P) == {Bucket(o) : o \in P}
Rank(P, b) == Cardinality({c \in Busy(P) : Busier(P, c, b)})

LEMMA PeakCountType ==
  ASSUME NEW P, IsFiniteSet(P), NEW b
  PROVE  PeakCount(P, b) \in Nat
<1>1. {o \in P : Bucket(o) = b} \in SUBSET P
  OBVIOUS
<1> QED
  BY <1>1, FS_Subset, FS_CardinalityType DEF PeakCount

\* Half hours are ordered by how busy they are.
LEMMA BusierOrders ==
  ASSUME NEW P, IsFiniteSet(P), \A o \in P : Bucket(o) \in Int
  PROVE  /\ Busy(P) \subseteq Int /\ IsFiniteSet(Busy(P))
         /\ \A b, c \in Busy(P) : Busier(P, b, c) \/ Busier(P, c, b) \/ b = c
         /\ \A b, c, d \in Busy(P) : Busier(P, b, c) /\ Busier(P, c, d) => Busier(P, b, d)
         /\ \A b \in Busy(P) : ~Busier(P, b, b)
<1>1. Busy(P) \subseteq Int
  BY DEF Busy
<1>2. IsFiniteSet(Busy(P))
  <2> DEFINE f == [o \in P |-> Bucket(o)]
  <2>1. f \in Surjection(P, Busy(P))
    BY DEF Surjection, Busy
  <2> HIDE DEF f
  <2> QED
    BY <2>1, FS_Surjection
<1>3. \A b : PeakCount(P, b) \in Nat
  BY PeakCountType
<1>4. ASSUME NEW b \in Busy(P), NEW c \in Busy(P), NEW d \in Busy(P)
      PROVE  /\ Busier(P, b, c) \/ Busier(P, c, b) \/ b = c
             /\ Busier(P, b, c) /\ Busier(P, c, d) => Busier(P, b, d)
             /\ ~Busier(P, b, b)
  <2>1. b \in Int /\ c \in Int /\ d \in Int
    BY <1>1
  <2>2. PeakCount(P, b) \in Int /\ PeakCount(P, c) \in Int /\ PeakCount(P, d) \in Int
    BY <1>3
  <2> QED
    BY <2>1, <2>2 DEF Busier
<1> QED
  BY <1>1, <1>2, <1>4

\* Their ranks are apart, in that order,
LEMMA RanksOrder ==
  ASSUME NEW P, IsFiniteSet(P), \A o \in P : Bucket(o) \in Int,
         NEW b \in Busy(P), NEW c \in Busy(P)
  PROVE  /\ Rank(P, b) \in 0..(Cardinality(Busy(P)) - 1)
         /\ Busier(P, b, c) => Rank(P, b) < Rank(P, c)
<1> DEFINE BusierThan(x) == {y \in Busy(P) : Busier(P, y, x)}
<1>1. IsFiniteSet(Busy(P))
  BY BusierOrders
<1>2. ASSUME NEW x \in Busy(P)
      PROVE  /\ BusierThan(x) \in SUBSET Busy(P) /\ x \notin BusierThan(x)
             /\ IsFiniteSet(BusierThan(x)) /\ Rank(P, x) = Cardinality(BusierThan(x))
             /\ Rank(P, x) \in Nat
             /\ Cardinality(BusierThan(x) \cup {x}) = Rank(P, x) + 1
  <2>1. BusierThan(x) \in SUBSET Busy(P) /\ x \notin BusierThan(x)
    BY BusierOrders
  <2>2. Rank(P, x) = Cardinality(BusierThan(x))
    BY DEF Rank
  <2> HIDE DEF BusierThan
  <2>3. IsFiniteSet(BusierThan(x)) /\ Cardinality(BusierThan(x)) \in Nat
    BY <1>1, <2>1, FS_Subset, FS_CardinalityType
  <2>4. Cardinality(BusierThan(x) \cup {x}) = Cardinality(BusierThan(x)) + 1
    BY <2>1, <2>3, FS_AddElement
  <2> QED
    BY <2>1, <2>2, <2>3, <2>4
<1>3. PICK upto, before :
        /\ upto = BusierThan(b) \cup {b} /\ before = BusierThan(c)
        /\ upto \in SUBSET Busy(P) /\ Cardinality(upto) = Rank(P, b) + 1
        /\ IsFiniteSet(before) /\ Cardinality(before) = Rank(P, c)
        /\ Rank(P, b) \in Nat /\ Rank(P, c) \in Nat
        /\ Busier(P, b, c) => upto \in SUBSET before
  <2>1. Busier(P, b, c) => BusierThan(b) \cup {b} \in SUBSET BusierThan(c)
    BY BusierOrders
  <2> HIDE DEF BusierThan
  <2> QED
    BY <1>2, <2>1
<1>4. Rank(P, b) + 1 <= Cardinality(Busy(P))
  BY <1>1, <1>3, FS_Subset
<1>5. ASSUME Busier(P, b, c) PROVE Rank(P, b) + 1 <= Rank(P, c)
  BY <1>3, <1>5, FS_Subset
<1>6. Cardinality(Busy(P)) \in Nat
  BY <1>1, FS_CardinalityType
<1> QED
  BY <1>3, <1>4, <1>5, <1>6

\* and there is one for each place of the list.
LEMMA NthBusy ==
  ASSUME NEW P, IsFiniteSet(P), \A o \in P : Bucket(o) \in Int,
         NEW i \in 1..Cardinality(Busy(P))
  PROVE  \E b \in Busy(P) : Rank(P, b) = i - 1
<1>1. PICK n \in Nat : n = Cardinality(Busy(P)) /\ IsFiniteSet(Busy(P))
  BY BusierOrders, FS_CardinalityType
<1> DEFINE f == [b \in Busy(P) |-> Rank(P, b)]
<1>2. f \in Injection(Busy(P), 0..(n - 1))
  <2>1. f \in [Busy(P) -> 0..(n - 1)]
    BY <1>1, RanksOrder
  <2>2. ASSUME NEW b \in Busy(P), NEW c \in Busy(P), f[b] = f[c] PROVE b = c
    <3>1. Busier(P, b, c) \/ Busier(P, c, b) \/ b = c
      BY BusierOrders
    <3>2. /\ Busier(P, b, c) => Rank(P, b) < Rank(P, c)
          /\ Busier(P, c, b) => Rank(P, c) < Rank(P, b)
          /\ Rank(P, b) \in 0..(n - 1) /\ Rank(P, c) \in 0..(n - 1)
      BY <1>1, RanksOrder
    <3>3. Rank(P, b) = Rank(P, c)
      BY <2>2
    <3> QED
      BY <1>1, <3>1, <3>2, <3>3
  <2> HIDE DEF f
  <2> QED
    BY <2>1, <2>2 DEF Injection, IsInjective
<1>3. IsFiniteSet(0..(n - 1)) /\ Cardinality(0..(n - 1)) = n
  <2>1. PICK first \in Int, last \in Int : first = 0 /\ last = n - 1
    BY <1>1
  <2>2. /\ IsFiniteSet(first..last)
        /\ Cardinality(first..last) = IF first > last THEN 0 ELSE last - first + 1
    BY FS_Interval
  <2>3. Cardinality(first..last) = n
    BY <1>1, <2>1, <2>2
  <2> QED
    BY <2>1, <2>2, <2>3
<1>4. f \in Surjection(Busy(P), 0..(n - 1))
  <2> HIDE DEF f
  <2>1. PICK T : T = 0..(n - 1)
    OBVIOUS
  <2>2. IsFiniteSet(T) /\ Cardinality(Busy(P)) = Cardinality(T) /\ f \in Injection(Busy(P), T)
    BY <1>1, <1>2, <1>3, <2>1
  <2>3. f \in Surjection(Busy(P), T)
    BY <2>2, FS_Injection
  <2> QED
    BY <2>1, <2>3
<1>5. i - 1 \in 0..(n - 1)
  BY <1>1
<1> QED
  BY <1>4, <1>5 DEF Surjection

\* What the list of peaks is.
LEMMA PeaksAre ==
  ASSUME NEW P, IsFiniteSet(P), \A o \in P : Bucket(o) \in Int
  PROVE  \E n \in Nat :
            /\ n <= Cardinality(Busy(P)) /\ n <= MaxPeaks
            /\ n = Cardinality(Busy(P)) \/ n = MaxPeaks
            /\ DOMAIN Peaks(P) = 1..n
            /\ \A i \in 1..n : /\ Peaks(P)[i].bucket \in Busy(P)
                               /\ Rank(P, Peaks(P)[i].bucket) = i - 1
                               /\ Peaks(P)[i].count = PeakCount(P, Peaks(P)[i].bucket)
<1> DEFINE Nth(i) == CHOOSE b \in Busy(P) : Rank(P, b) = i - 1
           listed == IF Cardinality(Busy(P)) > MaxPeaks THEN MaxPeaks ELSE Cardinality(Busy(P))
<1>1. Peaks(P) = [i \in 1..listed |-> [bucket |-> Nth(i), count |-> PeakCount(P, Nth(i))]]
  BY DEF Peaks, Busy, Rank
<1>2. Cardinality(Busy(P)) \in Nat /\ MaxPeaks \in Nat
  BY BusierOrders, FS_CardinalityType, ReportsAssumption
<1>3. PICK n \in Nat : /\ n = listed
                       /\ n <= Cardinality(Busy(P)) /\ n <= MaxPeaks
                       /\ n = Cardinality(Busy(P)) \/ n = MaxPeaks
  BY <1>2
<1>4. ASSUME NEW i \in 1..n
      PROVE  Nth(i) \in Busy(P) /\ Rank(P, Nth(i)) = i - 1
  <2>1. i \in 1..Cardinality(Busy(P))
    BY <1>2, <1>3
  <2>2. \E b \in Busy(P) : Rank(P, b) = i - 1
    BY <2>1, NthBusy
  <2> QED
    BY <2>2
<1> HIDE DEF Nth, listed
<1>5. /\ DOMAIN Peaks(P) = 1..n
      /\ \A i \in 1..n : Peaks(P)[i].bucket = Nth(i) /\ Peaks(P)[i].count = PeakCount(P, Nth(i))
  BY <1>1, <1>3
<1> QED
  BY <1>3, <1>4, <1>5

\* Peaks are sorted, complete and of different orders.
LEMMA PeaksAddUp ==
  ASSUME NEW P, IsFiniteSet(P), \A o \in P : Bucket(o) \in Int
  PROVE  PeaksFit(Peaks(P), P)
<1>1. PICK n \in Nat :
         /\ n <= Cardinality(Busy(P)) /\ n <= MaxPeaks
         /\ n = Cardinality(Busy(P)) \/ n = MaxPeaks
         /\ DOMAIN Peaks(P) = 1..n
         /\ \A i \in 1..n : /\ Peaks(P)[i].bucket \in Busy(P)
                            /\ Rank(P, Peaks(P)[i].bucket) = i - 1
                            /\ Peaks(P)[i].count = PeakCount(P, Peaks(P)[i].bucket)
  BY PeaksAre
<1>2. PICK peaks : peaks = Peaks(P)
  OBVIOUS
<1>3. ASSUME NEW b \in Busy(P), NEW c \in Busy(P), Rank(P, b) < Rank(P, c)
      PROVE  Busier(P, b, c)
  <2>1. Busier(P, b, c) \/ Busier(P, c, b) \/ b = c
    BY BusierOrders
  <2>2. Busier(P, c, b) => Rank(P, c) < Rank(P, b)
    BY RanksOrder
  <2>3. /\ Rank(P, b) \in 0..(Cardinality(Busy(P)) - 1)
        /\ Rank(P, c) \in 0..(Cardinality(Busy(P)) - 1)
    BY RanksOrder
  <2>4. Rank(P, b) \in Int /\ Rank(P, c) \in Int
    BY <2>3
  <2> QED
    BY <1>3, <2>1, <2>2, <2>4
<1>4. ASSUME NEW i \in 1..n, NEW j \in 1..n, i < j
      PROVE  /\ Busier(P, peaks[i].bucket, peaks[j].bucket)
             /\ peaks[i].bucket # peaks[j].bucket
  <2>1. /\ peaks[i].bucket \in Busy(P) /\ peaks[j].bucket \in Busy(P)
        /\ Rank(P, peaks[i].bucket) = i - 1 /\ Rank(P, peaks[j].bucket) = j - 1
    BY <1>1, <1>2
  <2>2. i - 1 < j - 1
    BY <1>1, <1>4
  <2> QED
    BY <1>3, <2>1, <2>2, BusierOrders
<1>5. ASSUME NEW i \in 1..n, NEW j \in 1..n, i < j
      PROVE  \/ peaks[i].count > peaks[j].count
             \/ peaks[i].count = peaks[j].count /\ peaks[i].bucket < peaks[j].bucket
  <2>1. Busier(P, peaks[i].bucket, peaks[j].bucket)
    BY <1>4, <1>5
  <2>2. /\ peaks[i].count = PeakCount(P, peaks[i].bucket)
        /\ peaks[j].count = PeakCount(P, peaks[j].bucket)
    BY <1>1, <1>2
  <2> QED
    BY <2>1, <2>2 DEF Busier
<1>6. ASSUME NEW o \in P
      PROVE  \/ \E i \in 1..n : peaks[i].bucket = Bucket(o)
             \/ \A i \in 1..n : peaks[i].count >= PeakCount(P, Bucket(o))
  <2> DEFINE b == Bucket(o)
  <2>1. b \in Busy(P)
    BY DEF Busy
  <2> HIDE DEF b
  <2>2. Rank(P, b) \in 0..(Cardinality(Busy(P)) - 1)
    BY <2>1, RanksOrder
  <2>3. PICK r \in Nat : r = Rank(P, b)
    BY <2>2
  <2>4. CASE r < n
    <3>1. PICK i \in 1..n : i = r + 1
      BY <1>1, <2>3, <2>4
    <3>2. peaks[i].bucket \in Busy(P) /\ Rank(P, peaks[i].bucket) = r
      BY <1>1, <1>2, <2>3, <3>1
    <3>3. peaks[i].bucket = b
      <4>1. \/ Busier(P, peaks[i].bucket, b) \/ Busier(P, b, peaks[i].bucket)
            \/ peaks[i].bucket = b
        BY <2>1, <3>2, BusierOrders
      <4>2. /\ Busier(P, peaks[i].bucket, b) => r < r
            /\ Busier(P, b, peaks[i].bucket) => r < r
        BY <2>1, <2>3, <3>2, RanksOrder
      <4> QED
        BY <2>3, <4>1, <4>2
    <3> QED
      BY <3>3 DEF b
  <2>5. CASE ~(r < n)
    <3>1. ASSUME NEW i \in 1..n PROVE peaks[i].count >= PeakCount(P, b)
      <4>1. /\ peaks[i].bucket \in Busy(P) /\ Rank(P, peaks[i].bucket) = i - 1
            /\ peaks[i].count = PeakCount(P, peaks[i].bucket)
        BY <1>1, <1>2
      <4>2. i - 1 < r
        BY <1>1, <2>3, <2>5
      <4>3. Busier(P, peaks[i].bucket, b)
        BY <1>3, <2>1, <2>3, <4>1, <4>2
      <4>4. PeakCount(P, b) \in Int /\ PeakCount(P, peaks[i].bucket) \in Int
        BY PeakCountType
      <4> QED
        BY <4>1, <4>3, <4>4 DEF Busier
    <3> QED
      BY <3>1 DEF b
  <2> QED
    BY <2>3, <2>4, <2>5
<1>7. SumFunction([i \in 1..n |-> peaks[i].count]) <= Cardinality(P)
  <2> DEFINE I == 1..n
             f == [i \in I |-> peaks[i].count]
             part == [i \in I |-> {o \in P : Bucket(o) = peaks[i].bucket}]
             all == UNION {part[i] : i \in I}
  <2>1. IsFiniteSet(I)
    <3>1. PICK first \in Int : first = 1
      OBVIOUS
    <3>2. IsFiniteSet(first..n)
      BY <1>1, FS_Interval
    <3> QED
      BY <3>1, <3>2
  <2>2. part \in [I -> SUBSET P]
    OBVIOUS
  <2>3. \A i \in I : f[i] = Cardinality(part[i])
    BY <1>1, <1>2 DEF PeakCount
  <2>4. f \in [I -> Int]
    BY <1>1, <1>2, PeakCountType
  <2>5. ASSUME NEW i \in I, NEW j \in I, i # j PROVE part[i] \cap part[j] = {}
    <3>1. i < j \/ j < i
      BY <1>1, <2>5
    <3>2. peaks[i].bucket # peaks[j].bucket
      BY <1>4, <3>1
    <3> QED
      BY <3>2
  <2>6. all \in SUBSET P
    BY <2>2
  <2> HIDE DEF I, f, part
  <2>7. SumFunction(f) = Cardinality(all)
    BY <2>1, <2>2, <2>3, <2>4, <2>5, SumOfParts
  <2> HIDE DEF all
  <2>8. Cardinality(all) <= Cardinality(P)
    BY <2>6, FS_Subset
  <2> QED
    BY <2>7, <2>8 DEF f, I
<1>8. DOMAIN peaks = 1..n
  BY <1>1, <1>2
<1> QED
  BY <1>2, <1>5, <1>6, <1>7, <1>8 DEF PeaksFit

-----------------------------------------------------------------------------
(* Reports *)

ReportsInv ==
    /\ TableOK
    /\ asked # Nil => asked \in Date \X Date

LEMMA DayWindowIs ==
  ASSUME NEW Dates \in SUBSET Int, ZoneHolds(Int, Dates), NEW d \in Dates, d + 1 \in Dates
  PROVE  DayWindow(Midnight(d)) = [start |-> Midnight(d), end |-> Midnight(d + 1)]
<1>1. DateOf(Midnight(d)) = d
  BY DEF ZoneHolds
<1> QED
  BY <1>1 DEF DayWindow

\* The orders that the peaks and the preparation time of a date are taken from.
PlacedOn(d) == {o \in FinishedOn(d) : DateOf(table[o].createdAt) = d /\ ValidTiming(o)}
TimedOn(d) == {o \in FinishedOn(d) : ValidTiming(o)}

\* What the report of a date is made of.
MetricsAre(m, d) ==
    /\ m.count = Cardinality(FinishedOn(d)) /\ m.revenue = Revenue(FinishedOn(d))
    /\ m.averageValue = Rounded(Revenue(FinishedOn(d)), Cardinality(FinishedOn(d)))
    /\ m.averageTime = Rounded(SumFunction([o \in TimedOn(d) |-> Preparation(o)]),
                               Cardinality(TimedOn(d)))
    /\ m.peaks = Peaks(PlacedOn(d))
    /\ m.sizes = Sizes(FinishedOn(d)) /\ m.staples = Staples(FinishedOn(d))
    /\ m.lean = Count(FinishedOn(d), LeanMeatOnly)
    /\ m.noIntestine = Count(FinishedOn(d), NoIntestine)
    /\ m.union = Union(FinishedOn(d))

\* What a report of a date counts, and how it is labelled.
LEMMA ReportIs ==
  ASSUME NEW Dates \in SUBSET Int, ZoneHolds(Int, Dates), TableOK,
         NEW d \in Dates, d + 1 \in Dates
  PROVE  /\ Report("day", d).from = d /\ Report("day", d).to = d
         /\ MetricsAre(Report("day", d).metrics, d)
<1> DEFINE window == [start |-> Midnight(d), end |-> Midnight(d + 1)]
           metrics == AggregateReport(window, CompletedIn(window))
<1>1. Report("day", d).from = d /\ Report("day", d).to = d /\ Report("day", d).metrics = metrics
  <2>1. Report("day", d) = Labelled(window, metrics)
    BY DayWindowIs DEF Report
  <2>2. DateOf(Midnight(d)) = d /\ DateOf(Midnight(d + 1) - 1) = d
    BY DayLasts DEF ZoneHolds
  <2> QED
    BY <2>1, <2>2 DEF Labelled
<1>2. ASSUME NEW o \in Finished
      PROVE  /\ In(table[o].completedAt, window) <=> DateOf(table[o].completedAt) = d
             /\ In(table[o].createdAt, window) <=> DateOf(table[o].createdAt) = d
  <2>1. table[o].completedAt \in Int /\ table[o].createdAt \in Int
    BY DEF Finished, Stored, TableOK, Columns
  <2> QED
    BY <2>1, DayLasts DEF In
<1>3. {o \in CompletedIn(window) : In(table[o].completedAt, window)} = FinishedOn(d)
  BY <1>2 DEF CompletedIn, FinishedOn
<1>4. PlacedIn(FinishedOn(d), window) = PlacedOn(d)
  BY <1>2 DEF PlacedIn, PlacedOn, FinishedOn
<1>5. PICK S : S = FinishedOn(d)
  OBVIOUS
<1>6. metrics = [revenue |-> Revenue(S),
         count |-> Cardinality(S),
         averageValue |-> Rounded(Revenue(S), Cardinality(S)),
         averageTime |-> Rounded(SumFunction([o \in {o \in S : ValidTiming(o)} |-> Preparation(o)]),
                                 Cardinality({o \in S : ValidTiming(o)})),
         peaks |-> Peaks(PlacedIn(S, window)),
         sizes |-> Sizes(S),
         staples |-> Staples(S),
         eggs |-> SumFunction([o \in S |-> FormOf[o].eggs]),
         takeout |-> Count(S, LAMBDA f : f.dining = Takeout),
         lean |-> Count(S, LeanMeatOnly),
         noIntestine |-> Count(S, NoIntestine),
         union |-> Union(S)]
  BY <1>3, <1>5 DEF AggregateReport
<1> HIDE DEF metrics, window
<1>7. TimedOn(d) = {o \in S : ValidTiming(o)}
  BY <1>5 DEF TimedOn
<1> QED
  BY <1>1, <1>4, <1>5, <1>6, <1>7 DEF MetricsAre

\* The rows of an accepted range.
RowsAre(rows, from, to) ==
    /\ DOMAIN rows = 1..(to - from + 1)
    /\ \A i \in 1..(to - from + 1) :
          /\ rows[i].date = to - i + 1
          /\ rows[i].count = Cardinality(FinishedOn(to - i + 1))
          /\ rows[i].revenue = Revenue(FinishedOn(to - i + 1))

LEMMA DailyRowsAre ==
  ASSUME NEW Dates \in SUBSET Int, ZoneHolds(Int, Dates), TableOK,
         NEW from \in Dates, NEW to \in Dates, from <= to, to + 1 \in Dates,
         \A d \in from..to : d \in Dates /\ d + 1 \in Dates,
         NEW rows, rows = DailyRows([start |-> Midnight(from), end |-> Midnight(to + 1)])
  PROVE  RowsAre(rows, from, to)
<1> DEFINE window == [start |-> Midnight(from), end |-> Midnight(to + 1)]
           OfDate(d) == {o \in CompletedIn(window) : DateOf(table[o].completedAt) = d}
           Row(d) == [date |-> DateOf(Midnight(d)),
                      count |-> Cardinality(OfDate(d)), revenue |-> Revenue(OfDate(d))]
<1>1. DateOf(window.start) = from /\ DateOf(window.end - 1) = to
  BY DayLasts DEF ZoneHolds
<1>2. rows = [i \in 1..(to - from + 1) |-> Row(to - i + 1)]
  BY <1>1 DEF DailyRows
<1>3. ASSUME NEW d \in from..to
      PROVE  DateOf(Midnight(d)) = d /\ OfDate(d) = FinishedOn(d)
  <2>1. d \in Dates /\ d + 1 \in Dates /\ d \in Int /\ from \in Int /\ to \in Int
    OBVIOUS
  <2>2. /\ Midnight(from) \in Int /\ Midnight(to + 1) \in Int
        /\ Midnight(d) \in Int /\ Midnight(d + 1) \in Int
    BY <2>1, MidnightType
  <2>3. DateOf(Midnight(d)) = d /\ DateOf(Midnight(d + 1)) = d + 1 /\ DateOf(Midnight(to + 1)) = to + 1
    BY <2>1 DEF ZoneHolds
  <2>4. Midnight(from) <= Midnight(d)
    BY <2>1, <2>2, <2>3 DEF ZoneHolds
  <2>5. Midnight(d + 1) <= Midnight(to + 1)
    BY <2>1, <2>2, <2>3 DEF ZoneHolds
  <2>6. ASSUME NEW o \in Finished, DateOf(table[o].completedAt) = d
        PROVE  In(table[o].completedAt, window)
    <3>1. table[o].completedAt \in Int
      BY DEF Finished, Stored, TableOK, Columns
    <3>2. Midnight(d) <= table[o].completedAt /\ table[o].completedAt < Midnight(d + 1)
      BY <2>1, <2>6, <3>1, DayLasts
    <3> QED
      BY <2>2, <2>4, <2>5, <3>1, <3>2 DEF In
  <2> QED
    BY <2>3, <2>6 DEF CompletedIn, FinishedOn
<1>4. ASSUME NEW i \in 1..(to - from + 1)
      PROVE  to - i + 1 \in from..to
  BY <1>4
<1>5. ASSUME NEW d \in from..to
      PROVE  /\ Row(d).date = d /\ Row(d).count = Cardinality(FinishedOn(d))
             /\ Row(d).revenue = Revenue(FinishedOn(d))
  BY <1>3
<1> HIDE DEF Row
<1>6. DOMAIN rows = 1..(to - from + 1)
  BY <1>2
<1>7. ASSUME NEW i \in 1..(to - from + 1)
      PROVE  /\ rows[i].date = to - i + 1
             /\ rows[i].count = Cardinality(FinishedOn(to - i + 1))
             /\ rows[i].revenue = Revenue(FinishedOn(to - i + 1))
  <2>1. PICK d \in from..to : d = to - i + 1
    BY <1>4, <1>7
  <2>2. rows[i] = Row(d)
    BY <1>2, <1>7, <2>1
  <2> QED
    BY <1>5, <2>1, <2>2
<1> QED
  BY <1>6, <1>7 DEF RowsAre

\* Which ranges are accepted.
LEMMA DailyIs ==
  ASSUME NEW Dates \in SUBSET Int, ZoneHolds(Int, Dates),
         NEW from \in Dates, NEW to \in Dates, from + 1 \in Dates, to + 1 \in Dates
  PROVE  Daily(from, to) =
            IF to - from + 1 \in 1..MaxDays
            THEN DailyRows([start |-> Midnight(from), end |-> Midnight(to + 1)])
            ELSE Rejected
<1>1. /\ DayWindow(Midnight(from)) = [start |-> Midnight(from), end |-> Midnight(from + 1)]
      /\ DayWindow(Midnight(to)) = [start |-> Midnight(to), end |-> Midnight(to + 1)]
  BY DayWindowIs
<1>2. DateOf(Midnight(from)) = from /\ DateOf(Midnight(to)) = to
  BY DEF ZoneHolds
<1>3. Midnight(from) \in Int /\ Midnight(to) \in Int
  BY MidnightType
<1>4. Midnight(from) <= Midnight(to) <=> from <= to
  BY <1>2, <1>3 DEF ZoneHolds
<1>5. DateCount(Midnight(from), Midnight(to)) = to - from + 1
  BY <1>2 DEF DateCount
<1>6. (Midnight(to) < Midnight(from) \/ to - from + 1 > MaxDays) <=> to - from + 1 \notin 1..MaxDays
  BY <1>3, <1>4, ReportsAssumption
<1> QED
  BY <1>1, <1>5, <1>6 DEF Daily

LEMMA ReportsInvAgrees ==
  ASSUME ReportsInv, NEW first \in Int, NEW last \in Int, Date \subseteq first..last,
         NEW Dates, Dates = first..(last + 1), ZoneHolds(Int, Dates)
  PROVE  ReportsAgree
<1> SUFFICES ASSUME asked # Nil
             PROVE  LET from == asked[1]
                        to == asked[2]
                        rows == Daily(from, to)
                    IN  IF to - from + 1 \in 1..MaxDays
                        THEN /\ DOMAIN rows = 1..(to - from + 1)
                             /\ \A i \in DOMAIN rows :
                                   LET date == to - i + 1
                                       report == Report("day", date)
                                   IN  /\ rows[i].date = date
                                       /\ report.from = date /\ report.to = date
                                       /\ rows[i].count = report.metrics.count
                                       /\ rows[i].revenue = report.metrics.revenue
                                       /\ rows[i].count = Cardinality(FinishedOn(date))
                        ELSE rows = Rejected
  BY DEF ReportsAgree
<1>1. PICK from \in Date, to \in Date : from = asked[1] /\ to = asked[2]
  BY DEF ReportsInv
<1>2. /\ from \in Dates /\ to \in Dates /\ from + 1 \in Dates /\ to + 1 \in Dates
      /\ Dates \in SUBSET Int
      /\ \A d \in from..to : d \in Dates /\ d + 1 \in Dates
  <2>1. from \in first..last /\ to \in first..last
    OBVIOUS
  <2> QED
    BY <2>1
<1>3. CASE to - from + 1 \notin 1..MaxDays
  BY <1>1, <1>2, <1>3, DailyIs
<1>4. CASE to - from + 1 \in 1..MaxDays
  <2>1. from <= to /\ \A d \in from..to : d \in Dates /\ d + 1 \in Dates
    BY <1>2, <1>4, ReportsAssumption
  <2>2. PICK rows : rows = DailyRows([start |-> Midnight(from), end |-> Midnight(to + 1)])
    OBVIOUS
  <2>3. Daily(from, to) = rows
    BY <1>2, <1>4, <2>2, DailyIs
  <2>4. RowsAre(rows, from, to) /\ DOMAIN rows = 1..(to - from + 1)
    <3>1. RowsAre(rows, from, to)
      BY <1>2, <2>1, <2>2, DailyRowsAre DEF ReportsInv
    <3> QED
      BY <3>1 DEF RowsAre
  <2>5. ASSUME NEW i \in 1..(to - from + 1)
        PROVE  LET date == to - i + 1
                   report == Report("day", date)
               IN  /\ rows[i].date = date /\ report.from = date /\ report.to = date
                   /\ rows[i].count = report.metrics.count
                   /\ rows[i].revenue = report.metrics.revenue
                   /\ rows[i].count = Cardinality(FinishedOn(date))
    <3>1. PICK d \in from..to : d = to - i + 1
      BY <1>2, <2>5
    <3>2. /\ Report("day", d).from = d /\ Report("day", d).to = d
          /\ MetricsAre(Report("day", d).metrics, d)
      BY <2>1, ReportIs DEF ReportsInv
    <3>3. /\ rows[i].date = to - i + 1
          /\ rows[i].count = Cardinality(FinishedOn(to - i + 1))
          /\ rows[i].revenue = Revenue(FinishedOn(to - i + 1))
      BY <2>4, <2>5 DEF RowsAre
    <3> QED
      BY <3>1, <3>2, <3>3 DEF MetricsAre
  <2> QED
    BY <1>1, <1>4, <2>3, <2>4, <2>5
<1> QED
  BY <1>3, <1>4

LEMMA ReportsInvAddsUp ==
  ASSUME NEW first \in Int, NEW last \in Int, Date \subseteq first..last,
         ZoneHolds(Int, first..(last + 1)), ReportsInv
  PROVE  ReportAddsUp
<1> SUFFICES ASSUME asked # Nil
             PROVE  /\ GroupsFit(Report("day", asked[1]).metrics)
                    /\ AveragesFit(Report("day", asked[1]).metrics, FinishedOn(asked[1]))
                    /\ PeaksFit(Report("day", asked[1]).metrics.peaks, PlacedOn(asked[1]))
  BY DEF ReportAddsUp, PlacedOn
<1>1. PICK d \in Date : d = asked[1]
  BY DEF ReportsInv
<1>2. PICK m : m = Report("day", d).metrics
  OBVIOUS
<1>3. MetricsAre(m, d)
  <2>1. PICK Dates \in SUBSET Int : Dates = first..(last + 1)
    OBVIOUS
  <2>2. d \in Dates /\ d + 1 \in Dates
    BY <2>1
  <2> QED
    BY <1>2, <2>1, <2>2, ReportIs DEF ReportsInv
<1>4. FinishedOn(d) \in SUBSET OrderId /\ FinishedOn(d) \subseteq Finished
  BY DEF FinishedOn, Finished, Stored
<1>5. GroupsFit(m)
  BY <1>3, <1>4, SizesAddUp, StaplesAddUp, OverlapsAddUp DEF MetricsAre, GroupsFit
<1>6. AveragesFit(m, FinishedOn(d))
  <2>1. m.averageTime >= 0
    <3>1. /\ TimedOn(d) \in SUBSET OrderId /\ TimedOn(d) \subseteq Finished
          /\ \A o \in TimedOn(d) : ValidTiming(o)
      BY <1>4 DEF TimedOn
    <3> QED
      BY <1>3, <3>1, AverageTimeFits DEF MetricsAre, ReportsInv
  <2>2. FinishedOn(d) # {} =>
          \E low, high \in FinishedOn(d) : m.averageValue \in Price(low)..Price(high)
    BY <1>3, <1>4, AverageValueFits DEF MetricsAre
  <2> QED
    BY <2>1, <2>2 DEF AveragesFit
<1>7. PeaksFit(m.peaks, PlacedOn(d))
  <2>1. PlacedOn(d) \in SUBSET Stored /\ PlacedOn(d) \in SUBSET OrderId
    BY DEF PlacedOn, FinishedOn, Finished, Stored
  <2>2. IsFiniteSet(PlacedOn(d))
    BY <2>1, FS_Subset, TableAssumption
  <2>3. ASSUME NEW o \in PlacedOn(d) PROVE Bucket(o) \in Int
    <3>1. table[o].createdAt \in Int
      BY <2>1 DEF ReportsInv, TableOK, Stored, Columns
    <3>2. SlotOf(table[o].createdAt) \in Int
      BY <3>1, TableAssumption DEF ZoneHolds, SlotOf, LocalTime
    <3> QED
      BY <3>2, ReportsAssumption DEF Bucket
  <2> QED
    BY <1>3, <2>2, <2>3, PeaksAddUp DEF MetricsAre
<1> QED
  BY <1>1, <1>2, <1>5, <1>6, <1>7

LEMMA ReportsInitially ==
  ASSUME TableInit, ReportsInit
  PROVE  ReportsInv
BY DEF TableInit, ReportsInit, ReportsInv, TableOK, Stored

\* The table keeps its type.
LEMMA TableKept ==
  ASSUME TableOK, NEW Instant \in SUBSET Int,
         \/ \E t \in Instant :
               \/ \E S \in SUBSET OrderId : Add(S, t)
               \/ \E o \in OrderId : Revise(o, t)
         \/ \E S \in SUBSET OrderId : Erase(S)
  PROVE  TableOK'
<1>1. ASSUME NEW t \in Instant, NEW S \in SUBSET OrderId, Add(S, t) PROVE TableOK'
  BY <1>1, AddKeepsTable
<1>2. ASSUME NEW t \in Instant, NEW o \in OrderId, Revise(o, t) PROVE TableOK'
  BY <1>2, ReviseKeepsTable
<1>3. ASSUME NEW S \in SUBSET OrderId, Erase(S) PROVE TableOK'
  BY <1>3, EraseKeepsTable
<1> QED
  BY <1>1, <1>2, <1>3

LEMMA ReportsStep ==
  ASSUME ReportsInv, NEW Instant \in SUBSET Int, [ReportsNext(Instant)]_<<board, asked>>
  PROVE  ReportsInv'
<1>1. CASE UNCHANGED <<board, asked>>
  BY <1>1 DEF ReportsInv, TableOK, board, Stored
<1>2. CASE (\E from, to \in Date : Ask(from, to)) \/ Answered
  BY <1>2 DEF ReportsInv, TableOK, board, Stored, Ask, Answered
<1>3. CASE /\ asked = Nil /\ asked' = Nil
           /\ \/ \E t \in Instant :
                    \/ \E S \in SUBSET OrderId : Add(S, t)
                    \/ \E o \in OrderId : Revise(o, t)
              \/ \E S \in SUBSET OrderId : Erase(S)
  BY <1>3, TableKept DEF ReportsInv
<1> QED
  BY <1>1, <1>2, <1>3 DEF ReportsNext

(***************************************************************************)
(* The statistics endpoints agree, for any orders, any zone that keeps its *)
(* midnights and any number of days: which ranges are accepted, one row    *)
(* per date with the count and the revenue of that date's report           *)
(* (Daily and Report, internal/service/v1/stats.go).                       *)
(***************************************************************************)
THEOREM EndpointsAgree ==
  ASSUME NEW CONSTANT Instant \in SUBSET Int,
         NEW CONSTANT first \in Int, NEW CONSTANT last \in Int, Date \subseteq first..last,
         ZoneHolds(Int, first..(last + 1))
  PROVE  ReportsSpec(Instant) => []ReportsAgree
<1>1. TableInit /\ ReportsInit => ReportsInv
  BY ReportsInitially
<1>2. ReportsInv /\ [ReportsNext(Instant)]_<<board, asked>> => ReportsInv'
  BY ReportsStep
<1>3. ReportsInv => ReportsAgree
  BY ReportsInvAgrees
<1> QED
  BY <1>1, <1>2, <1>3, PTL DEF ReportsSpec

(***************************************************************************)
(* The numbers of a report fit together (ReportAddsUp), for any orders,    *)
(* forms and times of day: groups account for every order once, averages   *)
(* lie between extremes, peaks are sorted and complete                     *)
(* (AggregateReport, internal/domain/report.go).                           *)
(***************************************************************************)
THEOREM ReportsAddUp ==
  ASSUME NEW CONSTANT Instant \in SUBSET Int,
         NEW CONSTANT first \in Int, NEW CONSTANT last \in Int, Date \subseteq first..last,
         ZoneHolds(Int, first..(last + 1))
  PROVE  ReportsSpec(Instant) => []ReportAddsUp
<1>1. TableInit /\ ReportsInit => ReportsInv
  BY ReportsInitially
<1>2. ReportsInv /\ [ReportsNext(Instant)]_<<board, asked>> => ReportsInv'
  BY ReportsStep
<1>3. ReportsInv => ReportAddsUp
  BY ReportsInvAddsUp
<1> QED
  BY <1>1, <1>2, <1>3, PTL DEF ReportsSpec
=============================================================================
