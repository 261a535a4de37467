------------------------------- MODULE Reports -------------------------------
(***************************************************************************)
(* GET /stats/daily and GET /stats/report: the counts and the revenue of   *)
(* business days, and the report of one day.  Both read one committed      *)
(* state of the table and compute (internal/service/v1/stats.go,           *)
(* internal/repo/stats.go, internal/domain/report.go).                     *)
(*                                                                         *)
(* A client names calendar dates, which the handler turns into the instant *)
(* of their midnight.  A ratio is the pair it is computed from.            *)
(***************************************************************************)
EXTENDS OrderTable, OrderForm, Functions

CONSTANTS
    FormOf,          \* per id: the normalized form of the order
    Date,            \* dates a client may ask for
    MaxDays,         \* MaxDailyStatsDays, 366 in the code
    SlotsPerBucket,  \* half an hour
    MaxPeaks         \* maxPeak30MinuteBuckets, 5 in the code

ASSUME ReportsAssumption ==
    /\ Date \subseteq Int
    /\ MaxDays \in Nat \ {0} /\ SlotsPerBucket \in Nat \ {0} /\ MaxPeaks \in Nat
    /\ \A o \in OrderId : /\ FormOf[o] \in Form \ {Rejected}
                          /\ Normalize(FormOf[o]) = FormOf[o]

Price(o) == TotalPrice(FormOf[o])
Revenue(S) == SumFunction([o \in S |-> Price(o)])

-----------------------------------------------------------------------------
(* Windows *)

\* Mutant: a day lasts as long as a day on which no clock is changed.
DayWindow24h(date) ==
    LET start == Midnight(DateOf(date)) IN [start |-> start, end |-> start + SlotsPerDay]
DayWindow(date) ==
    LET start == Midnight(DateOf(date))
    IN  [start |-> start, end |-> Midnight(DateOf(start) + 1)]

In(t, window) == window.start <= t /\ t < window.end

\* The WHERE clause of both queries.
CompletedIn(window) == {o \in Finished : In(table[o].completedAt, window)}

-----------------------------------------------------------------------------
(* Daily *)

\* Business dates, not days of 24 hours.
DateCount(from, to) == DateOf(to) - DateOf(from) + 1

\* One row per date of the window, the last date first.
DailyRows(window) ==
    LET first == DateOf(window.start)
        last == DateOf(window.end - 1)
        OfDate(d) == {o \in CompletedIn(window) : DateOf(table[o].completedAt) = d}
        Row(d) == [date |-> DateOf(Midnight(d)),
                   count |-> Cardinality(OfDate(d)), revenue |-> Revenue(OfDate(d))]
    IN  [i \in 1..(last - first + 1) |-> Row(last - i + 1)]

Daily(fromDate, toDate) ==
    LET from == Midnight(fromDate)
        to == Midnight(toDate)
    IN  IF DayWindow(to).start < DayWindow(from).start \/ DateCount(from, to) > MaxDays
        THEN Rejected
        ELSE DailyRows([start |-> DayWindow(from).start, end |-> DayWindow(to).end])

-----------------------------------------------------------------------------
(* The report of a day *)

Count(S, Test(_)) == Cardinality({o \in S : Test(FormOf[o])})

\* math.Round, of a value that is not negative.
Rounded(sum, n) == IF n = 0 THEN 0 ELSE (2 * sum + n) \div (2 * n)

LeanMeatOnly(f) == f.meats = <<1>>
NoIntestine(f) == SeqRange(f.meats) \cap {4, 5} = {}

Union(S) == Count(S, LAMBDA f : LeanMeatOnly(f) \/ NoIntestine(f))

ValidTiming(o) == table[o].createdAt <= table[o].completedAt
Preparation(o) == table[o].completedAt - table[o].createdAt

\* Wall-clock half hours, so that the hour a clock repeats is one bucket.
Bucket(o) == SlotOf(table[o].createdAt) \div SlotsPerBucket

\* Mutant: an order placed on another day counts.
TimedAnyDay(S, window) == {o \in S : ValidTiming(o)}
PlacedIn(S, window) == {o \in S : ValidTiming(o) /\ In(table[o].createdAt, window)}

PeakCount(S, b) == Cardinality({o \in S : Bucket(o) = b})

\* The busiest first, of two equally busy ones the earlier.
Busier(S, b, c) ==
    PeakCount(S, b) > PeakCount(S, c) \/ (PeakCount(S, b) = PeakCount(S, c) /\ b < c)

Peaks(S) ==
    LET busy == {Bucket(o) : o \in S}
        Rank(b) == Cardinality({c \in busy : Busier(S, c, b)})
        Nth(i) == CHOOSE b \in busy : Rank(b) = i - 1
        listed == IF Cardinality(busy) > MaxPeaks THEN MaxPeaks ELSE Cardinality(busy)
    IN  [i \in 1..listed |-> [bucket |-> Nth(i), count |-> PeakCount(S, Nth(i))]]

Sizes(S) ==
    LET Of(size) == Count(S, LAMBDA f : f.size = size)
    IN  [small |-> Of(Small), medium |-> Of(Medium), large |-> Of(Large),
         standard |-> Of(Small) + Of(Medium) + Of(Large), custom |-> Of(Custom)]

Staples(S) ==
    [sales |-> [code \in StapleCode |-> Count(S, LAMBDA f : f.staple = code)],
     none |-> Count(S, LAMBDA f : f.staple = None),
     unknown |-> Count(S, LAMBDA f : f.staple # None /\ f.staple \notin StapleCode)]

AggregateReport(window, orders) ==
    LET S == {o \in orders : In(table[o].completedAt, window)}
        timed == {o \in S : ValidTiming(o)}
        count == Cardinality(S)
    IN  [revenue |-> Revenue(S),
         count |-> count,
         averageValue |-> Rounded(Revenue(S), count),
         averageTime |-> Rounded(SumFunction([o \in timed |-> Preparation(o)]), Cardinality(timed)),
         peaks |-> Peaks(PlacedIn(S, window)),
         sizes |-> Sizes(S),
         staples |-> Staples(S),
         eggs |-> SumFunction([o \in S |-> FormOf[o].eggs]),
         takeout |-> Count(S, LAMBDA f : f.dining = Takeout),
         lean |-> Count(S, LeanMeatOnly),
         noIntestine |-> Count(S, NoIntestine),
         union |-> Union(S)]

\* toReportDTO: the dates a report is labelled with.
Labelled(window, metrics) ==
    [from |-> DateOf(window.start), to |-> DateOf(window.end - 1), metrics |-> metrics]

\* Weeks and months are refused as not supported, other periods as invalid.
Report(period, date) ==
    LET window == DayWindow(Midnight(date))
    IN  IF period = "day"
        THEN Labelled(window, AggregateReport(window, CompletedIn(window)))
        ELSE Rejected

-----------------------------------------------------------------------------
(* Requests: each is one statement, and its answer a function of the table. *)

VARIABLE asked    \* the dates a client asks about, first and last, or Nil

ReportsInit == asked = Nil

Ask(from, to) ==
    /\ asked = Nil
    /\ asked' = <<from, to>>
    /\ UNCHANGED board

Answered ==
    /\ asked # Nil
    /\ asked' = Nil
    /\ UNCHANGED board

ReportsNext(Instant) ==
    \/ \E from, to \in Date : Ask(from, to)
    \/ Answered
    \/ /\ asked = Nil /\ asked' = Nil
       /\ \/ \E t \in Instant :
                \/ \E S \in SUBSET OrderId : Add(S, t)
                \/ \E o \in OrderId : Revise(o, t)
          \/ \E S \in SUBSET OrderId : Erase(S)

ReportsSpec(Instant) == TableInit /\ ReportsInit /\ [][ReportsNext(Instant)]_<<board, asked>>

-----------------------------------------------------------------------------
(* Correctness *)

FinishedOn(date) == {o \in Finished : DateOf(table[o].completedAt) = date}

(***************************************************************************)
(* The two endpoints agree, on days of any length: a range is accepted if  *)
(* it runs forward over at most MaxDays dates; it has one row for each of  *)
(* them, latest first, with the count and the revenue of that date's       *)
(* report, which are those of the orders completed on that date ("both     *)
(* APIs use completed_at and the same timezone boundaries",                *)
(* internal/domain/report.go); and a report is labelled by its own date.   *)
(***************************************************************************)
ReportsAgree ==
    asked # Nil =>
        LET from == asked[1]
            to == asked[2]
            rows == Daily(from, to)
        IN  IF to - from + 1 \in 1..MaxDays
            THEN /\ DOMAIN rows = 1..(to - from + 1)
                 /\ \A i \in DOMAIN rows :
                       LET date == to - i + 1
                           report == Report("day", date)
                       IN  /\ rows[i].date = date /\ report.from = date /\ report.to = date
                           /\ rows[i].count = report.metrics.count
                           /\ rows[i].revenue = report.metrics.revenue
                           /\ rows[i].count = Cardinality(FinishedOn(date))
            ELSE rows = Rejected

GroupsFit(m) ==
    /\ m.sizes.standard + m.sizes.custom = m.count
    /\ SumFunction(m.staples.sales) + m.staples.none = m.count
    /\ m.staples.unknown = 0
    /\ m.lean <= m.union /\ m.noIntestine <= m.union /\ m.union <= m.count

AveragesFit(m, S) ==
    /\ S # {} => \E low, high \in S : m.averageValue \in Price(low)..Price(high)
    /\ m.averageTime >= 0

PeaksFit(peaks, placed) ==
    /\ SumFunction([i \in DOMAIN peaks |-> peaks[i].count]) <= Cardinality(placed)
    /\ \A i, j \in DOMAIN peaks : i < j =>
          \/ peaks[i].count > peaks[j].count
          \/ peaks[i].count = peaks[j].count /\ peaks[i].bucket < peaks[j].bucket
    /\ \A o \in placed :
          \/ \E i \in DOMAIN peaks : peaks[i].bucket = Bucket(o)
          \/ \A i \in DOMAIN peaks : peaks[i].count >= PeakCount(placed, Bucket(o))

(***************************************************************************)
(* The numbers of one report fit together: sizes and staples account for   *)
(* every order once; an average lies between the extremes; the union of    *)
(* the overlapping customizations counts an order at most once; the peaks  *)
(* are orders placed and completed on the date, in half hours that are     *)
(* sorted, and no half hour left out is busier than one listed             *)
(* (AggregateReport, internal/domain/report.go).                           *)
(***************************************************************************)
ReportAddsUp ==
    asked # Nil =>
        LET date == asked[1]
            S == FinishedOn(date)
            placed == {o \in S : DateOf(table[o].createdAt) = date /\ ValidTiming(o)}
            metrics == Report("day", date).metrics
        IN  GroupsFit(metrics) /\ AveragesFit(metrics, S) /\ PeaksFit(metrics.peaks, placed)
=============================================================================
