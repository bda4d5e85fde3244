---------------------------- MODULE DailyMetrics ----------------------------
(***************************************************************************)
(* The daily series of services/dailyMetrics.ts.  A row of                 *)
(* DailyTenantMetric is one day's count; nothing writes it but a reading:  *)
(* the range that is asked for is first made fresh (a range with a day     *)
(* missing is computed whole, otherwise only yesterday and today are) and  *)
(* then its rows are read.  The page Analitica.tsx asks for two ranges at  *)
(* once, the chosen one and the one of the same length before it.          *)
(*                                                                         *)
(* What is counted (orders created and delivered, stops ended, routes with *)
(* their distance and CO2) is a set of things, each counted on the day of  *)
(* its timestamp; the ten columns of a row are one number here.  Days are  *)
(* numbered from the first one the tenant has rows for.                    *)
(***************************************************************************)
EXTENDS Integers, FiniteSets

CONSTANTS
    LastDay,    \* bound on the days
    Things,
    Lengths,    \* the lengths of the ranges that are asked for, in days
    Readings,   \* the requests in flight at once
    NONE

MetricsAssumption ==
    /\ LastDay \in Nat /\ IsFiniteSet(Things)
    /\ Lengths \subseteq Nat \ {0} /\ NONE \notin Nat

VARIABLES
    today,      \* todayBogota()
    day,        \* the day each thing is counted on
    row,        \* DailyTenantMetric: the days that have a row, and their counts
    reading,    \* where each request is, with its range and what it has read
    revisited,  \* history: the days whose row was written on the day after
    unsettled   \* history: the days whose count changed after they were over, or that
                \* a reading was computing when midnight struck

vars == <<today, day, row, reading, revisited, unsettled>>

Days == 0..LastDay
Idle == [step |-> "idle"]
Count(d) == Cardinality({x \in Things : day[x] = d})

Init ==
    /\ today = 0
    /\ day = [x \in Things |-> NONE]
    /\ row = [d \in Days |-> NONE]
    /\ reading = [k \in Readings |-> Idle]
    /\ revisited = {} /\ unsettled = {}

-----------------------------------------------------------------------------
\* The tables the counts are taken from.

Recount(x, d, changed) ==
    /\ day' = [day EXCEPT ![x] = d]
    /\ unsettled' = IF changed < today THEN unsettled \cup {changed} ELSE unsettled
    /\ UNCHANGED <<today, row, reading, revisited>>

\* An order is created or delivered, a stop ends: now.  A route counts on the day
\* it is planned for.
Happen(x, d) == day[x] = NONE /\ Recount(x, d, d)

\* A route is cancelled; a delivered order fails, by an action the driver's phone
\* had kept.
Undo(x) == day[x] # NONE /\ Recount(x, NONE, day[x])

Computing(r) == IF r.step \in {"count", "write"} THEN r.days ELSE {}
BeingComputed == UNION {Computing(reading[k]) : k \in Readings}

Midnight ==
    /\ today < LastDay
    /\ today' = today + 1
    /\ unsettled' = unsettled \cup BeingComputed
    /\ UNCHANGED <<day, row, reading, revisited>>

-----------------------------------------------------------------------------
\* getTenantTimeseries.

\* GET /analytics/timeseries, once parseRange has let the range through.
Ask(k, from, to) ==
    /\ reading[k] = Idle
    /\ to - from + 1 \in Lengths
    /\ reading' = [reading EXCEPT ![k] = [step |-> "fresh", from |-> from, to |-> to]]
    /\ UNCHANGED <<today, day, row, revisited, unsettled>>

ToCompute(r, refreshFrom) ==
    IF \E d \in r.from..r.to : row[d] = NONE THEN r.from..r.to
    ELSE (r.from..r.to) \cap (refreshFrom..today)

MakeFresh(k, days) ==
    LET r == reading[k] IN
      /\ r.step = "fresh"
      /\ reading' = [reading EXCEPT ![k] =
            [step |-> IF days = {} THEN "read" ELSE "count",
             from |-> r.from, to |-> r.to, on |-> today, days |-> days]]
      /\ UNCHANGED <<today, day, row, revisited, unsettled>>

EnsureFreshFromToday(k) == MakeFresh(k, ToCompute(reading[k], today))

\* ensureFresh: the whole range when one of its days has no row, and otherwise
\* what it has of yesterday and today.
EnsureFresh(k) == MakeFresh(k, ToCompute(reading[k], today - 1))

\* recomputeDailyMetrics: the queries and the buckets they fill.
Recompute(k) ==
    /\ reading[k].step = "count"
    /\ reading' = [reading EXCEPT ![k] =
          [step |-> "write", from |-> @.from, to |-> @.to, on |-> @.on, days |-> @.days,
           found |-> [d \in @.days |-> Count(d)]]]
    /\ UNCHANGED <<today, day, row, revisited, unsettled>>

\* Its upserts, in one transaction.
Upsert(k) ==
    LET r == reading[k] IN
      /\ r.step = "write"
      /\ row' = [d \in Days |-> IF d \in r.days THEN r.found[d] ELSE row[d]]
      /\ revisited' = revisited \cup ({today - 1} \cap r.days)
      /\ reading' = [reading EXCEPT ![k] =
            [step |-> "read", from |-> r.from, to |-> r.to, on |-> r.on, days |-> {}]]
      /\ UNCHANGED <<today, day, unsettled>>

\* The rows of the range, from the first day to the last; a day without one
\* counts nothing.
ReadRows(k) ==
    /\ reading[k].step = "read"
    /\ reading' = [reading EXCEPT ![k] =
          [step |-> "shown", on |-> @.on,
           points |-> [d \in @.from..@.to |-> IF row[d] = NONE THEN 0 ELSE row[d]]]]
    /\ UNCHANGED <<today, day, row, revisited, unsettled>>

Leave(k) ==
    /\ reading[k].step = "shown"
    /\ reading' = [reading EXCEPT ![k] = Idle]
    /\ UNCHANGED <<today, day, row, revisited, unsettled>>

Next ==
    \/ \E x \in Things, d \in Days : Happen(x, d)
    \/ \E x \in Things : Undo(x)
    \/ Midnight
    \/ \E k \in Readings :
         \/ \E from, to \in Days : Ask(k, from, to)
         \/ EnsureFresh(k) \/ Recompute(k) \/ Upsert(k) \/ ReadRows(k) \/ Leave(k)

Spec == Init /\ [][Next]_vars

-----------------------------------------------------------------------------
\* Properties.

\* What a series made fresh on r.on shows of day d is what is counted on it, when
\* the day was over by then and has not changed since, however many readings were
\* computing it at once.
Whole(r, d) ==
    r.step = "shown" /\ d \in DOMAIN r.points /\ d < r.on /\ d \notin unsettled
      => r.points[d] = Count(d)

\* Every series is whole on the day before the one it was made fresh on, and on
\* every day that some earlier series was made fresh on the day after (a row
\* written on its own day and never asked for on the next keeps a part of it).
RevisitedDaysAreWhole ==
    \A k \in Readings :
        LET r == reading[k] IN
        \A d \in Days : r.step = "shown" /\ d \in revisited \cup {r.on - 1} => Whole(r, d)

=============================================================================
