---------------------------- MODULE BillingPeriod ----------------------------
(***************************************************************************)
(* The billing periods of a budget (internal/handlers/summary.go), as      *)
(* functions of the day: where the current period starts according to the  *)
(* Go code and to the query that repeats its arithmetic for the budgets    *)
(* that others link to, and which periods are completed.                   *)
(***************************************************************************)
EXTENDS Integers

Dates == [year : Int, month : 1..12, day : 1..31]

Date(y, m, d) == [year |-> y, month |-> m, day |-> d]

\* d1 is before d2.
Before(d1, d2) ==
  \/ d1.year < d2.year
  \/ d1.year = d2.year /\ d1.month < d2.month
  \/ d1.year = d2.year /\ d1.month = d2.month /\ d1.day < d2.day

Lesser(m, n) == IF m <= n THEN m ELSE n

Leap(y) == y % 4 = 0 /\ (y % 100 # 0 \/ y % 400 = 0)

\* The number of days in month m of year y.
daysIn(y, m) ==
  CASE m \in {4, 6, 9, 11} -> 30
    [] m = 2               -> IF Leap(y) THEN 29 ELSE 28
    [] OTHER               -> 31

\* The dates of the calendar.
Valid(d) == d \in Dates /\ d.day <= daysIn(d.year, d.month)

NextDay(d) ==
  IF d.day < daysIn(d.year, d.month) THEN [d EXCEPT !.day = @ + 1]
  ELSE IF d.month < 12 THEN Date(d.year, d.month + 1, 1)
  ELSE Date(d.year + 1, 1, 1)

----------------------------------------------------------------------------
(* In Go *)

PrevMonthYear(y, m) == IF m = 1 THEN y - 1 ELSE y
PrevMonth(m) == IF m = 1 THEN 12 ELSE m - 1

\* The last day of the month before month m of year y, which time.Date makes of
\* day 0 of that month.
DayZero(y, m) ==
  Date(PrevMonthYear(y, m), PrevMonth(m), daysIn(PrevMonthYear(y, m), PrevMonth(m)))

\* Mutant of OnCutoff: a period never starts after the 28th.
OnCutoffBefore29(y, m, cutoffDay) ==
  LET day == Lesser(cutoffDay, 28)
  IN  IF day = 0 THEN DayZero(y, m) ELSE Date(y, m, day)

\* The cutoff day in month m of year y.  A cutoff day of 0 is one that was never
\* set: CreateBudget asks for none when a budget is not recurring.
OnCutoff(y, m, cutoffDay) ==
  LET day == Lesser(cutoffDay, daysIn(y, m))
  IN  IF day = 0 THEN DayZero(y, m) ELSE Date(y, m, day)

\* Mutant of shiftMonths: the day is kept where the month has it, not taken from
\* the cutoff day.
ShiftKeepsDay(d, n, cutoffDay) ==
  LET t == d.month - 1 + n
      y == d.year + (t \div 12)
      m == (t % 12) + 1
  IN  OnCutoff(y, m, Lesser(d.day, cutoffDay))

\* d moved by n months, on the cutoff day of the month where that ends.
shiftMonths(d, n, cutoffDay) ==
  LET t0 == d.month + n - 1
      yearsBack == IF t0 < 0 THEN (-t0 + 11) \div 12 ELSE 0
      t == t0 + 12 * yearsBack
  IN  OnCutoff(d.year - yearsBack + (t \div 12), (t % 12) + 1, cutoffDay)

\* The start of the month-long period of today, for a cutoff day of at least 1.
MonthlyStart(today, cutoff) ==
  IF today.day >= Lesser(cutoff, daysIn(today.year, today.month))
  THEN OnCutoff(today.year, today.month, cutoff)
  ELSE OnCutoff(PrevMonthYear(today.year, today.month), PrevMonth(today.month), cutoff)

\* The start of the period of today: months months, of which today is in the last.
ComputeBillingPeriodStart(today, cutoffDay, months) ==
  LET cutoff == IF cutoffDay < 1 THEN 1 ELSE cutoffDay
      start == MonthlyStart(today, cutoff)
  IN  IF months > 1 THEN shiftMonths(start, -(months - 1), cutoff) ELSE start

\* The completed periods that GetBudgetResume shows, the latest first: at most a
\* year of them, and none that starts before the day the budget was created.  The
\* loop shifts each start from the one before; on day 0 each shift also ends a
\* month earlier.
CompletedPeriods(today, cutoffDay, months, created) ==
  LET max == IF months > 12 THEN 1 ELSE 12 \div months
      lag == IF cutoffDay = 0 THEN 1 ELSE 0
      current == ComputeBillingPeriodStart(today, cutoffDay, months)
      start == [i \in 0..max |->
                  IF i = 0 THEN current
                  ELSE shiftMonths(current, -(i * months + (i - 1) * lag), cutoffDay)]
      hidden == {i \in 1..max : ~Before(start[i], start[i - 1]) \/ Before(start[i], created)}
      shown == {i \in 1..max : \A j \in hidden : i < j}
  IN  [i \in shown |-> [start |-> start[i],
                        end |-> shiftMonths(start[i], months, cutoffDay)]]

----------------------------------------------------------------------------
(* In the query of loadLinkedAggregates *)

\* The month that is n months before month m of year y, as date_trunc and an
\* interval of months give it.
MonthsAgo(y, m, n) ==
  [year |-> (12 * y + m - 1 - n) \div 12, month |-> ((12 * y + m - 1 - n) % 12) + 1]

\* The first of the month, and LEAST(billing_cutoff_day, its last day) - 1 days.
SqlOnCutoff(ym, cutoffDay) == OnCutoff(ym.year, ym.month, cutoffDay)

\* single_start
SqlSingleStart(today, cutoffDay) ==
  IF today.day >= Lesser(cutoffDay, daysIn(today.year, today.month))
  THEN SqlOnCutoff(MonthsAgo(today.year, today.month, 0), cutoffDay)
  ELSE SqlOnCutoff(MonthsAgo(today.year, today.month, 1), cutoffDay)

\* Mutant of SqlPeriodStart: the months are taken from the month of today.
SqlFromToday(today, cutoffDay, months) ==
  SqlOnCutoff(MonthsAgo(today.year, today.month, months - 1), cutoffDay)

\* period_start, for a recurring budget.
SqlPeriodStart(today, cutoffDay, months) ==
  LET single == SqlSingleStart(today, cutoffDay)
  IN  IF months <= 1 THEN single
      ELSE SqlOnCutoff(MonthsAgo(single.year, single.month, months - 1), cutoffDay)

----------------------------------------------------------------------------
\* Periods ps, the latest first, up to the start of the current one leave no day
\* out and share none: each ends where the next one starts.
Tile(ps, current) ==
  \A i \in DOMAIN ps :
    /\ Before(ps[i].start, ps[i].end)
    /\ ps[i].end = IF i = 1 THEN current ELSE ps[i - 1].start

=============================================================================
