---------------------------- MODULE ResumeProofs ----------------------------
(***************************************************************************)
(* Proofs about BillingPeriod, for every date, and about Resume, for any   *)
(* number of requests and viewers, any expenses and any cutoff days.       *)
(***************************************************************************)
EXTENDS Resume, TLAPS

(* The calendar *)

\* daysIn is between 28 and 31.
LEMMA DaysBounds ==
  ASSUME NEW y \in Int, NEW m \in 1..12
  PROVE  daysIn(y, m) \in 28..31
<1>1. CASE m \in {4, 6, 9, 11}
  BY <1>1 DEF daysIn
<1>2. CASE m = 2
  BY <1>2 DEF daysIn
<1>3. CASE m \notin {2, 4, 6, 9, 11}
  BY <1>3 DEF daysIn
<1> QED BY <1>1, <1>2, <1>3

\* An interval of one month leads to the month before, as Go computes it.
LEMMA PrevMonthAgo ==
  ASSUME NEW y \in Int, NEW m \in 1..12
  PROVE  MonthsAgo(y, m, 1) = [year |-> PrevMonthYear(y, m), month |-> PrevMonth(m)]
<1>1. CASE m = 1
  <2>1. /\ (12 * y + 1 - 1 - 1) \div 12 = y - 1
        /\ (12 * y + 1 - 1 - 1) % 12 = 11
    OBVIOUS
  <2> QED BY <1>1, <2>1 DEF MonthsAgo, PrevMonthYear, PrevMonth
<1>2. CASE m # 1
  <2>1. /\ (12 * y + m - 1 - 1) \div 12 = y
        /\ (12 * y + m - 1 - 1) % 12 = m - 2
    BY <1>2
  <2> QED BY <1>2, <2>1 DEF MonthsAgo, PrevMonthYear, PrevMonth
<1> QED BY <1>1, <1>2

\* No months ago is this month.
LEMMA ThisMonth ==
  ASSUME NEW y \in Int, NEW m \in 1..12
  PROVE  MonthsAgo(y, m, 0) = [year |-> y, month |-> m]
<1>1. /\ (12 * y + m - 1 - 0) \div 12 = y
      /\ (12 * y + m - 1 - 0) % 12 = m - 1
  OBVIOUS
<1> QED BY <1>1 DEF MonthsAgo

\* Moved back by up to three years, a date goes where the query's intervals put
\* it.
LEMMA ShiftBack ==
  ASSUME NEW d, d.year \in Int, d.month \in 1..12, NEW n \in 0..35, NEW c
  PROVE  shiftMonths(d, -n, c) = SqlOnCutoff(MonthsAgo(d.year, d.month, n), c)
<1> DEFINE y == d.year
           m == d.month
           t0 == m + (-n) - 1
           yb == IF t0 < 0 THEN (-t0 + 11) \div 12 ELSE 0
           t == t0 + 12 * yb
<1>1. /\ y - yb + (t \div 12) = (12 * y + m - 1 - n) \div 12
      /\ t % 12 = (12 * y + m - 1 - n) % 12
  <2>1. y \in Int /\ m \in 1..12
    OBVIOUS
  <2> HIDE DEF y, m
  <2> QED BY <2>1
<1>2. shiftMonths(d, -n, c) = OnCutoff(y - yb + (t \div 12), (t % 12) + 1, c)
  BY DEF shiftMonths
<1> QED BY <1>1, <1>2 DEF MonthsAgo, SqlOnCutoff

\* The same for a date moved on.
LEMMA ShiftOn ==
  ASSUME NEW d, d.year \in Int, d.month \in 1..12, NEW n \in 0..12, NEW c
  PROVE  shiftMonths(d, n, c) = SqlOnCutoff(MonthsAgo(d.year, d.month, -n), c)
<1> DEFINE y == d.year
           m == d.month
           t == m + n - 1 + 12 * 0
<1>1. y \in Int /\ m \in 1..12 /\ ~(m + n - 1 < 0)
  OBVIOUS
<1>2. shiftMonths(d, n, c) = OnCutoff(y - 0 + (t \div 12), (t % 12) + 1, c)
  BY <1>1 DEF shiftMonths
<1>3. /\ y - 0 + (t \div 12) = (12 * y + m - 1 - (-n)) \div 12
      /\ t % 12 = (12 * y + m - 1 - (-n)) % 12
  <2> HIDE DEF y, m
  <2> QED BY <1>1
<1> QED BY <1>2, <1>3 DEF MonthsAgo, SqlOnCutoff

\* Going back by q months and on by n is going back by q - n.
LEMMA BackAndOn ==
  ASSUME NEW y \in Int, NEW m \in 1..12, NEW q \in 0..35, NEW n \in 0..12
  PROVE  MonthsAgo(MonthsAgo(y, m, q).year, MonthsAgo(y, m, q).month, -n) = MonthsAgo(y, m, q - n)
<1> DEFINE y1 == (12 * y + m - 1 - q) \div 12
           m1 == ((12 * y + m - 1 - q) % 12) + 1
<1>1. 12 * y1 + m1 - 1 - (-n) = 12 * y + m - 1 - (q - n)
  OBVIOUS
<1>2. MonthsAgo(y, m, q).year = y1 /\ MonthsAgo(y, m, q).month = m1
  BY DEF MonthsAgo
<1> HIDE DEF y1, m1
<1> QED BY <1>1, <1>2 DEF MonthsAgo

\* A date that is on the cutoff day of its month.
OnItsCutoff(d, c) ==
  /\ d.year \in Int /\ d.month \in 1..12
  /\ d = OnCutoff(d.year, d.month, c)

\* With a cutoff day that was set, OnCutoff is in the month that it was given.
LEMMA CutoffDates ==
  ASSUME NEW y \in Int, NEW m \in 1..12, NEW c \in 1..31
  PROVE  /\ OnCutoff(y, m, c) = Date(y, m, Lesser(c, daysIn(y, m)))
         /\ OnItsCutoff(OnCutoff(y, m, c), c)
<1>1. daysIn(y, m) \in 28..31
  BY DaysBounds
<1>2. OnCutoff(y, m, c) = Date(y, m, Lesser(c, daysIn(y, m)))
  BY <1>1 DEF OnCutoff, Lesser
<1> QED BY <1>2 DEF OnItsCutoff, Date

\* MonthsAgo is a month of a year.
LEMMA MonthsAgoType ==
  ASSUME NEW y \in Int, NEW m \in 1..12, NEW n \in Int
  PROVE  MonthsAgo(y, m, n).year \in Int /\ MonthsAgo(y, m, n).month \in 1..12
<1>1. (12 * y + m - 1 - n) \div 12 \in Int /\ (12 * y + m - 1 - n) % 12 \in 0..11
  OBVIOUS
<1> QED BY <1>1 DEF MonthsAgo

\* So is the month before.
LEMMA PrevType ==
  ASSUME NEW y \in Int, NEW m \in 1..12
  PROVE  PrevMonthYear(y, m) \in Int /\ PrevMonth(m) \in 1..12
BY DEF PrevMonthYear, PrevMonth

\* Monthly periods start on the cutoff day.
LEMMA MonthlyStartOnCutoff ==
  ASSUME NEW d, Valid(d), NEW c \in 1..31
  PROVE  OnItsCutoff(MonthlyStart(d, c), c)
<1>1. d.year \in Int /\ d.month \in 1..12
  BY DEF Valid, Dates
<1>2. /\ OnItsCutoff(OnCutoff(d.year, d.month, c), c)
      /\ OnItsCutoff(OnCutoff(PrevMonthYear(d.year, d.month), PrevMonth(d.month), c), c)
  BY <1>1, PrevType, CutoffDates
<1> QED BY <1>2 DEF MonthlyStart

\* The query's single_start is Go's start of the month-long period.
LEMMA SingleStart ==
  ASSUME NEW d, Valid(d), NEW c \in 1..31
  PROVE  SqlSingleStart(d, c) = MonthlyStart(d, c)
<1>1. d.year \in Int /\ d.month \in 1..12
  BY DEF Valid, Dates
<1>2. SqlOnCutoff(MonthsAgo(d.year, d.month, 0), c) = OnCutoff(d.year, d.month, c)
  BY <1>1, ThisMonth DEF SqlOnCutoff
<1>3. SqlOnCutoff(MonthsAgo(d.year, d.month, 1), c)
        = OnCutoff(PrevMonthYear(d.year, d.month), PrevMonth(d.month), c)
  BY <1>1, PrevMonthAgo DEF SqlOnCutoff
<1> QED BY <1>2, <1>3 DEF SqlSingleStart, MonthlyStart

\* The query of loadLinkedAggregates and ComputeBillingPeriodStart give the same
\* start, for every date, every cutoff day that was set, and up to a year's months.
THEOREM SqlIsGo ==
  ASSUME NEW d, Valid(d), NEW c \in 1..31, NEW months \in 1..12
  PROVE  SqlPeriodStart(d, c, months) = ComputeBillingPeriodStart(d, c, months)
<1> DEFINE single == MonthlyStart(d, c)
<1>1. OnItsCutoff(single, c)
  BY MonthlyStartOnCutoff
<1>2. SqlSingleStart(d, c) = single
  BY SingleStart
<1>3. months - 1 \in 0..35
  OBVIOUS
<1>4. shiftMonths(single, -(months - 1), c) = SqlOnCutoff(MonthsAgo(single.year, single.month, months - 1), c)
  <2> HIDE DEF single
  <2> QED BY <1>1, <1>3, ShiftBack DEF OnItsCutoff
<1>5. ComputeBillingPeriodStart(d, c, months)
        = IF months > 1 THEN shiftMonths(single, -(months - 1), c) ELSE single
  BY DEF ComputeBillingPeriodStart
<1>6. SqlPeriodStart(d, c, months)
        = IF months <= 1 THEN single ELSE SqlOnCutoff(MonthsAgo(single.year, single.month, months - 1), c)
  BY <1>2 DEF SqlPeriodStart
<1> QED BY <1>4, <1>5, <1>6

\* The day after a date of the calendar is one.
LEMMA NextDayValid ==
  ASSUME NEW d, Valid(d)
  PROVE  Valid(NextDay(d))
<1>1. /\ d.year \in Int /\ d.month \in 1..12 /\ d.day \in 1..31
      /\ d = [year |-> d.year, month |-> d.month, day |-> d.day]
      /\ d.day <= daysIn(d.year, d.month)
  BY DEF Valid, Dates
<1>2. daysIn(d.year, d.month) \in 28..31
  BY <1>1, DaysBounds
<1>3. CASE d.day < daysIn(d.year, d.month)
  BY <1>1, <1>2, <1>3 DEF NextDay, Valid, Dates
<1>4. CASE d.day >= daysIn(d.year, d.month) /\ d.month < 12
  <2>1. NextDay(d) = Date(d.year, d.month + 1, 1)
    BY <1>1, <1>2, <1>4 DEF NextDay
  <2>2. daysIn(d.year, d.month + 1) \in 28..31
    BY <1>1, <1>4, DaysBounds
  <2> QED BY <1>1, <1>4, <2>1, <2>2 DEF Valid, Dates, Date
<1>5. CASE d.day >= daysIn(d.year, d.month) /\ d.month = 12
  <2>1. NextDay(d) = Date(d.year + 1, 1, 1)
    BY <1>1, <1>2, <1>5 DEF NextDay
  <2>2. daysIn(d.year + 1, 1) \in 28..31
    BY <1>1, DaysBounds
  <2> QED BY <1>1, <2>1, <2>2 DEF Valid, Dates, Date
<1> QED BY <1>1, <1>2, <1>3, <1>4, <1>5

\* One month after the month before, and one month after this one.
LEMMA NextMonths ==
  ASSUME NEW y \in Int, NEW m \in 1..12
  PROVE  /\ MonthsAgo(PrevMonthYear(y, m), PrevMonth(m), -1) = [year |-> y, month |-> m]
         /\ MonthsAgo(y, m, -1) = IF m < 12 THEN [year |-> y, month |-> m + 1]
                                  ELSE [year |-> y + 1, month |-> 1]
<1>1. MonthsAgo(PrevMonthYear(y, m), PrevMonth(m), -1) = MonthsAgo(y, m, 1 - 1)
  <2>1. MonthsAgo(y, m, 1).year = PrevMonthYear(y, m) /\ MonthsAgo(y, m, 1).month = PrevMonth(m)
    BY PrevMonthAgo
  <2>2. MonthsAgo(MonthsAgo(y, m, 1).year, MonthsAgo(y, m, 1).month, -1) = MonthsAgo(y, m, 1 - 1)
    <3>1. 1 \in 0..35 /\ 1 \in 0..12
      OBVIOUS
    <3> QED BY <3>1, BackAndOn
  <2> QED BY <2>1, <2>2
<1>2. MonthsAgo(y, m, 1 - 1) = [year |-> y, month |-> m]
  BY ThisMonth
<1>3. CASE m < 12
  <2>1. (12 * y + m - 1 - (-1)) \div 12 = y /\ (12 * y + m - 1 - (-1)) % 12 = m
    BY <1>3
  <2> QED BY <1>1, <1>2, <1>3, <2>1 DEF MonthsAgo
<1>4. CASE m = 12
  <2>1. (12 * y + 12 - 1 - (-1)) \div 12 = y + 1 /\ (12 * y + 12 - 1 - (-1)) % 12 = 0
    OBVIOUS
  <2> QED BY <1>1, <1>2, <1>4, <2>1 DEF MonthsAgo
<1> QED BY <1>3, <1>4

\* A day is between the start of its monthly period and the next cutoff day,
\* however short the months are.
LEMMA MonthlyHolds ==
  ASSUME NEW d, Valid(d), NEW c \in 1..31
  PROVE  LET single == MonthlyStart(d, c)
         IN  /\ ~Before(d, single)
             /\ Before(d, SqlOnCutoff(MonthsAgo(single.year, single.month, -1), c))
<1> DEFINE y == d.year
           m == d.month
           k == daysIn(d.year, d.month)
           y0 == PrevMonthYear(y, m)
           m0 == PrevMonth(m)
<1>1. y \in Int /\ m \in 1..12 /\ d.day \in 1..31 /\ d.day <= k
  BY DEF Valid, Dates
<1>2. k \in 28..31 /\ Lesser(c, k) \in 1..31
  BY <1>1, DaysBounds DEF Lesser
<1>3. OnCutoff(y, m, c) = Date(y, m, Lesser(c, k))
  BY <1>1, CutoffDates
<1>4. CASE d.day >= Lesser(c, k)
  <2> DEFINE y1 == IF m < 12 THEN y ELSE y + 1
             m1 == IF m < 12 THEN m + 1 ELSE 1
  <2>1. MonthlyStart(d, c) = Date(y, m, Lesser(c, k))
    BY <1>3, <1>4 DEF MonthlyStart
  <2>2. MonthsAgo(y, m, -1) = [year |-> y1, month |-> m1] /\ y1 \in Int /\ m1 \in 1..12
    <3>1. MonthsAgo(y, m, -1) = IF m < 12 THEN [year |-> y, month |-> m + 1]
                                ELSE [year |-> y + 1, month |-> 1]
      BY <1>1, NextMonths
    <3> QED BY <1>1, <3>1
  <2>3. OnCutoff(y1, m1, c) = Date(y1, m1, Lesser(c, daysIn(y1, m1)))
    <3> HIDE DEF y1, m1
    <3> QED BY <2>2, CutoffDates
  <2>4. Before(d, Date(y1, m1, Lesser(c, daysIn(y1, m1))))
    BY <1>1 DEF Before, Date
  <2>5. ~Before(d, Date(y, m, Lesser(c, k)))
    BY <1>1, <1>2, <1>4 DEF Before, Date
  <2> HIDE DEF y1, m1, k
  <2> QED BY <2>1, <2>2, <2>3, <2>4, <2>5 DEF SqlOnCutoff, Date
<1>5. CASE d.day < Lesser(c, k)
  <2>1. y0 \in Int /\ m0 \in 1..12
    BY <1>1, PrevType
  <2>2. MonthlyStart(d, c) = Date(y0, m0, Lesser(c, daysIn(y0, m0)))
    <3>1. MonthlyStart(d, c) = OnCutoff(y0, m0, c)
      BY <1>1, <1>2, <1>5 DEF MonthlyStart
    <3> HIDE DEF y0, m0
    <3> QED BY <2>1, <3>1, CutoffDates
  <2>3. MonthsAgo(y0, m0, -1) = [year |-> y, month |-> m]
    BY <1>1, NextMonths
  <2>4. Before(d, Date(y, m, Lesser(c, k)))
    BY <1>1, <1>2, <1>5 DEF Before, Date
  <2>5. ~Before(d, Date(y0, m0, Lesser(c, daysIn(y0, m0))))
    BY <1>1 DEF Before, Date, PrevMonthYear, PrevMonth
  <2> HIDE DEF y0, m0, k
  <2> QED BY <1>3, <2>2, <2>3, <2>4, <2>5 DEF SqlOnCutoff, Date
<1> QED BY <1>1, <1>2, <1>4, <1>5

\* Periods of any length start on the cutoff day.
LEMMA StartOnCutoff ==
  ASSUME NEW d, Valid(d), NEW c \in 1..31, NEW months \in 1..12
  PROVE  OnItsCutoff(ComputeBillingPeriodStart(d, c, months), c)
<1> DEFINE single == MonthlyStart(d, c)
<1>1. OnItsCutoff(single, c)
  BY MonthlyStartOnCutoff
<1>2. months - 1 \in 0..35
  OBVIOUS
<1>3. shiftMonths(single, -(months - 1), c) = SqlOnCutoff(MonthsAgo(single.year, single.month, months - 1), c)
  <2> HIDE DEF single
  <2> QED BY <1>1, <1>2, ShiftBack DEF OnItsCutoff
<1>4. OnItsCutoff(shiftMonths(single, -(months - 1), c), c)
  <2> HIDE DEF single
  <2>1. single.year \in Int /\ single.month \in 1..12 /\ months - 1 \in Int
    BY <1>1 DEF OnItsCutoff
  <2>2. /\ MonthsAgo(single.year, single.month, months - 1).year \in Int
        /\ MonthsAgo(single.year, single.month, months - 1).month \in 1..12
    BY <2>1, MonthsAgoType
  <2> QED BY <1>3, <2>2, CutoffDates DEF SqlOnCutoff
<1>5. ComputeBillingPeriodStart(d, c, months)
        = IF months > 1 THEN shiftMonths(single, -(months - 1), c) ELSE single
  BY DEF ComputeBillingPeriodStart
<1> QED BY <1>1, <1>4, <1>5

\* Moved on by all its months but one, the start of a period is the start of the
\* monthly period; moved on by all of them, it is the cutoff day after that.
LEMMA StartMovedOn ==
  ASSUME NEW d, Valid(d), NEW c \in 1..31, NEW months \in 1..12
  PROVE  LET start == ComputeBillingPeriodStart(d, c, months)
             single == MonthlyStart(d, c)
         IN  /\ shiftMonths(start, months - 1, c) = single
             /\ shiftMonths(start, months, c) = SqlOnCutoff(MonthsAgo(single.year, single.month, -1), c)
<1> DEFINE start == ComputeBillingPeriodStart(d, c, months)
           single == MonthlyStart(d, c)
           q == months - 1
           back == MonthsAgo(single.year, single.month, q)
<1>1. /\ single.year \in Int /\ single.month \in 1..12
      /\ single = OnCutoff(single.year, single.month, c)
  BY MonthlyStartOnCutoff DEF OnItsCutoff
<1>2. q \in 0..12 /\ q \in 0..35 /\ q \in Int /\ months \in 0..12
  OBVIOUS
<1>3. start = SqlOnCutoff(back, c)
  <2>1. CASE months > 1
    <3>1. start = shiftMonths(single, -q, c)
      BY <2>1 DEF ComputeBillingPeriodStart
    <3> HIDE DEF single, start, q
    <3> QED BY <1>1, <1>2, <3>1, ShiftBack
  <2>2. CASE months = 1
    <3>1. start = single /\ q = 0
      BY <2>2 DEF ComputeBillingPeriodStart
    <3> HIDE DEF single, start, q
    <3> QED BY <1>1, <3>1, ThisMonth DEF SqlOnCutoff
  <2> QED BY <2>1, <2>2
<1> HIDE DEF single, start
<1>4. back.year \in Int /\ back.month \in 1..12
  <2> HIDE DEF q
  <2> QED BY <1>1, <1>2, MonthsAgoType
<1>5. start.year = back.year /\ start.month = back.month
  <2> HIDE DEF back
  <2>1. start = Date(back.year, back.month, Lesser(c, daysIn(back.year, back.month)))
    BY <1>3, <1>4, CutoffDates DEF SqlOnCutoff
  <2> QED BY <2>1 DEF Date
<1>6. ASSUME NEW n \in 0..12
      PROVE  shiftMonths(start, n, c) = SqlOnCutoff(MonthsAgo(single.year, single.month, q - n), c)
  <2>1. shiftMonths(start, n, c) = SqlOnCutoff(MonthsAgo(back.year, back.month, -n), c)
    <3> HIDE DEF back
    <3> QED BY <1>4, <1>5, ShiftOn
  <2>2. MonthsAgo(back.year, back.month, -n) = MonthsAgo(single.year, single.month, q - n)
    <3> HIDE DEF q
    <3> QED BY <1>1, <1>2, BackAndOn
  <2> QED BY <2>1, <2>2
<1>7. shiftMonths(start, months - 1, c) = single
  <2>1. shiftMonths(start, q, c) = SqlOnCutoff(MonthsAgo(single.year, single.month, 0), c)
    <3>1. q - q = 0
      OBVIOUS
    <3> HIDE DEF q, back
    <3> QED BY <1>2, <1>6, <3>1
  <2> QED BY <1>1, <2>1, ThisMonth DEF SqlOnCutoff
<1>8. shiftMonths(start, months, c) = SqlOnCutoff(MonthsAgo(single.year, single.month, -1), c)
  <2>1. q - months = -1
    OBVIOUS
  <2> HIDE DEF q, back
  <2> QED BY <1>2, <1>6, <2>1
<1> QED BY <1>7, <1>8 DEF start, single

\* The day is in the last month of its period, for every date, every cutoff day that
\* was set, and up to a year's months: ComputeBillingPeriodStart with shiftMonths.
THEOREM LastMonthHolds ==
  ASSUME NEW d, Valid(d), NEW c \in 1..31, NEW months \in 1..12
  PROVE  LET start == ComputeBillingPeriodStart(d, c, months)
         IN  /\ ~Before(d, shiftMonths(start, months - 1, c))
             /\ Before(d, shiftMonths(start, months, c))
BY MonthlyHolds, StartMovedOn

\* The periods that GetBudgetResume's loop collects tile the time before the
\* current one: going back by i periods and on by one is going back by i - 1,
\* although the day is clamped to each month.
THEOREM CompletedTile ==
  ASSUME NEW d, Valid(d), NEW c \in 1..31, NEW months \in {1, 3, 6, 12}, NEW created
  PROVE  Tile(CompletedPeriods(d, c, months, created),
              ComputeBillingPeriodStart(d, c, months))
<1> DEFINE ps == CompletedPeriods(d, c, months, created)
           max == IF months > 12 THEN 1 ELSE 12 \div months
           lag == IF c = 0 THEN 1 ELSE 0
           current == ComputeBillingPeriodStart(d, c, months)
           start == [j \in 0..max |->
                       IF j = 0 THEN current
                       ELSE shiftMonths(current, -(j * months + (j - 1) * lag), c)]
           hidden == {j \in 1..max : ~Before(start[j], start[j - 1]) \/ Before(start[j], created)}
           shown == {j \in 1..max : \A h \in hidden : j < h}
           back(j) == SqlOnCutoff(MonthsAgo(current.year, current.month, j * months), c)
<1>1. ps = [j \in shown |-> [start |-> start[j], end |-> shiftMonths(start[j], months, c)]]
  BY DEF CompletedPeriods
<1>2. OnItsCutoff(current, c)
  BY StartOnCutoff
<1>3. months \in 1..12 /\ max \in 1..12 /\ \A j \in 0..max : j * months \in 0..12
  OBVIOUS
<1>4. current.year \in Int /\ current.month \in 1..12
  BY <1>2 DEF OnItsCutoff
<1> HIDE DEF current
<1>5. ASSUME NEW j \in 0..max
      PROVE  start[j] = back(j)
  <2>1. CASE j = 0
    <3>1. j * months = 0
      BY <2>1, <1>3
    <3>2. back(j) = OnCutoff(current.year, current.month, c)
      BY <1>4, <3>1, ThisMonth DEF SqlOnCutoff
    <3> QED BY <2>1, <3>2, <1>2 DEF OnItsCutoff
  <2>2. CASE j # 0
    <3>1. start[j] = shiftMonths(current, -(j * months + (j - 1) * lag), c)
      BY <2>2
    <3>2. j * months + (j - 1) * lag = j * months /\ j * months \in 0..35
      BY <1>3
    <3>3. start[j] = shiftMonths(current, -(j * months), c)
      BY <3>1, <3>2
    <3> HIDE DEF start
    <3> QED BY <1>4, <3>2, <3>3, ShiftBack
  <2> QED BY <2>1, <2>2
<1> HIDE DEF start
<1> SUFFICES ASSUME NEW i \in DOMAIN ps
             PROVE  /\ Before(ps[i].start, ps[i].end)
                    /\ ps[i].end = IF i = 1 THEN current ELSE ps[i - 1].start
  BY DEF Tile, current
<1>6. i \in 1..max /\ i - 1 \in 0..max /\ i \notin hidden /\ (i # 1 => i - 1 \in shown)
  <2>1. i \in shown
    BY <1>1
  <2>2. \A h \in hidden : h \in 1..max /\ i < h
    BY <2>1
  <2> QED BY <1>3, <2>1, <2>2
<1>7. shiftMonths(start[i], months, c) = start[i - 1]
  <2>1. i * months \in 0..35 /\ i * months - months = (i - 1) * months /\ i * months \in Int
    BY <1>3, <1>6
  <2>2. /\ MonthsAgo(current.year, current.month, i * months).year \in Int
        /\ MonthsAgo(current.year, current.month, i * months).month \in 1..12
    BY <1>4, <2>1, MonthsAgoType
  <2>3. OnCutoff(MonthsAgo(current.year, current.month, i * months).year,
                 MonthsAgo(current.year, current.month, i * months).month, c)
         = Date(MonthsAgo(current.year, current.month, i * months).year,
                MonthsAgo(current.year, current.month, i * months).month,
                Lesser(c, daysIn(MonthsAgo(current.year, current.month, i * months).year,
                                 MonthsAgo(current.year, current.month, i * months).month)))
    BY <2>2, CutoffDates
  <2>4. /\ start[i].year = MonthsAgo(current.year, current.month, i * months).year
        /\ start[i].month = MonthsAgo(current.year, current.month, i * months).month
    BY <1>5, <1>6, <2>3 DEF SqlOnCutoff, Date
  <2>5. shiftMonths(start[i], months, c)
          = SqlOnCutoff(MonthsAgo(current.year, current.month, i * months - months), c)
    <3>1. months \in 0..12
      BY <1>3
    <3>2. shiftMonths(start[i], months, c)
            = SqlOnCutoff(MonthsAgo(start[i].year, start[i].month, -months), c)
      BY <2>2, <2>4, <3>1, ShiftOn
    <3>3. MonthsAgo(start[i].year, start[i].month, -months)
            = MonthsAgo(current.year, current.month, i * months - months)
      BY <1>4, <2>1, <2>4, <3>1, BackAndOn
    <3> QED BY <3>2, <3>3
  <2> QED BY <1>5, <1>6, <2>1, <2>5
<1>8. Before(start[i], start[i - 1])
  BY <1>6
<1>9. ps[i] = [start |-> start[i], end |-> start[i - 1]]
  BY <1>1, <1>7
<1>10. i # 1 => ps[i - 1].start = start[i - 1]
  BY <1>1, <1>6
<1>11. i = 1 => start[i - 1] = current
  BY <1>3 DEF start
<1> HIDE DEF ps
<1> QED BY <1>8, <1>9, <1>10, <1>11

----------------------------------------------------------------------------
(* The days and the budget's configuration *)

\* Days are dates of the calendar, and configurations those that handlers accept.
CalendarOK == Valid(today) /\ config \in Configs

\* The ranges of a configuration's fields.
LEMMA ConfigRange ==
  ASSUME NEW g \in Configs
  PROVE  g.months \in {0, 1, 3, 6, 12} /\ g.cutoff \in 0..31
BY CutoffAssumption DEF Configs

\* Only Midnight changes the day.
LEMMA DayStep ==
  ASSUME [Next]_vars
  PROVE  \/ UNCHANGED today /\ (config' = config \/ config' \in AskConfigs)
         \/ today' = NextDay(today) /\ UNCHANGED config
<1>1. CASE UNCHANGED vars
  BY <1>1 DEF vars
<1>2. CASE \E r \in Requests : RequestNext(r)
  BY <1>2 DEF RequestNext, Ask, Query, Store
<1>3. CASE \E u \in Viewers : ReadRow(u) \/ LandRow(u) \/ FailRow(u)
  BY <1>3 DEF ReadRow, LandRow, FailRow
<1>4. CASE \E k \in DOMAIN agg : LandQuery(k) \/ FailQuery(k)
  BY <1>4 DEF LandQuery, FailQuery
<1>5. CASE \E g \in AskConfigs : UpdateBudget(g)
  BY <1>5 DEF UpdateBudget
<1>6. CASE Invalidate
  BY <1>6 DEF Invalidate
<1>7. CASE \E k \in cached : Expire(k)
  BY <1>7 DEF Expire
<1>8. CASE Midnight
  BY <1>8 DEF Midnight
<1> QED BY <1>1, <1>2, <1>3, <1>4, <1>5, <1>6, <1>7, <1>8 DEF Next

\* CalendarOK holds at first.
LEMMA CalendarInit == Init => CalendarOK
BY CalendarAssumption DEF Init, CalendarOK

\* Every step preserves it.
LEMMA CalendarNext == CalendarOK /\ [Next]_vars => CalendarOK'
<1> SUFFICES ASSUME CalendarOK, [Next]_vars
             PROVE  CalendarOK'
  OBVIOUS
<1>1. AskConfigs \subseteq Configs
  BY AskAssumption DEF Configs
<1>2. CASE UNCHANGED today /\ (config' = config \/ config' \in AskConfigs)
  BY <1>1, <1>2 DEF CalendarOK
<1>3. CASE today' = NextDay(today) /\ UNCHANGED config
  BY <1>3, NextDayValid DEF CalendarOK
<1> QED BY <1>2, <1>3, DayStep

\* It is an invariant.
LEMMA CalendarInvariance == Spec => []CalendarOK
BY CalendarInit, CalendarNext, PTL DEF Spec

\* For every day and configuration with a cutoff day that was set, the SQL mirror
\* agrees with the Go code (summary.go:56).
THEOREM SqlAlwaysMirrorsGo == Spec => SqlMirrorsGo
<1>1. CalendarOK /\ CalendarOK' /\ [Next]_vars =>
        [NewDay => SqlPeriodStart(today', config.cutoff, config.months) = Start(today', config)]_vars
  <2> SUFFICES ASSUME CalendarOK, CalendarOK', [Next]_vars, NewDay
               PROVE  SqlPeriodStart(today', config.cutoff, config.months) = Start(today', config)
    OBVIOUS
  <2>1. Valid(today')
    BY DEF CalendarOK
  <2>2. config.months \in 1..12 /\ config.cutoff \in 1..31
    BY ConfigRange DEF CalendarOK, NewDay
  <2> QED BY <2>1, <2>2, SqlIsGo DEF Start
<1> QED BY <1>1, CalendarInvariance, PTL DEF Spec, SqlMirrorsGo

\* The completed periods never leave out a day nor share one.
THEOREM PeriodsAlwaysTile == Spec => PeriodsTile
<1>1. CalendarOK /\ CalendarOK' /\ [Next]_vars =>
        [NewDay => Tile(Completed(today', config), Start(today', config))]_vars
  <2> SUFFICES ASSUME CalendarOK, CalendarOK', [Next]_vars, NewDay
               PROVE  Tile(Completed(today', config), Start(today', config))
    OBVIOUS
  <2>1. Valid(today')
    BY DEF CalendarOK
  <2>2. config.months \in {1, 3, 6, 12} /\ config.cutoff \in 1..31
    BY ConfigRange DEF CalendarOK, NewDay
  <2> QED BY <2>1, <2>2, CompletedTile DEF Start, Completed
<1> QED BY <1>1, CalendarInvariance, PTL DEF Spec, PeriodsTile

\* Every day is in the last month of the period that is computed for it, whatever the
\* length of the periods (INVARIANT (9) at summary.go:53, for monthly ones).
THEOREM DaysInLastMonth == Spec => DayInLastMonth
<1> DEFINE cutoff == IF config.cutoff = 0 THEN 1 ELSE config.cutoff
<1>1. CalendarOK /\ CalendarOK' /\ [Next]_vars =>
        [today' # today /\ config.months # 0 =>
           LET start == Start(today', config)
           IN  /\ ~Before(today', shiftMonths(start, config.months - 1, cutoff))
               /\ Before(today', shiftMonths(start, config.months, cutoff))]_vars
  <2> SUFFICES ASSUME CalendarOK, CalendarOK', [Next]_vars, today' # today, config.months # 0
               PROVE  LET start == Start(today', config)
                      IN  /\ ~Before(today', shiftMonths(start, config.months - 1, cutoff))
                          /\ Before(today', shiftMonths(start, config.months, cutoff))
    OBVIOUS
  <2>1. Valid(today')
    BY DEF CalendarOK
  <2>2. config.months \in 1..12 /\ config.cutoff \in 0..31 /\ cutoff \in 1..31
    BY ConfigRange DEF CalendarOK
  <2>3. Start(today', config) = ComputeBillingPeriodStart(today', cutoff, config.months)
    BY <2>2 DEF Start, ComputeBillingPeriodStart
  <2> HIDE DEF cutoff
  <2> QED BY <2>1, <2>2, <2>3, LastMonthHolds
<1> QED BY <1>1, CalendarInvariance, PTL DEF Spec, DayInLastMonth
----------------------------------------------------------------------------
(* What is being loaded is right for the configuration, unless it has changed. *)

AccessStates == [at : {"access"}, endpoint : Endpoints, viewer : Viewers, day : Dates,
                 changed : BOOLEAN]
RowStates == [at : {"row", "query"}, endpoint : Endpoints, viewer : Viewers, day : Dates,
              config : Configs, changed : BOOLEAN]

\* The states of a request that the marks of an update concern, and the others.
Shape(q) ==
  \/ q.at \in {"idle", "panic", "store"} /\ "changed" \notin DOMAIN q
  \/ q \in AccessStates \cup RowStates

\* A row that is being loaded was read from the budget as it is.
LoadOK(l) ==
  /\ l \in [row : SUBSET Configs, changed : BOOLEAN]
  /\ ~l.changed => l.row \subseteq {config}

\* A query for completed periods is for those of the budget as it is.
FlightOK(k, f) ==
  /\ f.changed \in BOOLEAN /\ "changed" \in DOMAIN f
  /\ ~f.changed /\ k[2] => f.rows = Rows(Completed(k[1], config))

\* A request has the configuration of the budget as it is, or has an exact answer.
RequestOK(q) ==
  /\ Shape(q)
  /\ q.at \in {"row", "query"} /\ ~q.changed => q.config = config
  /\ q.at = "store" /\ ~q.result.changed /\ q.result.config.months # 0 =>
       LET ps == Completed(q.day, q.result.config)
       IN  q.result.periods = {[start |-> ps[i].start, end |-> ps[i].end, spent |-> Spent(ps[i])] :
                                 i \in {j \in DOMAIN ps : Spent(ps[j]) # {}}}

LoadsOK == \A u \in DOMAIN access : LoadOK(access[u])
FlightsOK == \A k \in DOMAIN agg : FlightOK(k, agg[k])
RequestsOK == request = [r \in Requests |-> request[r]] /\ \A r \in Requests : RequestOK(request[r])

\* The invariant that carries ResumeExact.
Inv == CalendarOK /\ LoadsOK /\ FlightsOK /\ RequestsOK

\* Under the periods that it was made for, a query's result shows exactly what was
\* spent in each.
LEMMA ShownExact ==
  ASSUME NEW ps
  PROVE  Shown(Rows(ps), ps) =
           {[start |-> ps[i].start, end |-> ps[i].end, spent |-> Spent(ps[i])] :
              i \in {j \in DOMAIN ps : Spent(ps[j]) # {}}}
<1> DEFINE I == {j \in DOMAIN ps : Spent(ps[j]) # {}}
           row(i) == [idx |-> i, spent |-> Spent(ps[i])]
           out(i) == [start |-> ps[i].start, end |-> ps[i].end, spent |-> Spent(ps[i])]
           show(w) == [start |-> ps[w.idx].start, end |-> ps[w.idx].end, spent |-> w.spent]
<1>1. Rows(ps) = {row(i) : i \in I}
  BY DEF Rows
<1>2. \A i \in I : row(i).idx = i /\ row(i).idx \in DOMAIN ps /\ show(row(i)) = out(i)
  OBVIOUS
<1>3. Shown(Rows(ps), ps) = {show(w) : w \in {v \in Rows(ps) : v.idx \in DOMAIN ps}}
  BY DEF Shown
<1> HIDE DEF show, out, row, I
<1>4. {v \in Rows(ps) : v.idx \in DOMAIN ps} = {row(i) : i \in I}
  BY <1>1, <1>2
<1>5. {show(w) : w \in {row(i) : i \in I}} = {out(i) : i \in I}
  BY <1>2
<1>6. Shown(Rows(ps), ps) = {out(i) : i \in I}
  BY <1>3, <1>4, <1>5
<1> QED BY <1>6 DEF out, I

\* What holds of a request depends on nothing but the configuration.
LEMMA Kept ==
  ASSUME NEW q, UNCHANGED config, RequestOK(q)
  PROVE  RequestOK(q)'
BY DEF RequestOK, Shape, RowStates, AccessStates, Completed

\* The invariant holds at first.
LEMMA InvInit == Init => Inv
<1> SUFFICES ASSUME Init
             PROVE  Inv
  OBVIOUS
<1>1. CalendarOK
  BY CalendarInit
<1>2. LoadsOK /\ FlightsOK
  BY DEF Init, LoadsOK, FlightsOK, Empty
<1>3. RequestsOK
  BY DEF Init, RequestsOK, RequestOK, Shape, Idle
<1> QED BY <1>1, <1>2, <1>3 DEF Inv

\* A request takes a step of its own: the others stay as they are.
LEMMA OneRequest ==
  ASSUME RequestsOK, UNCHANGED config, NEW r \in Requests, NEW q,
         request' = [request EXCEPT ![r] = q], RequestOK(q)
  PROVE  RequestsOK'
<1>1. request' = [s \in Requests |-> IF s = r THEN q ELSE request[s]]
  BY DEF RequestsOK
<1>2. \A s \in Requests : RequestOK(request'[s])
  BY <1>1 DEF RequestsOK
<1>3. \A s \in Requests : RequestOK(request[s])'
  BY <1>2, Kept
<1> QED BY <1>1, <1>3 DEF RequestsOK

\* Loads are right if neither they nor the configuration changes,
LEMMA LoadsKept ==
  ASSUME LoadsOK, UNCHANGED <<config, access>>
  PROVE  LoadsOK'
BY DEF LoadsOK, LoadOK

\* and so are queries,
LEMMA FlightsKept ==
  ASSUME FlightsOK, UNCHANGED <<config, agg>>
  PROVE  FlightsOK'
BY DEF FlightsOK, FlightOK, Completed

\* and requests.
LEMMA RequestsKept ==
  ASSUME RequestsOK, UNCHANGED <<config, request>>
  PROVE  RequestsOK'
<1>1. \A s \in Requests : RequestOK(request[s])'
  BY Kept DEF RequestsOK
<1> QED BY <1>1 DEF RequestsOK

\* A new request knows nothing of the configuration yet.
LEMMA InvAsk ==
  ASSUME Inv, NEW r \in Requests, NEW e \in Endpoints, NEW u \in Viewers,
         NEW d \in {today, NextDay(today)}, Ask(r, e, u, d)
  PROVE  LoadsOK' /\ FlightsOK' /\ RequestsOK'
<1> DEFINE q == [at |-> "access", endpoint |-> e, viewer |-> u, day |-> d, changed |-> FALSE]
<1>1. d \in Dates
  BY NextDayValid DEF Inv, CalendarOK, Valid
<1>2. q \in AccessStates
  BY <1>1 DEF AccessStates
<1>3. RequestOK(q)
  BY <1>2 DEF RequestOK, Shape
<1>4. RequestsOK'
  BY <1>3, OneRequest DEF Inv, Ask
<1>5. LoadsOK'
  <2>1. LoadOK([row |-> {}, changed |-> FALSE])
    BY DEF LoadOK
  <2> QED BY <2>1 DEF Inv, Ask, LoadsOK, LoadOK, Put
<1>6. FlightsOK'
  BY FlightsKept DEF Inv, Ask
<1> QED BY <1>4, <1>5, <1>6

\* A query that a request starts is for the periods of the request's row.
LEMMA InvQuery ==
  ASSUME Inv, NEW r \in Requests, Query(r)
  PROVE  LoadsOK' /\ FlightsOK' /\ RequestsOK'
<1> DEFINE old == request[r]
<1>1. RequestOK(old) /\ old.at = "row"
  BY DEF Inv, RequestsOK, Query
<1>2. old \in RowStates
  BY <1>1 DEF RequestOK, Shape, AccessStates
<1>3. LoadsOK'
  BY LoadsKept DEF Inv, Query
<1>4. CASE PeriodsOf(r) = <<>>
  <2> DEFINE q == ToStore(r, Result(r, {}, old.changed))
  <2>1. /\ q.at = "store" /\ "changed" \notin DOMAIN q /\ q.day = old.day
        /\ q.result.config = old.config /\ q.result.periods = {}
    BY DEF ToStore, Result
  <2>2. q.result.config.months # 0 => Completed(q.day, q.result.config) = <<>>
    BY <1>4, <2>1 DEF PeriodsOf
  <2> HIDE DEF q
  <2>3. RequestOK(q)
    BY <2>1, <2>2 DEF RequestOK, Shape
  <2>4. request' = [request EXCEPT ![r] = q] /\ UNCHANGED <<config, agg>>
    BY <1>4 DEF Query, q
  <2>5. RequestsOK'
    BY <2>3, <2>4, OneRequest DEF Inv
  <2> QED BY <1>3, <2>4, <2>5, FlightsKept DEF Inv
<1>5. CASE PeriodsOf(r) # <<>>
  <2> DEFINE q == [old EXCEPT !.at = "query"]
             k == KeyOf(r)
             f == [endpoint |-> old.endpoint, changed |-> old.changed,
                   rows |-> IF old.config.months = 0 THEN OneTimeRows ELSE Rows(PeriodsOf(r))]
  <2>1. /\ request' = [request EXCEPT ![r].at = "query"]
        /\ agg' = IF k \in DOMAIN agg THEN agg ELSE Put(agg, k, f)
        /\ UNCHANGED config
    BY <1>5 DEF Query
  <2>2. request' = [request EXCEPT ![r] = q]
    BY <2>1
  <2>3. q \in RowStates /\ q.config = old.config /\ q.changed = old.changed /\ q.at = "query"
    BY <1>2 DEF RowStates
  <2>4. RequestOK(q)
    <3> HIDE DEF q
    <3> QED BY <1>1, <2>3 DEF RequestOK, Shape
  <2>5. RequestsOK'
    <3> HIDE DEF q
    <3> QED BY <2>1, <2>2, <2>4, OneRequest DEF Inv
  <2>6. FlightOK(k, f)
    <3>1. k = <<old.day, old.config.months # 0>> /\ old.changed \in BOOLEAN
      BY <1>2 DEF KeyOf, resumeAggregateKey, RowStates
    <3>2. k[1] = old.day /\ k[2] = (old.config.months # 0)
      <4> DEFINE recurring == old.config.months # 0
                 day == old.day
      <4>1. k = <<day, recurring>>
        BY <3>1
      <4> HIDE DEF k, recurring, day
      <4>2. k[1] = day /\ k[2] = recurring
        BY <4>1
      <4> QED BY <4>2 DEF recurring, day
    <3>3. ~old.changed => old.config = config
      BY <1>1 DEF RequestOK
    <3>4. /\ f.changed = old.changed /\ "changed" \in DOMAIN f
          /\ f.rows = IF old.config.months = 0 THEN OneTimeRows ELSE Rows(PeriodsOf(r))
      OBVIOUS
    <3>5. old.config.months # 0 => PeriodsOf(r) = Completed(old.day, old.config)
      BY DEF PeriodsOf
    <3> HIDE DEF f, k, old
    <3> QED BY <3>1, <3>2, <3>3, <3>4, <3>5 DEF FlightOK
  <2>7. \A j \in DOMAIN agg' : FlightOK(j, agg'[j])
    <3> HIDE DEF f, k
    <3> QED BY <2>1, <2>6 DEF Inv, FlightsOK, Put
  <2>8. FlightsOK'
    BY <2>1, <2>7 DEF FlightsOK, FlightOK, Completed
  <2> QED BY <1>3, <2>5, <2>8
<1> QED BY <1>4, <1>5

\* A request ends.
LEMMA InvStore ==
  ASSUME Inv, NEW r \in Requests, Store(r)
  PROVE  LoadsOK' /\ FlightsOK' /\ RequestsOK'
<1>1. RequestOK(Idle)
  BY DEF RequestOK, Shape, Idle
<1>2. RequestsOK'
  BY <1>1, OneRequest DEF Inv, Store
<1> QED BY <1>2, LoadsKept, FlightsKept DEF Inv, Store

\* A row is read as it is.
LEMMA InvReadRow ==
  ASSUME Inv, NEW u \in Viewers, ReadRow(u)
  PROVE  LoadsOK' /\ FlightsOK' /\ RequestsOK'
<1>1. FlightsOK' /\ RequestsOK'
  BY FlightsKept, RequestsKept DEF Inv, ReadRow
<1>2. config \in Configs
  BY DEF Inv, CalendarOK
<1>3. LoadsOK'
  BY <1>2 DEF Inv, ReadRow, LoadsOK, LoadOK
<1> QED BY <1>1, <1>3

\* A row is handed to all that wait for it, with its mark.
LEMMA InvLandRow ==
  ASSUME Inv, NEW u \in Viewers, LandRow(u)
  PROVE  LoadsOK' /\ FlightsOK' /\ RequestsOK'
<1>1. FlightsOK'
  BY FlightsKept DEF Inv, LandRow
<1>2. LoadsOK'
  BY DEF Inv, LandRow, LoadsOK, LoadOK, Drop
<1>3. PICK g \in access[u].row :
        request' = [r \in Requests |->
                     IF AwaitsRow(r, u)
                     THEN [at |-> "row", endpoint |-> request[r].endpoint, viewer |-> u,
                           day |-> request[r].day, config |-> g,
                           changed |-> request[r].changed \/ access[u].changed]
                     ELSE request[r]]
  BY DEF LandRow
<1>4. /\ access[u] \in [row : SUBSET Configs, changed : BOOLEAN]
      /\ ~access[u].changed => access[u].row \subseteq {config}
      /\ UNCHANGED config
  BY DEF Inv, LoadsOK, LoadOK, LandRow
<1>5. g \in Configs /\ (~access[u].changed => g = config) /\ access[u].changed \in BOOLEAN
  BY <1>4
<1>6. ASSUME NEW r \in Requests
      PROVE  RequestOK(request'[r])
  <2>1. RequestOK(request[r])
    BY DEF Inv, RequestsOK
  <2>2. CASE AwaitsRow(r, u)
    <3>1. request[r] \in AccessStates
      BY <2>1, <2>2 DEF RequestOK, Shape, RowStates, AwaitsRow
    <3> DEFINE q == [at |-> "row", endpoint |-> request[r].endpoint, viewer |-> u,
                     day |-> request[r].day, config |-> g,
                     changed |-> request[r].changed \/ access[u].changed]
    <3>2. request'[r] = q
      BY <1>3, <2>2
    <3>3. q \in RowStates
      BY <1>5, <3>1 DEF AccessStates, RowStates
    <3>4. q.at = "row" /\ q.config = g /\ (~q.changed => ~access[u].changed)
      OBVIOUS
    <3> HIDE DEF q
    <3>5. RequestOK(q)
      BY <1>5, <3>3, <3>4 DEF RequestOK, Shape
    <3> QED BY <3>2, <3>5
  <2>3. CASE ~AwaitsRow(r, u)
    BY <1>3, <2>1, <2>3
  <2> QED BY <2>2, <2>3
<1>7. RequestsOK'
  <2>1. \A s \in Requests : RequestOK(request[s])'
    BY <1>4, <1>6, Kept
  <2> QED BY <1>3, <2>1 DEF RequestsOK
<1> QED BY <1>1, <1>2, <1>7

\* A load fails.
LEMMA InvFailRow ==
  ASSUME Inv, NEW u \in Viewers, FailRow(u)
  PROVE  LoadsOK' /\ FlightsOK' /\ RequestsOK'
<1>1. FlightsOK'
  BY FlightsKept DEF Inv, FailRow
<1>2. LoadsOK'
  BY DEF Inv, FailRow, LoadsOK, LoadOK, Drop
<1>3. RequestOK(Idle)
  BY DEF RequestOK, Shape, Idle
<1>4. \A r \in Requests : RequestOK(request'[r])
  BY <1>3 DEF Inv, FailRow, RequestsOK
<1>5. RequestsOK'
  <2>1. \A s \in Requests : RequestOK(request[s])'
    BY <1>4, Kept DEF FailRow
  <2> QED BY <2>1 DEF RequestsOK, FailRow
<1> QED BY <1>1, <1>2, <1>5

\* Without one of them, the queries are still right.
LEMMA FlightLeaves ==
  ASSUME FlightsOK, NEW k, agg' = Drop(agg, k), UNCHANGED config
  PROVE  FlightsOK'
BY DEF FlightsOK, FlightOK, Completed, Drop

\* A query fails.
LEMMA InvFailQuery ==
  ASSUME Inv, NEW k \in DOMAIN agg, FailQuery(k)
  PROVE  LoadsOK' /\ FlightsOK' /\ RequestsOK'
<1>1. LoadsOK'
  BY LoadsKept DEF Inv, FailQuery
<1>2. FlightsOK'
  BY FlightLeaves DEF Inv, FailQuery
<1>3. RequestOK(Idle)
  BY DEF RequestOK, Shape, Idle
<1>4. \A r \in Requests : RequestOK(request'[r])
  BY <1>3 DEF Inv, FailQuery, RequestsOK
<1>5. RequestsOK'
  <2>1. \A s \in Requests : RequestOK(request[s])'
    BY <1>4, Kept DEF FailQuery
  <2> QED BY <2>1 DEF RequestsOK, FailQuery
<1> QED BY <1>1, <1>2, <1>5

\* Here the request's periods meet the rows of whoever made the query.
LEMMA InvLandQuery ==
  ASSUME Inv, NEW k \in DOMAIN agg, LandQuery(k)
  PROVE  LoadsOK' /\ FlightsOK' /\ RequestsOK'
<1>1. LoadsOK'
  BY LoadsKept DEF Inv, LandQuery
<1>2. FlightsOK'
  BY FlightLeaves DEF Inv, LandQuery
<1>3. ASSUME NEW r \in Requests
      PROVE  RequestOK(request'[r])
  <2> DEFINE old == request[r]
  <2>1. RequestOK(old)
    BY DEF Inv, RequestsOK
  <2>2. CASE ~AwaitsQuery(r, k)
    BY <2>1, <2>2 DEF LandQuery
  <2>3. CASE AwaitsQuery(r, k) /\ ~UsesResult(r, k)
    <3>1. request'[r] = [at |-> "panic"]
      BY <2>3 DEF LandQuery
    <3> QED BY <3>1 DEF RequestOK, Shape
  <2>4. CASE AwaitsQuery(r, k) /\ UsesResult(r, k)
    <3> DEFINE changed == old.changed \/ agg[k].changed
               shown == Shown(agg[k].rows, PeriodsOf(r))
               q == ToStore(r, Result(r, shown, changed))
    <3>1. request'[r] = q
      BY <2>4 DEF LandQuery
    <3>2. /\ q.at = "store" /\ "changed" \notin DOMAIN q /\ q.day = old.day
          /\ q.result.config = old.config /\ q.result.periods = shown
          /\ q.result.changed = changed
      <4> HIDE DEF shown, changed
      <4> QED BY DEF ToStore, Result
    <3>3. ASSUME ~changed, old.config.months # 0
          PROVE  shown = LET ps == Completed(old.day, old.config)
                         IN  {[start |-> ps[i].start, end |-> ps[i].end, spent |-> Spent(ps[i])] :
                                i \in {j \in DOMAIN ps : Spent(ps[j]) # {}}}
      <4>1. old.config = config
        BY <2>1, <2>4, <3>3 DEF RequestOK, AwaitsQuery
      <4>2. k[1] = old.day /\ k[2]
        <5> DEFINE recurring == old.config.months # 0
                   day == old.day
        <5>1. k = <<day, recurring>> /\ recurring
          BY <2>4, <3>3 DEF AwaitsQuery, KeyOf, resumeAggregateKey
        <5> HIDE DEF recurring, day
        <5>2. k[1] = day /\ k[2] = recurring
          BY <5>1
        <5> QED BY <5>1, <5>2 DEF day
      <4>3. agg[k].rows = Rows(Completed(old.day, old.config))
        BY <3>3, <4>1, <4>2 DEF Inv, FlightsOK, FlightOK
      <4>4. PeriodsOf(r) = Completed(old.day, old.config)
        BY <3>3 DEF PeriodsOf
      <4> QED BY <4>3, <4>4, ShownExact
    <3> HIDE DEF q, shown, changed, old
    <3>4. RequestOK(q)
      BY <3>2, <3>3 DEF RequestOK, Shape
    <3> QED BY <3>1, <3>4
  <2> QED BY <2>2, <2>3, <2>4
<1>4. RequestsOK'
  <2>1. \A s \in Requests : RequestOK(request[s])'
    BY <1>3, Kept DEF LandQuery
  <2> QED BY <2>1 DEF RequestsOK, LandQuery
<1> QED BY <1>1, <1>2, <1>4

\* An update marks whatever rests on the configuration that it replaces.
LEMMA InvUpdateBudget ==
  ASSUME Inv, NEW g \in AskConfigs, UpdateBudget(g)
  PROVE  LoadsOK' /\ FlightsOK' /\ RequestsOK'
<1>1. /\ access' = MarkChanged(access)
      /\ agg' = MarkChanged(agg)
      /\ request' = MarkChanged(request)
  BY DEF UpdateBudget
<1>2. LoadsOK'
  <2>1. ASSUME NEW u \in DOMAIN access
        PROVE  /\ access'[u] \in [row : SUBSET Configs, changed : BOOLEAN]
               /\ access'[u].changed
    <3>1. access[u] \in [row : SUBSET Configs, changed : BOOLEAN]
      BY DEF Inv, LoadsOK, LoadOK
    <3>2. access'[u] = [access[u] EXCEPT !.changed = TRUE]
      BY <1>1, <3>1 DEF MarkChanged
    <3> QED BY <3>1, <3>2
  <2>2. DOMAIN access' = DOMAIN access
    BY <1>1 DEF MarkChanged
  <2> QED BY <2>1, <2>2 DEF LoadsOK, LoadOK
<1>3. FlightsOK'
  <2>1. ASSUME NEW k \in DOMAIN agg
        PROVE  agg'[k].changed = TRUE /\ "changed" \in DOMAIN agg'[k]
    <3>1. "changed" \in DOMAIN agg[k]
      BY DEF Inv, FlightsOK, FlightOK
    <3>2. agg'[k] = [agg[k] EXCEPT !.changed = TRUE]
      BY <1>1, <3>1 DEF MarkChanged
    <3> QED BY <3>1, <3>2
  <2>2. DOMAIN agg' = DOMAIN agg
    BY <1>1 DEF MarkChanged
  <2> QED BY <2>1, <2>2 DEF FlightsOK, FlightOK
<1>4. RequestsOK'
  <2>1. request' = [r \in Requests |-> IF "changed" \in DOMAIN request[r]
                                       THEN [request[r] EXCEPT !.changed = TRUE] ELSE request[r]]
    BY <1>1 DEF MarkChanged, Inv, RequestsOK
  <2>2. ASSUME NEW r \in Requests
        PROVE  RequestOK(request[r])'
    <3> DEFINE old == request[r]
    <3>1. RequestOK(old)
      BY DEF Inv, RequestsOK
    <3>2. CASE "changed" \notin DOMAIN old
      <4>1. request'[r] = old
        BY <2>1, <3>2
      <4>2. old.at \in {"idle", "panic", "store"}
        BY <3>1, <3>2 DEF RequestOK, Shape, AccessStates, RowStates
      <4> HIDE DEF old
      <4> QED BY <3>1, <3>2, <4>1, <4>2 DEF RequestOK, Shape, Completed
    <3>3. CASE "changed" \in DOMAIN old
      <4> DEFINE q == [old EXCEPT !.changed = TRUE]
      <4>1. request'[r] = q
        BY <2>1, <3>3
      <4>2. old \in AccessStates \cup RowStates
        BY <3>1, <3>3 DEF RequestOK, Shape
      <4>3. q \in AccessStates \cup RowStates /\ q.changed = TRUE /\ q.at # "store"
        <5>1. CASE old \in AccessStates
          BY <5>1 DEF AccessStates
        <5>2. CASE old \in RowStates
          BY <5>2 DEF RowStates
        <5> QED BY <4>2, <5>1, <5>2
      <4> HIDE DEF q
      <4> QED BY <4>1, <4>3 DEF RequestOK, Shape, AccessStates, RowStates
    <3> QED BY <3>2, <3>3
  <2> QED BY <2>1, <2>2 DEF RequestsOK
<1> QED BY <1>2, <1>3, <1>4

\* At midnight only idle requests change.
LEMMA InvMidnight ==
  ASSUME Inv, Midnight
  PROVE  LoadsOK' /\ FlightsOK' /\ RequestsOK'
<1>1. LoadsOK' /\ FlightsOK'
  BY LoadsKept, FlightsKept DEF Inv, Midnight
<1>2. RequestOK(Idle)
  BY DEF RequestOK, Shape, Idle
<1>3. \A r \in Requests : RequestOK(request'[r])
  BY <1>2 DEF Inv, Midnight, RequestsOK
<1>4. RequestsOK'
  <2>1. \A s \in Requests : RequestOK(request[s])'
    BY <1>3, Kept DEF Midnight
  <2> QED BY <2>1 DEF RequestsOK, Midnight
<1> QED BY <1>1, <1>4

\* Every step preserves the invariant.
LEMMA InvNext == Inv /\ [Next]_vars => Inv'
<1> SUFFICES ASSUME Inv, [Next]_vars
             PROVE  LoadsOK' /\ FlightsOK' /\ RequestsOK'
  BY CalendarNext DEF Inv
<1>1. CASE UNCHANGED vars
  BY <1>1, LoadsKept, FlightsKept, RequestsKept DEF Inv, vars
<1>2. CASE \E r \in Requests : RequestNext(r)
  BY <1>2, InvAsk, InvQuery, InvStore DEF RequestNext
<1>3. CASE \E u \in Viewers : ReadRow(u) \/ LandRow(u) \/ FailRow(u)
  BY <1>3, InvReadRow, InvLandRow, InvFailRow
<1>4. CASE \E k \in DOMAIN agg : LandQuery(k) \/ FailQuery(k)
  BY <1>4, InvLandQuery, InvFailQuery
<1>5. CASE \E g \in AskConfigs : UpdateBudget(g)
  BY <1>5, InvUpdateBudget
<1>6. CASE Invalidate
  BY <1>6, LoadsKept, FlightsKept, RequestsKept DEF Inv, Invalidate
<1>7. CASE \E k \in cached : Expire(k)
  BY <1>7, LoadsKept, FlightsKept, RequestsKept DEF Inv, Expire
<1>8. CASE Midnight
  BY <1>8, InvMidnight
<1> QED BY <1>1, <1>2, <1>3, <1>4, <1>5, <1>6, <1>7, <1>8 DEF Next

\* Whoever made the query, an answer has every expense of a completed period under
\* that period and nothing else, unless the periods were changed meanwhile.
THEOREM ResumeAlwaysExact == Spec => []ResumeExact
<1>1. Inv => ResumeExact
  BY DEF Inv, RequestsOK, RequestOK, ResumeExact
<1> QED BY <1>1, InvInit, InvNext, PTL DEF Spec

=============================================================================
