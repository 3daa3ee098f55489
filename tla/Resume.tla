------------------------------- MODULE Resume -------------------------------
(***************************************************************************)
(* The resume of a budget, what was spent in each completed billing        *)
(* period, as GetBudgetResume (internal/handlers/summary.go) and the       *)
(* dashboard's buildBudgetResume (dashboard.go) compute it: from a budget  *)
(* row that concurrent requests of a viewer share, with a query that the   *)
(* requests of all viewers and of both endpoints share, while days pass    *)
(* and UpdateBudget changes the billing periods.                           *)
(*                                                                         *)
(* Expenses do not change here (SummaryCoherence is about that), so a sum  *)
(* is modelled by the set of the expenses in it.                           *)
(***************************************************************************)
EXTENDS BillingPeriod, Sequences, FiniteSets

CONSTANTS Viewers,           \* users who may see the budget
          Requests,          \* requests in progress at the same time
          Endpoints,         \* the handlers that they are made to
          Cutoffs,           \* cutoff days that budgets have, 0 for never set
          Months,            \* lengths of billing periods, 0 for a one-time budget
          Created,           \* the day when the budget was created
          Expenses,          \* the days with an expense
          FirstDay, LastDay, \* days of the calendar that are gone through
          AskDays,           \* the days on which somebody uses the budget,
          AskConfigs         \* when it has one of these configurations

ASSUME CalendarAssumption == Valid(FirstDay) /\ Valid(LastDay) /\ Valid(Created)
ASSUME ExpensesAssumption == \A e \in Expenses : Valid(e)
ASSUME CutoffAssumption == Cutoffs \subseteq 0..31 /\ Months \subseteq {0, 1, 3, 6, 12}
ASSUME AskAssumption == AskConfigs \subseteq [months : Months, cutoff : Cutoffs]

VARIABLES today,   \* the date where the day begins last
          config,  \* the budget's billing_period_months and billing_cutoff_day
          pending, \* an update is committed and its handler has not invalidated yet
          cached,  \* the <<viewer, day>> whose answer is cached
          access,  \* viewer -> the row load in progress
          agg,     \* flight key -> the query in progress
          request  \* where each request is

vars == <<today, config, pending, cached, access, agg, request>>

Configs == [months : Months, cutoff : Cutoffs]

Empty == [x \in {} |-> x]
Put(f, x, v) == [y \in DOMAIN f \cup {x} |-> IF y = x THEN v ELSE f[y]]
Drop(f, x) == [y \in DOMAIN f \ {x} |-> f[y]]

\* Where the current period starts, and the periods that are completed, for a
\* user whose date is d.
Start(d, g) == ComputeBillingPeriodStart(d, g.cutoff, g.months)
Completed(d, g) == CompletedPeriods(d, g.cutoff, g.months, Created)

\* What the query sums for a period p.
Spent(p) == {e \in Expenses : ~Before(e, p.start) /\ Before(e, p.end)}

\* The rows of the query for periods ps: their numbers, without empty sums.
Rows(ps) == {[idx |-> i, spent |-> Spent(ps[i])] :
               i \in {j \in DOMAIN ps : Spent(ps[j]) # {}}}

\* The rows as shown by a request whose own periods are ps.
Shown(rows, ps) == {[start |-> ps[w.idx].start, end |-> ps[w.idx].end, spent |-> w.spent] :
                      w \in {v \in rows : v.idx \in DOMAIN ps}}

OneTimeRows == IF Expenses = {} THEN {} ELSE {[idx |-> 1, spent |-> Expenses]}
OneTimePeriod(d) == <<[start |-> Created, end |-> d]>>

Idle == [at |-> "idle"]
Busy == {r \in Requests : request[r].at \notin {"idle", "panic"}}

\* Mutant of resumeAggregateKey: the date of the user is left out.
KeyWithoutDay(d, recurring) == <<recurring>>

\* Requests with the same key share a query.
resumeAggregateKey(d, recurring) == <<d, recurring>>

KeyOf(r) == resumeAggregateKey(request[r].day, request[r].config.months # 0)

Init ==
  /\ today = FirstDay
  /\ config \in {g \in Configs : g.months = 0 \/ g.cutoff # 0}
  /\ pending = FALSE
  /\ cached = {}
  /\ access = Empty
  /\ agg = Empty
  /\ request = [r \in Requests |-> Idle]

----------------------------------------------------------------------------
(* Requests.  changed is history: the configuration was changed while what   *)
(* the request has used was being loaded.                                    *)

\* A request whose user's date, by the time zone that it names, is today's or the
\* next, and whose answer is not in the cache: it joins the load of the row, or
\* starts one.  (With the answer in the cache, nothing changes.)
Ask(r, e, u, d) ==
  /\ request[r] = Idle
  /\ today \in AskDays /\ config \in AskConfigs
  /\ d \in {today, NextDay(today)}
  /\ <<u, d>> \notin cached
  /\ request' = [request EXCEPT ![r] = [at |-> "access", endpoint |-> e, viewer |-> u, day |-> d,
                                        changed |-> FALSE]]
  /\ access' = IF u \in DOMAIN access THEN access
               ELSE Put(access, u, [row |-> {}, changed |-> FALSE])
  /\ UNCHANGED <<today, config, pending, cached, agg>>

\* The row is read, for all that wait for it.
ReadRow(u) ==
  /\ u \in DOMAIN access
  /\ access[u].row = {}
  /\ access' = [access EXCEPT ![u].row = {config}]
  /\ UNCHANGED <<today, config, pending, cached, agg, request>>

AwaitsRow(r, u) == request[r].at = "access" /\ request[r].viewer = u

LandRow(u) ==
  /\ u \in DOMAIN access
  /\ \E g \in access[u].row :
       request' = [r \in Requests |->
                     IF AwaitsRow(r, u)
                     THEN [at |-> "row", endpoint |-> request[r].endpoint, viewer |-> u,
                           day |-> request[r].day, config |-> g,
                           changed |-> request[r].changed \/ access[u].changed]
                     ELSE request[r]]
  /\ access' = Drop(access, u)
  /\ UNCHANGED <<today, config, pending, cached, agg>>

\* The load fails, or the budget is not accessible, for all that wait for it.
FailRow(u) ==
  /\ u \in DOMAIN access
  /\ request' = [r \in Requests |-> IF AwaitsRow(r, u) THEN Idle ELSE request[r]]
  /\ access' = Drop(access, u)
  /\ UNCHANGED <<today, config, pending, cached, agg>>

\* The periods that a request shows.
PeriodsOf(r) ==
  IF request[r].config.months = 0 THEN OneTimePeriod(request[r].day)
  ELSE Completed(request[r].day, request[r].config)

Result(r, periods, changed) ==
  [config |-> request[r].config, periods |-> periods, changed |-> changed]

ToStore(r, result) ==
  [at |-> "store", viewer |-> request[r].viewer, day |-> request[r].day, result |-> result]

\* The request works out its periods, and joins the query in progress or starts
\* one for them, unless it has none.
Query(r) ==
  /\ request[r].at = "row"
  /\ IF PeriodsOf(r) = <<>>
     THEN /\ request' = [request EXCEPT ![r] = ToStore(r, Result(r, {}, request[r].changed))]
          /\ UNCHANGED agg
     ELSE /\ request' = [request EXCEPT ![r].at = "query"]
          /\ agg' = IF KeyOf(r) \in DOMAIN agg THEN agg
                    ELSE Put(agg, KeyOf(r),
                             [endpoint |-> request[r].endpoint, changed |-> request[r].changed,
                              rows |-> IF request[r].config.months = 0 THEN OneTimeRows
                                       ELSE Rows(PeriodsOf(r))])
  /\ UNCHANGED <<today, config, pending, cached, access>>

AwaitsQuery(r, k) == request[r].at = "query" /\ KeyOf(r) = k

\* The type of the rows is declared in the function that makes the query, and a
\* type assertion on the result demands that of the request's own function.
UsesResult(r, k) == request[r].endpoint = agg[k].endpoint

\* The query returns: those that wait for it show its rows under their own
\* periods, or fail in the type assertion.
LandQuery(k) ==
  /\ k \in DOMAIN agg
  /\ request' = [r \in Requests |->
                   IF ~AwaitsQuery(r, k) THEN request[r]
                   ELSE IF UsesResult(r, k)
                   THEN ToStore(r, Result(r, Shown(agg[k].rows, PeriodsOf(r)),
                                          request[r].changed \/ agg[k].changed))
                   ELSE [at |-> "panic"]]
  /\ agg' = Drop(agg, k)
  /\ UNCHANGED <<today, config, pending, cached, access>>

\* The query fails for all that wait for it: it runs under the context of the
\* request that started it, on the dashboard ended by any part that fails.
FailQuery(k) ==
  /\ k \in DOMAIN agg
  /\ request' = [r \in Requests |-> IF AwaitsQuery(r, k) THEN Idle ELSE request[r]]
  /\ agg' = Drop(agg, k)
  /\ UNCHANGED <<today, config, pending, cached, access>>

\* The answer is cached and sent.
Store(r) ==
  /\ request[r].at = "store"
  /\ cached' = cached \cup {<<request[r].viewer, request[r].day>>}
  /\ request' = [request EXCEPT ![r] = Idle]
  /\ UNCHANGED <<today, config, pending, access, agg>>

----------------------------------------------------------------------------
(* Updates and days *)

MarkChanged(f) == [x \in DOMAIN f |->
                     IF "changed" \in DOMAIN f[x] THEN [f[x] EXCEPT !.changed = TRUE] ELSE f[x]]

\* UpdateBudget: either field may be left out, and a cutoff day that is given is
\* at least 1.
UpdateBudget(g) ==
  /\ today \in AskDays /\ config \in AskConfigs /\ g \in AskConfigs \ {config}
  /\ g.cutoff \in {config.cutoff} \cup 1..31
  /\ config' = g
  /\ pending' = TRUE
  /\ access' = MarkChanged(access)
  /\ agg' = MarkChanged(agg)
  /\ request' = MarkChanged(request)
  /\ UNCHANGED <<today, cached>>

\* The handler drops the cached answers.
Invalidate ==
  /\ pending
  /\ pending' = FALSE
  /\ cached' = {}
  /\ UNCHANGED <<today, config, access, agg, request>>

\* An entry expires, or is evicted.
Expire(k) ==
  /\ k \in cached
  /\ cached' = cached \ {k}
  /\ UNCHANGED <<today, config, pending, access, agg, request>>

\* The next day.  Requests last for less than a day, and so do the entries.
Midnight ==
  /\ today # LastDay
  /\ \A r \in Busy : ~Before(request[r].day, today)
  /\ today' = NextDay(today)
  /\ cached' = {k \in cached : k[2] = NextDay(today)}
  /\ request' = [r \in Requests |-> IF r \in Busy THEN request[r] ELSE Idle]
  /\ UNCHANGED <<config, pending, access, agg>>

RequestNext(r) ==
  \/ \E e \in Endpoints, u \in Viewers, d \in {today, NextDay(today)} : Ask(r, e, u, d)
  \/ Query(r) \/ Store(r)

Next ==
  \/ \E r \in Requests : RequestNext(r)
  \/ \E u \in Viewers : ReadRow(u) \/ LandRow(u) \/ FailRow(u)
  \/ \E k \in DOMAIN agg : LandQuery(k) \/ FailQuery(k)
  \/ \E g \in AskConfigs : UpdateBudget(g)
  \/ Invalidate
  \/ \E k \in cached : Expire(k)
  \/ Midnight

Spec == Init /\ [][Next]_vars

----------------------------------------------------------------------------
(* Properties *)

\* The period that is computed for a day is the one in whose last month the day
\* is, however short the months are that its ends are clamped to, and whatever its
\* length.  Of a monthly budget every day so has exactly one period (INVARIANT (9)
\* at summary.go:53); of a longer one the periods of successive months overlap.
DayInLastMonth ==
  [][today' # today /\ config.months # 0 =>
       LET cutoff == IF config.cutoff = 0 THEN 1 ELSE config.cutoff
           start == Start(today', config)
       IN  /\ ~Before(today', shiftMonths(start, config.months - 1, cutoff))
           /\ Before(today', shiftMonths(start, config.months, cutoff))]_vars

\* On a new day, of a recurring budget with a cutoff day that was set.
NewDay == today' # today /\ config.months # 0 /\ config.cutoff # 0

\* The query that computes the period start of linked budgets gives what the Go
\* code gives (summary.go:56), once a cutoff day was set.
SqlMirrorsGo ==
  [][NewDay => SqlPeriodStart(today', config.cutoff, config.months) = Start(today', config)]_vars

\* The completed periods leave no day out and share none, once a cutoff day was
\* set: each ends where the next one starts, the last where the current one does
\* (the loop at summary.go:1192).
PeriodsTile == [][NewDay => Tile(Completed(today', config), Start(today', config))]_vars

\* What is cached and answered has every expense of a completed period under that
\* period and nothing else, whoever made the query, unless the periods were
\* changed in the meantime.
ResumeExact ==
  \A r \in Requests :
    request[r].at = "store" /\ ~request[r].result.changed /\ request[r].result.config.months # 0 =>
      LET ps == Completed(request[r].day, request[r].result.config)
      IN  request[r].result.periods =
            {[start |-> ps[i].start, end |-> ps[i].end, spent |-> Spent(ps[i])] :
               i \in {j \in DOMAIN ps : Spent(ps[j]) # {}}}

\* A request that joins another's query goes on with its result
\* (summary_singleflight.go:22-26), whichever endpoint it was made to.
JoinersUseResult == \A r \in Requests : request[r].at # "panic"

=============================================================================
