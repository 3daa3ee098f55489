-------------------------- MODULE SummaryCoherence --------------------------
(***************************************************************************)
(* How old a cached answer about a budget can be: the handlers that load   *)
(* one part by part (internal/handlers/summary.go, dashboard.go), the      *)
(* singleflight groups that let requests share a query                     *)
(* (summary_singleflight.go), the cache, and the handlers that write and   *)
(* then invalidate (helpers.go).  The same steps with one part, no sharing *)
(* and a cache whose calls may fail are redis.CacheAside.                  *)
(*                                                                         *)
(* The cache is used through CacheContract, which TTLCache implements.  A  *)
(* write is a version of the data; what a query returns is the version it  *)
(* saw, and an answer is as old as its oldest part.  The writes are those  *)
(* whose handler invalidates this budget.  Time passes in ticks.           *)
(***************************************************************************)
EXTENDS Integers, Sequences, FiniteSets

CONSTANTS Viewers,     \* users who ask
          Readers,     \* requests in progress at the same time
          Demands,     \* what is asked for together: kinds of answers, viewers
          MaxVersion,  \* number of writes
          MaxLoad,     \* ticks that a request takes at most
          TTL          \* of what is cached

ASSUME TimeAssumption == TTL \in Nat \ {0} /\ MaxLoad \in Nat \ {0}
ASSUME VersionAssumption == MaxVersion \in Nat \ {0}

Versions == 0..MaxVersion

----------------------------------------------------------------------------
(* What an answer is made of *)

\* The loads of each handler, in the order in which it makes them.
SummaryParts == <<"access", "categories", "own", "linked", "profiles">>
TrendsParts == <<"access", "categories", "trends">>
ResumeParts == <<"access", "resume">>
AsideParts == <<"loader">>

Parts == [summary |-> SummaryParts, trends |-> TrendsParts, resume |-> ResumeParts,
          aside |-> AsideParts]

ASSUME DemandAssumption ==
  Demands \subseteq [kinds : SUBSET DOMAIN Parts, viewers : SUBSET Viewers]

Kinds == UNION {d.kinds : d \in Demands}

\* The answers that are cached in Redis, whose calls may fail.
Lossy == {"aside"}

PartNames == UNION {{Parts[k][n] : n \in DOMAIN Parts[k]} : k \in DOMAIN Parts}

\* Parts whose rows depend on who asks.
PerViewer == {"access", "linked"}

\* Parts without which the answer is given all the same.
Optional == {"linked", "profiles"}

\* Mutant of FlightKey: the viewer is left out.
FlightKeyForAll(part, u, r) ==
  IF part = "loader" THEN <<part, {r}>> ELSE <<part, {}>>

\* Requests with the same key share a query.
FlightKey(part, u, r) ==
  CASE part \in PerViewer -> <<part, {u}>>
    [] part = "loader"    -> <<part, {r}>>
    [] OTHER              -> <<part, {}>>

FlightKeys == {FlightKey(p, u, r) : p \in PartNames, u \in Viewers, r \in Readers}

\* What is cached and answered: the oldest version in it, and the viewers whose
\* rows are in it.
Payloads == [version : Versions, rows : SUBSET Viewers]

Blank == [version |-> MaxVersion, rows |-> {}]

Least(m, n) == IF m <= n THEN m ELSE n
Most(m, n) == IF m >= n THEN m ELSE n

\* The answer so far, p, with what a query returned, q.
Merged(p, q) == [version |-> Least(p.version, q.version), rows |-> p.rows \cup q.rows]

----------------------------------------------------------------------------
VARIABLES
  stored, reply, \* the cache; its keys are pairs of a kind and a viewer
  version,       \* the last write committed
  pending,       \* writes committed whose handler has not invalidated yet
  ack,           \* history, per write: Never, or ticks since its handler was done
  clean,         \* history: the last write whose invalidation no load straddled
  flight,        \* flight key -> [read, result], the queries in progress
  reader,        \* where each request is
  asked          \* what is asked for in this behaviour

vars == <<stored, reply, version, pending, ack, clean, flight, reader, asked>>

\* Every entry belongs to the one budget that the module is about.
Budget == "budget"

CacheKeys == Kinds \X Viewers

C == INSTANCE CacheContract WITH
       Keys <- CacheKeys, Budgets <- {Budget}, Data <- Payloads, MaxTTL <- TTL

\* The staleness that the design allows: what a load that joined another one can
\* have stored, for as long as it is kept.
Bound == TTL + 2 * MaxLoad

Never == -1
Ages == Never..(Bound + 1)

Idle == [at |-> "idle"]

Floors == [old : Versions, clean : Versions]

\* part is the number of parts loaded so far; wait the ticks since the lookup.
Working == [at : {"load", "wait", "store"}, kind : Kinds, viewer : Viewers,
            part : 0..5, wait : 0..MaxLoad, payload : Payloads, floor : Floors]
Done == [at : {"done"}, viewer : Viewers, payload : Payloads, floor : Floors]

Busy == {r \in Readers : reader[r].at \in {"load", "wait", "store"}}

\* The part that a request loads next, or waits for.
PartOf(r) == Parts[reader[r].kind][reader[r].part + 1]
KeyOf(r) == FlightKey(PartOf(r), reader[r].viewer, r)

Waiters(f) == {r \in Readers : reader[r].at = "wait" /\ KeyOf(r) = f}

\* The types of the variables; a request waits for a query that is in progress,
\* and a query in progress has a request that waits for it.
TypeOK ==
  /\ DOMAIN stored \subseteq CacheKeys
  /\ stored \in [DOMAIN stored -> [data : Payloads, left : -1..TTL, budgetID : {Budget}]]
  /\ asked \in Demands
  /\ version \in Versions
  /\ pending \subseteq 1..version
  /\ ack \in [1..MaxVersion -> Ages]
  /\ clean \in Versions
  /\ DOMAIN flight \subseteq FlightKeys
  /\ flight \in [DOMAIN flight -> [read : BOOLEAN, result : Payloads]]
  /\ reader \in [Readers -> {Idle} \cup Working \cup Done]
  /\ \A r \in Readers : reader[r].at = "wait" => KeyOf(r) \in DOMAIN flight
  /\ \A f \in DOMAIN flight : Waiters(f) # {}

Init ==
  /\ asked \in Demands
  /\ C!Init
  /\ version = 0
  /\ pending = {}
  /\ ack = [v \in 1..MaxVersion |-> Never]
  /\ clean = 0
  /\ flight = [f \in {} |-> {}]
  /\ reader = [r \in Readers |-> Idle]

----------------------------------------------------------------------------
(* Requests *)

LastSuch(P(_)) == CHOOSE v \in Versions :
                    /\ v = 0 \/ P(v)
                    /\ \A w \in v + 1..MaxVersion : ~P(w)

\* What the properties compare an answer with, as of the lookup.
Floor ==
  LET Old(v) == ack[v] > Bound
  IN  [old |-> LastSuch(Old), clean |-> clean]

Start(r, k, u) ==
  reader' = [reader EXCEPT ![r] =
    [at |-> "load", kind |-> k, viewer |-> u, part |-> 0, wait |-> 0,
     payload |-> Blank, floor |-> Floor]]

Answer(r, u, p, floor) ==
  reader' = [reader EXCEPT ![r] = [at |-> "done", viewer |-> u, payload |-> p, floor |-> floor]]

\* Mutant of Lookup: a hit starts the entry's time to live again.
LookupSlides(r, k, u) ==
  /\ r \notin Busy
  /\ IF <<k, u>> \in DOMAIN stored /\ stored[<<k, u>>].left >= 0
     THEN /\ C!Set(<<k, u>>, Budget, stored[<<k, u>>].data, TTL)
          /\ Answer(r, u, stored[<<k, u>>].data, Floor)
     ELSE C!Get(<<k, u>>) /\ Start(r, k, u)
  /\ UNCHANGED <<version, pending, ack, clean, flight, asked>>

\* The cache is asked first.
Lookup(r, k, u) ==
  /\ r \notin Busy
  /\ C!Get(<<k, u>>)
  /\ IF reply'.hit THEN Answer(r, u, reply'.data, Floor) ELSE Start(r, k, u)
  /\ UNCHANGED <<version, pending, ack, clean, flight, asked>>

\* An error of the cache counts as a miss.
LookupError(r, k, u) ==
  /\ k \in Lossy
  /\ r \notin Busy
  /\ Start(r, k, u)
  /\ UNCHANGED <<stored, reply, version, pending, ack, clean, flight, asked>>

\* Where a request is after a part: at the next one, or ready to store.
After(s, p) ==
  [s EXCEPT !.at = IF s.part + 1 = Len(Parts[s.kind]) THEN "store" ELSE "load",
            !.part = @ + 1, !.payload = p]

\* A query is made for the request that starts it: where it filters by user, the
\* rows are that user's.
Query(r) ==
  [read |-> FALSE,
   result |-> [Blank EXCEPT !.rows = IF PartOf(r) \in PerViewer THEN {reader[r].viewer} ELSE {}]]

\* The next load: join the query in progress, or start one.
Ask(r) ==
  /\ reader[r].at = "load"
  /\ reader' = [reader EXCEPT ![r].at = "wait"]
  /\ flight' = [f \in DOMAIN flight \cup {KeyOf(r)} |->
                  IF f \in DOMAIN flight THEN flight[f] ELSE Query(r)]
  /\ UNCHANGED <<stored, reply, version, pending, ack, clean, asked>>

\* The profiles are not needed, or are all in Redis; or there is no completed
\* period to resume.
Skip(r) ==
  /\ reader[r].at = "load"
  /\ PartOf(r) \in {"profiles", "resume"}
  /\ reader' = [reader EXCEPT ![r] = After(@, @.payload)]
  /\ UNCHANGED <<stored, reply, version, pending, ack, clean, flight, asked>>

\* The query is evaluated in the database, on what is committed.  Profiles are
\* not the budget's data.
Read(f) ==
  /\ f \in DOMAIN flight
  /\ ~flight[f].read
  /\ flight' = [flight EXCEPT ![f].read = TRUE,
                              ![f].result.version = IF f[1] = "profiles" THEN @ ELSE version]
  /\ UNCHANGED <<stored, reply, version, pending, ack, clean, reader, asked>>

Without(f) == [g \in DOMAIN flight \ {f} |-> flight[g]]

\* The query returns: all that wait for it go on with its result.
Land(f) ==
  /\ f \in DOMAIN flight
  /\ flight[f].read
  /\ reader' = [r \in Readers |->
                  IF r \in Waiters(f)
                  THEN After(reader[r], Merged(reader[r].payload, flight[f].result))
                  ELSE reader[r]]
  /\ flight' = Without(f)
  /\ UNCHANGED <<stored, reply, version, pending, ack, clean, asked>>

\* Mutant of Fail: only one of those that wait is told.
FailTellsOne(f) ==
  /\ f \in DOMAIN flight
  /\ \E r \in Waiters(f) :
       reader' = [reader EXCEPT ![r] = IF f[1] \in Optional THEN After(@, @.payload) ELSE Idle]
  /\ flight' = Without(f)
  /\ UNCHANGED <<stored, reply, version, pending, ack, clean, asked>>

\* The query fails, or the context of the request that made it ends: all that
\* wait for it go on without the part, or end with an error.
Fail(f) ==
  /\ f \in DOMAIN flight
  /\ reader' = [r \in Readers |->
                  IF r \notin Waiters(f) THEN reader[r]
                  ELSE IF f[1] \in Optional THEN After(reader[r], reader[r].payload) ELSE Idle]
  /\ flight' = Without(f)
  /\ UNCHANGED <<stored, reply, version, pending, ack, clean, asked>>

\* The answer is cached and sent.
Store(r) ==
  /\ reader[r].at = "store"
  /\ C!Set(<<reader[r].kind, reader[r].viewer>>, Budget, reader[r].payload, TTL)
  /\ Answer(r, reader[r].viewer, reader[r].payload, reader[r].floor)
  /\ UNCHANGED <<version, pending, ack, clean, flight, asked>>

\* The cache refuses it, which is only logged.
StoreError(r) ==
  /\ reader[r].at = "store"
  /\ reader[r].kind \in Lossy
  /\ Answer(r, reader[r].viewer, reader[r].payload, reader[r].floor)
  /\ UNCHANGED <<stored, reply, version, pending, ack, clean, flight, asked>>

----------------------------------------------------------------------------
(* Writers and time *)

\* A handler's write commits.
Write ==
  /\ version < MaxVersion
  /\ version' = version + 1
  /\ pending' = pending \cup {version + 1}
  /\ UNCHANGED <<stored, reply, ack, clean, flight, reader, asked>>

\* A load in progress has already read something older than v.
Straddled(v) ==
  \/ \E f \in DOMAIN flight : flight[f].result.version < v
  \/ \E r \in Busy : reader[r].payload.version < v

Acknowledge(v) ==
  /\ pending' = pending \ {v}
  /\ ack' = [ack EXCEPT ![v] = 0]

\* Mutant of Invalidate: the handler of the write forgets to invalidate.
InvalidateForgotten(v) ==
  /\ v \in pending
  /\ Acknowledge(v)
  /\ clean' = IF Straddled(v) THEN clean ELSE Most(clean, v)
  /\ UNCHANGED <<stored, reply, version, flight, reader, asked>>

\* The handler drops all entries of the budget, and answers.
Invalidate(v) ==
  /\ v \in pending
  /\ C!InvalidateBudget(Budget)
  /\ Acknowledge(v)
  /\ clean' = IF Straddled(v) THEN clean ELSE Most(clean, v)
  /\ UNCHANGED <<version, flight, reader, asked>>

\* The deletion fails, which is only logged.
InvalidateError(v) ==
  /\ asked.kinds \subseteq Lossy
  /\ v \in pending
  /\ Acknowledge(v)
  /\ UNCHANGED <<stored, reply, version, clean, flight, reader, asked>>

\* Time passes; a request does not outlive MaxLoad.
Tick ==
  /\ \A r \in Busy : reader[r].wait < MaxLoad
  /\ C!Tick
  /\ ack' = [v \in 1..MaxVersion |-> IF ack[v] \in {Never, Bound + 1} THEN ack[v] ELSE ack[v] + 1]
  /\ reader' = [r \in Readers |->
                  IF r \in Busy THEN [reader[r] EXCEPT !.wait = @ + 1] ELSE reader[r]]
  /\ UNCHANGED <<version, pending, clean, flight, asked>>

ReaderNext(r) ==
  \/ \E k \in asked.kinds, u \in asked.viewers : Lookup(r, k, u) \/ LookupError(r, k, u)
  \/ Ask(r) \/ Skip(r) \/ Store(r) \/ StoreError(r)

FlightNext(f) == Read(f) \/ Land(f) \/ Fail(f)

Next ==
  \/ \E r \in Readers : ReaderNext(r)
  \/ \E f \in FlightKeys : FlightNext(f)
  \/ Write
  \/ \E v \in 1..MaxVersion : Invalidate(v) \/ InvalidateError(v)
  \/ Tick

Spec == Init /\ [][Next]_vars

\* Requests that can go on do, and a query ends with a result or an error; users
\* and time need not do anything.
FairSpec ==
  /\ Spec
  /\ \A r \in Readers : WF_vars(Ask(r) \/ Store(r))
  /\ \A f \in FlightKeys : WF_vars(FlightNext(f))

----------------------------------------------------------------------------
(* Properties *)

Answered == {r \in Readers : reader[r].at = "done"}

\* An answer reflects every write whose handler was done more than Bound ticks
\* before the request: one TTL, and two loads, since what is stored may come
\* from a query that another request had started.
StaleBounded == \A r \in Answered : reader[r].payload.version >= reader[r].floor.old

\* An answer reflects every write whose invalidation no load straddled: a stale
\* entry only ever comes from a load that overlapped the write.
CleanWritesSeen == \A r \in Answered : reader[r].payload.version >= reader[r].floor.clean

\* Nobody is answered with rows selected for another viewer, by a shared query
\* or by the cache (the comment at summary_singleflight.go:116-119).
NoLeak == \A r \in Answered : reader[r].payload.rows \subseteq {reader[r].viewer}

\* Every request ends, whatever becomes of the queries of others that it joins.
RequestsEnd == \A r \in Readers : r \in Busy ~> r \notin Busy

=============================================================================
