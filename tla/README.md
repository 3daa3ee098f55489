# TLA+ verification of financentury-backend

A Go (Fiber) HTTP and WebSocket API for shared budgets, on PostgreSQL, with an
in-process cache and an optional Redis. This directory holds TLA+ modules that
model its stateful parts, TLC configurations that check them on small
instances, and TLAPS proofs of their main invariants for every instance.
`PROJECT.json` lists the runs, the mutants that show each property can fail,
the source lines behind each definition, the hazards and the theorems.

    tlc -workers 2 -config MCHubCallers.cfg MCHub     # one run
    tlapm HubProofs.tla                               # one module's proofs

## 1. Inventory

| Component | State | Operations | What is hard | What makes it correct |
|---|---|---|---|---|
| WebSocket hub (`ws/hub.go`, `handlers/ws.go`) | client set, budget buckets, broadcast channel; per client: BudgetIDs, bounded send channel, `ejecting`, write lock | Run's select loop, Subscribe/Unsubscribe, BroadcastToBudget, Unregister; read loop, ping goroutine, writePump | four goroutines per connection, two locks, a channel closed by one of them, peers that do not read | no send on or close of a closed channel; buckets only hold live clients and agree with BudgetIDs; Run is never blocked by a peer; no goroutine outlives its connection |
| TTL cache (`cache/cache.go`) | map, LRU list, budget index, sweep counter | Get, Set, Delete, InvalidateBudget, Sweep, Clear | three structures in step over expiry, eviction and overwriting | the three describe the same entries; cap; LRU order; never an expired or invalidated answer |
| Session middleware (`middleware/auth.go`, `handlers/sessions.go`, `handlers/auth.go`) | `user_sessions` rows, `sync.Map` of session verdicts | Protected, CreateSession, RevokeSession, SignOut, DeleteAccount, the evictor | row read, revocation and cache store interleave | a revocation takes effect, and when |
| Categories and budgets (`handlers/categories.go`, `budgets.go`, `migrate.go`) | income, allocations, category rows, row locks | create, update, delete; guided seeding; import | transactions at READ COMMITTED | allocations within the income; category cap |
| Invites and collaborators (`handlers/invites.go`, `collaborators.go`) | invites, membership rows | CreateInvite, AcceptInvite, RemoveCollaborator | count-then-insert, single use, removal of a connected user | collaborator and budget limits; an invite is used once; a removed user receives nothing |
| Links (`handlers/links.go`) | `budget_links`, cached link targets | CreateLink, UpdateLink, DeleteLink | check-then-insert, cached targets | no link and its reverse; link limit; an invalidation reaches the targets |
| Expenses (`handlers/expenses.go`) | expense rows | create, update, delete | read-modify-write of whole rows | no lost column; category of the same budget |
| Summaries and dashboard (`handlers/summary.go`, `dashboard.go`, `summary_singleflight.go`) | cached summaries, flights in progress | summary, trends, resume | loads overlapping writes and invalidations | how long an answer may be stale; period boundaries |
| Redis cache-aside (`redis/`) | remote entries with TTL | CacheAside, Delete, DeletePattern | same, plus a cache that may fail | same |
| Sign-in (`handlers/auth.go`, `auth_email.go`) | profiles, attempts per email | GoogleLogin, Register, Login | look up, then insert; check, slow hash, record | one profile per email; the attempt limit |
| Captcha and attestation (`captcha/`, `handlers/attest.go`) | verdict cache, keys with counters, challenges | Verify, Register | stale slice entries, counters that must grow | one use per challenge; cap of the cache |
| HTTP caching (`middleware/cache.go`) | none | If-None-Match, header rules | list parsing | a 304 only for a matching tag |
| Helpers, rate limits, CORS, configuration, routes, database client | none of their own | - | - | - |

Interactions. Every handler that changes a budget writes the database, then
calls `InvalidateBudget` (cache), for the budgets linked to it too, and then
`BroadcastToBudget` (hub); connected clients refetch on the broadcast.
Protected runs before every such handler. The hub reads a user's budgets once,
when the connection is made. `SubscribeToBudget` and `UnsubscribeFromBudget`
are exported and exercised concurrently by `hub_test.go`, but no handler calls
them at this commit: a new or removed collaborator's connection keeps the
buckets it started with. Account deletion touches sessions, budgets and
memberships in one transaction and purges the session cache afterwards.

## 2. Modules

| Module | Models | Checked by | Proved in |
|---|---|---|---|
| `Hub` | hub and WebSocket handler | `MCHub` with two cfgs | `HubProofs` |
| `CacheContract` | what callers of the cache may rely on | as the property `KeepsContract` | `TTLCacheProofs` |
| `TTLCache` | the cache as implemented | `MCTTLCache` | `TTLCacheProofs` |
| `SessionAuth` | Protected, its cache and evictor, session handlers | `MCSessionAuth` | `SessionAuthProofs` |
| `Allocation` | one budget's income and allocations, with transactions | `MCAllocation` | `BudgetProofs` |
| `Membership` | owners, collaborators, invites and their limits | `MCMembership` | `BudgetProofs` |
| `SummaryCoherence` | summary, trends and resume handlers, singleflight, the Redis cache-aside path, over `CacheContract` | `MCSummaryCoherence` | `SummaryCoherenceProofs` |
| `LinkTargets` | links of a source budget and the cache of their targets | `MCLinkTargets` | `LinkProofs` |
| `Links` | links between budgets, members, RemoveCollaborator's two statements | through `Ledger` | `LinkProofs` |
| `Ledger` | expenses, composed with `Links`: categories, cascades, limits | `MCLedger` | `LinkProofs` |
| `Captcha` | verdict cache, challenges, attested keys and their counters | through `SignIn` | `SignInProofs` |
| `SignIn` | Google and password sign-in behind `Captcha`, profiles, the failure limit | `MCSignIn` | `SignInProofs` |
| `BillingPeriod` | period arithmetic, in Go and in SQL, as functions of the day | through `Resume` | `ResumeProofs` |
| `Resume` | the resume of both endpoints, shared rows and queries, days, UpdateBudget | `MCResume` with two cfgs | `ResumeProofs` |

Modules about the same rows are proved about together, and so have names of their
own for what each of them has: `AllocSpec` and `TargetsSpec` are the specifications
of Allocation and LinkTargets, and their writers' steps on a budget's or a source's
rows are `DeleteBudgetRow`, `CreateSourceLink` and `DeleteSourceCategory`.

**Hub.** The variables are the fields of `Hub` and `Client`, plus the position
of each goroutine. Run's register branch is three actions, because the code
releases `client.mu` before it takes `h.mu`: `HubRegister` (receive, make the
channel), `HubSnapshot` (copy BudgetIDs), `HubIndex` (add to `clients` and the
buckets). Subscribe and Unsubscribe are two actions each for the same reason;
`Callers` are the goroutines in them, and `CallAfterIndexed` is the discipline
under which they are harmless.
A write to the peer is a lock action and a completion action, and while the
connection is open the completion may never come. `ejectors` counts the
goroutines that a drop starts. Messages are reduced to the budget they concern.
A `Client` value serves one connection, so a connection is never reused.

**TTLCache.** The LRU list is the relation `older`, a strict total order on
`listed`, which is what a doubly linked list holds; `Touched` is MoveToFront,
`Evicted` the loop that removes from the back. An entry's deadline is the time
it has left, and `Tick` lowers it for all entries, so no clock grows. Each
operation takes the mutex throughout and is one action. `Set` includes the
trailing sweep and eviction.

**CacheContract.** A partial function from keys to entries. `Get` answers with
what was last stored and has not expired or been dropped. A `Set` may forget
any other entries; every other call forgets exactly what it names or what has
expired.

**SessionAuth.** A request is at most four steps: cache lookup, SELECT, Store,
answer. A revocation is the UPDATE and then the cache delete; account deletion
is the transaction and then a `Range` over the map, one key at a time, as
`sync.Map` allows. The evictor is two steps: it judges an entry it was handed,
and deletes the key. `since`, `late` and `behind` are history: how long ago a
revocation was answered, what was known when the request began, and whether a
stored verdict was already outdated. A token without a row is let through by
the code ("backward compatible"), as is one whose row could not be read, and so
they are here: the verdicts `missing` and `failed`. A token is a user and a
second, so two sign-ins can hand out the same one; the model lets any token be
handed out again at any time, which includes that. What stops a second row is
the unique key on `token_hash`, in CreateSession's INSERT.

**Allocation.** One action per SQL statement, with the snapshot rule of READ
COMMITTED: a statement sees what was committed when it *began*, even if it then
waits for a lock. This is why `UpdateCategory` has `EditBegin`, which takes the
sum, and `EditLock`, which gets the lock, whereas `CreateCategory` takes the
sum in a second statement after the lock. The cap trigger, the cascade of
DELETE and the key-share lock of an INSERT's foreign key are part of the
actions. Amounts are integers in the smallest stored unit; the guided template,
in tenths of a percent, and its rounding, with the remainder going to the last
category, are computed as in the code, in exact arithmetic: where the code's
floating point comes out just below a whole unit, its floor is one lower, and that
unit goes to the last category instead. Migrate does not check the ceiling, neither here nor there.

**Membership.** A worker is a request, and each SQL statement of it a step:
`CreateBudgetCheck` and `CreateBudgetInsert` (also a round of Migrate's loop),
`CreateInviteCheck` and `CreateInviteInsert`, and for AcceptInvite the read of
the invite, the check, the UPDATE that marks it, the INSERT with its count, and
the commit. `Locked` is the lock on the invite's row that the UPDATE keeps until
the commit; `Pinned` stands for the foreign-key locks that make deletions wait.
DeleteBudget, DeleteAccount and RemoveCollaborator are one step each, their
commit, since what they read and write cannot be seen in between. `Rollback` is
every way in which a request gives up. `via` is history: whom an invite has
admitted. `Leavers` are the users who may delete their accounts.

**SummaryCoherence.** A write is a version number; a query returns the version
it saw, and an answer is as old as its oldest part. A request looks into the
cache, then loads the parts of its answer in the order of its handler, each by
joining the query in progress under the part's `FlightKey` or starting one, and
stores the result; a failed optional part is left out, a failed required one
ends all requests that share it. A handler that writes commits, and in a later
step invalidates. The cache is `CacheContract`, which `TTLCache` is proved to
implement, so nothing here depends on how the cache works inside. `ack`, `clean`
and `floor` are history: how long ago each write was acknowledged, and what that
made known when a request began. `Demands` says which answers are asked for
together, by whom. With kind `aside`, whose cache is `Lossy`, the same steps are
`redis.CacheAside`: each of Get, Set and Delete may fail unnoticed. The writes are those whose handler invalidates
this budget; profiles are not the budget's data. That a load takes at most
`MaxLoad` is an assumption on the database: the handlers set no deadline of
their own. A Redis SET that the server applies after the client has given up on
it, and DeletePattern, are not modelled.

**LinkTargets.** One source budget with its categories and links. A request that
changes the source asks for the targets twice, to purge their summaries and then
to broadcast; each time it looks into the cache (`Lookup`, which also fixes the
deadline), queries without the mutex (`Query`, or `QueryBreaks` when the rows
stop coming, or `QueryError`), and stores (`Store`). CreateLink and DeleteLink
commit and then drop the entry. DeleteCategory's cascade takes the links with
it. `age`, `old` and `rows` are history.

**Links, Ledger.** `links` are the rows of budget_links, each with its creator.
CreateLink is four steps: the two access checks, the preflight statement (limit,
reverse link, category) and the INSERT, which the unique key and the foreign key
may refuse. RemoveCollaborator is the DELETE of the membership and, in a second
statement that may fail and is then only logged, that of the user's links.
`stale` and `raced` are history: a removal has overtaken the request or failed to
clean up; the opposite link came in after the preflight. Ledger adds the expenses
of one budget, `Book`: CreateExpense's check and INSERT, UpdateExpense's read of
the row and write of all its columns, DeleteExpense, the pruner, and the
categories with the cascades to expenses and links. A row has two fields, of
which an update gives any subset. `Book` comes to be in one of two ways, which
are the initial states: CreateBudget makes it without expenses, Migrate with any
expenses in its own categories, in one transaction that nobody sees half of, and
with a limit of its own (10000; `Imports` says how many are tried). `meant` and
`imported` are history: the value given last to each field, and how many expenses
came with the budget. `Uses` says whether a behaviour is about links, or about
expenses and their updates, or about expenses on top of imported ones; members
and categories change in all.

**Captcha, SignIn.** What a token's bytes must satisfy (encodings, hashes,
certificates, signatures) is a check that passes or fails; what is kept between
requests is modelled. A web token goes through the cached verdicts (`cacheHit`,
`cacheStore`, the map and `cacheLRU` apart as in the code) and otherwise to
Cloudflare, which redeems a token once; the lock is not held meanwhile. An iOS
assertion redeems its challenge, looks up the key and its counter, and advances
the counter, in three statements; a registration redeems a challenge and stores
a key. An Android verdict redeems a challenge if it carries one. A request that
passed goes on to GoogleLogin: the lookup of the profile, and the INSERT if there
is none. Register and Login are modelled with their limit per email, which is
checked before the slow comparison and counted after it. The routes of these two
are not mounted at this commit, and so they have a door of their own (`doors`).

**BillingPeriod, Resume.** Dates are records of year, month and day, and the
functions are those of `summary.go`: `ComputeBillingPeriodStart`, `shiftMonths`,
the loop over completed periods, and the arithmetic that `loadLinkedAggregates`
repeats in SQL. Day 0 of a month is what `time.Date` makes of it, because a
stored cutoff day can be 0 (section 4). In Resume, days pass (`Midnight`), a
request joins or starts the load of its viewer's row, works out its periods,
joins or starts the query, and shows the rows under its own periods. A sum is
the set of the expenses in it. `changed` is history: UpdateBudget changed the
periods while what the request used was being loaded.

## 3. Runs

| Run | Shows |
|---|---|
| `hub_callers` | in every interleaving: no channel panic, no dead client in a bucket, at most one drop goroutine per client, Run never behind a hanging write |
| `hub_fair` | dropped clients and ended handlers leave, and no goroutine outlives its connection; if callers wait until Run has indexed their client, the buckets agree with BudgetIDs whenever nothing is in progress |
| `ttl_cache` | list, index and map in step; LRU eviction; the contract is implemented |
| `sessions` | a request after a revocation's answer is rejected, unless it hits an entry within the TTL plus one load, its SELECT fails, or the rows went with the account; only loads overlapping the revocation can leave an active entry; nobody with an active session is turned away as revoked; an entry past sessionCacheMaxAge leaves |
| `alloc_all` | with every writer at once, the category cap holds, neither CreateCategory nor a lowering UpdateBudget commits on an outdated check, the guided template's rounding fits the income, and UpdateCategory exceeds the income only with a sum that is out of date |
| `members` | no row outlives what it refers to; an owner is never a collaborator; an invite has admitted at most one existing user; a failed acceptance does not use it up; the collaborator limit is exceeded by fewer than the number of overlapping requests |
| `summaries` | an answer reflects a write acknowledged more than a TTL and two loads before, and one whose invalidation no load straddled, also when calls to Redis fail; no answer holds rows selected for another viewer; requests end, also those that joined the query of one that failed |
| `link_targets` | a change reaches every target that has been linked for a TTL |
| `ledger` | two budgets link to each other only if the links raced; a link's creator has access to both ends but for removals that failed or were overtaken; links and expenses exceed their limits by fewer than the overlapping requests, but for a budget imported with more expenses; an update is lost only to an overlapping update |
| `sign_in` | no challenge admits twice, nor a key's counter value between two registrations of the key; the last CacheMax verdicts are kept for their time, and the map exceeds its limit by no more than what lookups removed; failures per email exceed their limit by fewer than the overlapping requests; a sign-in fails after its checks only when another one created the same profile |
| `resume` | for every day of two years, every length of period and cutoff days at the ends of months: a day is in the last month of the period computed for it (the only month of a monthly one, whose days so have one period each), the SQL agrees with Go, the completed periods tile; and an answer has each expense under its own period unless the periods were changed meanwhile |
| `resume_types` | *violation*: a request that joins the other endpoint's query panics (finding 1) |

The type invariants are proved (section 5) and are not part of the runs, which
spend their time on the properties listed.

Bounds. `hub_callers` has two connections, so that one can be dropped while
another is served, one budget, one caller, and channels of capacity one: a
channel is empty, or full, or being overrun, which is all the code
distinguishes. `hub_fair` uses one connection with two budgets and capacity two,
so that a buffer is also neither empty nor full. The cache holds two of three
keys, under two budgets, with two values; a sweep is due at every third store, so
that expired entries meet both a sweep and an eviction. `sessions` has two tokens
of one user, so that a purge passes one while the other is stored, one request at
a time, one revocation, a TTL of two ticks, a load of up to one and an eviction
age above the TTL: an entry can be fresh, stale and evictable, and a load can
straddle a tick and a revocation; the proofs cover any number of requests.
`alloc_all` has three transactions, one more than the two that race, incomes and values on both sides of the ceiling, and a cap that the requests
reach. `members` has one place for three users with three invites, so that
acceptances could pile up, and two users who may leave, so that an owner and a
collaborator do. `summaries` has two viewers and two requests on the answer with
all five parts, one write, and TTL and load of one tick: with a bound of one tick
less `StaleBounded` fails, so the bound is tight and the instance large enough to
reach it; the resume is asked for too, and a key cached in Redis; trends are like
the resume. `link_targets` has two targets, two categories and two requests, so that a
target can lose one of its links and keep another; a TTL of two lets a link be
new, ageing and old. `ledger` has two budgets of two owners who may join each
other's, limits of one, two requests and three expenses, so that a limit is
overrun and an id comes back; an import has all three, more than any race
reaches, and updates are left out of it. `sign_in` caches two of four tokens, so that an
expired verdict is looked up while newer ones fill the map; three challenges
register a key and let two assertions race; two failures are the limit and a
window lasts two ticks. `resume` walks every day of 2024 and 2025, so that
February has 29 and 28 days, and has two requests where February ends, with
configurations whose periods differ there; they are of one viewer, and the proof
covers more. Symmetry is used only in runs without liveness properties.

Deadlock checking is on, but for `resume` and `resume_types`, whose calendar ends.
`ejectors`, `since` and the queues are bounded by the model itself, without a
state constraint.

Fairness. `FairSpec` of Hub asks weak fairness of each goroutine that has a
step to take, and of Run for each case of its `select`: Go picks at random among
the ready cases and serves the senders blocked on a channel in order. Strong
fairness is asked once, where Run waits for `client.mu` (`HubSnapshot`): a Go
mutex in starvation mode is handed to a waiter that keeps losing it. A write to
a connection that is *closed* returns, and a ping within its deadline; a write
to an open connection need not return, nor need a peer ever disconnect. The read
deadline ends the read loop of a connection whose pings are not answered.
`FairSpec` of SummaryCoherence asks that a handler goes on when it can and that
a query ends, with a result or an error; that it does is the database's part.
Neither users nor writers nor time need do anything. The evictor's ticker justifies weak fairness of `Evict` and
strong fairness of `Judge`: `Range` visits each key that is present throughout.

## 4. Findings

1. `resume_types` - `summary.go:1273`, and 1146, and `dashboard.go:437` and 552.
   GetBudgetResume and buildBudgetResume share `resumeSFGroup` and its keys, but
   each declares its own types for the rows. A request that joins a query which
   the other function started fails in its type assertion. The comment on the
   groups (`summary_singleflight.go:22`) says that the rest wait on the result of
   the one in flight.

Further places where a comment or a test says more than the models allow. No run
is kept for them; where a weaker property holds, it is named.
TLC shows the first three on the instances of section 3: `SettledConsistent` fails
in `hub_fair` with `CallAfterIndexed = FALSE`, `live => Total(alloc) <= income` as
an invariant of `alloc_all` with `Imports = {}` and `Guided = {FALSE}` (a migrated
budget may start above its income), and `Cardinality(Collaborators(b)) <=
MaxCollaborators` for each budget as an invariant of `members`.

- `hub.go:193`: a Subscribe between Run's snapshot and its indexing is seen by
  neither, so the client is not in the bucket of a budget it is subscribed to
  until it reconnects. The comment at 302-307 says both orders leave the bucket
  consistent; what holds is `SettledConsistent` under `CallAfterIndexed`.
- `categories.go:299`: the sum is part of the statement that waits for the lock,
  so it is older than the lock, and UpdateCategory can exceed the income. The
  comment at 286-287 says that allocation writers serialize. `ChecksHoldAtCommit`
  says what holds: the other two writers do, and this one while its sum is right.
- `invites.go:386`: the count in the INSERT sees committed rows only, and
  different invites lock different rows. The comment at 384 says that the
  statement prevents the race; what holds is `OverrunBounded`.
- `budgets.go:348`: a one-time budget keeps whatever cutoff day was sent, 0 if
  none, and UpdateBudget may then make it recurring without one. Go takes 0 for
  1, the SQL for the last day of the month before, and the completed periods
  become empty. `summary.go:56` says that the SQL matches character for
  character; `SqlMirrorsGo` and `PeriodsTile` need a cutoff day that was set.
- `auth.go:423`: of two first sign-ins with one email, the second is answered 500:
  a violated constraint is an error of `Post`, and so the lookup that should
  handle this race is not reached. What holds is `FailsOnlyInRace`.
- `turnstile.go:198`: an expired verdict leaves the map and not `cacheLRU`, so that
  a later eviction may free nothing, and the map exceeds its limit;
  `VerdictsBounded` says by how much. Two requests with one fresh token both ask
  Cloudflare, which refuses the second.
- `expenses.go:373`: UpdateExpense answers with the new row also when it was
  deleted after it was read. `expenses.go:20` says that expenses of twelve months
  are deleted; the pruner deletes them after 24.
- `budgets.go:642`: the currency of a linked budget may change, although CreateLink
  demands equal ones.
- `collaborators.go:177`: a removed collaborator's connection keeps its buckets
  and goes on receiving the budget's messages until it reconnects.
- `middleware/auth.go:245`: a request that read the row before a revocation and
  stores its verdict after the cache delete puts an active entry back.
  `sessions.go:135-138` says that the next request is rejected immediately; what
  holds, and is proved, is `RevokedAfterTTL`.
- `middleware/auth.go:264`: a token without a row is let through, and
  DeleteAccount deletes the rows, so the tokens of a deleted account pass for the
  rest of their seven days. `handlers/auth.go:683-687` says that every outstanding
  token is rejected on its next request. This is the exception `missing` of
  `RevokedAfterTTL`; without that disjunct TLC refutes it in `sessions`.
- `sessions.go:36`: a token's claims are the user, the email and the time in
  seconds (`middleware/auth.go:275-289`), so a sign-in within the second of an
  earlier one hands out the same token, and the INSERT fails on the unique
  `token_hash`, which is only logged; if the earlier session has been revoked
  since, so is the new one. `sessions.go:25` says that a new row is inserted; what
  holds is `NoFalseRejection`.
- `migrate.go:147`: Migrate accepts 10000 expenses for a budget, and inserts them
  (277-282) without the limit of 3000 that CreateExpense checks
  (`expenses.go:206`); what holds is `LimitsOverrunBounded`, which allows for it.
- `summary.go:86-88`: for a period of 3, 6 or 12 months the start moves on by one
  month every month, so that the periods of successive months overlap and a day is
  in as many as the period has months. `summary.go:53` says that every calendar
  day maps to exactly one period; what holds is `DayInLastMonth`, which for
  monthly periods comes to the same.
- `summary.go:1237` and `dashboard.go:516`: the key of the shared query
  has the budget and the day, not the periods, so a request that joins one started
  before UpdateBudget changed them shows its sums under other periods;
  `ResumeExact` has to exclude it.
- `expenses.go:340`: of two overlapping updates of one expense, the second writes
  back the columns that it read, and the first is lost; `NoLostUpdate` has to
  exclude it.
- `attest.go:139-141`: the attestation object is said to have been made over the
  challenge, and `appattest.go:36-41` that the client data hash binds the
  assertion to one. The code redeems the challenge, and checks the signature over
  the hash that was sent; it does not compare that hash, or the object, with the
  challenge. `NoReplay` is about challenges and counters, each by itself, and a
  re-registration sets the counter anew.
- `auth_email.go:27` and 41-42: the window of failed attempts is called sliding. It
  is fixed: it starts with the first failure, later ones do not extend it, and at
  its end all are forgotten. `AttemptsBounded` is about that window.
- `summary.go:500`: likewise, a load that straddles a write stores its old result
  after the invalidation. `helpers.go:13-15` says that the next read is fresh;
  what holds, and is proved, is `StaleBounded`.
- `budgets.go:301`: the budget count and the INSERT are two statements without a
  lock, so two creations can exceed the maximum of 264-265.
- `auth.go:659`: DeleteAccount sets `used_by` to NULL, which AcceptInvite takes
  for unused. `collab_security_test.go:343` says that used invites cannot be
  reused; what holds is `OneAdmission`, of users that exist.
- `categories.go:390`: DeleteCategory looks the targets up after the cascade has
  removed the links. `helpers.go:26-30` says that all dependents are purged.
- `links.go:500`: `rows.Err()` is not checked, so the rows read before a query
  broke off are cached as all of them; `OldLinksReached` has to exclude it.

## 5. Proofs

All theorems hold for every value of the constants under the named assumptions
of the modules, all of which TLC also evaluates.

**HubProofs** (`Invariance`): buffers and channel capacity are positive. The
properties are not inductive. The invariant `Inv` adds that every client in the
client set has an open channel (`ClientsOpen`), that a client without
`ejecting` has no drop goroutine (`EjectOnce`), that a connection Run has not
received yet is untouched (`Untouched`), and that the client of an unfinished
register branch has an empty open channel and a pump with nothing to write
(`Registering`). It gives `TypeCorrect`, `NeverPanics`, `IndexAlwaysSound`, `OneEjector` and
`RegisterUnblocked`. `AlwaysSettles` has two hypotheses: calls to Subscribe and
Unsubscribe come after the client was indexed (`CallAfterIndexed`), and from one
goroutine. Without either it is false: two calls in opposite directions may
update BudgetIDs in one order and the buckets in the other. Its invariant adds
that a call in progress is about a budget its client's BudgetIDs already show
(`CallsKnown`), that the snapshot of a client being registered is still its
BudgetIDs (`RegistersFresh`), and that otherwise buckets and BudgetIDs differ only where
that one call is (`BucketsMatch`).

**TTLCacheProofs** (`Invariance`, `Refinement`): cap and sweep interval are
positive. The structure of a cache value (`ListOK`, `IndexOK`, finiteness) is
proved preserved by the four operators the actions are built from - `Without`,
`Touched`, `Pushed`, and through them `Swept`, `Evicted`, `Stored` - once each.
`AlwaysWithinCap` needs that the kept keys are those with fewer than MaxEntries
newer ones, and that in a total order these number at most MaxEntries.
`Refinement` maps every step of TTLCache to one of CacheContract.
`AlwaysEvictsLeastRecent`, an action property, needs that an eviction takes the
back of the list (`EvictsBack`) and that the key of the last hit is at its front
(`LastHitNewest`).

**SessionAuthProofs** (`Invariance`): TTL at most the eviction age. The
invariant bounds what each request and each entry can still know: a load that
has seen an active row has waited at most MaxLoad ticks since a revocation was
answered (`LoadsRecent`), an active entry of a revoked token is at most as old
as that revocation plus its load (`EntriesRecent`), and a purge in progress
still has every older entry ahead of it (`WalkCovers`). A token whose row was
revoked, or whose user is gone, never has an active row again (`Over`), and that
is so of every token that a load, an entry or a verdict has seen revoked
(`SeenRevoked`): it rests on the INSERT failing for a token that has a row and for
a user that has no profile. It gives `StalenessBounded`, `OnlyOverlapsAreStale`
and `NobodyFalselyRejected`.

**LinkProofs** has two parts. The first is about Ledger, with Links in it
(`Invariance`): the requests are finitely many and the limits positive. For
`CirclesAreRaces` and `CreatorsAlwaysHaveAccess` the invariant says that what the
preflight and the access checks of a CreateLink found still holds at the INSERT,
or the request is marked as raced or overtaken (`PreflightHolds`,
`RequestsHaveAccess`). For `UpdatesNeverLost`, an update that no other has
overtaken has read the row as it is (`UpdatesKnown`), and the id of an expense
being created is nobody else's (`IdsFresh`). `LimitsAlwaysBounded` counts, for
each limit, the rows together with the requests that have passed the check and
not inserted: that sum exceeds the limit by fewer than the requests there are, or
it is no more than was imported, since the check stops all creations until the
expenses have come down to the limit.
The second part is about LinkTargets (`TargetsInvariance`): the TTL is positive.
`OldLinksReached` is not inductive. The invariant adds `DeadlinesHold`: what a
complete query found, cached or about to be stored, is kept no longer than until
a link that it misses has been there for a TTL. It rests on the order of two
pairs of steps in the code: the deadline is fixed before the query, and
CreateLink drops the entry after its INSERT. `OldKnown` carries that from the
lookup to the use, past links deleted meanwhile. It gives `TargetsTypeCorrect`
and `OldLinksAlwaysReached`.

**BudgetProofs** has two parts as well. The first is about Membership: requests,
users and budgets are finitely many, the limits positive. `OneAdmission` and
`UsedMeansAdmitted` rest on the row lock of the UPDATE that marks an invite: who
has it is alone, and the row is unused until the commit (`RowLocks`); and an
invite that is there names whom it admitted (`AdmissionsRecorded`). `NoOrphans`
needs that a budget keeps its owner, so that what AcceptCheck found stays true
(`StillNotOwner`), and that ids are never given out again (`IdsSpent`).
`OverrunAlwaysBounded` counts rows and requests past the check, as above.
The second part is about Allocation (`AllocInvariance`): amounts are natural
numbers, incomes positive, and a template fits under the cap and shares out at
most the whole (`InputAssumption`), as all five templates of the code do. The
invariant `AllocInv` says that a
transaction past its SELECT ... FOR UPDATE is the one that holds the lock
(`LockHeld`), and that what it has checked about the sum and the income is still
so (`CheckHolds`); for UpdateCategory this is only what it computed from its own,
possibly outdated, sum. The sums are folds over sets, defined by recursion, and
the library has no theorem on them. `SumCounts` shows that a sum of natural
numbers is the number of elements of a set, the `Units` of its terms, by an
induction stated for sets in place of predicates (`SubsetInduction`, from the
well-founded order of the finite subsets); the laws of sums follow from those of
cardinality. `SeededFits` then proves of every template and income what the
rounding in seedGuidedCategories is for: the shares rounded down fit, and the
last one is what is left, not negative. It gives `AllocTypeCorrect`,
`CapAlwaysHolds` and `ChecksAlwaysHold`, an action property.

**SummaryCoherenceProofs** (`Invariance`): TTL, load time and number of versions
are positive, and demands are for known answers and viewers. The argument is a bound on time:
for every write that a flight, a payload or a stored entry misses, how long ago
its handler can have been done (`FlightFact`, `PayloadFact`, `StoredFact`). A
flight misses what was done no longer ago than its starter has waited; a payload
adds the flight it joined; an entry adds its age, at most a TTL. What a request
knew when it began (`FloorFact`) is compared with that at its answer
(`DoneFact`). Nothing is assumed of what the cache forgets or of the calls to
Redis that fail. It gives `StalenessBounded`, `CleanWritesAlwaysSeen` and
`NothingLeaks`.

**SignInProofs** (`Invariance`): requests are finitely many, limits and times
positive. `NothingReplayed` needs that a challenge in use has one holder and is
spent, and that no accepted counter exceeds the key's (`AttestInv`).
`VerdictsAlwaysKept` needs that Cloudflare accepts a token once (`TokensOnce`)
and that `cacheLRU` holds the tokens cached last, in order, among them all that
are in the map (`LruIsRecent`); `VerdictsAlwaysBounded`, that its places without
a verdict are those that lookups removed (`LruBounded`). `AttemptsAlwaysBounded`
counts failures and comparisons in progress. `FailuresAreRaces` needs that a
request about to insert a profile that exists has been overtaken (`RaceKnown`).

**ResumeProofs**: cutoff days are 0 to 31, periods have 0, 1, 3, 6 or 12 months,
and the days and configurations of the instance are such. The first part is about
BillingPeriod, for every date: what Go computes with remainders and years back,
and SQL with intervals, is one count of months (`ShiftBack`, `ShiftOn`,
`BackAndOn`), so that `SqlIsGo`, and `CompletedTile`, since every start is on the
cutoff day of its month (`OnItsCutoff`) and moves with that count alone. A monthly
start is on or before the day and its successor after it (`MonthlyHolds`), and a
longer period's start moved on by all but one of its months is the monthly one
(`StartMovedOn`), so that `LastMonthHolds`. It gives `SqlAlwaysMirrorsGo`,
`PeriodsAlwaysTile` and `DaysInLastMonth`. For
`ResumeAlwaysExact` the invariant says what is in flight: a row, a request and a
query that no update has marked are right for the configuration as it is
(`LoadOK`, `RequestOK`, `FlightOK`), so that when a query lands, the rows are
numbered by the periods of the request that shows them.

Only model-checked: the liveness properties (`EjectedLeaves`, `HandlerLeaves`,
`NoGoroutineLeak`, `EvictorBounds`, `RequestsEnd`), because the prover does not
handle fairness. Every invariant and every action property that a run checks and
that holds is a theorem. The type of the rows that a request joins
(`JoinersUseResult`, finding 1) is what a run refutes.

## 6. Plan

Every component whose state outlives a request has a module, and every safety
property of a passing run has a proof. What is left:

1. Proofs of what the findings of section 4 call the weaker property, in places
   where no run states one yet: the bound on a user's budgets, which is
   overrun like that of collaborators, and the messages a removed collaborator
   goes on to receive.
2. Lemmas about CacheContract on its own, so that a second implementation could
   be shown against it as TTLCache is.

Not modelled, and not planned: cryptography (JWT, App Attest and Play Integrity
signatures, password hashes), OAuth exchanges and the cache of Google's token,
the lists of budgets, invites and linkable budgets with their caches, UpdateLink
and UpdateProfile (one statement each), If-None-Match, request validation and formatting, configuration,
routing, and the middleware that only configures a library (CORS, rate limits).
The hub's WriteJSON has no caller. The update of last_active_at is best effort
and is read by nothing that decides.
