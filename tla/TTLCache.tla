------------------------------ MODULE TTLCache ------------------------------
(***************************************************************************)
(* internal/cache/cache.go: the in-process TTL cache with LRU eviction and *)
(* a per-budget index.  Every operation runs under Cache.mu, so each is    *)
(* one action.                                                             *)
(*                                                                         *)
(* The cache is one record: the entries map, the container/list as the set *)
(* of its elements (listed) and the order among them (older), and          *)
(* budgetIndex.  Time is the TTL an entry has left, one Tick at a time; an *)
(* entry is expired once its TTL is passed, not when it is reached         *)
(* (time.Now().After(expiresAt)).  The hit and miss counters are left out. *)
(***************************************************************************)
EXTENDS Integers, FiniteSets

CONSTANTS Keys, Budgets, Data,
          MaxTTL,          \* longest TTL, in ticks
          MaxEntries,      \* maxEntries (10000 in the code)
          SweepInterval    \* sweepInterval (256 in the code)

ASSUME MaxTTLAssumption == MaxTTL \in Nat
ASSUME MaxEntriesAssumption == MaxEntries \in Nat \ {0}
ASSUME SweepAssumption == SweepInterval \in Nat \ {0}

VARIABLES cache,           \* [entries, listed, older, index]
          setsSinceSweep,
          reply            \* the last call and what it returned

vars == <<cache, setsSinceSweep, reply>>

NoReply == [call |-> "new"]
Done(call, arg) == [call |-> call, arg |-> arg]
Miss(k) == [call |-> "get", arg |-> k, hit |-> FALSE]
Hit(k, d) == [call |-> "get", arg |-> k, hit |-> TRUE, data |-> d]

Entry == [data : Data, left : -1..MaxTTL, budgetID : Budgets]

\* Mutant of Expired: !time.Now().Before(expiresAt).
ExpiredAtDeadline(e) == e.left <= 0

Expired(e) == e.left < 0

\* New().
EmptyCache ==
  [entries |-> [k \in {} |-> {}], listed |-> {}, older |-> {}, index |-> [b \in {} |-> {}]]

Init == cache = EmptyCache /\ setsSinceSweep = 0 /\ reply = NoReply

----------------------------------------------------------------------------
(* The four structures and the helpers that keep them together *)

\* Mutant of IndexWithout: emptied key sets stay in the index.
IndexWithoutLeaky(c, S) ==
  [b \in DOMAIN c.index |-> c.index[b] \ {k \in S \cap DOMAIN c.entries : c.entries[k].budgetID = b}]

\* The index after the entries of S have been taken out of it, each under the
\* budget it was stored with.
IndexWithout(c, S) ==
  LET remaining(b) == c.index[b] \ {k \in S \cap DOMAIN c.entries : c.entries[k].budgetID = b}
  IN  [b \in {b \in DOMAIN c.index : remaining(b) # {}} |-> remaining(b)]

\* removeElement, for every key of S.
Without(c, S) ==
  [entries |-> [k \in DOMAIN c.entries \ S |-> c.entries[k]],
   listed  |-> c.listed \ S,
   older   |-> {p \in c.older : p[1] \notin S /\ p[2] \notin S},
   index   |-> IndexWithout(c, S)]

\* Mutant of Touched: a hit does not move the entry.
Untouched(c, k) == c

\* order.MoveToFront.
Touched(c, k) ==
  [c EXCEPT !.older = {p \in @ : p[1] # k} \cup ((c.listed \ {k}) \X {k})]

\* order.PushFront, and the entry in the map and in the index.
Pushed(c, k, e) ==
  [entries |-> [x \in DOMAIN c.entries \cup {k} |-> IF x = k THEN e ELSE c.entries[x]],
   listed  |-> c.listed \cup {k},
   older   |-> c.older \cup (c.listed \X {k}),
   index   |-> [b \in DOMAIN c.index \cup {e.budgetID} |->
                  (IF b \in DOMAIN c.index THEN c.index[b] ELSE {})
                    \cup (IF b = e.budgetID THEN {k} ELSE {})]]

\* sweepExpiredLocked: the whole list is walked.
Swept(c) == Without(c, {k \in DOMAIN c.entries : Expired(c.entries[k])})

Newer(c, k) == {j \in c.listed : <<k, j>> \in c.older}

\* The loop that removes order.Back() while the list is longer than the cap:
\* an element goes when as many as fit are newer.
Evicted(c) == Without(c, {k \in c.listed : Cardinality(Newer(c, k)) >= MaxEntries})

----------------------------------------------------------------------------
(* Operations *)

Get(k) ==
  /\ \/ /\ k \notin DOMAIN cache.entries
        /\ reply' = Miss(k)
        /\ UNCHANGED cache
     \/ /\ k \in DOMAIN cache.entries /\ Expired(cache.entries[k])
        /\ reply' = Miss(k)
        /\ cache' = Without(cache, {k})
     \/ /\ k \in DOMAIN cache.entries /\ ~Expired(cache.entries[k])
        /\ reply' = Hit(k, cache.entries[k].data)
        /\ cache' = Touched(cache, k)
  /\ UNCHANGED setsSinceSweep

\* Mutant of Stored: an entry that is replaced stays where it was in the list
\* and under its old budget.
StoredOver(k, e) == Pushed(cache, k, e)

\* The overwrite path and the insertion of setLocked.
Stored(k, e) ==
  Pushed(IF k \in DOMAIN cache.entries THEN Without(cache, {k}) ELSE cache, k, e)

SweepDue == setsSinceSweep + 1 >= SweepInterval

\* Set with a positive TTL.
Set(k, b, d, ttl) ==
  /\ LET new == Stored(k, [data |-> d, left |-> ttl, budgetID |-> b])
     IN  IF SweepDue
         THEN setsSinceSweep' = 0 /\ cache' = Evicted(Swept(new))
         ELSE setsSinceSweep' = setsSinceSweep + 1 /\ cache' = Evicted(new)
  /\ reply' = Done("set", k)

\* Set with a TTL that is not positive is a no-op.
SetDisabled(k) == reply' = Done("set", k) /\ UNCHANGED <<cache, setsSinceSweep>>

Delete(k) ==
  /\ cache' = IF k \in DOMAIN cache.entries THEN Without(cache, {k}) ELSE cache
  /\ reply' = Done("delete", k)
  /\ UNCHANGED setsSinceSweep

\* The keys come from the index, not from the entries.
InvalidateBudget(b) ==
  /\ cache' =
       IF b \notin DOMAIN cache.index THEN cache
       ELSE [Without(cache, cache.index[b]) EXCEPT
               !.index = [x \in DOMAIN cache.index \ {b} |-> cache.index[x]]]
  /\ reply' = Done("invalidate", b)
  /\ UNCHANGED setsSinceSweep

Sweep == cache' = Swept(cache) /\ setsSinceSweep' = 0 /\ reply' = Done("sweep", {})

Clear == cache' = EmptyCache /\ setsSinceSweep' = 0 /\ reply' = Done("clear", {})

Aged(entries) ==
  [k \in DOMAIN entries |-> [entries[k] EXCEPT !.left = IF @ < 0 THEN @ ELSE @ - 1]]

\* Time passes.
Tick ==
  /\ cache' = [cache EXCEPT !.entries = Aged(cache.entries)]
  /\ UNCHANGED <<setsSinceSweep, reply>>

Next ==
  \/ \E k \in Keys : Get(k) \/ Delete(k) \/ SetDisabled(k)
  \/ \E k \in Keys, b \in Budgets, d \in Data, ttl \in 1..MaxTTL : Set(k, b, d, ttl)
  \/ \E b \in Budgets : InvalidateBudget(b)
  \/ Sweep \/ Clear \/ Tick

Spec == Init /\ [][Next]_vars

----------------------------------------------------------------------------
(* Properties *)

TypeOK ==
  /\ DOMAIN cache.entries \subseteq Keys
  /\ \A k \in DOMAIN cache.entries : cache.entries[k] \in Entry
  /\ setsSinceSweep \in 0..(SweepInterval - 1)

ListOK(c) ==
  /\ c.listed = DOMAIN c.entries
  /\ c.older \subseteq c.listed \X c.listed
  /\ \A k \in c.listed : <<k, k>> \notin c.older
  /\ \A j, k \in c.listed : j # k => <<j, k>> \in c.older \/ <<k, j>> \in c.older
  /\ \A i, j, k \in c.listed :
       <<i, j>> \in c.older /\ <<j, k>> \in c.older => <<i, k>> \in c.older

IndexOK(c) ==
  /\ DOMAIN c.index = {c.entries[k].budgetID : k \in DOMAIN c.entries}
  /\ \A b \in DOMAIN c.index : c.index[b] = {k \in DOMAIN c.entries : c.entries[k].budgetID = b}

\* The map and the list hold the same keys, and the list is a list: a strict
\* total order, so that no key is in it twice (cache.go:82-86).
ListExact == ListOK(cache)

\* budgetIndex is exactly the entries grouped by the budget they were last
\* stored with, also after a key has been stored again under another budget,
\* has expired or has been evicted; no budget keeps an empty key set
\* (cache.go:93-97, 254-268).
IndexExact == IndexOK(cache)

\* The cache never holds more than maxEntries (cache.go:20-22, 213-222).
WithinCap == IsFiniteSet(cache.listed) /\ Cardinality(cache.listed) <= MaxEntries

\* Storing a value under one key loses the live value of another only when
\* the cache is full, and then that of the back of the list; it never is the
\* key of the last hit, unless the cache holds one entry only (cache.go:170-173,
\* 213-222).
EvictsLeastRecent ==
  [][(\E k \in Keys, b \in Budgets, d \in Data, ttl \in 1..MaxTTL : Set(k, b, d, ttl)) =>
       \A j \in DOMAIN cache.entries \ DOMAIN cache'.entries :
         ~Expired(cache.entries[j]) =>
           /\ Cardinality(cache'.listed) = MaxEntries
           /\ \A i \in DOMAIN cache.entries \cap DOMAIN cache'.entries : <<j, i>> \in cache.older
           /\ MaxEntries > 1 => ~(reply.call = "get" /\ reply.arg = j)
    ]_vars

\* The cache does what its callers rely on: a hit is the value last stored,
\* unexpired and not invalidated since; InvalidateBudget drops all of the
\* budget's entries, and of those only (cache.go:270-326).
Contract == INSTANCE CacheContract WITH stored <- cache.entries

KeepsContract == Contract!Spec

============================================================================
