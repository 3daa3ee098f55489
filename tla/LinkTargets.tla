---------------------------- MODULE LinkTargets ----------------------------
(***************************************************************************)
(* Which budgets hear of a change to a source budget: its links, the       *)
(* linkTargetsCache that remembers their targets                           *)
(* (internal/handlers/links.go), and the handlers that ask it after a      *)
(* write, first to drop the targets' cached summaries                      *)
(* (invalidateLinkedTargets, helpers.go) and then to broadcast             *)
(* (broadcastToLinkedTargets, validation.go).                              *)
(*                                                                         *)
(* The module is about one source budget.  A link is a pair of its target  *)
(* and the source's category.  The rows change at a commit; the calls that *)
(* follow it in the handler are further steps.  The cache's mutex is held  *)
(* for a lookup and for a store, not for the query between them.           *)
(***************************************************************************)
EXTENDS Integers

CONSTANTS Targets,     \* budgets that may link to the source's categories
          SourceCategories,  \* ids of categories of the source budget
          Workers,     \* requests in progress at the same time
          TTL          \* linkTargetsCacheTTL

ASSUME TTLAssumption == TTL \in Nat \ {0}

VARIABLES
  exists,   \* the source's categories
  sourceLinks,    \* budget_links
  entry,    \* linkTargetsCache[source]: none, or one of [ids, left, rows]
  age,      \* history, per link: Never, or ticks since CreateLink was done, up to TTL
  worker    \* where each request is

targetsVars == <<exists, sourceLinks, entry, age, worker>>

Pairs == Targets \X SourceCategories
Never == -1

TargetsIdle == [at |-> "idle"]

\* The two uses of the targets after a change.
Rounds == {"purge", "broadcast"}

\* left is the time to the deadline computed at the lookup, and ids what was
\* found.  old and rows are history: the targets that had been linked for a TTL at
\* the lookup, and whether the query read all its rows, or broke off.
Fetching ==
  [at : {"lookup", "query", "store", "found"}, round : Rounds,
   old : SUBSET Targets, left : 0..TTL, ids : SUBSET Targets,
   rows : {"all", "some"}]

Entries == [ids : SUBSET Targets, left : 0..TTL, rows : {"all", "some"}]

Linking == [at : {"drop"}, made : SUBSET Pairs]

\* The types of the variables; links are to categories that exist, and only they
\* have an age.
TargetsTypeOK ==
  /\ exists \subseteq SourceCategories
  /\ sourceLinks \subseteq Pairs
  /\ \A p \in sourceLinks : p[2] \in exists
  /\ entry \subseteq Entries
  /\ \A d, e \in entry : d = e
  /\ age \in [Pairs -> Never..TTL]
  /\ \A p \in Pairs : age[p] # Never => p \in sourceLinks
  /\ worker \in [Workers -> {TargetsIdle} \cup Linking \cup Fetching]

TargetsInit ==
  /\ exists = SourceCategories
  /\ sourceLinks = {}
  /\ entry = {}
  /\ age = [p \in Pairs |-> Never]
  /\ worker = [w \in Workers |-> TargetsIdle]

----------------------------------------------------------------------------
TargetsOf(S) == {p[1] : p \in S}

\* The targets that every later lookup must find.
OldTargets == TargetsOf({p \in sourceLinks : age[p] = TTL})

Ends(w) == worker' = [worker EXCEPT ![w] = TargetsIdle]

\* The links in S are gone: requests under way need not reach their targets.
Removed(S, w, state) ==
  /\ sourceLinks' = sourceLinks \ S
  /\ age' = [p \in Pairs |-> IF p \in S THEN Never ELSE age[p]]
  /\ worker' = [v \in Workers |->
       IF v = w THEN state
       ELSE IF worker[v].at \in {"query", "store", "found"}
            THEN [worker[v] EXCEPT !.old = @ \ (TargetsOf(S) \ TargetsOf(sourceLinks \ S))]
            ELSE worker[v]]

Fetch(round) ==
  [at |-> "lookup", round |-> round, old |-> {}, left |-> TTL, ids |-> {}, rows |-> "all"]

----------------------------------------------------------------------------
(* Changes to the links *)

\* CreateLink's INSERT; a category is linked into a target once.  The checks that
\* concern other budgets' rows (currency, link limit, reverse link) can only refuse.
CreateSourceLink(w, p) ==
  /\ worker[w] = TargetsIdle
  /\ p[2] \in exists
  /\ p \notin sourceLinks
  /\ sourceLinks' = sourceLinks \cup {p}
  /\ worker' = [worker EXCEPT ![w] = [at |-> "drop", made |-> {p}]]
  /\ UNCHANGED <<exists, entry, age>>

\* DeleteLink, or the clean-up of RemoveCollaborator, which may remove several.
DeleteLinks(w, S) ==
  /\ worker[w] = TargetsIdle
  /\ S # {}
  /\ Removed(S, w, [at |-> "drop", made |-> {}])
  /\ UNCHANGED <<exists, entry>>

\* invalidateLinkTargetsCache.  The handler also drops the target's summary and
\* tells both budgets, for which it needs no lookup.
DropEntry(w) ==
  /\ worker[w].at = "drop"
  /\ entry' = {}
  /\ age' = [p \in Pairs |-> IF p \in worker[w].made \cap sourceLinks /\ age[p] = Never THEN 0 ELSE age[p]]
  /\ Ends(w)
  /\ UNCHANGED <<exists, sourceLinks>>

----------------------------------------------------------------------------
(* Changes to the source, and whom they reach *)

\* An expense or a category of the source is written.
Change(w, c) ==
  /\ worker[w] = TargetsIdle
  /\ c \in exists
  /\ worker' = [worker EXCEPT ![w] = Fetch("purge")]
  /\ UNCHANGED <<exists, sourceLinks, entry, age>>

\* DeleteCategory, whose cascade takes the category's links.
DeleteSourceCategory(w, c) ==
  /\ worker[w] = TargetsIdle
  /\ c \in exists
  /\ exists' = exists \ {c}
  /\ Removed({p \in sourceLinks : p[2] = c}, w, Fetch("purge"))
  /\ UNCHANGED entry

\* fetchTargetBudgetIDs: the deadline is fixed and the entry read.
Lookup(w) ==
  /\ worker[w].at = "lookup"
  /\ \/ \E e \in entry :
          /\ e.left > 0
          /\ worker' = [worker EXCEPT ![w] =
               [@ EXCEPT !.at = "found", !.old = OldTargets, !.ids = e.ids, !.rows = e.rows]]
     \/ /\ \A e \in entry : e.left = 0
        /\ worker' = [worker EXCEPT ![w] = [@ EXCEPT !.at = "query", !.old = OldTargets]]
  /\ UNCHANGED <<exists, sourceLinks, entry, age>>

Query(w) ==
  /\ worker[w].at = "query"
  /\ worker' = [worker EXCEPT ![w].at = "store", ![w].ids = TargetsOf(sourceLinks)]
  /\ UNCHANGED <<exists, sourceLinks, entry, age>>

\* The connection or the deadline ends while the rows are read.  The loop stops as
\* at the last row, and what it has read is taken for the result.
QueryBreaks(w, ids) ==
  /\ worker[w].at = "query"
  /\ ids \subseteq TargetsOf(sourceLinks)
  /\ worker' = [worker EXCEPT ![w].at = "store", ![w].ids = ids, ![w].rows = "some"]
  /\ UNCHANGED <<exists, sourceLinks, entry, age>>

\* The query is refused: the error is swallowed, and nobody is told.
QueryError(w) ==
  /\ worker[w].at = "query"
  /\ worker' = [worker EXCEPT ![w] =
       IF @.round = "purge" THEN Fetch("broadcast") ELSE TargetsIdle]
  /\ UNCHANGED <<exists, sourceLinks, entry, age>>

\* Mutant of Store: the deadline counts from the store.
StoreLate(w) ==
  /\ worker[w].at = "store"
  /\ entry' = {[ids |-> worker[w].ids, left |-> TTL, rows |-> worker[w].rows]}
  /\ worker' = [worker EXCEPT ![w].at = "found"]
  /\ UNCHANGED <<exists, sourceLinks, age>>

\* The result replaces the entry, with the deadline of the lookup.
Store(w) ==
  /\ worker[w].at = "store"
  /\ entry' = {[ids |-> worker[w].ids, left |-> worker[w].left, rows |-> worker[w].rows]}
  /\ worker' = [worker EXCEPT ![w].at = "found"]
  /\ UNCHANGED <<exists, sourceLinks, age>>

\* The targets' summaries are dropped, and then, after another lookup, they are
\* sent the message.
Reach(w) ==
  /\ worker[w].at = "found"
  /\ worker' = [worker EXCEPT ![w] =
       IF @.round = "purge" THEN Fetch("broadcast") ELSE TargetsIdle]
  /\ UNCHANGED <<exists, sourceLinks, entry, age>>

Before(n) == IF n > 0 THEN n - 1 ELSE 0

Tick ==
  /\ entry' = {[e EXCEPT !.left = Before(@)] : e \in entry}
  /\ age' = [p \in Pairs |-> IF age[p] \in {Never, TTL} THEN age[p] ELSE age[p] + 1]
  /\ worker' = [w \in Workers |->
       IF worker[w].at \in {"query", "store"}
       THEN [worker[w] EXCEPT !.left = Before(@)] ELSE worker[w]]
  /\ UNCHANGED <<exists, sourceLinks>>

WorkerNext(w) ==
  \/ \E p \in Pairs : CreateSourceLink(w, p)
  \/ \E S \in SUBSET sourceLinks : DeleteLinks(w, S)
  \/ \E c \in SourceCategories : Change(w, c) \/ DeleteSourceCategory(w, c)
  \/ \E ids \in SUBSET Targets : QueryBreaks(w, ids)
  \/ DropEntry(w) \/ Lookup(w) \/ Query(w) \/ QueryError(w) \/ Store(w) \/ Reach(w)

TargetsNext == Tick \/ \E w \in Workers : WorkerNext(w)

TargetsSpec == TargetsInit /\ [][TargetsNext]_targetsVars

----------------------------------------------------------------------------
(* Properties *)

\* Requests that know the targets, and those whose query read all of them.
Found == {w \in Workers : worker[w].at = "found"}
Whole == {w \in Found : worker[w].rows = "all"}

\* Every change reaches the targets that have been linked for a TTL, however
\* lookups, queries, stores and new links interleave, unless a query broke off: an
\* entry never outlives, by its own slow query, the deadline fixed before it.
OldLinksReached == \A w \in Whole : worker[w].old \subseteq worker[w].ids

=============================================================================
