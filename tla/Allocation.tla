----------------------------- MODULE Allocation -----------------------------
(***************************************************************************)
(* The allocation ceiling of one budget: the sum of its categories'        *)
(* allocations against its monthly income, and the operations that change  *)
(* either (internal/handlers/categories.go, budgets.go, migrate.go).       *)
(*                                                                         *)
(* A worker is a request with its database transaction, at READ COMMITTED: *)
(* every statement sees what was committed when the statement began.       *)
(* SELECT ... FOR UPDATE on the budget's row is an exclusive lock; an      *)
(* INSERT of a category takes a KEY SHARE lock on that row for its foreign *)
(* key, and so waits for the exclusive one.  A transaction's writes and    *)
(* its COMMIT are one step, since nobody sees the writes before.  Amounts  *)
(* are counted in the smallest unit the columns keep, NUMERIC(18,2).       *)
(***************************************************************************)
EXTENDS Integers, Sequences, FiniteSets, FiniteSetsExt

CONSTANTS Writers,
          Categories,    \* category ids outside the guided template
          Template,      \* the guided template: a sequence of [cat, permille]
          MaxCategories, \* maxCategoriesPerBudget
          Incomes,       \* monthly_income values of requests
          NewValues,     \* allocation values of CreateCategory requests
          EditValues,    \* allocation values of UpdateCategory requests
          Imports,       \* category sets of Migrate: functions from ids to values
          Guided         \* whether CreateBudget requests a guided mode: a set

Ids == Categories \cup {Template[k].cat : k \in DOMAIN Template}

\* SUM(allocation_value) over the categories of f other than those in S.
TotalWithout(f, S) == MapThenSumSet(LAMBDA c : f[c], DOMAIN f \ S)

Total(f) == TotalWithout(f, {})

\* CreateBudget and UpdateBudget refuse an income that is not positive, the
\* other handlers a negative allocation; a template fits under the cap and shares out
\* at most the whole.  Its percentages are multiples of a tenth.
ASSUME InputAssumption ==
  /\ Incomes \subseteq Nat \ {0}
  /\ NewValues \subseteq Nat /\ EditValues \subseteq Nat
  /\ \A f \in Imports : /\ DOMAIN f \subseteq Categories /\ IsFiniteSet(DOMAIN f)
                        /\ f \in [DOMAIN f -> Nat]
  /\ Guided \subseteq BOOLEAN
  /\ MaxCategories \in Nat
  /\ Template \in Seq([cat : Ids, permille : Nat])
  /\ Len(Template) <= MaxCategories
  /\ \A j, k \in DOMAIN Template : Template[j].cat = Template[k].cat => j = k
  /\ Total([k \in DOMAIN Template |-> Template[k].permille]) <= 1000

VARIABLES
  live,     \* the budget's row exists
  income,   \* monthly_income
  alloc,    \* allocation_value of every category of the budget
  lock,     \* the worker that holds the budget's row FOR UPDATE, as a set
  allocTx        \* where each worker is

allocVars == <<live, income, alloc, lock, allocTx>>

AllocIdle == [at |-> "idle"]

AllocStates ==
  {AllocIdle}
    \cup [at : {"seed"}, income : Incomes]
    \cup [at : {"create_check", "create_insert"}, cat : Categories, value : NewValues]
    \cup [at : {"edit_wait", "edit_write"}, cat : Ids, value : EditValues, others : Nat]
    \cup [at : {"income_check", "income_write"}, income : Incomes]

NoCategories == [c \in {} |-> 0]

\* The types of the variables; no row of a category outlives its budget's.
AllocTypeOK ==
  /\ live \in BOOLEAN
  /\ income \in Incomes \cup {0}
  /\ DOMAIN alloc \subseteq Ids /\ IsFiniteSet(DOMAIN alloc)
  /\ alloc \in [DOMAIN alloc -> Nat]
  /\ lock \subseteq Writers
  /\ allocTx \in [Writers -> AllocStates]
  /\ ~live => alloc = NoCategories

AllocInit ==
  /\ live = FALSE
  /\ income = 0
  /\ alloc = NoCategories
  /\ lock = {}
  /\ allocTx = [w \in Writers |-> AllocIdle]

----------------------------------------------------------------------------
(* Rows and locks *)

\* The rows of f inserted, or overwritten, in alloc.
With(f) ==
  [c \in DOMAIN alloc \cup DOMAIN f |-> IF c \in DOMAIN f THEN f[c] ELSE alloc[c]]

Only(c, v) == [x \in {c} |-> v]

Unlocked == lock = {}

Locking(w) == Unlocked /\ lock' = lock \cup {w}

Release(w) == lock' = lock \ {w} /\ allocTx' = [allocTx EXCEPT ![w] = AllocIdle]

\* uuid.New: an id no row and no request refers to.
FreshId(c) ==
  c \notin DOMAIN alloc /\ \A w \in Writers : "cat" \in DOMAIN allocTx[w] => allocTx[w].cat # c

\* Mutant of FitsCap: the database has no such trigger.
FitsCapAlways(f) == TRUE

\* trg_enforce_budget_category_cap, which refuses a row that makes the count
\* exceed the cap.
FitsCap(f) == Cardinality(DOMAIN f) <= MaxCategories

----------------------------------------------------------------------------
(* CreateBudget: the row is committed before the categories are seeded *)

CreateBudget(w, i, guided) ==
  /\ ~live
  /\ \A v \in Writers : allocTx[v] = AllocIdle
  /\ live' = TRUE
  /\ income' = i
  /\ allocTx' = [allocTx EXCEPT ![w] = IF guided THEN [at |-> "seed", income |-> i] ELSE AllocIdle]
  /\ UNCHANGED <<alloc, lock>>

Floor(k, i) == (Template[k].permille * i) \div 1000

\* What the k-th entry of the template gets of income i: its share, rounded
\* down, and the last one what is left.
Share(k, i) ==
  IF k = Len(Template)
    THEN i - Total([j \in 1..(Len(Template) - 1) |-> Floor(j, i)])
    ELSE Floor(k, i)

Seeded(i) ==
  [c \in {Template[k].cat : k \in DOMAIN Template} |->
     Share(CHOOSE k \in DOMAIN Template : Template[k].cat = c, i)]

\* seedGuidedCategories, one INSERT with the income of the request.  It fails
\* when the budget is gone or the trigger objects.
SeedGuidedCategories(w) ==
  /\ allocTx[w].at = "seed"
  /\ Unlocked
  /\ alloc' = IF live /\ FitsCap(With(Seeded(allocTx[w].income)))
                THEN With(Seeded(allocTx[w].income)) ELSE alloc
  /\ allocTx' = [allocTx EXCEPT ![w] = AllocIdle]
  /\ UNCHANGED <<live, income, lock>>

----------------------------------------------------------------------------
(* Migrate: a budget and its categories in one transaction *)

Migrate(i, f) ==
  /\ ~live
  /\ \A v \in Writers : allocTx[v] = AllocIdle
  /\ FitsCap(f)
  /\ live' = TRUE
  /\ income' = i
  /\ alloc' = f
  /\ UNCHANGED <<lock, allocTx>>

----------------------------------------------------------------------------
(* CreateCategory *)

\* SELECT monthly_income ... FOR UPDATE, and the test of the value alone.
CreateLock(w, c, v) ==
  /\ allocTx[w] = AllocIdle
  /\ live
  /\ FreshId(c)
  /\ v <= income
  /\ Locking(w)
  /\ allocTx' = [allocTx EXCEPT ![w] = [at |-> "create_check", cat |-> c, value |-> v]]
  /\ UNCHANGED <<live, income, alloc>>

\* SELECT COUNT, SUM and the two tests.
CreateCheck(w) ==
  /\ allocTx[w].at = "create_check"
  /\ IF Cardinality(DOMAIN alloc) < MaxCategories /\ Total(alloc) + allocTx[w].value <= income
       THEN allocTx' = [allocTx EXCEPT ![w].at = "create_insert"] /\ UNCHANGED lock
       ELSE Release(w)
  /\ UNCHANGED <<live, income, alloc>>

\* INSERT and COMMIT.
CreateInsert(w) ==
  /\ allocTx[w].at = "create_insert"
  /\ alloc' = LET f == With(Only(allocTx[w].cat, allocTx[w].value))
              IN  IF FitsCap(f) THEN f ELSE alloc
  /\ Release(w)
  /\ UNCHANGED <<live, income>>

----------------------------------------------------------------------------
(* UpdateCategory with an allocation value.  Without one it changes neither *)
(* side of the ceiling, and takes no lock.                                  *)

\* SELECT monthly_income, (SELECT SUM ...) ... FOR UPDATE begins.  The sum is
\* taken from the statement's snapshot, before the wait for the row lock.
EditBegin(w, c, v) ==
  /\ allocTx[w] = AllocIdle
  /\ live
  /\ c \in DOMAIN alloc
  /\ allocTx' = [allocTx EXCEPT ![w] = [at |-> "edit_wait", cat |-> c, value |-> v,
                              others |-> TotalWithout(alloc, {c})]]
  /\ UNCHANGED <<live, income, alloc, lock>>

\* It gets the lock, reads the row as it is now, and tests the ceiling.
EditLock(w) ==
  /\ allocTx[w].at = "edit_wait"
  /\ IF live /\ allocTx[w].others + allocTx[w].value <= income
       THEN /\ Locking(w)
            /\ allocTx' = [allocTx EXCEPT ![w].at = "edit_write"]
       ELSE Unlocked /\ Release(w)
  /\ UNCHANGED <<live, income, alloc>>

\* UPDATE ... RETURNING, which finds no row if the category was deleted.
EditWrite(w) ==
  /\ allocTx[w].at = "edit_write"
  /\ alloc' = IF allocTx[w].cat \in DOMAIN alloc THEN With(Only(allocTx[w].cat, allocTx[w].value)) ELSE alloc
  /\ Release(w)
  /\ UNCHANGED <<live, income>>

----------------------------------------------------------------------------
(* UpdateBudget with a monthly income *)

\* Mutant of IncomeLock: the SELECT has no FOR UPDATE.
IncomeLockFree(w, i) ==
  /\ allocTx[w] = AllocIdle
  /\ live
  /\ allocTx' = [allocTx EXCEPT ![w] = [at |-> IF i < income THEN "income_check" ELSE "income_write",
                              income |-> i]]
  /\ UNCHANGED <<live, income, alloc, lock>>

\* SELECT ... FOR UPDATE; the sum is needed only for a lower income.
IncomeLock(w, i) ==
  /\ allocTx[w] = AllocIdle
  /\ live
  /\ Locking(w)
  /\ allocTx' = [allocTx EXCEPT ![w] = [at |-> IF i < income THEN "income_check" ELSE "income_write",
                              income |-> i]]
  /\ UNCHANGED <<live, income, alloc>>

IncomeCheck(w) ==
  /\ allocTx[w].at = "income_check"
  /\ IF Total(alloc) <= allocTx[w].income
       THEN allocTx' = [allocTx EXCEPT ![w].at = "income_write"] /\ UNCHANGED lock
       ELSE Release(w)
  /\ UNCHANGED <<live, income, alloc>>

\* UPDATE and COMMIT.
IncomeWrite(w) ==
  /\ allocTx[w].at = "income_write"
  /\ income' = allocTx[w].income
  /\ Release(w)
  /\ UNCHANGED <<live, alloc>>

----------------------------------------------------------------------------
(* Deletions, each a statement or a transaction of its own *)

\* DeleteCategory does not touch the budget's row.
DeleteCategory(c) ==
  /\ c \in DOMAIN alloc
  /\ alloc' = [x \in DOMAIN alloc \ {c} |-> alloc[x]]
  /\ UNCHANGED <<live, income, lock, allocTx>>

\* DELETE waits for the row lock; the categories go with the row (ON DELETE
\* CASCADE).
DeleteBudgetRow ==
  /\ live
  /\ Unlocked
  /\ live' = FALSE
  /\ income' = 0
  /\ alloc' = NoCategories
  /\ UNCHANGED <<lock, allocTx>>

\* A statement or a COMMIT fails, or the request goes away: the transaction rolls
\* back.  A budget whose seeding fails stays without categories.
AllocRollback(w) ==
  /\ allocTx[w] # AllocIdle
  /\ Release(w)
  /\ UNCHANGED <<live, income, alloc>>

----------------------------------------------------------------------------
WriterNext(w) ==
  \/ \E i \in Incomes, g \in Guided : CreateBudget(w, i, g)
  \/ SeedGuidedCategories(w)
  \/ \E c \in Categories, v \in NewValues : CreateLock(w, c, v)
  \/ CreateCheck(w) \/ CreateInsert(w)
  \/ \E c \in Ids, v \in EditValues : EditBegin(w, c, v)
  \/ EditLock(w) \/ EditWrite(w)
  \/ \E i \in Incomes : IncomeLock(w, i)
  \/ IncomeCheck(w) \/ IncomeWrite(w)
  \/ AllocRollback(w)

AllocNext ==
  \/ \E w \in Writers : WriterNext(w)
  \/ \E i \in Incomes, f \in Imports : Migrate(i, f)
  \/ \E c \in Ids : DeleteCategory(c)
  \/ DeleteBudgetRow

AllocSpec == AllocInit /\ [][AllocNext]_allocVars

----------------------------------------------------------------------------
(* Properties *)

\* No budget has more than maxCategoriesPerBudget categories, whoever inserts
\* them (categories.go:17-20, seedGuidedCategories, Migrate).
CategoryCap == Cardinality(DOMAIN alloc) <= MaxCategories

\* The checks of CreateCategory and of an UpdateBudget that lowers the income
\* still hold when they commit, with every other writer at work: neither leaves the
\* ceiling exceeded (budgets.go:580-587).  Nor does the seeding of a budget that
\* nobody has changed since its creation, whatever the rounding (budgets.go:421-425),
\* and UpdateCategory only if its sum of the others, taken before the wait for the
\* lock, misses some by now (categories.go:299).
ChecksHoldAtCommit ==
  [][\A w \in Writers :
       \/ allocTx[w].at = "create_insert" /\ allocTx'[w] = AllocIdle /\ alloc' # alloc
       \/ allocTx[w].at = "income_write" /\ allocTx'[w] = AllocIdle /\ income' < income
       \/ allocTx[w].at = "seed" /\ allocTx'[w] = AllocIdle /\ alloc = NoCategories /\ income = allocTx[w].income
       \/ /\ allocTx[w].at = "edit_write" /\ allocTx'[w] = AllocIdle /\ alloc' # alloc
          /\ TotalWithout(alloc, {allocTx[w].cat}) <= allocTx[w].others
       => Total(alloc') <= income']_allocVars

============================================================================
