------------------------------- MODULE Ledger -------------------------------
(***************************************************************************)
(* The expenses of a budget (internal/handlers/expenses.go) beside its     *)
(* members, categories and links: CreateExpense and UpdateExpense check in *)
(* one statement and write in another, DeleteExpense does both in one, and *)
(* DeleteCategory (categories.go) takes expenses and links along.  The     *)
(* other writer of expenses, Migrate (migrate.go), creates the budget with *)
(* them.  What these handlers invalidate and broadcast is in               *)
(* SummaryCoherence and in LinkTargets.                                    *)
(*                                                                         *)
(* The module is about the expenses of one budget, Book.  A row has a      *)
(* category and an amount, each of which an update may set or leave out;   *)
(* the description and the date are treated like the amount.               *)
(***************************************************************************)
EXTENDS Links

CONSTANTS Book,        \* the budget
          Expenses,    \* ids of expenses
          Values,      \* amounts
          First,       \* the amount with which an expense is created
          MaxExpenses, \* maxExpensesPerBudget
          Imports,     \* how many expenses the budget may be created with
          Uses         \* what is done together: links, expenses, updates, imports

ASSUME BookAssumption == Book \in Budgets /\ First \in Values
ASSUME MaxExpensesAssumption == MaxExpenses \in Nat \ {0}
ASSUME ImportsAssumption == Imports \subseteq Nat

VARIABLES expenses,  \* budget_expenses: id -> row
          meant,     \* history: id -> the value that was given last, by field
          overtaken, \* history: ids of rows that an update wrote after another's
          imported,  \* history: how many expenses the budget was created with
          use        \* what is done in this behaviour

vars == <<linkVars, request, expenses, meant, overtaken, imported, use>>
expenseVars == <<expenses, meant, overtaken, imported, use>>

Rows == [category : Categories, amount : Values]
Fields == {"category", "amount"}

\* What an update gives: values for some of the fields.
Changes == {[f \in S |-> row[f]] : S \in SUBSET Fields, row \in Rows}

\* Where a request can be.
RequestStates ==
  {Idle}
    \cup [at : {"source", "preflight", "link"}, user : Users, target : Budgets,
          category : Categories, stale : BOOLEAN, raced : BOOLEAN]
    \cup [at : {"cleanup"}, user : Users, budget : Budgets]
    \cup [at : {"create"}, id : Expenses, row : Rows]
    \cup [at : {"update"}, id : Expenses, row : Rows, new : Changes, late : BOOLEAN]

\* The types of the variables.
TypeOK ==
  /\ categories \subseteq Categories
  /\ members \subseteq Users \X Budgets
  /\ links \subseteq [target : Budgets, category : Categories, by : Users,
                     stale : BOOLEAN, raced : BOOLEAN]
  /\ request \in [Requests -> RequestStates]
  /\ DOMAIN expenses \subseteq Expenses /\ expenses \in [DOMAIN expenses -> Rows]
  /\ meant \in [DOMAIN expenses -> Rows]
  /\ overtaken \subseteq DOMAIN expenses
  /\ imported \in Nat
  /\ use \in Uses

Put(f, x, v) == [y \in DOMAIN f \cup {x} |-> IF y = x THEN v ELSE f[y]]
Only(f, S) == [y \in DOMAIN f \cap S |-> f[y]]

\* Migrate creates the budget, its categories and any number of expenses in these
\* in one transaction, up to a limit of its own that is far above MaxExpenses
\* (10000 and 3000); an expense whose category is not among them is left out.
migrateSingleBudget ==
  \E S \in SUBSET Expenses :
    /\ IsFiniteSet(S) /\ Cardinality(S) \in Imports
    /\ imported = Cardinality(S)
    /\ expenses \in [S -> {row \in Rows : BudgetOf[row.category] = Book}]

\* CreateBudget creates it without expenses.
Founded == expenses = [e \in {} |-> e] /\ imported = 0

\* Book has just been created, in one of the two ways.
Init ==
  /\ LinksInit
  /\ use \in Uses
  /\ Founded \/ ("imports" \in use /\ migrateSingleBudget)
  /\ meant = expenses
  /\ overtaken = {}

OwnCategories == {c \in categories : BudgetOf[c] = Book}

\* The ids that requests in progress refer to.  Ids are random; here one is new
\* if no row has it and no request refers to it.
InUse ==
  UNION {CASE request[r].at \in {"source", "preflight", "link"} -> {request[r].category}
           [] request[r].at \in {"create", "update"} -> {request[r].id, request[r].row.category}
           [] OTHER -> {} : r \in Requests}

----------------------------------------------------------------------------
\* Mutant of BelowExpenseLimit: one more.
BelowExpenseLimitByOne == Cardinality(DOMAIN expenses) <= MaxExpenses

BelowExpenseLimit == Cardinality(DOMAIN expenses) < MaxExpenses

\* CreateExpense's preflight: access, the limit, and a category of the budget.
CreateExpense(r, u, e, c) ==
  /\ "expenses" \in use
  /\ request[r] = Idle
  /\ e \notin DOMAIN expenses \cup InUse
  /\ HasAccess(u, Book)
  /\ BelowExpenseLimit
  /\ c \in OwnCategories
  /\ Goto(r, [at |-> "create", id |-> e, row |-> [category |-> c, amount |-> First]])
  /\ UNCHANGED <<linkVars, expenses, meant, overtaken, imported, use>>

\* The row is inserted, if its category still exists.
InsertExpense(r) ==
  /\ request[r].at = "create"
  /\ IF request[r].row.category \in categories
     THEN /\ expenses' = Put(expenses, request[r].id, request[r].row)
          /\ meant' = Put(meant, request[r].id, request[r].row)
     ELSE UNCHANGED <<expenses, meant>>
  /\ Goto(r, Idle)
  /\ UNCHANGED <<linkVars, overtaken, imported, use>>

\* Mutant of Applied: an amount that is left out is reset.
AppliedWithDefaults(row, new) ==
  [f \in Fields |-> IF f \in DOMAIN new THEN new[f] ELSE IF f = "amount" THEN First ELSE row[f]]

\* The row with the fields that were given.
Applied(row, new) == [f \in Fields |-> IF f \in DOMAIN new THEN new[f] ELSE row[f]]

\* UpdateExpense reads the row, for a user with access and a category of the
\* budget, and applies the fields that are given.
UpdateExpense(r, u, e, new) ==
  /\ "updates" \in use
  /\ request[r] = Idle
  /\ e \in DOMAIN expenses
  /\ HasAccess(u, Book)
  /\ "category" \in DOMAIN new => new.category \in OwnCategories
  /\ Goto(r, [at |-> "update", id |-> e, row |-> Applied(expenses[e], new),
              new |-> new, late |-> FALSE])
  /\ UNCHANGED <<linkVars, expenseVars>>

\* All its columns are written, if it is still there, and if not, the answer is
\* the same; a category that is gone is an error.  late is history: the row was
\* written after it was read.
WriteExpense(r) ==
  /\ request[r].at = "update"
  /\ LET e == request[r].id
         row == request[r].row
     IN  IF e \in DOMAIN expenses /\ row.category \in categories
         THEN /\ expenses' = [expenses EXCEPT ![e] = row]
              /\ meant' = [meant EXCEPT ![e] = [f \in Fields |->
                   IF f \in DOMAIN request[r].new THEN request[r].new[f] ELSE @[f]]]
              /\ overtaken' = IF request[r].late THEN overtaken \cup {e} ELSE overtaken
              /\ request' = [q \in Requests |->
                   IF q = r THEN Idle
                   ELSE IF request[q].at = "update" /\ request[q].id = e
                   THEN [request[q] EXCEPT !.late = TRUE]
                   ELSE request[q]]
         ELSE Goto(r, Idle) /\ UNCHANGED <<expenses, meant, overtaken>>
  /\ UNCHANGED <<linkVars, imported, use>>

\* Only the rows in S stay.
Keep(S) ==
  /\ expenses' = Only(expenses, S)
  /\ meant' = Only(meant, S)
  /\ overtaken' = overtaken \cap S

\* One statement, with the check for access in it.
DeleteExpense(u, e) ==
  /\ e \in DOMAIN expenses
  /\ HasAccess(u, Book)
  /\ Keep(DOMAIN expenses \ {e})
  /\ UNCHANGED <<linkVars, request, imported, use>>

\* The pruner, every hour: the rows whose date is too old, which are any, since
\* dates are left out.
pruneAllOldExpenses(old) ==
  /\ old # {}
  /\ Keep(DOMAIN expenses \ old)
  /\ UNCHANGED <<linkVars, request, imported, use>>

\* CreateCategory, by the owner; its limits are in Allocation.
CreateCategory(u, c) ==
  /\ c \notin categories \cup InUse
  /\ Owner[BudgetOf[c]] = u
  /\ categories' = categories \cup {c}
  /\ UNCHANGED <<members, links, request, expenseVars>>

\* DeleteCategory, by the owner, with the cascades of the schema.
DeleteCategory(u, c) ==
  /\ c \in categories
  /\ Owner[BudgetOf[c]] = u
  /\ Keep({e \in DOMAIN expenses : expenses[e].category # c})
  /\ categories' = categories \ {c}
  /\ CascadeToLinks(c)
  /\ UNCHANGED <<members, request, imported, use>>

----------------------------------------------------------------------------
ExpenseStep(r) ==
  \/ \E u \in Users, e \in Expenses, c \in Categories : CreateExpense(r, u, e, c)
  \/ \E u \in Users, e \in Expenses, new \in Changes : UpdateExpense(r, u, e, new)
  \/ InsertExpense(r) \/ WriteExpense(r)

Next ==
  \/ "links" \in use /\ (\E r \in Requests : CreateLink(r)) /\ UNCHANGED expenseVars
  \/ LinksNext /\ UNCHANGED expenseVars
  \/ \E r \in Requests : ExpenseStep(r)
  \/ \E u \in Users, e \in Expenses : DeleteExpense(u, e)
  \/ \E old \in SUBSET DOMAIN expenses : pruneAllOldExpenses(old)
  \/ \E u \in Users, c \in Categories : CreateCategory(u, c) \/ DeleteCategory(u, c)

Spec == Init /\ [][Next]_vars

----------------------------------------------------------------------------
(* Properties *)

\* An update leaves alone what it was not asked to change: each field of a row has
\* the value that was set last, unless an update has written the row that another
\* one had written since it was read.
NoLostUpdate == \A e \in DOMAIN expenses \ overtaken : expenses[e] = meant[e]

\* A budget has no more expenses than it was created with, or no more than the limit
\* and one for each other request that had passed the check by then.
ExpenseOverrunBounded ==
  LET total == Cardinality(DOMAIN expenses) + Cardinality({r \in Requests : request[r].at = "create"})
  IN  total <= imported \/ total <= MaxExpenses - 1 + Cardinality(Requests)

\* Both limits are checked before, not with, the insertion (links.go:195,
\* expenses.go:206), and the one on expenses not at all by Migrate
\* (migrate.go:147, 277-282).
LimitsOverrunBounded == LinkOverrunBounded /\ ExpenseOverrunBounded

=============================================================================
