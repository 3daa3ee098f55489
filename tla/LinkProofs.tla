----------------------------- MODULE LinkProofs -----------------------------
(***************************************************************************)
(* Proofs about links.  First the Ledger: the links between budgets with   *)
(* their members and with the expenses, in one inductive invariant with a  *)
(* part for each.  Then LinkTargets: the links of one source budget and    *)
(* the cache of their targets, which has a state and a specification of    *)
(* its own.                                                                *)
(***************************************************************************)
EXTENDS Ledger, LinkTargets, FiniteSetTheorems, TLAPS

\* No link leads from a budget to itself, nor does a request ask for one.
NotItself ==
  /\ \A l \in links : l.target # SourceOf(l)
  /\ \A r \in Requests : request[r].at \in {"source", "preflight", "link"} =>
       request[r].target # SourceOf(request[r])

\* What the preflight has found about the opposite direction still holds, or the
\* request has been raced.
PreflightHolds ==
  \A r \in Requests : request[r].at = "link" =>
    request[r].raced \/ \A l \in links : l.target = SourceOf(request[r]) => SourceOf(l) # request[r].target

\* What the access checks have found still holds, or a removal has overtaken the
\* request.
RequestsHaveAccess ==
  \A r \in Requests : request[r].at \in {"source", "preflight", "link"} /\ ~request[r].stale =>
    /\ HasAccess(request[r].user, request[r].target)
    /\ request[r].at # "source" => HasAccess(request[r].user, SourceOf(request[r]))

LinksInv == NotItself /\ PreflightHolds /\ RequestsHaveAccess /\ CircleOnlyInRace /\ CreatorsHaveAccess

\* The id of an expense that is being created is nobody else's.
IdsFresh ==
  \A r \in Requests : request[r].at = "create" =>
    /\ request[r].id \notin DOMAIN expenses
    /\ \A q \in Requests : request[q].at \in {"create", "update"} /\ request[q].id = request[r].id => q = r

\* An update that is not late has the row as it is, with its own changes.
UpdatesKnown ==
  \A r \in Requests :
    request[r].at = "update" /\ request[r].id \in DOMAIN expenses /\ ~request[r].late =>
      request[r].row = Applied(expenses[request[r].id], request[r].new)

ExpensesInv == IdsFresh /\ UpdatesKnown /\ NoLostUpdate

LimitsInv == IsFiniteSet(links) /\ IsFiniteSet(DOMAIN expenses) /\ LimitsOverrunBounded

IInv == TypeOK /\ LinksInv /\ ExpensesInv /\ LimitsInv

----------------------------------------------------------------------------
(* Types *)

\* What a request carries, by where it is.
LEMMA StateFields ==
  ASSUME NEW s \in RequestStates
  PROVE  /\ s.at \in {"source", "preflight", "link"} =>
              s \in [at : {"source", "preflight", "link"}, user : Users, target : Budgets,
                     category : Categories, stale : BOOLEAN, raced : BOOLEAN]
         /\ s.at = "cleanup" => s \in [at : {"cleanup"}, user : Users, budget : Budgets]
         /\ s.at = "create" => s \in [at : {"create"}, id : Expenses, row : Rows]
         /\ s.at = "update" =>
              s \in [at : {"update"}, id : Expenses, row : Rows, new : Changes, late : BOOLEAN]
         /\ s.at = "idle" => s = Idle
         /\ s.at \in {"idle", "source", "preflight", "link", "cleanup", "create", "update"}
BY DEF RequestStates, Idle

\* An update's values are values of the fields.
LEMMA ChangesFields ==
  ASSUME NEW new \in Changes
  PROVE  /\ "category" \in DOMAIN new => new["category"] \in Categories
         /\ "amount" \in DOMAIN new => new["amount"] \in Values
<1>1. PICK S \in SUBSET Fields, row \in Rows : new = [f \in S |-> row[f]]
  BY DEF Changes
<1>2. row.category \in Categories /\ row.amount \in Values
  BY DEF Rows
<1> QED
  BY <1>1, <1>2

\* An updated row is a row.
LEMMA AppliedType ==
  ASSUME NEW row \in Rows, NEW new \in Changes
  PROVE  /\ [f \in Fields |-> IF f \in DOMAIN new THEN new[f] ELSE row[f]] \in Rows
         /\ Applied(row, new) \in Rows
<1> DEFINE g == [f \in Fields |-> IF f \in DOMAIN new THEN new[f] ELSE row[f]]
<1>1. row["category"] \in Categories /\ row["amount"] \in Values
  BY DEF Rows
<1>2. g["category"] \in Categories /\ g["amount"] \in Values /\ DOMAIN g = {"category", "amount"}
  BY <1>1, ChangesFields DEF Fields
<1>3. g = [category |-> g["category"], amount |-> g["amount"]]
  BY <1>2
<1>4. g \in Rows
  <2> HIDE DEF g
  <2> QED
    BY <1>2, <1>3 DEF Rows
<1> QED
  BY <1>4 DEF Applied

\* Keep leaves a part of the rows.
LEMMA KeepEffect ==
  ASSUME TypeOK, NEW S, Keep(S)
  PROVE  /\ DOMAIN expenses' = DOMAIN expenses \cap S
         /\ expenses' \in [DOMAIN expenses' -> Rows]
         /\ meant' \in [DOMAIN expenses' -> Rows]
         /\ \A e \in DOMAIN expenses' : expenses'[e] = expenses[e] /\ meant'[e] = meant[e]
         /\ overtaken' = overtaken \cap DOMAIN expenses'
BY DEF Keep, Only, TypeOK

\* A step of one request.
LEMMA GotoEffect ==
  ASSUME TypeOK, NEW r \in Requests, NEW s, Goto(r, s)
  PROVE  /\ request'[r] = s
         /\ \A q \in Requests : q # r => request'[q] = request[q]
         /\ s \in RequestStates => request' \in [Requests -> RequestStates]
BY DEF TypeOK, Goto

\* A request that is done is in a state of its own.
LEMMA IdleState == Idle \in RequestStates /\ Idle.at = "idle"
BY DEF RequestStates, Idle

----------------------------------------------------------------------------
(* Steps that do not concern a part *)

\* While links only go, members only join and no clean-up ends, every link's
\* creator is accounted for.
LEMMA CreatorsQuiet ==
  ASSUME CreatorsHaveAccess, links' \subseteq links, members \subseteq members',
         \A q \in Requests : request[q].at = "cleanup" => request'[q] = request[q]
  PROVE  CreatorsHaveAccess'
<1> SUFFICES ASSUME NEW l \in links', NEW b \in {l.target, SourceOf(l)}
             PROVE  \/ HasAccess(l.by, b)'
                    \/ l.stale
                    \/ \E r \in Requests : request'[r] = [at |-> "cleanup", user |-> l.by, budget |-> b]
  BY DEF CreatorsHaveAccess
<1>1. \/ HasAccess(l.by, b)
      \/ l.stale
      \/ \E r \in Requests : request[r] = [at |-> "cleanup", user |-> l.by, budget |-> b]
  BY DEF CreatorsHaveAccess
<1>2. HasAccess(l.by, b) => HasAccess(l.by, b)'
  BY DEF HasAccess
<1>3. \A r \in Requests : request[r] = [at |-> "cleanup", user |-> l.by, budget |-> b] =>
        request'[r] = request[r]
  OBVIOUS
<1> QED
  BY <1>1, <1>2, <1>3

\* Links may go; no request enters or goes on with the creation of a link, and no
\* clean-up ends.
LEMMA LinksQuiet ==
  ASSUME LinksInv, links' \subseteq links, members' = members,
         \A q \in Requests : request'[q].at \in {"source", "preflight", "link"} => request'[q] = request[q],
         \A q \in Requests : request[q].at = "cleanup" => request'[q] = request[q]
  PROVE  LinksInv'
<1>1. NotItself'
  BY DEF LinksInv, NotItself
<1>2. PreflightHolds'
  BY DEF LinksInv, PreflightHolds
<1>3. RequestsHaveAccess'
  BY DEF LinksInv, RequestsHaveAccess, HasAccess
<1>4. CircleOnlyInRace'
  BY DEF LinksInv, CircleOnlyInRace
<1>5. CreatorsHaveAccess'
  BY CreatorsQuiet DEF LinksInv
<1> QED
  BY <1>1, <1>2, <1>3, <1>4, <1>5 DEF LinksInv

\* Rows may go; no request enters or goes on with a creation or an update.
LEMMA ExpensesQuiet ==
  ASSUME ExpensesInv, DOMAIN expenses' \subseteq DOMAIN expenses,
         \A e \in DOMAIN expenses' : expenses'[e] = expenses[e] /\ meant'[e] = meant[e],
         overtaken' = overtaken \cap DOMAIN expenses',
         \A q \in Requests : request'[q].at \in {"create", "update"} => request'[q] = request[q]
  PROVE  ExpensesInv'
<1>1. IdsFresh'
  BY DEF ExpensesInv, IdsFresh
<1>2. UpdatesKnown'
  BY DEF ExpensesInv, UpdatesKnown, Applied
<1>3. NoLostUpdate'
  BY DEF ExpensesInv, NoLostUpdate
<1> QED
  BY <1>1, <1>2, <1>3 DEF ExpensesInv

\* The requests past their check.
LinkingInto(b) == {r \in Requests : request[r].at = "link" /\ request[r].target = b}
CreatingExpenses == {r \in Requests : request[r].at = "create"}

\* One element more adds at most one to the size of a set.
LEMMA AddOne ==
  ASSUME NEW S, IsFiniteSet(S), NEW x
  PROVE  /\ IsFiniteSet(S \cup {x}) /\ Cardinality(S \cup {x}) \in Nat
         /\ Cardinality(S \cup {x}) <= Cardinality(S) + 1
<1>1. Cardinality(S) \in Nat
  BY FS_CardinalityType
<1>2. /\ IsFiniteSet(S \cup {x})
      /\ Cardinality(S \cup {x}) = IF x \in S THEN Cardinality(S) ELSE Cardinality(S) + 1
  BY FS_AddElement
<1> QED
  BY <1>1, <1>2

\* A function makes no more of a finite set than it has elements.
LEMMA ImageFits ==
  ASSUME NEW S, IsFiniteSet(S), NEW f
  PROVE  IsFiniteSet({f[x] : x \in S}) /\ Cardinality({f[x] : x \in S}) <= Cardinality(S)
<1> DEFINE T == {f[x] : x \in S}
           g == [x \in S |-> f[x]]
<1>1. g \in Surjection(S, T)
  BY DEF Surjection
<1> HIDE DEF T, g
<1>2. IsFiniteSet(T) /\ Cardinality(T) <= Cardinality(S)
  BY <1>1, FS_Surjection
<1> QED
  BY <1>2 DEF T

\* Any part of the requests is finite, and no larger than all of them.
LEMMA RequestsFinite ==
  ASSUME NEW S \in SUBSET Requests
  PROVE  /\ IsFiniteSet(S) /\ Cardinality(S) \in Nat /\ Cardinality(Requests) \in Nat
         /\ Cardinality(S) <= Cardinality(Requests)
BY RequestAssumption, FS_Subset, FS_CardinalityType

\* No link is added, and no request gets past its check.
LEMMA LinkLimitQuiet ==
  ASSUME IsFiniteSet(links), LinkOverrunBounded, links' \subseteq links,
         \A q \in Requests : request'[q].at = "link" =>
           request[q].at = "link" /\ request'[q].target = request[q].target
  PROVE  IsFiniteSet(links') /\ LinkOverrunBounded'
<1>1. IsFiniteSet(links')
  BY FS_Subset
<1>2. SUFFICES ASSUME NEW b \in Budgets
               PROVE  Cardinality(LinksInto(b)') + Cardinality(LinkingInto(b)')
                        <= MaxLinks - 1 + Cardinality(Requests)
  BY <1>1 DEF LinkOverrunBounded, LinkingInto, LinksInto
<1>3. Cardinality(LinksInto(b)) + Cardinality(LinkingInto(b)) <= MaxLinks - 1 + Cardinality(Requests)
  BY DEF LinkOverrunBounded, LinkingInto
<1>4. LinksInto(b) \in SUBSET links /\ LinksInto(b)' \in SUBSET LinksInto(b)
  BY DEF LinksInto
<1>5. /\ Cardinality(LinksInto(b)) \in Nat /\ Cardinality(LinksInto(b)') \in Nat
      /\ Cardinality(LinksInto(b)') <= Cardinality(LinksInto(b))
  BY <1>4, FS_Subset, FS_CardinalityType
<1>6. LinkingInto(b) \in SUBSET Requests /\ LinkingInto(b)' \in SUBSET LinkingInto(b)
  BY DEF LinkingInto
<1>7. /\ Cardinality(LinkingInto(b)) \in Nat /\ Cardinality(LinkingInto(b)') \in Nat
      /\ Cardinality(LinkingInto(b)') <= Cardinality(LinkingInto(b))
  BY <1>6, RequestsFinite, FS_Subset, FS_CardinalityType
<1> QED
  BY <1>3, <1>5, <1>7, RequestAssumption, FS_CardinalityType, MaxLinksAssumption

\* No expense is added, and no request gets past its check.
LEMMA ExpenseLimitQuiet ==
  ASSUME TypeOK, UNCHANGED imported,
         IsFiniteSet(DOMAIN expenses), ExpenseOverrunBounded, DOMAIN expenses' \subseteq DOMAIN expenses,
         \A q \in Requests : request'[q].at = "create" => request[q].at = "create"
  PROVE  IsFiniteSet(DOMAIN expenses') /\ ExpenseOverrunBounded'
<1>3. \/ Cardinality(DOMAIN expenses) + Cardinality(CreatingExpenses) <= imported
      \/ Cardinality(DOMAIN expenses) + Cardinality(CreatingExpenses) <= MaxExpenses - 1 + Cardinality(Requests)
  BY DEF ExpenseOverrunBounded, CreatingExpenses
<1>5. /\ Cardinality(DOMAIN expenses) \in Nat /\ Cardinality(DOMAIN expenses') \in Nat
      /\ IsFiniteSet(DOMAIN expenses')
      /\ Cardinality(DOMAIN expenses') <= Cardinality(DOMAIN expenses)
  BY FS_Subset, FS_CardinalityType
<1>6. CreatingExpenses \in SUBSET Requests /\ CreatingExpenses' \in SUBSET CreatingExpenses
  BY DEF CreatingExpenses
<1>7. /\ Cardinality(CreatingExpenses) \in Nat /\ Cardinality(CreatingExpenses') \in Nat
      /\ Cardinality(CreatingExpenses') <= Cardinality(CreatingExpenses)
  BY <1>6, RequestsFinite, FS_Subset, FS_CardinalityType
<1>8. \/ Cardinality(DOMAIN expenses') + Cardinality(CreatingExpenses') <= imported
      \/ Cardinality(DOMAIN expenses') + Cardinality(CreatingExpenses') <= MaxExpenses - 1 + Cardinality(Requests)
  BY <1>3, <1>5, <1>7, RequestAssumption, FS_CardinalityType, MaxExpensesAssumption DEF TypeOK
<1> QED
  BY <1>5, <1>8 DEF ExpenseOverrunBounded, CreatingExpenses

----------------------------------------------------------------------------
(* CreateLink *)

\* A step of request r, at most, within the creation of a link or out of it.
LEMMA LinkStepFrame ==
  ASSUME IInv, NEW r \in Requests, request[r].at # "cleanup", UNCHANGED expenseVars,
         request'[r].at \notin {"create", "update"},
         \A q \in Requests : q # r => request'[q] = request[q]
  PROVE  /\ ExpensesInv'
         /\ IsFiniteSet(DOMAIN expenses') /\ ExpenseOverrunBounded'
<1>0. UNCHANGED <<expenses, meant, overtaken, imported>> /\ overtaken \subseteq DOMAIN expenses
  BY DEF expenseVars, IInv, TypeOK
<1>1. ExpensesInv'
  BY <1>0, ExpensesQuiet DEF IInv
<1>2. IsFiniteSet(DOMAIN expenses') /\ ExpenseOverrunBounded'
  BY <1>0, ExpenseLimitQuiet DEF IInv, LimitsInv, LimitsOverrunBounded
<1> QED
  BY <1>1, <1>2

\* CreateLink takes a target that is not the source, to which the user has access
\* (links.go:148-155): the request starts with what the invariant asks of it.
LEMMA CheckTargetKeeps ==
  ASSUME IInv, NEW r \in Requests, NEW u \in Users, NEW b \in Budgets, NEW c \in Categories,
         CheckTarget(r, u, b, c), UNCHANGED expenseVars
  PROVE  IInv'
<1> DEFINE s == Creating(u, b, c)
<1>1. /\ request[r] = Idle /\ BudgetOf[c] # b /\ HasAccess(u, b)
      /\ UNCHANGED <<categories, members, links>> /\ Goto(r, s)
      /\ UNCHANGED <<expenses, meant, overtaken, imported, use>>
  BY DEF CheckTarget, linkVars, expenseVars
<1>2. /\ s.at = "source" /\ s.user = u /\ s.target = b /\ s.category = c /\ s \in RequestStates
      /\ s.stale = FALSE
  BY DEF Creating, RequestStates
<1> HIDE DEF s
<1>3. /\ request'[r] = s /\ \A q \in Requests : q # r => request'[q] = request[q]
      /\ request' \in [Requests -> RequestStates]
  BY <1>1, <1>2, GotoEffect DEF IInv
<1>4. TypeOK'
  BY <1>1, <1>3 DEF IInv, TypeOK
<1>5. LinksInv'
  <2>1. NotItself'
    BY <1>1, <1>2, <1>3 DEF IInv, LinksInv, NotItself, SourceOf
  <2>2. PreflightHolds'
    BY <1>1, <1>2, <1>3 DEF IInv, LinksInv, PreflightHolds
  <2>3. RequestsHaveAccess'
    BY <1>1, <1>2, <1>3 DEF IInv, LinksInv, RequestsHaveAccess, HasAccess
  <2>4. CircleOnlyInRace'
    BY <1>1 DEF IInv, LinksInv, CircleOnlyInRace
  <2>5. CreatorsHaveAccess'
    BY <1>1, <1>3, IdleState, CreatorsQuiet DEF IInv, LinksInv
  <2> QED
    BY <2>1, <2>2, <2>3, <2>4, <2>5 DEF LinksInv
<1>6. /\ ExpensesInv'
      /\ IsFiniteSet(DOMAIN expenses') /\ ExpenseOverrunBounded'
  BY <1>1, <1>2, <1>3, LinkStepFrame, IdleState
<1>7. IsFiniteSet(links') /\ LinkOverrunBounded'
  BY <1>1, <1>2, <1>3, LinkLimitQuiet DEF IInv, LimitsInv, LimitsOverrunBounded
<1> QED
  BY <1>4, <1>5, <1>6, <1>7 DEF IInv, LimitsInv, LimitsOverrunBounded

\* Access to the source as well (links.go:158): RequestsHaveAccess asks for both from
\* here on.
LEMMA CheckSourceKeeps ==
  ASSUME IInv, NEW r \in Requests, CheckSource(r), UNCHANGED expenseVars
  PROVE  IInv'
<1> DEFINE old == request[r]
           new == [old EXCEPT !.at = "preflight"]
           s == IF HasAccess(old.user, SourceOf(old)) THEN new ELSE Idle
<1>1. /\ old.at = "source"
      /\ UNCHANGED <<categories, members, links>> /\ Goto(r, s)
      /\ UNCHANGED <<expenses, meant, overtaken, imported, use>>
  BY DEF CheckSource, linkVars, expenseVars
<1>2. old \in [at : {"source", "preflight", "link"}, user : Users, target : Budgets,
               category : Categories, stale : BOOLEAN, raced : BOOLEAN]
  BY <1>1, StateFields DEF IInv, TypeOK
<1>3. /\ new.at = "preflight" /\ new.user = old.user /\ new.target = old.target
      /\ new.category = old.category /\ new.stale = old.stale /\ new \in RequestStates
  BY <1>2 DEF RequestStates
<1>4. (s = new /\ HasAccess(old.user, SourceOf(old))) \/ s = Idle
  OBVIOUS
<1> HIDE DEF s, new
<1>5. s \in RequestStates /\ s.at \in {"preflight", "idle"}
  BY <1>3, <1>4, IdleState
<1>6. /\ request'[r] = s /\ \A q \in Requests : q # r => request'[q] = request[q]
      /\ request' \in [Requests -> RequestStates]
  BY <1>1, <1>5, GotoEffect DEF IInv
<1>7. TypeOK'
  BY <1>1, <1>6 DEF IInv, TypeOK
<1>8. LinksInv'
  <2>1. NotItself'
    BY <1>1, <1>3, <1>4, <1>6, IdleState DEF IInv, LinksInv, NotItself, SourceOf
  <2>2. PreflightHolds'
    BY <1>1, <1>5, <1>6 DEF IInv, LinksInv, PreflightHolds
  <2>3. RequestsHaveAccess'
    <3> SUFFICES ASSUME NEW q \in Requests, request'[q].at \in {"source", "preflight", "link"},
                        ~request'[q].stale
                 PROVE  /\ HasAccess(request'[q].user, request'[q].target)
                        /\ request'[q].at # "source" => HasAccess(request'[q].user, SourceOf(request'[q]))
      BY <1>1 DEF RequestsHaveAccess, SourceOf, HasAccess
    <3>1. CASE q # r
      BY <1>6, <3>1 DEF IInv, LinksInv, RequestsHaveAccess
    <3>2. CASE q = r
      BY <1>1, <1>3, <1>4, <1>6, <3>2, IdleState
      DEF IInv, LinksInv, RequestsHaveAccess, HasAccess, SourceOf
    <3> QED
      BY <3>1, <3>2
  <2>4. CircleOnlyInRace'
    BY <1>1 DEF IInv, LinksInv, CircleOnlyInRace
  <2>5. CreatorsHaveAccess'
    BY <1>1, <1>6, CreatorsQuiet DEF IInv, LinksInv
  <2> QED
    BY <2>1, <2>2, <2>3, <2>4, <2>5 DEF LinksInv
<1>9. /\ ExpensesInv'
      /\ IsFiniteSet(DOMAIN expenses') /\ ExpenseOverrunBounded'
  BY <1>1, <1>5, <1>6, LinkStepFrame
<1>10. IsFiniteSet(links') /\ LinkOverrunBounded'
  BY <1>1, <1>5, <1>6, LinkLimitQuiet DEF IInv, LimitsInv, LimitsOverrunBounded
<1> QED
  BY <1>7, <1>8, <1>9, <1>10 DEF IInv, LimitsInv, LimitsOverrunBounded

\* The preflight (links.go:177-206): the request is counted against the limit from
\* here on, and has found no link in the opposite direction.
LEMMA PreflightKeeps ==
  ASSUME IInv, NEW r \in Requests, Preflight(r), UNCHANGED expenseVars
  PROVE  IInv'
<1> DEFINE old == request[r]
           new == [old EXCEPT !.at = "link"]
           ok == old.category \in categories /\ BelowLinkLimit(old.target)
                   /\ ~Reversed(SourceOf(old), old.target)
           s == IF ok THEN new ELSE Idle
<1>1. /\ old.at = "preflight"
      /\ UNCHANGED <<categories, members, links>> /\ Goto(r, s)
      /\ UNCHANGED <<expenses, meant, overtaken, imported, use>>
  BY DEF Preflight, linkVars, expenseVars
<1>2. old \in [at : {"source", "preflight", "link"}, user : Users, target : Budgets,
               category : Categories, stale : BOOLEAN, raced : BOOLEAN]
  BY <1>1, StateFields DEF IInv, TypeOK
<1>3. /\ new.at = "link" /\ new.user = old.user /\ new.target = old.target
      /\ new.category = old.category /\ new.stale = old.stale /\ new \in RequestStates
  BY <1>2 DEF RequestStates
<1>4. (s = new /\ ok) \/ s = Idle
  OBVIOUS
<1> HIDE DEF s, new
<1>5. s \in RequestStates /\ s.at \in {"link", "idle"}
  BY <1>3, <1>4, IdleState
<1>6. /\ request'[r] = s /\ \A q \in Requests : q # r => request'[q] = request[q]
      /\ request' \in [Requests -> RequestStates]
  BY <1>1, <1>5, GotoEffect DEF IInv
<1>7. TypeOK'
  BY <1>1, <1>6 DEF IInv, TypeOK
<1>8. LinksInv'
  <2>1. NotItself'
    BY <1>1, <1>3, <1>4, <1>6, IdleState DEF IInv, LinksInv, NotItself, SourceOf
  <2>2. PreflightHolds'
    <3> SUFFICES ASSUME NEW q \in Requests, request'[q].at = "link"
                 PROVE  request'[q].raced \/ \A l \in links :
                          l.target = SourceOf(request'[q]) => SourceOf(l) # request'[q].target
      BY <1>1 DEF PreflightHolds, SourceOf
    <3>1. CASE q # r
      BY <1>6, <3>1 DEF IInv, LinksInv, PreflightHolds
    <3>2. CASE q = r
      <4>1. ok /\ request'[q] = new
        BY <1>4, <1>6, <3>2, IdleState
      <4>2. \A l \in links : l.target = SourceOf(old) => SourceOf(l) # old.target
        BY <4>1 DEF Reversed, LinksInto
      <4> QED
        BY <1>3, <4>1, <4>2 DEF SourceOf
    <3> QED
      BY <3>1, <3>2
  <2>3. RequestsHaveAccess'
    <3> SUFFICES ASSUME NEW q \in Requests, request'[q].at \in {"source", "preflight", "link"},
                        ~request'[q].stale
                 PROVE  /\ HasAccess(request'[q].user, request'[q].target)
                        /\ request'[q].at # "source" => HasAccess(request'[q].user, SourceOf(request'[q]))
      BY <1>1 DEF RequestsHaveAccess, SourceOf, HasAccess
    <3>1. CASE q # r
      BY <1>6, <3>1 DEF IInv, LinksInv, RequestsHaveAccess
    <3>2. CASE q = r
      BY <1>1, <1>3, <1>4, <1>6, <3>2, IdleState
      DEF IInv, LinksInv, RequestsHaveAccess, HasAccess, SourceOf
    <3> QED
      BY <3>1, <3>2
  <2>4. CircleOnlyInRace'
    BY <1>1 DEF IInv, LinksInv, CircleOnlyInRace
  <2>5. CreatorsHaveAccess'
    BY <1>1, <1>6, CreatorsQuiet DEF IInv, LinksInv
  <2> QED
    BY <2>1, <2>2, <2>3, <2>4, <2>5 DEF LinksInv
<1>9. /\ ExpensesInv'
      /\ IsFiniteSet(DOMAIN expenses') /\ ExpenseOverrunBounded'
  BY <1>1, <1>5, <1>6, LinkStepFrame
<1>10. LinkOverrunBounded'
  <2> SUFFICES ASSUME NEW b \in Budgets
               PROVE  Cardinality(LinksInto(b)) + Cardinality(LinkingInto(b)')
                        <= MaxLinks - 1 + Cardinality(Requests)
    BY <1>1 DEF LinkOverrunBounded, LinkingInto, LinksInto
  <2>1. LinksInto(b) \in SUBSET links /\ LinkingInto(b) \in SUBSET Requests /\ LinkingInto(b)' \in SUBSET Requests
    BY DEF LinksInto, LinkingInto
  <2>2. /\ Cardinality(LinksInto(b)) \in Nat
        /\ Cardinality(LinkingInto(b)) \in Nat /\ Cardinality(LinkingInto(b)') \in Nat
        /\ Cardinality(LinkingInto(b)') <= Cardinality(Requests)
        /\ Cardinality(Requests) \in Nat
    BY <2>1, RequestsFinite, FS_Subset, FS_CardinalityType DEF IInv, LimitsInv
  <2>3. CASE ok /\ b = old.target
    <3>1. Cardinality(LinksInto(b)) < MaxLinks
      BY <2>3 DEF BelowLinkLimit
    <3> QED
      BY <2>2, <3>1, MaxLinksAssumption
  <2>4. CASE ~(ok /\ b = old.target)
    <3>1. \A q \in LinkingInto(b)' : q \in LinkingInto(b)
      BY <1>3, <1>4, <1>6, <2>4, IdleState DEF LinkingInto
    <3>2. LinkingInto(b)' \in SUBSET LinkingInto(b)
      BY <3>1
    <3>3. Cardinality(LinkingInto(b)') <= Cardinality(LinkingInto(b))
      BY <2>1, <3>2, RequestsFinite, FS_Subset
    <3>4. Cardinality(LinksInto(b)) + Cardinality(LinkingInto(b)) <= MaxLinks - 1 + Cardinality(Requests)
      BY DEF IInv, LimitsInv, LimitsOverrunBounded, LinkOverrunBounded, LinkingInto
    <3> QED
      BY <2>2, <3>3, <3>4, MaxLinksAssumption
  <2> QED
    BY <2>3, <2>4
<1> QED
  BY <1>1, <1>7, <1>8, <1>9, <1>10 DEF IInv, LimitsInv, LimitsOverrunBounded

\* The insertion: a link that the preflight has not allowed for is marked, as are
\* the requests that this one has raced.
LEMMA InsertLinkKeeps ==
  ASSUME IInv, NEW r \in Requests, InsertLink(r), UNCHANGED expenseVars
  PROVE  IInv'
<1> DEFINE old == request[r]
           b == old.target
           c == old.category
           ok == c \in categories /\ \A l \in LinksInto(b) : l.category # c
<1>1. /\ old.at = "link"
      /\ UNCHANGED <<categories, members>>
      /\ UNCHANGED <<expenses, meant, overtaken, imported, use>>
  BY DEF InsertLink, expenseVars
<1>2. old \in [at : {"source", "preflight", "link"}, user : Users, target : Budgets,
               category : Categories, stale : BOOLEAN, raced : BOOLEAN]
  BY <1>1, StateFields DEF IInv, TypeOK
<1>3. ASSUME ok PROVE IInv'
  <2> DEFINE new == [target |-> b, category |-> c, by |-> old.user,
                     stale |-> old.stale, raced |-> old.raced]
             Hit(q) == request[q].at = "link" /\ request[q].target = BudgetOf[c]
                         /\ SourceOf(request[q]) = b
  <2>1. /\ links' = links \cup {new}
        /\ request' = [q \in Requests |->
                         IF q = r THEN Idle
                         ELSE IF Hit(q) THEN [request[q] EXCEPT !.raced = TRUE]
                         ELSE request[q]]
    BY <1>3 DEF InsertLink
  <2>2. /\ new.target = b /\ new.category = c /\ new.by = old.user
        /\ new.stale = old.stale /\ new.raced = old.raced
        /\ new \in [target : Budgets, category : Categories, by : Users,
                    stale : BOOLEAN, raced : BOOLEAN]
    BY <1>2
  <2>3. request'[r] = Idle
    BY <2>1
  <2>4. ASSUME NEW q \in Requests, q # r
        PROVE  /\ ~Hit(q) => request'[q] = request[q]
               /\ request'[q].at = request[q].at
               /\ request'[q] \in RequestStates
               /\ request[q].at \in {"source", "preflight", "link"} =>
                    /\ request'[q].user = request[q].user /\ request'[q].target = request[q].target
                    /\ request'[q].category = request[q].category
                    /\ request'[q].stale = request[q].stale
               /\ Hit(q) => request'[q].raced = TRUE
    <3>1. CASE Hit(q)
      <4>1. request[q] \in [at : {"source", "preflight", "link"}, user : Users, target : Budgets,
                            category : Categories, stale : BOOLEAN, raced : BOOLEAN]
        BY <3>1, StateFields DEF IInv, TypeOK
      <4>2. request'[q] = [request[q] EXCEPT !.raced = TRUE]
        BY <2>1, <2>4, <3>1
      <4> QED
        BY <3>1, <4>1, <4>2 DEF RequestStates
    <3>2. CASE ~Hit(q)
      BY <2>1, <2>4, <3>2 DEF IInv, TypeOK
    <3> QED
      BY <3>1, <3>2
  <2>5. \A q \in Requests : Hit(q) <=>
          request[q].at = "link" /\ request[q].target = SourceOf(new) /\ SourceOf(request[q]) = new.target
    BY <2>2 DEF SourceOf
  <2>6. request' \in [Requests -> RequestStates]
    BY <2>1, <2>3, <2>4, IdleState
  <2> HIDE DEF new, Hit
  <2>7. TypeOK'
    BY <1>1, <2>1, <2>2, <2>6 DEF IInv, TypeOK
  <2>8. NotItself'
    <3>1. new.target # SourceOf(new)
      BY <1>1, <2>2 DEF IInv, LinksInv, NotItself, SourceOf
    <3>2. \A q \in Requests : request'[q].at \in {"source", "preflight", "link"} =>
            request'[q].target # SourceOf(request'[q])
      BY <2>3, <2>4, IdleState, ZenonT(60) DEF IInv, LinksInv, NotItself, SourceOf
    <3> QED
      BY <2>1, <3>1, <3>2 DEF IInv, LinksInv, NotItself
  <2>9. PreflightHolds'
    <3> SUFFICES ASSUME NEW q \in Requests, request'[q].at = "link", ~request'[q].raced,
                        NEW l \in links', l.target = SourceOf(request'[q])
                 PROVE  SourceOf(l) # request'[q].target
      BY DEF PreflightHolds
    <3>1. q # r /\ request[q].at = "link" /\ ~Hit(q) /\ request'[q] = request[q]
      BY <2>3, <2>4, IdleState
    <3>2. CASE l \in links
      BY <3>1, <3>2 DEF IInv, LinksInv, PreflightHolds
    <3>3. CASE l = new
      BY <2>5, <3>1, <3>3
    <3> QED
      BY <2>1, <3>2, <3>3
  <2>10. RequestsHaveAccess'
    <3> SUFFICES ASSUME NEW q \in Requests, request'[q].at \in {"source", "preflight", "link"},
                        ~request'[q].stale
                 PROVE  /\ HasAccess(request'[q].user, request'[q].target)
                        /\ request'[q].at # "source" => HasAccess(request'[q].user, SourceOf(request'[q]))
      BY <1>1 DEF RequestsHaveAccess, SourceOf, HasAccess
    <3>1. q # r /\ request[q].at = request'[q].at
      BY <2>3, <2>4, IdleState
    <3>2. /\ request'[q].user = request[q].user /\ request'[q].target = request[q].target
          /\ request'[q].category = request[q].category /\ request'[q].stale = request[q].stale
      BY <2>4, <3>1
    <3> QED
      BY <3>1, <3>2 DEF IInv, LinksInv, RequestsHaveAccess, SourceOf
  <2>11. CircleOnlyInRace'
    <3>1. \A l \in links : l.target = SourceOf(new) /\ new.target = SourceOf(l) => new.raced
      BY <1>1, <2>2 DEF IInv, LinksInv, PreflightHolds, SourceOf
    <3>2. new.target # SourceOf(new)
      BY <1>1, <2>2 DEF IInv, LinksInv, NotItself, SourceOf
    <3> QED
      BY <2>1, <3>1, <3>2 DEF IInv, LinksInv, CircleOnlyInRace
  <2>12. CreatorsHaveAccess'
    <3> SUFFICES ASSUME NEW l \in links', NEW d \in {l.target, SourceOf(l)}
                 PROVE  \/ HasAccess(l.by, d)
                        \/ l.stale
                        \/ \E q \in Requests : request'[q] = [at |-> "cleanup", user |-> l.by, budget |-> d]
      BY <1>1 DEF CreatorsHaveAccess, HasAccess
    <3>1. CASE l = new
      BY <1>1, <2>2, <3>1 DEF IInv, LinksInv, RequestsHaveAccess, SourceOf
    <3>2. CASE l \in links
      <4>1. \/ HasAccess(l.by, d)
            \/ l.stale
            \/ \E q \in Requests : request[q] = [at |-> "cleanup", user |-> l.by, budget |-> d]
        BY <3>2 DEF IInv, LinksInv, CreatorsHaveAccess
      <4>2. ASSUME NEW q \in Requests, request[q] = [at |-> "cleanup", user |-> l.by, budget |-> d]
            PROVE  request'[q] = request[q]
        <5>1. request[q].at = "cleanup"
          BY <4>2
        <5> QED
          BY <1>1, <2>4, <5>1 DEF Hit
      <4> QED
        BY <4>1, <4>2
    <3> QED
      BY <2>1, <3>1, <3>2
  <2>13. ExpensesInv' /\ IsFiniteSet(DOMAIN expenses') /\ ExpenseOverrunBounded'
    <3>1. \A q \in Requests : request'[q].at \in {"create", "update"} => request'[q] = request[q]
      BY <2>3, <2>4, IdleState DEF Hit
    <3>2. overtaken' = overtaken \cap DOMAIN expenses'
      BY <1>1 DEF IInv, TypeOK
    <3>3. ExpensesInv'
      BY <1>1, <3>1, <3>2, ExpensesQuiet DEF IInv
    <3>4. \A q \in Requests : request'[q].at = "create" => request[q].at = "create"
      BY <3>1
    <3> QED
      BY <1>1, <3>3, <3>4, ExpenseLimitQuiet DEF IInv, LimitsInv, LimitsOverrunBounded
  <2>14. IsFiniteSet(links') /\ LinkOverrunBounded'
    <3>1. IsFiniteSet(links')
      BY <2>1, FS_AddElement DEF IInv, LimitsInv
    <3>2. SUFFICES ASSUME NEW d \in Budgets
                   PROVE  Cardinality(LinksInto(d)') + Cardinality(LinkingInto(d)')
                            <= MaxLinks - 1 + Cardinality(Requests)
      BY <3>1 DEF LinkOverrunBounded, LinkingInto, LinksInto
    <3>3. Cardinality(LinksInto(d)) + Cardinality(LinkingInto(d)) <= MaxLinks - 1 + Cardinality(Requests)
      BY DEF IInv, LimitsInv, LimitsOverrunBounded, LinkOverrunBounded, LinkingInto
    <3>4. LinksInto(d) \in SUBSET links /\ LinkingInto(d) \in SUBSET Requests
      BY DEF LinksInto, LinkingInto
    <3>5. /\ IsFiniteSet(LinksInto(d)) /\ IsFiniteSet(LinkingInto(d))
          /\ Cardinality(LinksInto(d)) \in Nat /\ Cardinality(LinkingInto(d)) \in Nat
          /\ Cardinality(Requests) \in Nat
      BY <3>4, RequestsFinite, FS_Subset, FS_CardinalityType DEF IInv, LimitsInv
    <3>6. CASE d = b
      <4>1. LinksInto(d)' = LinksInto(d) \cup {new}
        BY <2>1, <2>2, <3>6 DEF LinksInto
      <4>2. Cardinality(LinksInto(d)') <= Cardinality(LinksInto(d)) + 1 /\ Cardinality(LinksInto(d)') \in Nat
        BY <3>5, <4>1, AddOne
      <4>3. r \in LinkingInto(d) /\ LinkingInto(d)' = LinkingInto(d) \ {r}
        <5>1. r \in LinkingInto(d) /\ r \notin LinkingInto(d)'
          BY <1>1, <2>3, <3>6, IdleState DEF LinkingInto
        <5>2. \A q \in Requests : q # r => (q \in LinkingInto(d)' <=> q \in LinkingInto(d))
          BY <2>4 DEF LinkingInto
        <5>3. LinkingInto(d)' \subseteq Requests
          BY DEF LinkingInto
        <5> QED
          BY <3>4, <5>1, <5>2, <5>3
      <4>4. Cardinality(LinkingInto(d)') = Cardinality(LinkingInto(d)) - 1
        BY <3>5, <4>3, FS_RemoveElement
      <4> QED
        BY <3>3, <3>5, <4>2, <4>4, MaxLinksAssumption
    <3>7. CASE d # b
      <4>1. LinksInto(d)' = LinksInto(d)
        BY <2>1, <2>2, <3>7 DEF LinksInto
      <4>2. LinkingInto(d)' = LinkingInto(d)
        BY <1>1, <2>3, <2>4, <3>7, IdleState, ZenonT(60) DEF LinkingInto
      <4> QED
        BY <3>3, <4>1, <4>2
    <3> QED
      BY <3>6, <3>7
  <2> QED
    BY <2>7, <2>8, <2>9, <2>10, <2>11, <2>12, <2>13, <2>14
    DEF IInv, LinksInv, LimitsInv, LimitsOverrunBounded
<1>4. ASSUME ~ok PROVE IInv'
  <2>1. Goto(r, Idle) /\ links' = links
    BY <1>4 DEF InsertLink
  <2>2. /\ request'[r] = Idle /\ \A q \in Requests : q # r => request'[q] = request[q]
        /\ request' \in [Requests -> RequestStates]
    BY <2>1, GotoEffect, IdleState DEF IInv
  <2>3. TypeOK'
    BY <1>1, <2>1, <2>2 DEF IInv, TypeOK
  <2>4. LinksInv'
    BY <1>1, <2>1, <2>2, LinksQuiet, IdleState DEF IInv
  <2>5. ExpensesInv' /\ IsFiniteSet(DOMAIN expenses') /\ ExpenseOverrunBounded'
    BY <1>1, <2>2, LinkStepFrame, IdleState
  <2>6. IsFiniteSet(links') /\ LinkOverrunBounded'
    BY <2>1, <2>2, LinkLimitQuiet, IdleState DEF IInv, LimitsInv, LimitsOverrunBounded
  <2> QED
    BY <2>3, <2>4, <2>5, <2>6 DEF IInv, LimitsInv, LimitsOverrunBounded
<1> QED
  BY <1>3, <1>4

\* A request that gives up.
LEMMA FailsKeeps ==
  ASSUME IInv, NEW r \in Requests, Fails(r), UNCHANGED expenseVars
  PROVE  IInv'
<1>1. /\ request[r].at # "cleanup" /\ Goto(r, Idle)
      /\ UNCHANGED <<categories, members, links>> /\ UNCHANGED <<expenses, meant, overtaken, imported, use>>
  BY DEF Fails, linkVars, expenseVars
<1>2. /\ request'[r] = Idle /\ \A q \in Requests : q # r => request'[q] = request[q]
      /\ request' \in [Requests -> RequestStates]
  BY <1>1, GotoEffect, IdleState DEF IInv
<1>3. TypeOK'
  BY <1>1, <1>2 DEF IInv, TypeOK
<1>4. LinksInv'
  BY <1>1, <1>2, LinksQuiet, IdleState DEF IInv
<1>5. ExpensesInv' /\ IsFiniteSet(DOMAIN expenses') /\ ExpenseOverrunBounded'
  BY <1>1, <1>2, LinkStepFrame, IdleState
<1>6. IsFiniteSet(links') /\ LinkOverrunBounded'
  BY <1>1, <1>2, LinkLimitQuiet, IdleState DEF IInv, LimitsInv, LimitsOverrunBounded
<1> QED
  BY <1>3, <1>4, <1>5, <1>6 DEF IInv, LimitsInv, LimitsOverrunBounded

----------------------------------------------------------------------------
(* DeleteLink and the members *)

\* DeleteLink: a link that goes breaks nothing.
LEMMA DeleteLinkKeeps ==
  ASSUME IInv, NEW u, NEW l, DeleteLink(u, l), UNCHANGED expenseVars
  PROVE  IInv'
<1>1. /\ links' \subseteq links /\ UNCHANGED <<categories, members, request>>
      /\ UNCHANGED <<expenses, meant, overtaken, imported, use>>
  BY DEF DeleteLink, expenseVars
<1>2. TypeOK'
  BY <1>1 DEF IInv, TypeOK
<1>3. LinksInv'
  BY <1>1, LinksQuiet DEF IInv
<1>4. overtaken' = overtaken \cap DOMAIN expenses'
  BY <1>1 DEF IInv, TypeOK
<1>5. ExpensesInv' /\ IsFiniteSet(DOMAIN expenses') /\ ExpenseOverrunBounded'
  BY <1>1, <1>4, ExpensesQuiet, ExpenseLimitQuiet DEF IInv, LimitsInv, LimitsOverrunBounded
<1>6. IsFiniteSet(links') /\ LinkOverrunBounded'
  BY <1>1, LinkLimitQuiet DEF IInv, LimitsInv, LimitsOverrunBounded
<1> QED
  BY <1>2, <1>3, <1>5, <1>6 DEF IInv, LimitsInv, LimitsOverrunBounded

\* A member who joins breaks nothing: access only grows.
LEMMA JoinKeeps ==
  ASSUME IInv, NEW u \in Users, NEW b \in Budgets, Join(u, b), UNCHANGED expenseVars
  PROVE  IInv'
<1>1. /\ members' = members \cup {<<u, b>>} /\ UNCHANGED <<categories, links, request>>
      /\ UNCHANGED <<expenses, meant, overtaken, imported, use>>
  BY DEF Join, expenseVars
<1>2. TypeOK'
  BY <1>1 DEF IInv, TypeOK
<1>3. LinksInv'
  <2>1. NotItself' /\ PreflightHolds' /\ CircleOnlyInRace'
    BY <1>1 DEF IInv, LinksInv, NotItself, PreflightHolds, CircleOnlyInRace
  <2>2. RequestsHaveAccess'
    BY <1>1 DEF IInv, LinksInv, RequestsHaveAccess, HasAccess
  <2>3. CreatorsHaveAccess'
    BY <1>1, CreatorsQuiet DEF IInv, LinksInv
  <2> QED
    BY <2>1, <2>2, <2>3 DEF LinksInv
<1>4. overtaken' = overtaken \cap DOMAIN expenses'
  BY <1>1 DEF IInv, TypeOK
<1>5. ExpensesInv' /\ IsFiniteSet(DOMAIN expenses') /\ ExpenseOverrunBounded'
  BY <1>1, <1>4, ExpensesQuiet, ExpenseLimitQuiet DEF IInv, LimitsInv, LimitsOverrunBounded
<1>6. IsFiniteSet(links') /\ LinkOverrunBounded'
  BY <1>1, LinkLimitQuiet DEF IInv, LimitsInv, LimitsOverrunBounded
<1> QED
  BY <1>2, <1>3, <1>5, <1>6 DEF IInv, LimitsInv, LimitsOverrunBounded

\* A removal marks the requests that rest on the membership, and its own request
\* stands for the member's links until they are cleaned up.
LEMMA RemoveCollaboratorKeeps ==
  ASSUME IInv, NEW r \in Requests, NEW u \in Users, NEW b \in Budgets,
         RemoveCollaborator(r, u, b), UNCHANGED expenseVars
  PROVE  IInv'
<1> DEFINE s == [at |-> "cleanup", user |-> u, budget |-> b]
<1>1. /\ request[r] = Idle /\ members' = members \ {<<u, b>>}
      /\ request' = [q \in Requests |->
                       IF q = r THEN s
                       ELSE IF Concerns(q, u, b) THEN [request[q] EXCEPT !.stale = TRUE]
                       ELSE request[q]]
      /\ UNCHANGED <<categories, links>> /\ UNCHANGED <<expenses, meant, overtaken, imported, use>>
  BY DEF RemoveCollaborator, expenseVars
<1>2. request'[r] = s /\ s.at = "cleanup" /\ s \in RequestStates
  BY <1>1 DEF RequestStates
<1>3. ASSUME NEW q \in Requests, q # r
      PROVE  /\ ~Concerns(q, u, b) => request'[q] = request[q]
             /\ request'[q].at = request[q].at
             /\ request'[q] \in RequestStates
             /\ request[q].at \in {"source", "preflight", "link"} =>
                  /\ request'[q].user = request[q].user /\ request'[q].target = request[q].target
                  /\ request'[q].category = request[q].category
                  /\ request'[q].raced = request[q].raced
             /\ Concerns(q, u, b) => request'[q].stale = TRUE
  <2>1. CASE Concerns(q, u, b)
    <3>1. request[q].at \in {"source", "preflight", "link"}
      BY <2>1 DEF Concerns
    <3>2. request[q] \in [at : {"source", "preflight", "link"}, user : Users, target : Budgets,
                          category : Categories, stale : BOOLEAN, raced : BOOLEAN]
      BY <3>1, StateFields DEF IInv, TypeOK
    <3>3. request'[q] = [request[q] EXCEPT !.stale = TRUE]
      BY <1>1, <1>3, <2>1
    <3> QED
      BY <2>1, <3>2, <3>3 DEF RequestStates
  <2>2. CASE ~Concerns(q, u, b)
    BY <1>1, <1>3, <2>2 DEF IInv, TypeOK
  <2> QED
    BY <2>1, <2>2
<1>4. request' \in [Requests -> RequestStates]
  BY <1>1, <1>2, <1>3
<1> HIDE DEF s
<1>5. TypeOK'
  BY <1>1, <1>4 DEF IInv, TypeOK
<1>6. NotItself'
  BY <1>1, <1>2, <1>3 DEF IInv, LinksInv, NotItself, SourceOf
<1>7. PreflightHolds'
  BY <1>1, <1>2, <1>3 DEF IInv, LinksInv, PreflightHolds, SourceOf
<1>8. CircleOnlyInRace'
  BY <1>1 DEF IInv, LinksInv, CircleOnlyInRace
<1>9. \A v, d : HasAccess(v, d) /\ ~(v = u /\ d = b) => HasAccess(v, d)'
  BY <1>1 DEF HasAccess
<1>10. RequestsHaveAccess'
  <2> SUFFICES ASSUME NEW q \in Requests, NEW t, t = request'[q],
                      t.at \in {"source", "preflight", "link"}, ~t.stale
               PROVE  /\ HasAccess(t.user, t.target)'
                      /\ t.at # "source" => HasAccess(t.user, SourceOf(t))'
    BY DEF RequestsHaveAccess, HasAccess, SourceOf
  <2>1. q # r /\ ~Concerns(q, u, b) /\ t = request[q]
    BY <1>2, <1>3
  <2>2. /\ HasAccess(t.user, t.target)
        /\ t.at # "source" => HasAccess(t.user, SourceOf(t))
    BY <2>1 DEF IInv, LinksInv, RequestsHaveAccess
  <2>3. ~(t.user = u /\ t.target = b) /\ ~(t.user = u /\ SourceOf(t) = b)
    BY <2>1 DEF Concerns
  <2> QED
    BY <1>9, <2>2, <2>3
<1>11. CreatorsHaveAccess'
  <2> SUFFICES ASSUME NEW l \in links, NEW d \in {l.target, SourceOf(l)}
               PROVE  \/ HasAccess(l.by, d)'
                      \/ l.stale
                      \/ \E q \in Requests : request'[q] = [at |-> "cleanup", user |-> l.by, budget |-> d]
    BY <1>1 DEF CreatorsHaveAccess
  <2>1. \/ HasAccess(l.by, d)
        \/ l.stale
        \/ \E q \in Requests : request[q] = [at |-> "cleanup", user |-> l.by, budget |-> d]
    BY DEF IInv, LinksInv, CreatorsHaveAccess
  <2>2. CASE l.by = u /\ d = b
    BY <1>2, <2>2 DEF s
  <2>3. ASSUME NEW q \in Requests, request[q] = [at |-> "cleanup", user |-> l.by, budget |-> d]
        PROVE  request'[q] = request[q]
    <3>1. request[q].at = "cleanup"
      BY <2>3
    <3> QED
      BY <1>1, <1>3, <3>1, IdleState DEF Concerns
  <2> QED
    BY <1>9, <2>1, <2>2, <2>3
<1>12. overtaken' = overtaken \cap DOMAIN expenses'
  BY <1>1 DEF IInv, TypeOK
<1>13. \A q \in Requests : request'[q].at \in {"create", "update"} => request'[q] = request[q]
  BY <1>2, <1>3 DEF Concerns
<1>14. ExpensesInv' /\ IsFiniteSet(DOMAIN expenses') /\ ExpenseOverrunBounded'
  BY <1>1, <1>12, <1>13, ExpensesQuiet, ExpenseLimitQuiet DEF IInv, LimitsInv, LimitsOverrunBounded
<1>15. IsFiniteSet(links') /\ LinkOverrunBounded'
  <2>1. \A q \in Requests : request'[q].at = "link" =>
          request[q].at = "link" /\ request'[q].target = request[q].target
    BY <1>2, <1>3
  <2> QED
    BY <1>1, <2>1, LinkLimitQuiet DEF IInv, LimitsInv, LimitsOverrunBounded
<1> QED
  BY <1>5, <1>6, <1>7, <1>8, <1>10, <1>11, <1>14, <1>15
  DEF IInv, LinksInv, LimitsInv, LimitsOverrunBounded

\* The end of a clean-up: what concerns requests only.
LEMMA CleanUpFrame ==
  ASSUME IInv, NEW r \in Requests, request[r].at = "cleanup", Goto(r, Idle),
         UNCHANGED <<categories, members>>, UNCHANGED expenseVars
  PROVE  /\ request'[r] = Idle /\ \A q \in Requests : q # r => request'[q] = request[q]
         /\ request' \in [Requests -> RequestStates]
         /\ RequestsHaveAccess' /\ ExpensesInv'
         /\ IsFiniteSet(DOMAIN expenses') /\ ExpenseOverrunBounded'
<1>1. /\ request'[r] = Idle /\ \A q \in Requests : q # r => request'[q] = request[q]
      /\ request' \in [Requests -> RequestStates]
  BY GotoEffect, IdleState DEF IInv
<1>2. RequestsHaveAccess'
  BY <1>1, IdleState DEF IInv, LinksInv, RequestsHaveAccess, HasAccess
<1>3. UNCHANGED <<expenses, meant, overtaken, imported>> /\ overtaken' = overtaken \cap DOMAIN expenses'
  BY DEF IInv, TypeOK, expenseVars
<1>4. ExpensesInv' /\ IsFiniteSet(DOMAIN expenses') /\ ExpenseOverrunBounded'
  BY <1>1, <1>3, IdleState, ExpensesQuiet, ExpenseLimitQuiet DEF IInv, LimitsInv, LimitsOverrunBounded
<1> QED
  BY <1>1, <1>2, <1>4

\* The clean-up (collaborators.go:198): it stands for no link any more when it ends.
LEMMA CleanUpKeeps ==
  ASSUME IInv, NEW r \in Requests, CleanUp(r), UNCHANGED expenseVars
  PROVE  IInv'
<1> DEFINE u == request[r].user
           b == request[r].budget
<1>1. /\ request[r].at = "cleanup" /\ links' = links \ CreatedBy(u, b) /\ Goto(r, Idle)
      /\ UNCHANGED <<categories, members>>
  BY DEF CleanUp
<1>2. /\ request'[r] = Idle /\ \A q \in Requests : q # r => request'[q] = request[q]
      /\ request' \in [Requests -> RequestStates]
      /\ RequestsHaveAccess' /\ ExpensesInv'
      /\ IsFiniteSet(DOMAIN expenses') /\ ExpenseOverrunBounded'
  BY <1>1, CleanUpFrame
<1>3. TypeOK'
  BY <1>1, <1>2 DEF IInv, TypeOK, expenseVars
<1>4. NotItself' /\ PreflightHolds' /\ CircleOnlyInRace'
  <2>1. NotItself'
    BY <1>1, <1>2, IdleState DEF IInv, LinksInv, NotItself
  <2>2. PreflightHolds'
    BY <1>1, <1>2, IdleState DEF IInv, LinksInv, PreflightHolds
  <2>3. CircleOnlyInRace'
    BY <1>1 DEF IInv, LinksInv, CircleOnlyInRace
  <2> QED
    BY <2>1, <2>2, <2>3
<1>5. CreatorsHaveAccess'
  <2> SUFFICES ASSUME NEW l \in links', NEW d \in {l.target, SourceOf(l)}
               PROVE  \/ HasAccess(l.by, d)
                      \/ l.stale
                      \/ \E q \in Requests : request'[q] = [at |-> "cleanup", user |-> l.by, budget |-> d]
    BY <1>1 DEF CreatorsHaveAccess, HasAccess
  <2>1. \/ HasAccess(l.by, d)
        \/ l.stale
        \/ \E q \in Requests : request[q] = [at |-> "cleanup", user |-> l.by, budget |-> d]
    BY <1>1 DEF IInv, LinksInv, CreatorsHaveAccess
  <2>2. request[r] # [at |-> "cleanup", user |-> l.by, budget |-> d]
    <3> SUFFICES ASSUME request[r] = [at |-> "cleanup", user |-> l.by, budget |-> d] PROVE FALSE
      OBVIOUS
    <3>1. u = l.by /\ b = d
      OBVIOUS
    <3> QED
      BY <1>1, <3>1 DEF CreatedBy
  <2> QED
    BY <1>2, <2>1, <2>2
<1>6. IsFiniteSet(links') /\ LinkOverrunBounded'
  BY <1>1, <1>2, LinkLimitQuiet, IdleState DEF IInv, LimitsInv, LimitsOverrunBounded
<1> QED
  BY <1>2, <1>3, <1>4, <1>5, <1>6 DEF IInv, LinksInv, LimitsInv, LimitsOverrunBounded

\* A clean-up that fails leaves the links, marked.
LEMMA CleanUpFailsKeeps ==
  ASSUME IInv, NEW r \in Requests, CleanUpFails(r), UNCHANGED expenseVars
  PROVE  IInv'
<1> DEFINE u == request[r].user
           b == request[r].budget
           left == CreatedBy(u, b)
           mark(l) == [l EXCEPT !.stale = TRUE]
           move == [l \in links |-> IF l \in left THEN mark(l) ELSE l]
           LinkRows == [target : Budgets, category : Categories, by : Users,
                        stale : BOOLEAN, raced : BOOLEAN]
<1>1. /\ request[r].at = "cleanup" /\ links' = (links \ left) \cup {mark(l) : l \in left}
      /\ Goto(r, Idle) /\ UNCHANGED <<categories, members>>
  BY DEF CleanUpFails
<1>2. /\ request'[r] = Idle /\ \A q \in Requests : q # r => request'[q] = request[q]
      /\ request' \in [Requests -> RequestStates]
      /\ RequestsHaveAccess' /\ ExpensesInv'
      /\ IsFiniteSet(DOMAIN expenses') /\ ExpenseOverrunBounded'
  BY <1>1, CleanUpFrame
<1>3. left \subseteq links
  BY DEF CreatedBy
<1>4. ASSUME NEW k \in links'
      PROVE  \E l \in links :
               /\ k = move[l] /\ k \in LinkRows
               /\ k.target = l.target /\ SourceOf(k) = SourceOf(l) /\ k.by = l.by /\ k.raced = l.raced
               /\ l.stale => k.stale
               /\ l \in left => k.stale = TRUE
  <2>1. CASE k \in links \ left
    <3>1. k = move[k] /\ k \in LinkRows
      BY <2>1 DEF IInv, TypeOK
    <3> QED
      BY <2>1, <3>1
  <2>2. CASE k \in {mark(l) : l \in left}
    <3>1. PICK l \in left : k = mark(l)
      BY <2>2
    <3>2. l \in links /\ l \in LinkRows
      BY <1>3 DEF IInv, TypeOK
    <3>3. /\ k \in LinkRows /\ k.target = l.target /\ k.category = l.category /\ k.by = l.by
          /\ k.raced = l.raced /\ k.stale = TRUE
      BY <3>1, <3>2
    <3>4. k = move[l]
      BY <3>1, <3>2
    <3> QED
      BY <3>2, <3>3, <3>4 DEF SourceOf
  <2> QED
    BY <1>1, <2>1, <2>2
<1> HIDE DEF move, left
<1>11. \A k \in links' : \E l \in links :
         k.target = l.target /\ SourceOf(k) = SourceOf(l) /\ k.raced = l.raced
  <2> SUFFICES ASSUME NEW k \in links'
               PROVE  \E l \in links :
                        k.target = l.target /\ SourceOf(k) = SourceOf(l) /\ k.raced = l.raced
    OBVIOUS
  <2>1. PICK l \in links :
          /\ k = move[l] /\ k \in LinkRows
          /\ k.target = l.target /\ SourceOf(k) = SourceOf(l) /\ k.by = l.by /\ k.raced = l.raced
          /\ l.stale => k.stale
          /\ l \in left => k.stale = TRUE
    BY <1>4
  <2> QED
    BY <2>1
<1>5. TypeOK'
  <2>1. links' \subseteq LinkRows
    BY <1>4
  <2> QED
    BY <1>1, <1>2, <2>1 DEF IInv, TypeOK, expenseVars
<1> HIDE DEF LinkRows
<1>6. NotItself'
  <2>1. ASSUME NEW k \in links' PROVE k.target # SourceOf(k)
    <3>1. PICK l \in links : k.target = l.target /\ SourceOf(k) = SourceOf(l)
      BY <1>11
    <3> QED
      BY <3>1 DEF IInv, LinksInv, NotItself
  <2>2. \A q \in Requests : request'[q].at \in {"source", "preflight", "link"} =>
          request'[q].target # SourceOf(request'[q])
    BY <1>2, IdleState DEF IInv, LinksInv, NotItself
  <2> QED
    BY <2>1, <2>2 DEF NotItself
<1>7. PreflightHolds'
  <2> SUFFICES ASSUME NEW q \in Requests, request'[q].at = "link", ~request'[q].raced,
                      NEW k \in links', k.target = SourceOf(request'[q])
               PROVE  SourceOf(k) # request'[q].target
    BY DEF PreflightHolds
  <2>1. PICK l \in links : k.target = l.target /\ SourceOf(k) = SourceOf(l)
    BY <1>11
  <2>2. request'[q] = request[q]
    BY <1>2, IdleState
  <2> QED
    BY <2>1, <2>2 DEF IInv, LinksInv, PreflightHolds
<1>8. CircleOnlyInRace'
  <2> SUFFICES ASSUME NEW k \in links', NEW m \in links', k.target = SourceOf(m), m.target = SourceOf(k)
               PROVE  k.raced \/ m.raced
    BY DEF CircleOnlyInRace
  <2>1. PICK i \in links : k.target = i.target /\ SourceOf(k) = SourceOf(i) /\ k.raced = i.raced
    BY <1>11
  <2>2. PICK j \in links : m.target = j.target /\ SourceOf(m) = SourceOf(j) /\ m.raced = j.raced
    BY <1>11
  <2> QED
    BY <2>1, <2>2 DEF IInv, LinksInv, CircleOnlyInRace
<1>9. CreatorsHaveAccess'
  <2> SUFFICES ASSUME NEW k \in links', NEW d \in {k.target, SourceOf(k)}
               PROVE  \/ HasAccess(k.by, d)
                      \/ k.stale
                      \/ \E q \in Requests : request'[q] = [at |-> "cleanup", user |-> k.by, budget |-> d]
    BY <1>1 DEF CreatorsHaveAccess, HasAccess
  <2>0. PICK l \in links :
          /\ k.target = l.target /\ SourceOf(k) = SourceOf(l) /\ k.by = l.by
          /\ l.stale => k.stale
          /\ l \in left => k.stale = TRUE
    BY <1>4
  <2>1. \/ HasAccess(k.by, d)
        \/ l.stale
        \/ \E q \in Requests : request[q] = [at |-> "cleanup", user |-> k.by, budget |-> d]
    BY <2>0 DEF IInv, LinksInv, CreatorsHaveAccess
  <2>2. request[r] = [at |-> "cleanup", user |-> k.by, budget |-> d] => l \in left
    <3> SUFFICES ASSUME request[r] = [at |-> "cleanup", user |-> k.by, budget |-> d] PROVE l \in left
      OBVIOUS
    <3>1. u = k.by /\ b = d
      OBVIOUS
    <3> QED
      BY <2>0, <3>1 DEF CreatedBy, left
  <2> QED
    BY <1>2, <2>0, <2>1, <2>2
<1>10. IsFiniteSet(links') /\ LinkOverrunBounded'
  <2> DEFINE Into(d) == {move[l] : l \in LinksInto(d)}
  <2>1. ASSUME NEW d \in Budgets PROVE LinksInto(d)' \in SUBSET Into(d)
    <3> SUFFICES ASSUME NEW k \in links', k.target = d PROVE k \in Into(d)
      BY DEF LinksInto
    <3>1. PICK l \in links : k = move[l] /\ k.target = l.target
      BY <1>4
    <3>2. l \in LinksInto(d)
      BY <3>1 DEF LinksInto
    <3> QED
      BY <3>1, <3>2
  <2>2. links' \in SUBSET {move[l] : l \in links}
    BY <1>4
  <2>3. IsFiniteSet({move[l] : l \in links})
    BY ImageFits DEF IInv, LimitsInv
  <2>4. IsFiniteSet(links')
    BY <2>2, <2>3, FS_Subset
  <2>5. SUFFICES ASSUME NEW d \in Budgets
                 PROVE  Cardinality(LinksInto(d)') + Cardinality(LinkingInto(d)')
                          <= MaxLinks - 1 + Cardinality(Requests)
    BY <2>4 DEF LinkOverrunBounded, LinkingInto, LinksInto
  <2>6. Cardinality(LinksInto(d)) + Cardinality(LinkingInto(d)) <= MaxLinks - 1 + Cardinality(Requests)
    BY DEF IInv, LimitsInv, LimitsOverrunBounded, LinkOverrunBounded, LinkingInto
  <2>7. IsFiniteSet(LinksInto(d)) /\ Cardinality(LinksInto(d)) \in Nat
    <3>1. LinksInto(d) \in SUBSET links
      BY DEF LinksInto
    <3> QED
      BY <3>1, FS_Subset, FS_CardinalityType DEF IInv, LimitsInv
  <2>8. /\ IsFiniteSet(Into(d)) /\ Cardinality(Into(d)) \in Nat
        /\ Cardinality(Into(d)) <= Cardinality(LinksInto(d))
    BY <2>7, ImageFits, FS_CardinalityType
  <2> HIDE DEF Into
  <2>9. Cardinality(LinksInto(d)') \in Nat /\ Cardinality(LinksInto(d)') <= Cardinality(Into(d))
    BY <2>1, <2>8, FS_Subset, FS_CardinalityType
  <2>10. LinkingInto(d)' = LinkingInto(d)
    BY <1>1, <1>2, IdleState DEF LinkingInto
  <2>11. LinkingInto(d) \in SUBSET Requests
    BY DEF LinkingInto
  <2>12. Cardinality(LinkingInto(d)) \in Nat /\ Cardinality(Requests) \in Nat
    BY <2>11, RequestsFinite
  <2> QED
    BY <2>6, <2>7, <2>8, <2>9, <2>10, <2>12, MaxLinksAssumption
<1> QED
  BY <1>2, <1>5, <1>6, <1>7, <1>8, <1>9, <1>10 DEF IInv, LinksInv, LimitsInv, LimitsOverrunBounded

----------------------------------------------------------------------------
(* Expenses *)

\* A step of the expenses leaves the links alone.
LEMMA ExpenseStepFrame ==
  ASSUME IInv, UNCHANGED linkVars,
         \A q \in Requests :
           \/ request'[q] = request[q]
           \/ /\ request[q].at \in {"idle", "create", "update"}
              /\ request'[q].at \in {"idle", "create", "update"}
  PROVE  LinksInv' /\ IsFiniteSet(links') /\ LinkOverrunBounded'
<1>1. UNCHANGED <<categories, members, links>>
  BY DEF linkVars
<1>2. LinksInv'
  BY <1>1, LinksQuiet DEF IInv
<1>3. IsFiniteSet(links') /\ LinkOverrunBounded'
  BY <1>1, LinkLimitQuiet DEF IInv, LimitsInv, LimitsOverrunBounded
<1> QED
  BY <1>2, <1>3

\* An id that is new is in no request.
LEMMA NewId ==
  ASSUME TypeOK, NEW e, e \notin InUse
  PROVE  \A q \in Requests : request[q].at \in {"create", "update"} => request[q].id # e
<1> SUFFICES ASSUME NEW q \in Requests, request[q].at \in {"create", "update"}, request[q].id = e
             PROVE  FALSE
  OBVIOUS
<1> DEFINE U(r) == CASE request[r].at \in {"source", "preflight", "link"} -> {request[r].category}
                     [] request[r].at \in {"create", "update"} -> {request[r].id, request[r].row.category}
                     [] OTHER -> {}
<1>1. U(q) = {request[q].id, request[q].row.category}
  OBVIOUS
<1>2. InUse = UNION {U(r) : r \in Requests}
  BY DEF InUse
<1> HIDE DEF U
<1> QED
  BY <1>1, <1>2

\* CreateExpense's preflight (expenses.go:192): the id is new, and the request is
\* counted against the limit from here on.
LEMMA CreateExpenseKeeps ==
  ASSUME IInv, NEW r \in Requests, NEW u \in Users, NEW e \in Expenses, NEW c \in Categories,
         CreateExpense(r, u, e, c)
  PROVE  IInv'
<1> DEFINE s == [at |-> "create", id |-> e, row |-> [category |-> c, amount |-> First]]
<1>1. /\ request[r] = Idle /\ e \notin DOMAIN expenses /\ e \notin InUse /\ BelowExpenseLimit
      /\ Goto(r, s) /\ UNCHANGED linkVars /\ UNCHANGED <<expenses, meant, overtaken, imported, use>>
  BY DEF CreateExpense
<1>2. s.at = "create" /\ s.id = e /\ s \in RequestStates
  BY BookAssumption DEF RequestStates, Rows
<1> HIDE DEF s
<1>3. /\ request'[r] = s /\ \A q \in Requests : q # r => request'[q] = request[q]
      /\ request' \in [Requests -> RequestStates]
  BY <1>1, <1>2, GotoEffect DEF IInv
<1>4. TypeOK'
  BY <1>1, <1>3 DEF IInv, TypeOK, linkVars
<1>5. LinksInv' /\ IsFiniteSet(links') /\ LinkOverrunBounded'
  BY <1>1, <1>2, <1>3, ExpenseStepFrame, IdleState
<1>6. \A q \in Requests : request[q].at \in {"create", "update"} => request[q].id # e
  BY <1>1, NewId DEF IInv
<1>7. ExpensesInv'
  <2>1. IdsFresh'
    BY <1>1, <1>2, <1>3, <1>6 DEF IInv, ExpensesInv, IdsFresh
  <2>2. UpdatesKnown'
    BY <1>1, <1>2, <1>3 DEF IInv, ExpensesInv, UpdatesKnown, Applied
  <2>3. NoLostUpdate'
    BY <1>1 DEF IInv, ExpensesInv, NoLostUpdate
  <2> QED
    BY <2>1, <2>2, <2>3 DEF ExpensesInv
<1>8. ExpenseOverrunBounded'
  <2>1. Cardinality(DOMAIN expenses) < MaxExpenses /\ Cardinality(DOMAIN expenses) \in Nat
    BY <1>1, FS_CardinalityType DEF BelowExpenseLimit, IInv, LimitsInv
  <2>2. CreatingExpenses' \in SUBSET Requests
    BY DEF CreatingExpenses
  <2>3. /\ Cardinality(CreatingExpenses') \in Nat /\ Cardinality(Requests) \in Nat
        /\ Cardinality(CreatingExpenses') <= Cardinality(Requests)
    BY <2>2, RequestsFinite
  <2>4. Cardinality(DOMAIN expenses) + Cardinality(CreatingExpenses')
          <= MaxExpenses - 1 + Cardinality(Requests)
    BY <2>1, <2>3, MaxExpensesAssumption
  <2> QED
    BY <1>1, <2>4 DEF ExpenseOverrunBounded, CreatingExpenses
<1> QED
  BY <1>1, <1>4, <1>5, <1>7, <1>8 DEF IInv, LimitsInv, LimitsOverrunBounded

\* UpdateExpense reads the row as it is, and so is not late.
LEMMA UpdateExpenseKeeps ==
  ASSUME IInv, NEW r \in Requests, NEW u \in Users, NEW e \in Expenses, NEW new \in Changes,
         UpdateExpense(r, u, e, new)
  PROVE  IInv'
<1> DEFINE row == Applied(expenses[e], new)
           s == [at |-> "update", id |-> e, row |-> row, new |-> new, late |-> FALSE]
<1>1. /\ request[r] = Idle /\ e \in DOMAIN expenses
      /\ Goto(r, s) /\ UNCHANGED linkVars /\ UNCHANGED <<expenses, meant, overtaken, imported, use>>
  BY DEF UpdateExpense, expenseVars
<1>2. row \in Rows
  BY <1>1, AppliedType DEF IInv, TypeOK
<1> HIDE DEF row
<1>3. s.at = "update" /\ s.id = e /\ s.row = row /\ s.new = new /\ s \in RequestStates
  BY <1>2 DEF RequestStates
<1> HIDE DEF s
<1>4. /\ request'[r] = s /\ \A q \in Requests : q # r => request'[q] = request[q]
      /\ request' \in [Requests -> RequestStates]
  BY <1>1, <1>3, GotoEffect DEF IInv
<1>5. TypeOK'
  BY <1>1, <1>4 DEF IInv, TypeOK, linkVars
<1>6. LinksInv' /\ IsFiniteSet(links') /\ LinkOverrunBounded'
  BY <1>1, <1>3, <1>4, ExpenseStepFrame, IdleState
<1>7. ExpensesInv'
  <2>1. IdsFresh'
    BY <1>1, <1>3, <1>4 DEF IInv, ExpensesInv, IdsFresh
  <2>2. UpdatesKnown'
    BY <1>1, <1>3, <1>4 DEF IInv, ExpensesInv, UpdatesKnown, Applied, row
  <2>3. NoLostUpdate'
    BY <1>1 DEF IInv, ExpensesInv, NoLostUpdate
  <2> QED
    BY <2>1, <2>2, <2>3 DEF ExpensesInv
<1>8. IsFiniteSet(DOMAIN expenses') /\ ExpenseOverrunBounded'
  BY <1>1, <1>3, <1>4, ExpenseLimitQuiet DEF IInv, LimitsInv, LimitsOverrunBounded
<1> QED
  BY <1>5, <1>6, <1>7, <1>8 DEF IInv, LimitsInv, LimitsOverrunBounded

\* The insertion: a request less and a row more, which is what was meant.
LEMMA InsertExpenseKeeps ==
  ASSUME IInv, NEW r \in Requests, InsertExpense(r)
  PROVE  IInv'
<1> DEFINE e == request[r].id
           row == request[r].row
<1>1. /\ request[r].at = "create" /\ Goto(r, Idle) /\ UNCHANGED linkVars /\ UNCHANGED <<overtaken, imported, use>>
  BY DEF InsertExpense
<1>2. request[r] \in [at : {"create"}, id : Expenses, row : Rows]
  BY <1>1, StateFields DEF IInv, TypeOK
<1>3. /\ request'[r] = Idle /\ \A q \in Requests : q # r => request'[q] = request[q]
      /\ request' \in [Requests -> RequestStates]
  BY <1>1, GotoEffect, IdleState DEF IInv
<1>4. LinksInv' /\ IsFiniteSet(links') /\ LinkOverrunBounded'
  BY <1>1, <1>3, ExpenseStepFrame, IdleState
<1>5. CASE row.category \in categories
  <2>1. /\ expenses' = Put(expenses, e, row) /\ meant' = Put(meant, e, row)
    BY <1>5 DEF InsertExpense
  <2>2. /\ DOMAIN expenses' = DOMAIN expenses \cup {e}
        /\ expenses' \in [DOMAIN expenses' -> Rows] /\ meant' \in [DOMAIN expenses' -> Rows]
        /\ expenses'[e] = row /\ meant'[e] = row
        /\ \A x \in DOMAIN expenses : x # e => expenses'[x] = expenses[x] /\ meant'[x] = meant[x]
    BY <1>2, <2>1 DEF Put, IInv, TypeOK
  <2>3. e \notin DOMAIN expenses /\ \A q \in Requests : q # r /\ request[q].at \in {"create", "update"} => request[q].id # e
    BY <1>1 DEF IInv, ExpensesInv, IdsFresh
  <2>4. TypeOK'
    BY <1>1, <1>2, <1>3, <2>2 DEF IInv, TypeOK, linkVars
  <2>5. IdsFresh'
    BY <1>3, <2>2, <2>3, IdleState DEF IInv, ExpensesInv, IdsFresh
  <2>6. UpdatesKnown'
    <3> SUFFICES ASSUME NEW q \in Requests, request'[q].at = "update", request'[q].id \in DOMAIN expenses',
                        ~request'[q].late
                 PROVE  request'[q].row = Applied(expenses'[request'[q].id], request'[q].new)
      BY DEF UpdatesKnown, Applied
    <3>1. q # r /\ request'[q] = request[q]
      BY <1>3, IdleState
    <3>2. request[q].id # e /\ request[q].id \in DOMAIN expenses
      BY <2>2, <2>3, <3>1
    <3> QED
      BY <2>2, <3>1, <3>2 DEF IInv, ExpensesInv, UpdatesKnown
  <2>7. NoLostUpdate'
    BY <1>1, <2>2 DEF IInv, ExpensesInv, NoLostUpdate
  <2>8. IsFiniteSet(DOMAIN expenses') /\ ExpenseOverrunBounded'
    <3>1. \/ Cardinality(DOMAIN expenses) + Cardinality(CreatingExpenses) <= imported
          \/ Cardinality(DOMAIN expenses) + Cardinality(CreatingExpenses) <= MaxExpenses - 1 + Cardinality(Requests)
      BY DEF IInv, LimitsInv, LimitsOverrunBounded, ExpenseOverrunBounded, CreatingExpenses
    <3>2. /\ IsFiniteSet(DOMAIN expenses') /\ Cardinality(DOMAIN expenses') \in Nat
          /\ Cardinality(DOMAIN expenses) \in Nat
          /\ Cardinality(DOMAIN expenses') <= Cardinality(DOMAIN expenses) + 1
      <4>1. /\ IsFiniteSet(DOMAIN expenses \cup {e}) /\ Cardinality(DOMAIN expenses \cup {e}) \in Nat
            /\ Cardinality(DOMAIN expenses \cup {e}) <= Cardinality(DOMAIN expenses) + 1
        BY AddOne DEF IInv, LimitsInv
      <4> QED
        BY <2>2, <4>1, FS_CardinalityType DEF IInv, LimitsInv
    <3>3. r \in CreatingExpenses /\ CreatingExpenses' = CreatingExpenses \ {r}
      BY <1>1, <1>3, IdleState DEF CreatingExpenses
    <3>4. CreatingExpenses \in SUBSET Requests
      BY DEF CreatingExpenses
    <3>5. /\ IsFiniteSet(CreatingExpenses) /\ Cardinality(CreatingExpenses) \in Nat
          /\ Cardinality(Requests) \in Nat
      BY <3>4, RequestsFinite
    <3>6. Cardinality(CreatingExpenses') = Cardinality(CreatingExpenses) - 1
      BY <3>3, <3>5, FS_RemoveElement
    <3>7. imported \in Nat /\ imported' = imported
      BY <1>1 DEF IInv, TypeOK
    <3>8. \/ Cardinality(DOMAIN expenses') + Cardinality(CreatingExpenses') <= imported
          \/ Cardinality(DOMAIN expenses') + Cardinality(CreatingExpenses') <= MaxExpenses - 1 + Cardinality(Requests)
      BY <3>1, <3>2, <3>5, <3>6, <3>7, MaxExpensesAssumption
    <3> QED
      BY <3>2, <3>7, <3>8 DEF ExpenseOverrunBounded, CreatingExpenses
  <2> QED
    BY <1>4, <2>4, <2>5, <2>6, <2>7, <2>8 DEF IInv, ExpensesInv, LimitsInv, LimitsOverrunBounded
<1>6. CASE row.category \notin categories
  <2>1. UNCHANGED <<expenses, meant>>
    BY <1>6 DEF InsertExpense
  <2>2. TypeOK'
    BY <1>1, <1>3, <2>1 DEF IInv, TypeOK, linkVars
  <2>3. overtaken' = overtaken \cap DOMAIN expenses'
    BY <1>1, <2>1 DEF IInv, TypeOK
  <2>4. ExpensesInv' /\ IsFiniteSet(DOMAIN expenses') /\ ExpenseOverrunBounded'
    BY <1>1, <1>3, <2>1, <2>3, IdleState, ExpensesQuiet, ExpenseLimitQuiet DEF IInv, LimitsInv, LimitsOverrunBounded
  <2> QED
    BY <1>4, <2>2, <2>4 DEF IInv, LimitsInv, LimitsOverrunBounded
<1> QED
  BY <1>5, <1>6

\* The update's write: an update that is not late writes what is meant, and every
\* other update of the row is late from here on.
LEMMA WriteExpenseKeeps ==
  ASSUME IInv, NEW r \in Requests, WriteExpense(r)
  PROVE  IInv'
<1> DEFINE old == request[r]
           e == old.id
           row == old.row
           new == old.new
           ok == e \in DOMAIN expenses /\ row.category \in categories
<1>1. old.at = "update" /\ UNCHANGED linkVars /\ UNCHANGED <<imported, use>>
  BY DEF WriteExpense
<1>2. old \in [at : {"update"}, id : Expenses, row : Rows, new : Changes, late : BOOLEAN]
  BY <1>1, StateFields DEF IInv, TypeOK
<1>3. ASSUME ok PROVE IInv'
  <2> DEFINE same(q) == request[q].at = "update" /\ request[q].id = e
             given == [f \in Fields |-> IF f \in DOMAIN new THEN new[f] ELSE meant[e][f]]
  <2>1. /\ expenses' = [expenses EXCEPT ![e] = row]
        /\ meant' = [meant EXCEPT ![e] = given]
        /\ overtaken' = IF old.late THEN overtaken \cup {e} ELSE overtaken
        /\ request' = [q \in Requests |->
                         IF q = r THEN Idle
                         ELSE IF same(q) THEN [request[q] EXCEPT !.late = TRUE]
                         ELSE request[q]]
    BY <1>3 DEF WriteExpense
  <2>2. given \in Rows
    BY <1>2, <1>3, AppliedType DEF IInv, TypeOK
  <2>3. given = Applied(meant[e], new)
    BY DEF Applied
  <2> HIDE DEF given
  <2>4. /\ DOMAIN expenses' = DOMAIN expenses
        /\ expenses' \in [DOMAIN expenses' -> Rows] /\ meant' \in [DOMAIN expenses' -> Rows]
        /\ expenses'[e] = row /\ meant'[e] = given
        /\ \A x \in DOMAIN expenses : x # e => expenses'[x] = expenses[x] /\ meant'[x] = meant[x]
    BY <1>2, <1>3, <2>1, <2>2 DEF IInv, TypeOK
  <2>5. request'[r] = Idle
    BY <2>1
  <2>6. ASSUME NEW q \in Requests, q # r
        PROVE  /\ ~same(q) => request'[q] = request[q]
               /\ same(q) => request'[q].at = "update" /\ request'[q].late = TRUE /\ request'[q].id = e
               /\ request'[q] \in RequestStates
    <3>1. CASE same(q)
      <4>1. request[q] \in [at : {"update"}, id : Expenses, row : Rows, new : Changes, late : BOOLEAN]
        BY <3>1, StateFields DEF IInv, TypeOK
      <4>2. request'[q] = [request[q] EXCEPT !.late = TRUE]
        BY <2>1, <2>6, <3>1
      <4> QED
        BY <3>1, <4>1, <4>2 DEF RequestStates
    <3>2. CASE ~same(q)
      BY <2>1, <2>6, <3>2 DEF IInv, TypeOK
    <3> QED
      BY <3>1, <3>2
  <2>7. request' \in [Requests -> RequestStates]
    BY <2>1, <2>5, <2>6, IdleState
  <2>8. TypeOK'
    <3>1. overtaken' \subseteq DOMAIN expenses'
      BY <1>3, <2>1, <2>4 DEF IInv, TypeOK
    <3> QED
      BY <1>1, <2>4, <2>7, <3>1 DEF IInv, TypeOK, linkVars
  <2>9. LinksInv' /\ IsFiniteSet(links') /\ LinkOverrunBounded'
    <3>1. \A q \in Requests :
            \/ request'[q] = request[q]
            \/ /\ request[q].at \in {"idle", "create", "update"}
               /\ request'[q].at \in {"idle", "create", "update"}
      BY <1>1, <2>5, <2>6, IdleState
    <3> QED
      BY <1>1, <3>1, ExpenseStepFrame
  <2>10. IdsFresh'
    <3> SUFFICES ASSUME NEW q \in Requests, request'[q].at = "create"
                 PROVE  /\ request'[q].id \notin DOMAIN expenses'
                        /\ \A p \in Requests : request'[p].at \in {"create", "update"}
                             /\ request'[p].id = request'[q].id => p = q
      BY DEF IdsFresh
    <3>1. q # r /\ request'[q] = request[q] /\ request[q].at = "create"
      BY <2>5, <2>6, IdleState
    <3>2. \A p \in Requests : request'[p].at \in {"create", "update"} =>
            request[p].at \in {"create", "update"} /\ request'[p].id = request[p].id
      BY <2>5, <2>6, IdleState
    <3> QED
      BY <2>4, <3>1, <3>2 DEF IInv, ExpensesInv, IdsFresh
  <2>11. UpdatesKnown'
    <3> SUFFICES ASSUME NEW q \in Requests, request'[q].at = "update", request'[q].id \in DOMAIN expenses',
                        ~request'[q].late
                 PROVE  request'[q].row = Applied(expenses'[request'[q].id], request'[q].new)
      BY DEF UpdatesKnown, Applied
    <3>1. q # r /\ ~same(q) /\ request'[q] = request[q]
      BY <2>5, <2>6, IdleState
    <3>2. expenses'[request[q].id] = expenses[request[q].id]
      BY <2>4, <3>1
    <3> QED
      BY <2>4, <3>1, <3>2 DEF IInv, ExpensesInv, UpdatesKnown
  <2>12. NoLostUpdate'
    <3> SUFFICES ASSUME NEW x \in DOMAIN expenses', x \notin overtaken' PROVE expenses'[x] = meant'[x]
      BY DEF NoLostUpdate
    <3>1. CASE x # e
      BY <2>1, <2>4, <3>1 DEF IInv, ExpensesInv, NoLostUpdate
    <3>2. CASE x = e
      <4>1. ~old.late /\ e \notin overtaken
        BY <1>2, <2>1, <3>2
      <4>2. row = Applied(expenses[e], new)
        BY <1>1, <1>3, <4>1 DEF IInv, ExpensesInv, UpdatesKnown
      <4>3. expenses[e] = meant[e]
        BY <1>3, <4>1 DEF IInv, ExpensesInv, NoLostUpdate
      <4> QED
        BY <2>3, <2>4, <3>2, <4>2, <4>3
    <3> QED
      BY <3>1, <3>2
  <2>13. IsFiniteSet(DOMAIN expenses') /\ ExpenseOverrunBounded'
    <3>1. \A q \in Requests : request'[q].at = "create" => request[q].at = "create"
      BY <2>5, <2>6, IdleState
    <3> QED
      BY <1>1, <2>4, <3>1, ExpenseLimitQuiet DEF IInv, LimitsInv, LimitsOverrunBounded
  <2> QED
    BY <2>8, <2>9, <2>10, <2>11, <2>12, <2>13 DEF IInv, ExpensesInv, LimitsInv, LimitsOverrunBounded
<1>4. ASSUME ~ok PROVE IInv'
  <2>1. Goto(r, Idle) /\ UNCHANGED <<expenses, meant, overtaken>>
    BY <1>4 DEF WriteExpense
  <2>2. /\ request'[r] = Idle /\ \A q \in Requests : q # r => request'[q] = request[q]
        /\ request' \in [Requests -> RequestStates]
    BY <2>1, GotoEffect, IdleState DEF IInv
  <2>3. TypeOK'
    BY <1>1, <2>1, <2>2 DEF IInv, TypeOK, linkVars
  <2>4. LinksInv' /\ IsFiniteSet(links') /\ LinkOverrunBounded'
    BY <1>1, <2>2, ExpenseStepFrame, IdleState
  <2>5. overtaken' = overtaken \cap DOMAIN expenses'
    BY <2>1 DEF IInv, TypeOK
  <2>6. ExpensesInv' /\ IsFiniteSet(DOMAIN expenses') /\ ExpenseOverrunBounded'
    BY <1>1, <2>1, <2>2, <2>5, IdleState, ExpensesQuiet, ExpenseLimitQuiet DEF IInv, LimitsInv, LimitsOverrunBounded
  <2> QED
    BY <2>3, <2>4, <2>6 DEF IInv, LimitsInv, LimitsOverrunBounded
<1> QED
  BY <1>3, <1>4

\* Rows and links that go, with requests left alone.
LEMMA KeepKeeps ==
  ASSUME IInv, NEW S, Keep(S), categories' \subseteq Categories, links' \subseteq links,
         UNCHANGED <<members, request, imported, use>>
  PROVE  IInv'
<1>1. /\ DOMAIN expenses' \subseteq DOMAIN expenses
      /\ expenses' \in [DOMAIN expenses' -> Rows] /\ meant' \in [DOMAIN expenses' -> Rows]
      /\ \A x \in DOMAIN expenses' : expenses'[x] = expenses[x] /\ meant'[x] = meant[x]
      /\ overtaken' = overtaken \cap DOMAIN expenses'
  BY KeepEffect DEF IInv
<1>2. TypeOK'
  BY <1>1 DEF IInv, TypeOK
<1>3. LinksInv' /\ IsFiniteSet(links') /\ LinkOverrunBounded'
  BY LinksQuiet, LinkLimitQuiet DEF IInv, LimitsInv, LimitsOverrunBounded
<1>4. ExpensesInv' /\ IsFiniteSet(DOMAIN expenses') /\ ExpenseOverrunBounded'
  BY <1>1, ExpensesQuiet, ExpenseLimitQuiet DEF IInv, LimitsInv, LimitsOverrunBounded
<1> QED
  BY <1>2, <1>3, <1>4 DEF IInv, LimitsInv, LimitsOverrunBounded

\* Nothing but the categories changes.
LEMMA CategoriesKeep ==
  ASSUME IInv, categories' \subseteq Categories, UNCHANGED <<members, links, request, expenseVars>>
  PROVE  IInv'
<1>1. UNCHANGED <<members, links, request, expenses, meant, overtaken, imported, use>>
  BY DEF expenseVars
<1>2. TypeOK'
  BY <1>1 DEF IInv, TypeOK
<1>3. LinksInv' /\ IsFiniteSet(links') /\ LinkOverrunBounded'
  BY <1>1, LinksQuiet, LinkLimitQuiet DEF IInv, LimitsInv, LimitsOverrunBounded
<1>4. overtaken' = overtaken \cap DOMAIN expenses'
  BY <1>1 DEF IInv, TypeOK
<1>5. ExpensesInv' /\ IsFiniteSet(DOMAIN expenses') /\ ExpenseOverrunBounded'
  BY <1>1, <1>4, ExpensesQuiet, ExpenseLimitQuiet DEF IInv, LimitsInv, LimitsOverrunBounded
<1> QED
  BY <1>2, <1>3, <1>5 DEF IInv, LimitsInv, LimitsOverrunBounded

----------------------------------------------------------------------------
(* The theorems *)

\* The invariant holds initially.
LEMMA InitInv == Init => IInv
<1> SUFFICES ASSUME Init PROVE IInv
  OBVIOUS
<1>1. /\ categories = Categories /\ members = {} /\ links = {}
      /\ request = [r \in Requests |-> Idle]
      /\ meant = expenses /\ overtaken = {} /\ use \in Uses
  BY DEF Init, LinksInit
<1>0. /\ DOMAIN expenses \subseteq Expenses /\ expenses \in [DOMAIN expenses -> Rows]
      /\ IsFiniteSet(DOMAIN expenses) /\ imported = Cardinality(DOMAIN expenses)
  <2>1. CASE Founded
    BY <2>1, FS_EmptySet DEF Founded
  <2>2. CASE migrateSingleBudget
    <3>1. PICK S \in SUBSET Expenses :
            /\ IsFiniteSet(S) /\ imported = Cardinality(S)
            /\ expenses \in [S -> {row \in Rows : BudgetOf[row.category] = Book}]
      BY <2>2 DEF migrateSingleBudget
    <3>2. DOMAIN expenses = S /\ expenses \in [S -> Rows]
      BY <3>1
    <3> QED
      BY <3>1, <3>2
  <2> QED
    BY <2>1, <2>2 DEF Init
<1>2. \A r \in Requests : request[r].at = "idle"
  BY <1>1, IdleState
<1>3. TypeOK
  BY <1>0, <1>1, IdleState, FS_CardinalityType DEF TypeOK
<1>4. LinksInv
  BY <1>1, <1>2 DEF LinksInv, NotItself, PreflightHolds, RequestsHaveAccess, CircleOnlyInRace,
    CreatorsHaveAccess
<1>5. ExpensesInv
  BY <1>1, <1>2 DEF ExpensesInv, IdsFresh, UpdatesKnown, NoLostUpdate
<1>6. LimitsInv
  <2>0. IsFiniteSet({}) /\ Cardinality({}) = 0
    BY FS_EmptySet
  <2>1. Cardinality(Requests) \in Nat
    BY RequestAssumption, FS_CardinalityType
  <2>2. \A b \in Budgets : LinksInto(b) = {} /\ LinkingInto(b) = {}
    BY <1>1, <1>2 DEF LinksInto, LinkingInto
  <2>3. LinkOverrunBounded
    <3> SUFFICES ASSUME NEW b \in Budgets
                 PROVE  Cardinality(LinksInto(b)) + Cardinality(LinkingInto(b))
                          <= MaxLinks - 1 + Cardinality(Requests)
      BY DEF LinkOverrunBounded, LinkingInto
    <3>1. Cardinality(LinksInto(b)) = 0 /\ Cardinality(LinkingInto(b)) = 0
      BY <2>0, <2>2
    <3> QED
      BY <2>1, <3>1, MaxLinksAssumption
  <2>4. CreatingExpenses = {}
    BY <1>2 DEF CreatingExpenses
  <2>5. ExpenseOverrunBounded
    <3>1. Cardinality(CreatingExpenses) = 0 /\ imported \in Nat
      BY <1>3, <2>0, <2>4 DEF TypeOK
    <3>2. Cardinality(DOMAIN expenses) + Cardinality(CreatingExpenses) <= imported
      BY <1>0, <3>1
    <3> QED
      BY <3>2 DEF ExpenseOverrunBounded, CreatingExpenses
  <2> QED
    BY <1>0, <1>1, <2>0, <2>3, <2>5 DEF LimitsInv, LimitsOverrunBounded
<1> QED
  BY <1>3, <1>4, <1>5, <1>6 DEF IInv

\* Every step preserves the invariant.
LEMMA NextKeeps == IInv /\ [Next]_vars => IInv'
<1> SUFFICES ASSUME IInv, [Next]_vars PROVE IInv'
  OBVIOUS
<1>1. ASSUME NEW r \in Requests, CreateLink(r), UNCHANGED expenseVars PROVE IInv'
  BY <1>1, CheckTargetKeeps DEF CreateLink
<1>2. ASSUME NEW r \in Requests, LinkStep(r), UNCHANGED expenseVars PROVE IInv'
  BY <1>2, CheckSourceKeeps, PreflightKeeps, InsertLinkKeeps, FailsKeeps, RemoveCollaboratorKeeps,
     CleanUpKeeps, CleanUpFailsKeeps DEF LinkStep
<1>3. ASSUME LinksNext, UNCHANGED expenseVars PROVE IInv'
  BY <1>2, <1>3, DeleteLinkKeeps, JoinKeeps DEF LinksNext
<1>4. ASSUME NEW r \in Requests, ExpenseStep(r) PROVE IInv'
  BY <1>4, CreateExpenseKeeps, UpdateExpenseKeeps, InsertExpenseKeeps, WriteExpenseKeeps DEF ExpenseStep
<1>5. ASSUME NEW u \in Users, NEW e \in Expenses, DeleteExpense(u, e) PROVE IInv'
  <2>1. categories' \subseteq Categories
    BY <1>5 DEF DeleteExpense, linkVars, IInv, TypeOK
  <2> QED
    BY <1>5, <2>1, KeepKeeps DEF DeleteExpense, linkVars
<1>6. ASSUME NEW old \in SUBSET DOMAIN expenses, pruneAllOldExpenses(old) PROVE IInv'
  <2>1. categories' \subseteq Categories
    BY <1>6 DEF pruneAllOldExpenses, linkVars, IInv, TypeOK
  <2> QED
    BY <1>6, <2>1, KeepKeeps DEF pruneAllOldExpenses, linkVars
<1>7. ASSUME NEW u \in Users, NEW c \in Categories, CreateCategory(u, c) PROVE IInv'
  <2>1. categories' \subseteq Categories
    BY <1>7 DEF CreateCategory, IInv, TypeOK
  <2> QED
    BY <1>7, <2>1, CategoriesKeep DEF CreateCategory
<1>8. ASSUME NEW u \in Users, NEW c \in Categories, DeleteCategory(u, c) PROVE IInv'
  <2>1. categories' \subseteq Categories /\ links' \subseteq links /\ UNCHANGED <<members, request, imported, use>>
    BY <1>8 DEF DeleteCategory, CascadeToLinks, IInv, TypeOK
  <2>2. Keep({e \in DOMAIN expenses : expenses[e].category # c})
    BY <1>8 DEF DeleteCategory
  <2> QED
    BY <2>1, <2>2, KeepKeeps
<1>9. CASE UNCHANGED vars
  <2>1. categories' \subseteq Categories /\ UNCHANGED <<members, links, request, expenseVars>>
    BY <1>9 DEF vars, linkVars, expenseVars, IInv, TypeOK
  <2> QED
    BY <2>1, CategoriesKeep
<1> QED
  BY <1>1, <1>3, <1>4, <1>5, <1>6, <1>7, <1>8, <1>9 DEF Next

\* Every reachable state of the ledger satisfies the inductive invariant.
THEOREM Invariance == Spec => []IInv
<1>1. Init => IInv
  BY InitInv
<1>2. IInv /\ [Next]_vars => IInv'
  BY NextKeeps
<1> QED
  BY <1>1, <1>2, PTL DEF Spec

\* In every reachable state the variables of the ledger have their types: a request
\* carries what its next statement needs, and no row has an id that is not one.
THEOREM TypeCorrect == Spec => []TypeOK
<1>1. IInv => TypeOK
  BY DEF IInv
<1> QED
  BY Invariance, <1>1, PTL

\* CreateLink keeps out circles of two budgets but for a race: two budgets link to
\* each other only if one link was inserted between the other's preflight and its
\* insertion (links.go:177-216).
THEOREM CirclesAreRaces == Spec => []CircleOnlyInRace
<1>1. IInv => CircleOnlyInRace
  BY DEF IInv, LinksInv
<1> QED
  BY Invariance, <1>1, PTL

\* The creator of a link has access to both its budgets, but for a removal whose
\* clean-up failed or is under way, or that overtook CreateLink after its checks
\* (collaborators.go:198-206).
THEOREM CreatorsAlwaysHaveAccess == Spec => []CreatorsHaveAccess
<1>1. IInv => CreatorsHaveAccess
  BY DEF IInv, LinksInv
<1> QED
  BY Invariance, <1>1, PTL

\* A budget has no more links, and no more expenses, than the limit and one for each
\* other request in progress, or no more expenses than Migrate created it with:
\* links.go:195 and expenses.go:206 count before the insertion, and Migrate does not
\* count (migrate.go:277-282).
THEOREM LimitsAlwaysBounded == Spec => []LimitsOverrunBounded
<1>1. IInv => LimitsOverrunBounded
  BY DEF IInv, LimitsInv
<1> QED
  BY Invariance, <1>1, PTL

\* UpdateExpense loses no field that another update has set, but for an update that
\* wrote the row between its read and its write (expenses.go:254).
THEOREM UpdatesNeverLost == Spec => []NoLostUpdate
<1>1. IInv => NoLostUpdate
  BY DEF IInv, ExpensesInv
<1> QED
  BY Invariance, <1>1, PTL

----------------------------------------------------------------------------
(* LinkTargets *)

\* What has been found to be the targets, and is kept for left more ticks, is
\* gone by the time that a link it misses is old.
Bounded(ids, left) == \A p \in sourceLinks : age[p] # Never /\ p[1] \notin ids => left <= TTL - age[p]

\* So it is for the entry, and for what a request is about to store.
DeadlinesHold ==
  /\ \A e \in entry : e.rows = "all" => Bounded(e.ids, e.left)
  /\ \A w \in Workers : worker[w].at = "store" /\ worker[w].rows = "all" =>
                          Bounded(worker[w].ids, worker[w].left)

\* A request that is still to query will find the targets that were old at its
\* lookup, and one that has the targets has them.
OldKnown ==
  \A w \in Workers :
    /\ worker[w].at = "query" => worker[w].old \subseteq TargetsOf(sourceLinks)
    /\ worker[w].at \in {"store", "found"} /\ worker[w].rows = "all" =>
         worker[w].old \subseteq worker[w].ids

TargetsInv == TargetsTypeOK /\ DeadlinesHold /\ OldKnown

----------------------------------------------------------------------------
\* A request that asks for the targets has all the fields of one.
LEMMA FetchingFields ==
  ASSUME TargetsTypeOK, NEW w \in Workers, worker[w].at \in {"lookup", "query", "store", "found"}
  PROVE  worker[w] \in Fetching
BY DEF TargetsTypeOK, TargetsIdle, Linking

\* A link that is not there has a negative age.
LEMMA NeverIsNegative == Never \in Int /\ Never < 0
BY DEF Never

\* The invariant holds initially.
LEMMA TargetsInitInv == TargetsInit => TargetsInv
<1> SUFFICES ASSUME TargetsInit PROVE TargetsInv
  OBVIOUS
<1>1. TargetsTypeOK
  BY TTLAssumption DEF TargetsInit, TargetsTypeOK, Never, Pairs, TargetsIdle
<1>2. DeadlinesHold
  BY DEF TargetsInit, DeadlinesHold, TargetsIdle
<1>3. OldKnown
  BY DEF TargetsInit, OldKnown, TargetsIdle
<1> QED
  BY <1>1, <1>2, <1>3 DEF TargetsInv

\* Types are preserved.
LEMMA TargetsTypeStep == TargetsTypeOK /\ [TargetsNext]_targetsVars => TargetsTypeOK'
<1> SUFFICES ASSUME TargetsTypeOK, [TargetsNext]_targetsVars PROVE TargetsTypeOK'
  OBVIOUS
<1> USE TTLAssumption
<1>1. ASSUME NEW w \in Workers, NEW p \in Pairs, CreateSourceLink(w, p) PROVE TargetsTypeOK'
  BY <1>1 DEF TargetsTypeOK, CreateSourceLink, Linking, Pairs
<1>2. ASSUME NEW S \in SUBSET sourceLinks, NEW w \in Workers, NEW s \in {TargetsIdle} \cup Linking \cup Fetching,
             Removed(S, w, s)
      PROVE  /\ sourceLinks' \subseteq sourceLinks
             /\ \A p \in sourceLinks' : p \notin S
             /\ age' \in [Pairs -> Never..TTL]
             /\ \A p \in Pairs : age'[p] # Never => p \in sourceLinks'
             /\ worker' \in [Workers -> {TargetsIdle} \cup Linking \cup Fetching]
  <2>1. \A v \in Workers : worker[v].at \in {"query", "store", "found"} =>
          [worker[v] EXCEPT !.old = @ \ (TargetsOf(S) \ TargetsOf(sourceLinks \ S))] \in Fetching
    BY FetchingFields DEF Fetching
  <2>2. worker' \in [Workers -> {TargetsIdle} \cup Linking \cup Fetching]
    BY <1>2, <2>1 DEF Removed, TargetsTypeOK
  <2>3. age' \in [Pairs -> Never..TTL]
    BY <1>2, NeverIsNegative DEF Removed, TargetsTypeOK
  <2> QED
    BY <1>2, <2>2, <2>3 DEF Removed, TargetsTypeOK
<1>3. ASSUME NEW w \in Workers, NEW S \in SUBSET sourceLinks, DeleteLinks(w, S) PROVE TargetsTypeOK'
  <2>1. [at |-> "drop", made |-> {}] \in Linking
    BY DEF Linking
  <2> QED
    BY <1>2, <1>3, <2>1 DEF DeleteLinks, TargetsTypeOK
<1>4. ASSUME NEW w \in Workers, DropEntry(w) PROVE TargetsTypeOK'
  BY <1>4, NeverIsNegative DEF TargetsTypeOK, DropEntry, Ends
<1>5. ASSUME NEW r \in Rounds PROVE Fetch(r) \in Fetching
  BY DEF Fetch, Fetching
<1>6. ASSUME NEW S \in SUBSET sourceLinks PROVE TargetsOf(S) \in SUBSET Targets
  BY DEF TargetsOf, TargetsTypeOK, Pairs
<1>7. ASSUME NEW w \in Workers, NEW c \in SourceCategories, Change(w, c) PROVE TargetsTypeOK'
  <2>1. Fetch("purge") \in Fetching
    BY <1>5 DEF Rounds
  <2> QED
    BY <1>7, <2>1 DEF TargetsTypeOK, Change
<1>8. ASSUME NEW w \in Workers, NEW c \in SourceCategories, DeleteSourceCategory(w, c) PROVE TargetsTypeOK'
  <2> DEFINE S == {p \in sourceLinks : p[2] = c}
  <2>1. Fetch("purge") \in Fetching
    BY <1>5 DEF Rounds
  <2>2. Removed(S, w, Fetch("purge")) /\ exists' = exists \ {c} /\ entry' = entry
    BY <1>8 DEF DeleteSourceCategory
  <2>3. /\ sourceLinks' \subseteq sourceLinks
        /\ \A p \in sourceLinks' : p \notin S
        /\ age' \in [Pairs -> Never..TTL]
        /\ \A p \in Pairs : age'[p] # Never => p \in sourceLinks'
        /\ worker' \in [Workers -> {TargetsIdle} \cup Linking \cup Fetching]
    BY <1>2, <2>1, <2>2
  <2> QED
    BY <2>2, <2>3 DEF TargetsTypeOK
<1>9. ASSUME NEW w \in Workers, Lookup(w) PROVE TargetsTypeOK'
  <2>1. worker[w] \in Fetching
    BY <1>9, FetchingFields DEF Lookup
  <2>2. OldTargets \in SUBSET Targets
    BY DEF OldTargets, TargetsOf, TargetsTypeOK, Pairs
  <2>3. ASSUME NEW e \in Entries
        PROVE  [worker[w] EXCEPT !.at = "found", !.old = OldTargets, !.ids = e.ids, !.rows = e.rows]
                 \in Fetching
    BY <2>1, <2>2 DEF Fetching, Entries
  <2>4. [worker[w] EXCEPT !.at = "query", !.old = OldTargets] \in Fetching
    BY <2>1, <2>2 DEF Fetching
  <2>5. \E s \in Fetching : worker' = [worker EXCEPT ![w] = s]
    <3>1. CASE \E e \in entry :
                 worker' = [worker EXCEPT ![w] =
                   [@ EXCEPT !.at = "found", !.old = OldTargets, !.ids = e.ids, !.rows = e.rows]]
      <4> PICK e \in entry :
                 worker' = [worker EXCEPT ![w] =
                   [@ EXCEPT !.at = "found", !.old = OldTargets, !.ids = e.ids, !.rows = e.rows]]
        BY <3>1
      <4>1. e \in Entries
        BY DEF TargetsTypeOK
      <4> QED
        BY <2>3, <4>1, Zenon
    <3>2. CASE worker' = [worker EXCEPT ![w] = [@ EXCEPT !.at = "query", !.old = OldTargets]]
      BY <2>4, <3>2, Zenon
    <3> QED
      BY <1>9, <3>1, <3>2 DEF Lookup
  <2> QED
    BY <1>9, <2>5 DEF Lookup, TargetsTypeOK
<1>10. ASSUME NEW w \in Workers, Query(w) PROVE TargetsTypeOK'
  <2>1. worker[w] \in Fetching
    BY <1>10, FetchingFields DEF Query
  <2>2. TargetsOf(sourceLinks) \in SUBSET Targets
    BY <1>6
  <2>3. worker' \in [Workers -> {TargetsIdle} \cup Linking \cup Fetching]
    BY <1>10, <2>1, <2>2 DEF Query, TargetsTypeOK, Fetching
  <2> QED
    BY <1>10, <2>3 DEF Query, TargetsTypeOK
<1>11. ASSUME NEW w \in Workers, NEW ids \in SUBSET Targets, QueryBreaks(w, ids) PROVE TargetsTypeOK'
  <2>1. worker[w] \in Fetching
    BY <1>11, FetchingFields DEF QueryBreaks
  <2>2. worker' \in [Workers -> {TargetsIdle} \cup Linking \cup Fetching]
    BY <1>11, <2>1 DEF QueryBreaks, TargetsTypeOK, Fetching
  <2> QED
    BY <1>11, <2>2 DEF QueryBreaks, TargetsTypeOK
<1>12. ASSUME NEW w \in Workers, QueryError(w) \/ Reach(w) PROVE TargetsTypeOK'
  <2>1. worker[w] \in Fetching
    BY <1>12, FetchingFields DEF QueryError, Reach
  <2>2. Fetch("broadcast") \in Fetching
    BY <1>5, <2>1 DEF Rounds, Fetching
  <2> QED
    BY <1>12, <2>2 DEF QueryError, Reach, TargetsTypeOK
<1>13. ASSUME NEW w \in Workers, Store(w) PROVE TargetsTypeOK'
  <2>1. worker[w] \in Fetching
    BY <1>13, FetchingFields DEF Store
  <2>2. worker' \in [Workers -> {TargetsIdle} \cup Linking \cup Fetching]
    BY <1>13, <2>1 DEF Store, TargetsTypeOK, Fetching
  <2>3. entry' \subseteq Entries /\ \A d, e \in entry' : d = e
    BY <1>13, <2>1 DEF Store, Entries, Fetching
  <2> QED
    BY <1>13, <2>2, <2>3 DEF Store, TargetsTypeOK
<1>14. ASSUME Tick PROVE TargetsTypeOK'
  <2>1. \A n \in 0..TTL : Before(n) \in 0..TTL
    BY DEF Before
  <2>2. \A v \in Workers : worker[v].at \in {"query", "store"} =>
          [worker[v] EXCEPT !.left = Before(@)] \in Fetching
    BY <2>1, FetchingFields DEF Fetching
  <2>3. worker' \in [Workers -> {TargetsIdle} \cup Linking \cup Fetching]
    BY <1>14, <2>2 DEF Tick, TargetsTypeOK
  <2>4. entry' \subseteq Entries /\ \A d, e \in entry' : d = e
    <3>1. \A e \in Entries : [e EXCEPT !.left = Before(@)] \in Entries
      BY <2>1 DEF Entries
    <3> QED
      BY <1>14, <3>1, Zenon DEF Tick, TargetsTypeOK
  <2>5. age' \in [Pairs -> Never..TTL] /\ \A p \in Pairs : age'[p] # Never => age[p] # Never
    <3>1. \A n \in Never..TTL :
            LET m == IF n \in {Never, TTL} THEN n ELSE n + 1
            IN  m \in Never..TTL /\ (m # Never => n # Never)
      BY DEF Never
    <3>2. \A p \in Pairs : age[p] \in Never..TTL
      BY DEF TargetsTypeOK
    <3>3. age' = [p \in Pairs |-> IF age[p] \in {Never, TTL} THEN age[p] ELSE age[p] + 1]
      BY <1>14 DEF Tick
    <3> QED
      BY <3>1, <3>2, <3>3
  <2> QED
    BY <1>14, <2>3, <2>4, <2>5 DEF Tick, TargetsTypeOK
<1>15. CASE UNCHANGED targetsVars
  BY <1>15 DEF targetsVars, TargetsTypeOK
<1> QED
  BY <1>1, <1>3, <1>4, <1>7, <1>8, <1>9, <1>10, <1>11, <1>12, <1>13, <1>14, <1>15
  DEF TargetsNext, WorkerNext

----------------------------------------------------------------------------
\* What a query finds is bounded for as long as it is fresh: it misses no link.
LEMMA QueryFindsAll == ASSUME NEW p \in sourceLinks PROVE p[1] \in TargetsOf(sourceLinks)
BY DEF TargetsOf

\* Fewer links, and links whose age is reset, keep a bound.
LEMMA BoundedKept ==
  ASSUME TargetsTypeOK, NEW ids \in SUBSET Targets, NEW left \in 0..TTL, Bounded(ids, left),
         \A p \in sourceLinks' : age'[p] \in {Never, 0} \/ (p \in sourceLinks /\ age'[p] = age[p])
  PROVE  Bounded(ids, left)'
BY TTLAssumption, NeverIsNegative DEF Bounded, TargetsTypeOK

\* A tick keeps it too: the deadline comes closer as the links grow older.
LEMMA BoundedTick ==
  ASSUME TargetsTypeOK, NEW ids \in SUBSET Targets, NEW left \in 0..TTL, Bounded(ids, left), Tick
  PROVE  Bounded(ids, Before(left))'
<1> SUFFICES ASSUME NEW p \in sourceLinks, age'[p] # Never, p[1] \notin ids
             PROVE  Before(left) <= TTL - age'[p]
  BY DEF Bounded, Tick
<1>1. p \in Pairs /\ age[p] \in Never..TTL
  BY DEF TargetsTypeOK
<1>2. age'[p] = IF age[p] \in {Never, TTL} THEN age[p] ELSE age[p] + 1
  BY <1>1 DEF Tick
<1>3. age[p] # Never => left <= TTL - age[p]
  BY DEF Bounded
<1> QED
  BY <1>1, <1>2, <1>3, TTLAssumption DEF Before, Never

\* Deadlines hold after every step.
LEMMA DeadlineStep == TargetsInv /\ [TargetsNext]_targetsVars => DeadlinesHold'
<1> SUFFICES ASSUME TargetsInv, [TargetsNext]_targetsVars PROVE DeadlinesHold'
  OBVIOUS
<1> USE TTLAssumption
<1>0. TargetsTypeOK /\ DeadlinesHold /\ TargetsTypeOK'
  BY TargetsTypeStep DEF TargetsInv
<1>1. \A e \in entry : e.ids \in SUBSET Targets /\ e.left \in 0..TTL
  BY <1>0 DEF TargetsTypeOK, Entries
<1>2. \A w \in Workers : worker[w].at \in {"lookup", "query", "store", "found"} =>
        worker[w].ids \in SUBSET Targets /\ worker[w].left \in 0..TTL
  BY <1>0, FetchingFields DEF Fetching
\* A step that resets or keeps ages, and adds nothing to be bounded.
<1>3. ASSUME \A p \in sourceLinks' : age'[p] \in {Never, 0} \/ (p \in sourceLinks /\ age'[p] = age[p]),
             entry' \subseteq entry,
             \A w \in Workers : worker'[w].at = "store" =>
               /\ worker[w].at = "store" /\ worker'[w].rows = worker[w].rows
               /\ worker'[w].ids = worker[w].ids /\ worker'[w].left = worker[w].left
      PROVE  DeadlinesHold'
  <2>1. \A e \in entry' : e.rows = "all" => Bounded(e.ids, e.left)'
    BY <1>0, <1>1, <1>3, BoundedKept DEF DeadlinesHold
  <2>2. ASSUME NEW w \in Workers, worker'[w].at = "store" /\ worker'[w].rows = "all"
        PROVE  Bounded(worker[w].ids, worker[w].left)'
    BY <1>0, <1>2, <1>3, <2>2, BoundedKept DEF DeadlinesHold
  <2> QED
    BY <1>3, <2>1, <2>2 DEF DeadlinesHold, Bounded
<1>4. ASSUME NEW w \in Workers, NEW p \in Pairs, CreateSourceLink(w, p) PROVE DeadlinesHold'
  <2>1. age[p] = Never
    BY <1>0, <1>4 DEF TargetsTypeOK, CreateSourceLink
  <2>2. \A v \in Workers : worker'[v].at = "store" => worker'[v] = worker[v]
    BY <1>0, <1>4 DEF TargetsTypeOK, CreateSourceLink
  <2> QED
    BY <1>3, <1>4, <2>1, <2>2 DEF CreateSourceLink
<1>5. ASSUME NEW S \in SUBSET sourceLinks, NEW w \in Workers, NEW s, s.at # "store", Removed(S, w, s),
             entry' = entry
      PROVE  DeadlinesHold'
  <2>1. \A q \in sourceLinks' : q \in sourceLinks /\ age'[q] = age[q]
    BY <1>0, <1>5 DEF Removed, TargetsTypeOK
  <2>2. \A v \in Workers : worker'[v].at = "store" =>
          /\ worker[v].at = "store" /\ worker'[v].rows = worker[v].rows
          /\ worker'[v].ids = worker[v].ids /\ worker'[v].left = worker[v].left
    <3> SUFFICES ASSUME NEW v \in Workers, worker'[v].at = "store"
                 PROVE  /\ worker[v].at = "store" /\ worker'[v].rows = worker[v].rows
                        /\ worker'[v].ids = worker[v].ids /\ worker'[v].left = worker[v].left
      OBVIOUS
    <3>1. v # w
      BY <1>5 DEF Removed
    <3>2. worker[v].at \in {"query", "store", "found"} =>
            worker[v] \in Fetching
            /\ worker'[v] = [worker[v] EXCEPT !.old = @ \ (TargetsOf(S) \ TargetsOf(sourceLinks \ S))]
      BY <1>0, <1>5, <3>1, FetchingFields DEF Removed
    <3>3. worker[v].at \notin {"query", "store", "found"} => worker'[v] = worker[v]
      BY <1>5, <3>1 DEF Removed
    <3> QED
      BY <3>2, <3>3 DEF Fetching
  <2> QED
    BY <1>3, <1>5, <2>1, <2>2
<1>6. ASSUME NEW w \in Workers, NEW S \in SUBSET sourceLinks, DeleteLinks(w, S) PROVE DeadlinesHold'
  BY <1>5, <1>6 DEF DeleteLinks
<1>7. ASSUME NEW w \in Workers, NEW c \in SourceCategories, DeleteSourceCategory(w, c) PROVE DeadlinesHold'
  <2> DEFINE S == {p \in sourceLinks : p[2] = c}
  <2>1. Fetch("purge").at # "store"
    BY DEF Fetch
  <2>2. Removed(S, w, Fetch("purge")) /\ entry' = entry
    BY <1>7 DEF DeleteSourceCategory
  <2> QED
    BY <1>5, <2>1, <2>2
<1>8. ASSUME NEW w \in Workers, DropEntry(w) PROVE DeadlinesHold'
  <2>1. \A p \in sourceLinks' : age'[p] \in {Never, 0} \/ (p \in sourceLinks /\ age'[p] = age[p])
    BY <1>0, <1>8 DEF DropEntry, TargetsTypeOK
  <2>2. entry' \subseteq entry /\ \A v \in Workers : worker'[v].at = "store" => worker'[v] = worker[v]
    BY <1>0, <1>8 DEF DropEntry, Ends, TargetsIdle, TargetsTypeOK
  <2> QED
    BY <1>3, <2>1, <2>2
<1>9. ASSUME NEW w \in Workers,
             \/ \E c \in SourceCategories : Change(w, c)
             \/ Lookup(w) \/ QueryError(w) \/ Reach(w)
      PROVE  DeadlinesHold'
  <2>1. UNCHANGED <<sourceLinks, age, entry>>
    BY <1>9 DEF Change, Lookup, QueryError, Reach
  <2>2. worker'[w].at # "store" /\ \A v \in Workers \ {w} : worker'[v] = worker[v]
    <3>1. CASE \E c \in SourceCategories : Change(w, c)
      BY <1>0, <3>1 DEF Change, Fetch, TargetsTypeOK
    <3>2. CASE Lookup(w)
      <4>1. worker[w] \in Fetching
        BY <1>0, <3>2, FetchingFields DEF Lookup
      <4>2. \A o, i, r : [worker[w] EXCEPT !.at = "found", !.old = o, !.ids = i, !.rows = r].at = "found"
        BY <4>1 DEF Fetching
      <4>3. \A o : [worker[w] EXCEPT !.at = "query", !.old = o].at = "query"
        BY <4>1 DEF Fetching
      <4>4. \E s : s.at # "store" /\ worker' = [worker EXCEPT ![w] = s]
        BY <3>2, <4>2, <4>3 DEF Lookup
      <4> QED
        BY <1>0, <4>4 DEF TargetsTypeOK
    <3>3. CASE QueryError(w) \/ Reach(w)
      BY <1>0, <3>3 DEF QueryError, Reach, Fetch, TargetsIdle, TargetsTypeOK
    <3> QED
      BY <1>9, <3>1, <3>2, <3>3
  <2> QED
    BY <1>0, <1>3, <2>1, <2>2 DEF TargetsTypeOK
<1>10. ASSUME NEW w \in Workers, NEW ids \in SUBSET Targets, QueryBreaks(w, ids) PROVE DeadlinesHold'
  <2>1. worker[w] \in Fetching
    BY <1>0, <1>10, FetchingFields DEF QueryBreaks
  <2>2. worker'[w].rows = "some"
    BY <1>0, <1>10, <2>1 DEF QueryBreaks, TargetsTypeOK, Fetching
  <2>3. \A v \in Workers \ {w} : worker'[v] = worker[v]
    BY <1>0, <1>10 DEF QueryBreaks, TargetsTypeOK
  <2> QED
    BY <1>0, <1>10, <2>2, <2>3 DEF QueryBreaks, DeadlinesHold, Bounded
<1>11. ASSUME NEW w \in Workers, Store(w) PROVE DeadlinesHold'
  <2>1. worker[w] \in Fetching
    BY <1>0, <1>11, FetchingFields DEF Store
  <2>2. worker'[w].at # "store" /\ \A v \in Workers \ {w} : worker'[v] = worker[v]
    BY <1>0, <1>11, <2>1 DEF Store, TargetsTypeOK, Fetching
  <2>3. \A e \in entry' : e.rows = "all" => Bounded(e.ids, e.left)'
    BY <1>0, <1>11 DEF Store, DeadlinesHold, Bounded
  <2> QED
    BY <1>0, <1>11, <2>2, <2>3 DEF Store, DeadlinesHold, Bounded
<1>12. ASSUME Tick PROVE DeadlinesHold'
  <2>1. ASSUME NEW e \in entry', e.rows = "all" PROVE Bounded(e.ids, e.left)'
    <3>1. PICK d \in entry : e = [d EXCEPT !.left = Before(@)]
      BY <1>12 DEF Tick
    <3>2. d \in Entries
      BY <1>0 DEF TargetsTypeOK
    <3>3. e.ids = d.ids /\ e.rows = d.rows /\ e.left = Before(d.left)
      BY <3>1, <3>2 DEF Entries
    <3>4. Bounded(d.ids, Before(d.left))'
      BY <1>0, <1>1, <1>12, <2>1, <3>3, BoundedTick DEF DeadlinesHold
    <3> QED
      BY <3>3, <3>4
  <2>2. ASSUME NEW w \in Workers, worker'[w].at = "store", worker'[w].rows = "all"
        PROVE  Bounded(worker[w].ids, worker[w].left)'
    <3>1. worker[w].at = "store" /\ worker[w] \in Fetching
          /\ worker'[w] = [worker[w] EXCEPT !.left = Before(@)]
      <4>1. worker[w].at \in {"query", "store"} => worker[w] \in Fetching
        BY <1>0, FetchingFields
      <4> QED
        BY <1>12, <2>2, <4>1 DEF Tick, Fetching
    <3>2. worker'[w].ids = worker[w].ids /\ worker'[w].rows = worker[w].rows
          /\ worker'[w].left = Before(worker[w].left)
      BY <3>1 DEF Fetching
    <3> DEFINE ids == worker[w].ids
               left == worker[w].left
    <3>3. Bounded(ids, left) /\ ids \in SUBSET Targets /\ left \in 0..TTL
      BY <1>0, <1>2, <2>2, <3>1, <3>2 DEF DeadlinesHold
    <3>4. \A p \in sourceLinks' : age'[p] # Never /\ p[1] \notin ids => Before(left) <= TTL - age'[p]
      BY <1>0, <1>12, <3>3, BoundedTick DEF Bounded
    <3> QED
      BY <3>2, <3>4 DEF Bounded
  <2> QED
    BY <2>1, <2>2 DEF DeadlinesHold
<1>13. CASE UNCHANGED targetsVars
  BY <1>0, <1>3, <1>13 DEF targetsVars
<1>14. ASSUME NEW w \in Workers, Query(w) PROVE DeadlinesHold'
  <2>1. worker[w] \in Fetching
    BY <1>0, <1>14, FetchingFields DEF Query
  <2>2. worker'[w].ids = TargetsOf(sourceLinks)
    BY <1>0, <1>14, <2>1 DEF Query, TargetsTypeOK, Fetching
  <2>3. \A v \in Workers \ {w} : worker'[v] = worker[v]
    BY <1>0, <1>14 DEF Query, TargetsTypeOK
  <2>4. Bounded(worker[w].ids, worker[w].left)'
    BY <1>14, <2>2, QueryFindsAll DEF Query, Bounded
  <2> QED
    BY <1>0, <1>14, <2>3, <2>4, ZenonT(60) DEF Query, DeadlinesHold, Bounded
<1> QED
  BY <1>4, <1>6, <1>7, <1>8, <1>9, <1>10, <1>11, <1>12, <1>13, <1>14 DEF TargetsNext, WorkerNext

----------------------------------------------------------------------------
\* What was linked for a TTL at a lookup is in what the lookup ends with.
LEMMA OldKnownStep == TargetsInv /\ [TargetsNext]_targetsVars => OldKnown'
<1> SUFFICES ASSUME TargetsInv, [TargetsNext]_targetsVars PROVE OldKnown'
  OBVIOUS
<1> USE TTLAssumption
<1> DEFINE Knows(v) ==
      /\ worker[v].at = "query" => worker[v].old \subseteq TargetsOf(sourceLinks)
      /\ worker[v].at \in {"store", "found"} /\ worker[v].rows = "all" =>
           worker[v].old \subseteq worker[v].ids
<1>0. TargetsTypeOK /\ DeadlinesHold /\ \A v \in Workers : Knows(v)
  BY DEF TargetsInv, OldKnown
<1>1. SUFFICES ASSUME NEW v \in Workers PROVE Knows(v)'
  BY DEF OldKnown
<1> HIDE DEF Knows
<1>2. worker[v].at \in {"lookup", "query", "store", "found"} => worker[v] \in Fetching
  BY <1>0, FetchingFields
\* Steps that leave the request alone, and take no link away.
<1>3. ASSUME worker'[v] = worker[v], TargetsOf(sourceLinks) \subseteq TargetsOf(sourceLinks)' PROVE Knows(v)'
  BY <1>0, <1>3 DEF Knows
\* Steps after which it knows nothing.
<1>4. ASSUME worker'[v].at \notin {"query", "store", "found"} PROVE Knows(v)'
  BY <1>4 DEF Knows
<1>5. ASSUME NEW w \in Workers, NEW p \in Pairs, CreateSourceLink(w, p) PROVE Knows(v)'
  <2>1. TargetsOf(sourceLinks) \subseteq TargetsOf(sourceLinks)'
    BY <1>5 DEF CreateSourceLink, TargetsOf
  <2>2. CASE v = w
    BY <1>0, <1>4, <1>5, <2>2 DEF CreateSourceLink, TargetsTypeOK
  <2>3. CASE v # w
    BY <1>0, <1>3, <1>5, <2>1, <2>3 DEF CreateSourceLink, TargetsTypeOK
  <2> QED
    BY <2>2, <2>3
\* Removed takes from old the targets that have lost their last link.
<1>6. ASSUME NEW S \in SUBSET sourceLinks, NEW w \in Workers, NEW s,
             s.at \notin {"query", "store", "found"}, Removed(S, w, s)
      PROVE  Knows(v)'
  <2>1. CASE v = w \/ worker[v].at \notin {"query", "store", "found"}
    BY <1>4, <1>6, <2>1 DEF Removed
  <2>2. CASE v # w /\ worker[v].at \in {"query", "store", "found"}
    <3> DEFINE gone == TargetsOf(S) \ TargetsOf(sourceLinks \ S)
    <3>1. worker'[v] = [worker[v] EXCEPT !.old = @ \ gone] /\ sourceLinks' = sourceLinks \ S
      BY <1>6, <2>2 DEF Removed
    <3>2. /\ worker'[v].old = worker[v].old \ gone
          /\ worker'[v].at = worker[v].at /\ worker'[v].ids = worker[v].ids
          /\ worker'[v].rows = worker[v].rows
      BY <1>2, <2>2, <3>1 DEF Fetching
    <3>3. TargetsOf(sourceLinks) \ gone \subseteq TargetsOf(sourceLinks \ S)
      BY DEF TargetsOf
    <3>4. TargetsOf(sourceLinks)' = TargetsOf(sourceLinks \ S)
      BY <3>1 DEF TargetsOf
    <3> QED
      BY <1>0, <3>2, <3>3, <3>4 DEF Knows
  <2> QED
    BY <2>1, <2>2
<1>7. ASSUME NEW w \in Workers, NEW S \in SUBSET sourceLinks, DeleteLinks(w, S) PROVE Knows(v)'
  BY <1>6, <1>7 DEF DeleteLinks
<1>8. ASSUME NEW w \in Workers, NEW c \in SourceCategories, DeleteSourceCategory(w, c) PROVE Knows(v)'
  <2> DEFINE S == {p \in sourceLinks : p[2] = c}
  <2>1. Fetch("purge").at \notin {"query", "store", "found"}
    BY DEF Fetch
  <2>2. Removed(S, w, Fetch("purge"))
    BY <1>8 DEF DeleteSourceCategory
  <2> QED
    BY <1>6, <2>1, <2>2
\* The other steps of a request leave the links alone, and the other requests.
<1>9. ASSUME NEW w \in Workers,
             \/ DropEntry(w) \/ (\E c \in SourceCategories : Change(w, c))
             \/ Lookup(w) \/ Query(w) \/ (\E ids \in SUBSET Targets : QueryBreaks(w, ids))
             \/ QueryError(w) \/ Store(w) \/ Reach(w)
      PROVE  sourceLinks' = sourceLinks /\ (v # w => worker'[v] = worker[v])
  BY <1>0, <1>9 DEF DropEntry, Ends, Change, Lookup, Query, QueryBreaks, QueryError, Store, Reach, TargetsTypeOK
<1>10. ASSUME DropEntry(v) \/ (\E c \in SourceCategories : Change(v, c)) \/ QueryError(v) \/ Reach(v)
       PROVE  Knows(v)'
  <2>1. worker'[v].at \notin {"query", "store", "found"}
    <3>1. CASE DropEntry(v)
      BY <1>0, <3>1 DEF DropEntry, Ends, TargetsIdle, TargetsTypeOK
    <3>2. CASE \E c \in SourceCategories : Change(v, c)
      BY <1>0, <3>2 DEF Change, Fetch, TargetsTypeOK
    <3>3. CASE QueryError(v) \/ Reach(v)
      BY <1>0, <3>3 DEF QueryError, Reach, Fetch, TargetsIdle, TargetsTypeOK
    <3> QED
      BY <1>10, <3>1, <3>2, <3>3
  <2> QED
    BY <1>4, <2>1
\* An entry that is still fresh misses no old target.
<1>11. ASSUME NEW e \in entry, e.left > 0, e.rows = "all" PROVE OldTargets \subseteq e.ids
  <2>1. SUFFICES ASSUME NEW p \in sourceLinks, age[p] = TTL PROVE p[1] \in e.ids
    BY DEF OldTargets, TargetsOf
  <2>2. Bounded(e.ids, e.left) /\ e.left \in 0..TTL
    BY <1>0, <1>11 DEF DeadlinesHold, TargetsTypeOK, Entries
  <2> QED
    BY <1>11, <2>1, <2>2 DEF Bounded, Never
<1>12. OldTargets \subseteq TargetsOf(sourceLinks)
  BY DEF OldTargets, TargetsOf
<1>13. ASSUME Lookup(v) PROVE Knows(v)'
  <2>1. worker[v] \in Fetching
    BY <1>2, <1>13 DEF Lookup
  <2>2. CASE \E e \in entry :
               /\ e.left > 0
               /\ worker' = [worker EXCEPT ![v] =
                    [@ EXCEPT !.at = "found", !.old = OldTargets, !.ids = e.ids, !.rows = e.rows]]
    <3>1. PICK e \in entry :
               /\ e.left > 0
               /\ worker' = [worker EXCEPT ![v] =
                    [@ EXCEPT !.at = "found", !.old = OldTargets, !.ids = e.ids, !.rows = e.rows]]
      BY <2>2
    <3>2. worker'[v] =
            [worker[v] EXCEPT !.at = "found", !.old = OldTargets, !.ids = e.ids, !.rows = e.rows]
      BY <1>0, <3>1 DEF TargetsTypeOK
    <3>3. worker'[v].at = "found" /\ worker'[v].old = OldTargets
          /\ worker'[v].ids = e.ids /\ worker'[v].rows = e.rows
      BY <2>1, <3>2 DEF Fetching
    <3> QED
      BY <1>11, <3>1, <3>3 DEF Knows
  <2>3. CASE worker' = [worker EXCEPT ![v] = [@ EXCEPT !.at = "query", !.old = OldTargets]]
    <3>1. worker'[v] = [worker[v] EXCEPT !.at = "query", !.old = OldTargets]
      BY <1>0, <2>3 DEF TargetsTypeOK
    <3>2. worker'[v].at = "query" /\ worker'[v].old = OldTargets
      BY <2>1, <3>1 DEF Fetching
    <3>3. TargetsOf(sourceLinks)' = TargetsOf(sourceLinks)
      BY <1>13 DEF Lookup, TargetsOf
    <3> QED
      BY <1>12, <3>2, <3>3 DEF Knows
  <2> QED
    BY <1>13, <2>2, <2>3 DEF Lookup
<1>14. ASSUME Query(v) PROVE Knows(v)'
  <2>1. worker[v] \in Fetching
    BY <1>2, <1>14 DEF Query
  <2>2. worker'[v].at = "store" /\ worker'[v].old = worker[v].old /\ worker'[v].ids = TargetsOf(sourceLinks)
    BY <1>0, <1>14, <2>1 DEF Query, TargetsTypeOK, Fetching
  <2> QED
    BY <1>0, <1>14, <2>2 DEF Query, Knows
<1>15. ASSUME NEW ids \in SUBSET Targets, QueryBreaks(v, ids) PROVE Knows(v)'
  <2>1. worker[v] \in Fetching
    BY <1>2, <1>15 DEF QueryBreaks
  <2>2. worker'[v].at = "store" /\ worker'[v].rows = "some"
    BY <1>0, <1>15, <2>1 DEF QueryBreaks, TargetsTypeOK, Fetching
  <2> QED
    BY <2>2 DEF Knows
<1>16. ASSUME Store(v) PROVE Knows(v)'
  <2>1. worker[v] \in Fetching
    BY <1>2, <1>16 DEF Store
  <2>2. /\ worker'[v].at = "found" /\ worker'[v].old = worker[v].old
        /\ worker'[v].ids = worker[v].ids /\ worker'[v].rows = worker[v].rows
    BY <1>0, <1>16, <2>1 DEF Store, TargetsTypeOK, Fetching
  <2> QED
    BY <1>0, <1>16, <2>2 DEF Store, Knows
<1>17. ASSUME Tick PROVE Knows(v)'
  <2>1. TargetsOf(sourceLinks)' = TargetsOf(sourceLinks)
    BY <1>17 DEF Tick, TargetsOf
  <2>2. CASE worker[v].at \in {"query", "store"}
    <3>1. worker'[v] = [worker[v] EXCEPT !.left = Before(@)]
      BY <1>17, <2>2 DEF Tick
    <3>2. /\ worker'[v].at = worker[v].at /\ worker'[v].old = worker[v].old
          /\ worker'[v].ids = worker[v].ids /\ worker'[v].rows = worker[v].rows
      BY <1>2, <2>2, <3>1 DEF Fetching
    <3> QED
      BY <1>0, <2>1, <3>2 DEF Knows
  <2>3. CASE worker[v].at \notin {"query", "store"}
    BY <1>3, <1>17, <2>1, <2>3 DEF Tick
  <2> QED
    BY <2>2, <2>3
<1>18. CASE UNCHANGED targetsVars
  BY <1>3, <1>18 DEF targetsVars, TargetsOf
<1>19. ASSUME NEW w \in Workers,
              \/ DropEntry(w) \/ (\E c \in SourceCategories : Change(w, c))
              \/ Lookup(w) \/ Query(w) \/ (\E ids \in SUBSET Targets : QueryBreaks(w, ids))
              \/ QueryError(w) \/ Store(w) \/ Reach(w)
       PROVE  Knows(v)'
  <2>1. CASE v = w
    BY <1>10, <1>13, <1>14, <1>15, <1>16, <1>19, <2>1
  <2>2. CASE v # w
    <3>1. sourceLinks' = sourceLinks /\ worker'[v] = worker[v]
      BY <1>9, <1>19, <2>2
    <3> QED
      BY <1>3, <3>1 DEF TargetsOf
  <2> QED
    BY <2>1, <2>2
<1> QED
  BY <1>5, <1>7, <1>8, <1>17, <1>18, <1>19 DEF TargetsNext, WorkerNext

----------------------------------------------------------------------------
\* The inductive invariant holds in every reachable state.
THEOREM TargetsInvariance == TargetsSpec => []TargetsInv
<1>1. TargetsInv /\ [TargetsNext]_targetsVars => TargetsInv'
  BY TargetsTypeStep, DeadlineStep, OldKnownStep DEF TargetsInv
<1> QED
  BY TargetsInitInv, <1>1, PTL DEF TargetsSpec

\* The links, the cached list of targets and the requests that read and store it
\* keep their types; links are to categories that exist (the cascade of
\* DeleteCategory), and there is at most one entry for the source.
THEOREM TargetsTypeCorrect == TargetsSpec => []TargetsTypeOK
<1>1. TargetsInv => TargetsTypeOK
  BY DEF TargetsInv
<1> QED
  BY TargetsInvariance, <1>1, PTL

\* For every number of targets, categories, requests and every TTL, a change to
\* the source reaches the targets that have been linked for a TTL, unless a query
\* broke off: fetchTargetBudgetIDs fixes the deadline before it queries, and
\* CreateLink drops the entry after it has inserted.
THEOREM OldLinksAlwaysReached == TargetsSpec => []OldLinksReached
<1>1. TargetsInv => OldLinksReached
  BY DEF TargetsInv, OldKnown, OldLinksReached, Whole, Found
<1> QED
  BY TargetsInvariance, <1>1, PTL

=============================================================================
