-------------------------------- MODULE Links --------------------------------
(***************************************************************************)
(* The rows of budget_links: CreateLink, which checks in four statements   *)
(* and inserts in a fifth, DeleteLink (internal/handlers/links.go),        *)
(* RemoveCollaborator, which removes the member and then the member's      *)
(* links (collaborators.go), and DeleteCategory, whose cascade takes links *)
(* along (categories.go, schema.sql).  Whom a link lets hear of changes is *)
(* in LinkTargets.                                                         *)
(*                                                                         *)
(* The currencies, which CreateLink compares and UpdateBudget may change   *)
(* afterwards, are left out: to CreateLink they are a check that may fail. *)
(***************************************************************************)
EXTENDS Integers, FiniteSets

CONSTANTS Users,
          Budgets,
          Categories, \* ids of categories
          BudgetOf,   \* the budget of each
          Owner,      \* the owner of each budget
          MaxLinks,   \* maxLinksPerBudget
          Requests    \* requests in progress at the same time

ASSUME BudgetOfAssumption == BudgetOf \in [Categories -> Budgets]
ASSUME OwnerAssumption == Owner \in [Budgets -> Users]
ASSUME MaxLinksAssumption == MaxLinks \in Nat \ {0}
ASSUME RequestAssumption == IsFiniteSet(Requests)

VARIABLES
  categories, \* budget_categories: the ids that exist
  members,    \* budget_collaborators: pairs of a user and a budget
  links,      \* budget_links: target, category, by; and what is said below
  request     \* where each request is

linkVars == <<categories, members, links>>

Idle == [at |-> "idle"]

HasAccess(u, b) == Owner[b] = u \/ <<u, b>> \in members

LinksInto(b) == {l \in links : l.target = b}
SourceOf(l) == BudgetOf[l.category]

LinksInit ==
  /\ categories = Categories
  /\ members = {}
  /\ links = {}
  /\ request = [r \in Requests |-> Idle]

Goto(r, s) == request' = [request EXCEPT ![r] = s]

----------------------------------------------------------------------------
(* CreateLink.  Two history values go from the request to the row: stale, the *)
(* user was removed from one of the budgets after the request had started;    *)
(* raced, a link in the opposite direction was inserted after the preflight.  *)

Creating(u, b, c) ==
  [at |-> "source", user |-> u, target |-> b, category |-> c, stale |-> FALSE, raced |-> FALSE]

\* A link to another budget; the target is accessible.
CheckTarget(r, u, b, c) ==
  /\ request[r] = Idle
  /\ BudgetOf[c] # b
  /\ HasAccess(u, b)
  /\ Goto(r, Creating(u, b, c))
  /\ UNCHANGED linkVars

CheckSource(r) ==
  /\ request[r].at = "source"
  /\ Goto(r, IF HasAccess(request[r].user, SourceOf(request[r]))
             THEN [request[r] EXCEPT !.at = "preflight"] ELSE Idle)
  /\ UNCHANGED linkVars

\* Mutant of Reversed: links into the same budget are taken for reverse links.
ReversedWrong(s, b) == \E l \in LinksInto(b) : SourceOf(l) = s

\* There is a link from b into s.
Reversed(s, b) == \E l \in LinksInto(s) : SourceOf(l) = b

BelowLinkLimit(b) == Cardinality(LinksInto(b)) < MaxLinks

\* One statement checks the category, the limit and the reverse link (and the
\* currencies: see Fails).
Preflight(r) ==
  /\ request[r].at = "preflight"
  /\ LET b == request[r].target
         s == SourceOf(request[r])
         ok == request[r].category \in categories /\ BelowLinkLimit(b) /\ ~Reversed(s, b)
     IN  Goto(r, IF ok THEN [request[r] EXCEPT !.at = "link"] ELSE Idle)
  /\ UNCHANGED linkVars

\* The row is inserted, if the category exists and is not linked into the target
\* yet.
InsertLink(r) ==
  /\ request[r].at = "link"
  /\ LET b == request[r].target
         c == request[r].category
     IN  IF c \in categories /\ \A l \in LinksInto(b) : l.category # c
         THEN /\ links' = links \cup {[target |-> b, category |-> c, by |-> request[r].user,
                                       stale |-> request[r].stale, raced |-> request[r].raced]}
              /\ request' = [q \in Requests |->
                   IF q = r THEN Idle
                   ELSE IF request[q].at = "link" /\ request[q].target = BudgetOf[c]
                        /\ SourceOf(request[q]) = b
                   THEN [request[q] EXCEPT !.raced = TRUE]
                   ELSE request[q]]
         ELSE Goto(r, Idle) /\ UNCHANGED links
  /\ UNCHANGED <<categories, members>>

\* A statement fails or, in the preflight, the currencies differ.
Fails(r) ==
  /\ request[r].at \notin {"idle", "cleanup"}
  /\ Goto(r, Idle)
  /\ UNCHANGED linkVars

----------------------------------------------------------------------------
(* DeleteLink and the members *)

\* One statement, with the check for access in it.
DeleteLink(u, l) ==
  /\ l \in links
  /\ HasAccess(u, l.target)
  /\ links' = links \ {l}
  /\ UNCHANGED <<categories, members, request>>

\* A user accepts an invitation (Membership).
Join(u, b) ==
  /\ ~HasAccess(u, b)
  /\ members' = members \cup {<<u, b>>}
  /\ UNCHANGED <<categories, links, request>>

\* Concerns(q, u, b): what request q does rests on user u having access to b.
Concerns(q, u, b) ==
  /\ request[q].at \in {"source", "preflight", "link"}
  /\ request[q].user = u
  /\ b \in {request[q].target, SourceOf(request[q])}

\* RemoveCollaborator's first statement.
RemoveCollaborator(r, u, b) ==
  /\ request[r] = Idle
  /\ <<u, b>> \in members
  /\ members' = members \ {<<u, b>>}
  /\ request' = [q \in Requests |->
                   IF q = r THEN [at |-> "cleanup", user |-> u, budget |-> b]
                   ELSE IF Concerns(q, u, b) THEN [request[q] EXCEPT !.stale = TRUE]
                   ELSE request[q]]
  /\ UNCHANGED <<categories, links>>

\* Mutant of CreatedBy: only the links into the budget.
CreatedByInto(u, b) == {l \in links : l.by = u /\ l.target = b}

\* The links of user u that touch b.
CreatedBy(u, b) == {l \in links : l.by = u /\ b \in {l.target, SourceOf(l)}}

\* The second statement, which also takes links made in the meantime.
CleanUp(r) ==
  /\ request[r].at = "cleanup"
  /\ links' = links \ CreatedBy(request[r].user, request[r].budget)
  /\ Goto(r, Idle)
  /\ UNCHANGED <<categories, members>>

\* It fails, which is only logged: the links stay.
CleanUpFails(r) ==
  /\ request[r].at = "cleanup"
  /\ LET left == CreatedBy(request[r].user, request[r].budget)
     IN  links' = (links \ left) \cup {[l EXCEPT !.stale = TRUE] : l \in left}
  /\ Goto(r, Idle)
  /\ UNCHANGED <<categories, members>>

CascadeToLinks(c) == links' = {l \in links : l.category # c}

----------------------------------------------------------------------------
CreateLink(r) == \E u \in Users, b \in Budgets, c \in Categories : CheckTarget(r, u, b, c)

LinkStep(r) ==
  \/ CheckSource(r) \/ Preflight(r) \/ InsertLink(r) \/ Fails(r)
  \/ \E u \in Users, b \in Budgets : RemoveCollaborator(r, u, b)
  \/ CleanUp(r) \/ CleanUpFails(r)

LinksNext ==
  \/ \E r \in Requests : LinkStep(r)
  \/ \E u \in Users, l \in links : DeleteLink(u, l)
  \/ \E u \in Users, b \in Budgets : Join(u, b)

----------------------------------------------------------------------------
(* Properties *)

\* Two budgets link to each other only if the two links were created at the same
\* time: the check and the insertion are two statements (links.go:207).
CircleOnlyInRace ==
  \A k, l \in links : k.target = SourceOf(l) /\ l.target = SourceOf(k) => k.raced \/ l.raced

\* Who created a link can see both its budgets, or is being removed from one; but
\* for links whose removal failed, or whose creation the removal has overtaken
\* (collaborators.go:198-206).
CreatorsHaveAccess ==
  \A l \in links : \A b \in {l.target, SourceOf(l)} :
    \/ HasAccess(l.by, b)
    \/ l.stale
    \/ \E r \in Requests : request[r] = [at |-> "cleanup", user |-> l.by, budget |-> b]

\* A budget has no more links than the limit and one for each other request that
\* had passed the check by then.
LinkOverrunBounded ==
  \A b \in Budgets :
    Cardinality(LinksInto(b)) + Cardinality({r \in Requests : request[r].at = "link"
                                                           /\ request[r].target = b})
      <= MaxLinks - 1 + Cardinality(Requests)

=============================================================================
