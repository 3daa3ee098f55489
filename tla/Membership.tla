----------------------------- MODULE Membership -----------------------------
(***************************************************************************)
(* Who may use a budget: owners, collaborators and invites, with the two   *)
(* limits on them (internal/handlers/invites.go, collaborators.go,         *)
(* budgets.go, migrate.go and DeleteAccount of auth.go).                   *)
(*                                                                         *)
(* A worker is a request; each of its SQL statements is a step, and sees   *)
(* what was committed when it began.  AcceptInvite's transaction keeps the *)
(* invite's row locked from its UPDATE on, and from its INSERT on the rows *)
(* of the budget and of the user, which the foreign keys share-lock: a     *)
(* deletion of any of them waits, or is aborted as a deadlock, and so does *)
(* nothing until the transaction ends.  The deletions themselves are one   *)
(* step, their commit.  Ids are never used twice.  The caches and          *)
(* broadcasts that follow a commit decide nothing about membership.        *)
(***************************************************************************)
EXTENDS Integers, FiniteSets

CONSTANTS Users, Budgets, Invites, \* ids
          Leavers,                 \* the users that may delete their accounts
          Workers,                 \* requests in progress at the same time
          MaxCollaborators,        \* maxCollaboratorsPerBudget
          MaxBudgets               \* maxBudgetsPerUser

ASSUME LimitAssumption == MaxCollaborators \in Nat \ {0} /\ MaxBudgets \in Nat \ {0}
ASSUME WorkerAssumption == IsFiniteSet(Workers)
ASSUME IdAssumption == IsFiniteSet(Users) /\ IsFiniteSet(Budgets) /\ Leavers \subseteq Users

VARIABLES
  profiles,  \* users whose profile exists
  owner,     \* budget -> user_id, a partial function
  collab,    \* budget_collaborators: pairs of budget and user
  invite,    \* invite -> [budget, used, expired], a partial function; used is
             \* the set of used_by
  spent,     \* ids of budgets and invites handed out so far
  via,       \* history: pairs of an invite and a user it has admitted
  tx         \* where each worker is

vars == <<profiles, owner, collab, invite, spent, via, tx>>

Idle == [at |-> "idle"]

TxStates ==
  {Idle}
    \cup [at : {"create"}, user : Users]
    \cup [at : {"invite"}, budget : Budgets]
    \cup [at : {"check", "mark", "insert", "commit"}, user : Users, invite : Invites,
          budget : Budgets]

InviteRows == [budget : Budgets, used : SUBSET Users, expired : BOOLEAN]

\* Workers whose AcceptInvite transaction has the invite's row locked.
Marked == {w \in Workers : tx[w].at \in {"insert", "commit"}}

\* The types of the variables; a locked row exists, and is the budget's.
TypeOK ==
  /\ profiles \subseteq Users
  /\ DOMAIN owner \subseteq Budgets /\ owner \in [DOMAIN owner -> Users]
  /\ collab \subseteq Budgets \X Users
  /\ DOMAIN invite \subseteq Invites /\ invite \in [DOMAIN invite -> InviteRows]
  /\ spent \subseteq Budgets \cup Invites
  /\ via \subseteq Invites \X Users
  /\ tx \in [Workers -> TxStates]
  /\ \A w \in Marked : /\ tx[w].invite \in DOMAIN invite
                       /\ invite[tx[w].invite].budget = tx[w].budget

Init ==
  /\ profiles = Users
  /\ owner = [b \in {} |-> {}]
  /\ collab = {}
  /\ invite = [i \in {} |-> {}]
  /\ spent = {}
  /\ via = {}
  /\ tx = [w \in Workers |-> Idle]

----------------------------------------------------------------------------
(* What the statements count and lock *)

Collaborators(b) == {u \in Users : <<b, u>> \in collab}

Owned(u) == {b \in DOMAIN owner : owner[b] = u}
Shared(u) == {b \in Budgets : <<b, u>> \in collab}

\* The number of budgets a user can use, as both limit checks count it.
BudgetTotal(u) == Cardinality(Owned(u)) + Cardinality(Shared(u))

\* Mutant of Locked: nobody waits for a row.
LockedNever(i) == FALSE

\* The row of invite i is locked.
Locked(i) == \E w \in Marked : tx[w].invite = i

\* Rows that a deletion of the budgets S and of the users U would have to change
\* are locked by a transaction that accepts an invite.
Pinned(S, U) == \E w \in Marked : tx[w].budget \in S \/ tx[w].user \in U

Goto(w, s) == tx' = [tx EXCEPT ![w] = s]

\* The next statement of AcceptInvite.
Step(w, at) == Goto(w, [tx[w] EXCEPT !.at = at])

----------------------------------------------------------------------------
(* Budgets: CreateBudget, and every round of Migrate's loop *)

\* enforceUserBudgetLimit, and the same check of AcceptInvite.
UnderBudgetLimit(u) == BudgetTotal(u) < MaxBudgets

CreateBudgetCheck(w, u) ==
  /\ tx[w] = Idle
  /\ UnderBudgetLimit(u)
  /\ Goto(w, [at |-> "create", user |-> u])
  /\ UNCHANGED <<profiles, owner, collab, invite, spent, via>>

\* The INSERT; the user's profile must still be there.
CreateBudgetInsert(w, b) ==
  /\ tx[w].at = "create"
  /\ b \notin spent
  /\ tx[w].user \in profiles
  /\ owner' = [x \in DOMAIN owner \cup {b} |-> IF x = b THEN tx[w].user ELSE owner[x]]
  /\ spent' = spent \cup {b}
  /\ Goto(w, Idle)
  /\ UNCHANGED <<profiles, collab, invite, via>>

InvitesOf(S) == {i \in DOMAIN invite : invite[i].budget \in S}

\* The rows of the budgets in S go, and with them, by cascade, what refers to them.
Deleted(S) ==
  /\ owner' = [b \in DOMAIN owner \ S |-> owner[b]]
  /\ collab' = {p \in collab : p[1] \notin S}

DeleteBudget(u, b) ==
  /\ b \in Owned(u)
  /\ ~Pinned({b}, {})
  /\ Deleted({b})
  /\ invite' = [i \in DOMAIN invite \ InvitesOf({b}) |-> invite[i]]
  /\ UNCHANGED <<profiles, spent, via, tx>>

----------------------------------------------------------------------------
(* Invites *)

\* CreateInvite: ownership and the collaborator count, then the INSERT.
CreateInviteCheck(w, u, b) ==
  /\ tx[w] = Idle
  /\ b \in Owned(u)
  /\ Cardinality(Collaborators(b)) < MaxCollaborators
  /\ Goto(w, [at |-> "invite", budget |-> b])
  /\ UNCHANGED <<profiles, owner, collab, invite, spent, via>>

CreateInviteInsert(w, i) ==
  /\ tx[w].at = "invite"
  /\ i \notin spent
  /\ tx[w].budget \in DOMAIN owner
  /\ invite' = [x \in DOMAIN invite \cup {i} |->
                  IF x = i THEN [budget |-> tx[w].budget, used |-> {}, expired |-> FALSE]
                           ELSE invite[x]]
  /\ spent' = spent \cup {i}
  /\ Goto(w, Idle)
  /\ UNCHANGED <<profiles, owner, collab, via>>

\* inviteExpiry has passed.
Expire(i) ==
  /\ i \in DOMAIN invite
  /\ ~invite[i].expired
  /\ invite' = [invite EXCEPT ![i].expired = TRUE]
  /\ UNCHANGED <<profiles, owner, collab, spent, via, tx>>

----------------------------------------------------------------------------
(* AcceptInvite *)

\* The invite is read and its expiry checked.
AcceptFetch(w, u, i) ==
  /\ tx[w] = Idle
  /\ i \in DOMAIN invite
  /\ ~invite[i].expired
  /\ Goto(w, [at |-> "check", user |-> u, invite |-> i, budget |-> invite[i].budget])
  /\ UNCHANGED <<profiles, owner, collab, invite, spent, via>>

\* One query: not the owner, not yet a collaborator, under the limit.
AcceptCheck(w) ==
  /\ tx[w].at = "check"
  /\ tx[w].budget \notin Owned(tx[w].user)
  /\ <<tx[w].budget, tx[w].user>> \notin collab
  /\ UnderBudgetLimit(tx[w].user)
  /\ Step(w, "mark")
  /\ UNCHANGED <<profiles, owner, collab, invite, spent, via>>

\* Mutant of AcceptMark: the UPDATE is not part of the transaction.
AcceptMarkAtOnce(w) ==
  /\ tx[w].at = "mark"
  /\ ~Locked(tx[w].invite)
  /\ tx[w].invite \in DOMAIN invite
  /\ invite[tx[w].invite].used = {}
  /\ tx[w].user \in profiles
  /\ Step(w, "insert")
  /\ invite' = [invite EXCEPT ![tx[w].invite].used = {tx[w].user}]
  /\ UNCHANGED <<profiles, owner, collab, spent, via>>

\* BEGIN and UPDATE ... WHERE used_by IS NULL, which waits for the row's lock.
AcceptMark(w) ==
  /\ tx[w].at = "mark"
  /\ ~Locked(tx[w].invite)
  /\ tx[w].invite \in DOMAIN invite
  /\ invite[tx[w].invite].used = {}
  /\ tx[w].user \in profiles
  /\ Step(w, "insert")
  /\ UNCHANGED <<profiles, owner, collab, invite, spent, via>>

\* Mutant of UnderCap: a place too many.
UnderCapOrAt(b) == Cardinality(Collaborators(b)) <= MaxCollaborators

\* The count of the INSERT ... WHERE: committed rows only.
UnderCap(b) == Cardinality(Collaborators(b)) < MaxCollaborators

\* The INSERT, not yet committed.  The unique key waits for the same row of
\* another transaction, and refuses a second one.
AcceptInsert(w) ==
  /\ tx[w].at = "insert"
  /\ UnderCap(tx[w].budget)
  /\ <<tx[w].budget, tx[w].user>> \notin collab
  /\ ~\E v \in Workers : /\ tx[v].at = "commit"
                         /\ tx[v].budget = tx[w].budget /\ tx[v].user = tx[w].user
  /\ Step(w, "commit")
  /\ UNCHANGED <<profiles, owner, collab, invite, spent, via>>

AcceptCommit(w) ==
  /\ tx[w].at = "commit"
  /\ collab' = collab \cup {<<tx[w].budget, tx[w].user>>}
  /\ invite' = [invite EXCEPT ![tx[w].invite].used = {tx[w].user}]
  /\ via' = via \cup {<<tx[w].invite, tx[w].user>>}
  /\ Goto(w, Idle)
  /\ UNCHANGED <<profiles, owner, spent>>

----------------------------------------------------------------------------
(* Leaving *)

\* RemoveCollaborator by the owner u: one DELETE.
RemoveCollaborator(u, b, v) ==
  /\ v # u
  /\ b \in Owned(u)
  /\ <<b, v>> \in collab
  /\ collab' = collab \ {<<b, v>>}
  /\ UNCHANGED <<profiles, owner, invite, spent, via, tx>>

\* Mutant of DeleteAccount: used_by is not cleared.
DeleteAccountKeepsUse(u) ==
  /\ u \in profiles
  /\ ~Pinned(Owned(u), {u})
  /\ profiles' = profiles \ {u}
  /\ owner' = [b \in DOMAIN owner \ Owned(u) |-> owner[b]]
  /\ collab' = {p \in collab : p[1] \notin Owned(u) /\ p[2] # u}
  /\ invite' = [i \in DOMAIN invite \ InvitesOf(Owned(u)) |-> invite[i]]
  /\ UNCHANGED <<spent, via, tx>>

\* The user's budgets and all they hold go, the user's memberships elsewhere,
\* and the user's name on invites to other budgets.
DeleteAccount(u) ==
  /\ u \in profiles
  /\ ~Pinned(Owned(u), {u})
  /\ profiles' = profiles \ {u}
  /\ owner' = [b \in DOMAIN owner \ Owned(u) |-> owner[b]]
  /\ collab' = {p \in collab : p[1] \notin Owned(u) /\ p[2] # u}
  /\ invite' = [i \in DOMAIN invite \ InvitesOf(Owned(u)) |->
                  [invite[i] EXCEPT !.used = @ \ {u}]]
  /\ UNCHANGED <<spent, via, tx>>

\* A failed check, a refused statement, an error or a lost connection: the
\* handler returns and its transaction, if any, is rolled back.
Rollback(w) ==
  /\ tx[w] # Idle
  /\ Goto(w, Idle)
  /\ UNCHANGED <<profiles, owner, collab, invite, spent, via>>

WorkerNext(w) ==
  \/ \E u \in Users : CreateBudgetCheck(w, u)
  \/ \E b \in Budgets : CreateBudgetInsert(w, b)
  \/ \E u \in Users, b \in Budgets : CreateInviteCheck(w, u, b)
  \/ \E i \in Invites : CreateInviteInsert(w, i)
  \/ \E u \in Users, i \in Invites : AcceptFetch(w, u, i)
  \/ AcceptCheck(w) \/ AcceptMark(w) \/ AcceptInsert(w) \/ AcceptCommit(w)
  \/ Rollback(w)

Next ==
  \/ \E w \in Workers : WorkerNext(w)
  \/ \E i \in Invites : Expire(i)
  \/ \E u \in Leavers : DeleteAccount(u)
  \/ \E u \in Users, b \in Budgets : DeleteBudget(u, b)
  \/ \E u, v \in Users, b \in Budgets : RemoveCollaborator(u, b, v)

Spec == Init /\ [][Next]_vars

----------------------------------------------------------------------------
(* Properties *)

\* No row outlives what it refers to: every collaborator has a profile and a
\* budget, every invite a budget, and the user of every transaction that is past
\* its UPDATE still exists.  And nobody is both the owner of a budget and a
\* collaborator on it.
NoOrphans ==
  /\ \A b \in DOMAIN owner : owner[b] \in profiles
  /\ \A p \in collab : p[1] \in DOMAIN owner /\ p[2] \in profiles /\ owner[p[1]] # p[2]
  /\ \A i \in DOMAIN invite : invite[i].budget \in DOMAIN owner /\ invite[i].used \subseteq profiles
  /\ \A w \in Marked : tx[w].user \in profiles

\* Of the users that exist, an invite has admitted at most one, however many
\* requests accepted it at the same time (the UPDATE's "used_by IS NULL").
OneAdmission ==
  \A i \in Invites : \A u, v \in profiles : <<i, u>> \in via /\ <<i, v>> \in via => u = v

\* An invite is only ever marked as used by a user it has admitted: a failed
\* acceptance does not use it up (the comment at invites.go:362-365).
UsedMeansAdmitted ==
  \A i \in DOMAIN invite : \A u \in invite[i].used : <<i, u>> \in via

\* The workers that are about to add a collaborator to b.
Joining(b) == {w \in Workers : tx[w].at = "commit" /\ tx[w].budget = b}

\* The collaborator limit is exceeded, if at all, by fewer than the number of
\* requests that overlap: members and members to be are bounded together.
OverrunBounded ==
  \A b \in Budgets :
    Cardinality(Collaborators(b)) + Cardinality(Joining(b))
      <= MaxCollaborators - 1 + Cardinality(Workers)

=============================================================================
