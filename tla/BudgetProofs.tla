---------------------------- MODULE BudgetProofs ----------------------------
(***************************************************************************)
(* Proofs about budgets.  First Membership, for every number of users,     *)
(* budgets, invites and overlapping requests, and every limit.  Then       *)
(* Allocation, for every template, income and cap and any number of        *)
(* transactions.  Its sums are folds over sets, of which nothing is known  *)
(* but the recursion they are defined by; a sum is shown to count the      *)
(* units of its terms, from which the laws of sums follow.                 *)
(***************************************************************************)
EXTENDS Membership, Allocation, FiniteSetTheorems, WellFoundedInduction, TLAPS

\* Ids that rows, admissions and requests refer to have been handed out, and so
\* name nothing that is created later: an invite is for the budget that it was for
\* when it was read.
IdsSpent ==
  /\ DOMAIN owner \subseteq spent
  /\ DOMAIN invite \subseteq spent
  /\ \A i \in Invites, u \in Users : <<i, u>> \in via => i \in spent
  /\ \A w \in Workers : tx[w].at \in {"check", "mark", "insert", "commit"} =>
       /\ tx[w].budget \in spent /\ tx[w].invite \in spent
       /\ tx[w].invite \in DOMAIN invite => invite[tx[w].invite].budget = tx[w].budget

\* What AcceptCheck has found stays true: a budget never gets another owner.
StillNotOwner ==
  \A w \in Workers :
    tx[w].at \in {"mark", "insert", "commit"} =>
      ~(tx[w].budget \in DOMAIN owner /\ owner[tx[w].budget] = tx[w].user)

\* A transaction that has its invite's row locked is the only one, and the row is
\* still unused.
RowLocks ==
  \A w \in Marked :
    /\ invite[tx[w].invite].used = {}
    /\ \A v \in Marked : tx[v].invite = tx[w].invite => v = w

\* An invite whose row is there says whom it has admitted, if that user exists.
AdmissionsRecorded ==
  \A i \in DOMAIN invite : \A u \in profiles : <<i, u>> \in via => invite[i].used = {u}

\* The inductive invariant.
IInv ==
  /\ TypeOK /\ NoOrphans /\ IdsSpent /\ StillNotOwner /\ RowLocks
  /\ AdmissionsRecorded /\ OneAdmission /\ UsedMeansAdmitted /\ OverrunBounded

\* The part of it that is about single rows and requests.
RowsInv ==
  /\ TypeOK /\ NoOrphans /\ IdsSpent /\ StillNotOwner /\ RowLocks
  /\ AdmissionsRecorded /\ OneAdmission /\ UsedMeansAdmitted

----------------------------------------------------------------------------
(* Rows and requests, action by action *)

\* The check of CreateBudget changes no row.
LEMMA CreateBudgetCheckKeeps ==
  ASSUME RowsInv, NEW w \in Workers, NEW u \in Users, CreateBudgetCheck(w, u)
  PROVE  RowsInv'
<1> USE IdAssumption DEF RowsInv, TypeOK, TxStates, InviteRows, Idle, Marked, CreateBudgetCheck, Goto
<1>1. TypeOK'
  OBVIOUS
<1>2. (NoOrphans /\ IdsSpent /\ StillNotOwner /\ RowLocks /\ AdmissionsRecorded /\ OneAdmission /\ UsedMeansAdmitted)'
  BY DEF NoOrphans, IdsSpent, StillNotOwner, RowLocks, AdmissionsRecorded, OneAdmission, UsedMeansAdmitted
<1>3. QED
  BY <1>1, <1>2

\* A new budget has an id that nothing refers to.
LEMMA CreateBudgetInsertKeeps ==
  ASSUME RowsInv, NEW w \in Workers, NEW b \in Budgets, CreateBudgetInsert(w, b)
  PROVE  RowsInv'
<1> USE IdAssumption DEF RowsInv, TypeOK, TxStates, InviteRows, Idle, Marked, CreateBudgetInsert, Goto
<1>1. TypeOK'
  OBVIOUS
<1>2. (NoOrphans /\ IdsSpent /\ StillNotOwner)'
  BY DEF NoOrphans, IdsSpent, StillNotOwner
<1>3. (RowLocks /\ AdmissionsRecorded /\ OneAdmission /\ UsedMeansAdmitted)'
  BY DEF RowLocks, AdmissionsRecorded, OneAdmission, UsedMeansAdmitted
<1>4. QED
  BY <1>1, <1>2, <1>3

\* The transactions that a deletion waits for are those that rely on its rows.
LEMMA DeleteBudgetKeeps ==
  ASSUME RowsInv, NEW u \in Users, NEW b \in Budgets, DeleteBudget(u, b)
  PROVE  RowsInv'
<1> USE IdAssumption DEF RowsInv, TypeOK, TxStates, InviteRows, Idle, Marked, DeleteBudget, Goto
<1>1. TypeOK'
  BY DEF Pinned, Deleted, InvitesOf
<1>2. NoOrphans'
  BY DEF NoOrphans, Pinned, Deleted, InvitesOf
<1>3. (IdsSpent /\ StillNotOwner /\ RowLocks /\ AdmissionsRecorded /\ OneAdmission /\ UsedMeansAdmitted)'
  BY DEF IdsSpent, StillNotOwner, RowLocks, AdmissionsRecorded, OneAdmission, UsedMeansAdmitted, Deleted, InvitesOf, Pinned
<1>4. QED
  BY <1>1, <1>2, <1>3

\* The checks of CreateInvite change no row.
LEMMA CreateInviteCheckKeeps ==
  ASSUME RowsInv, NEW w \in Workers, NEW u \in Users, NEW b \in Budgets, CreateInviteCheck(w, u, b)
  PROVE  RowsInv'
<1> USE IdAssumption DEF RowsInv, TypeOK, TxStates, InviteRows, Idle, Marked, CreateInviteCheck, Goto
<1>1. TypeOK'
  BY DEF Owned
<1>2. (NoOrphans /\ IdsSpent /\ StillNotOwner /\ RowLocks /\ AdmissionsRecorded /\ OneAdmission /\ UsedMeansAdmitted)'
  BY DEF NoOrphans, IdsSpent, StillNotOwner, RowLocks, AdmissionsRecorded, OneAdmission, UsedMeansAdmitted
<1>3. QED
  BY <1>1, <1>2

\* A new invite has an id that nothing refers to, and is unused.
LEMMA CreateInviteInsertKeeps ==
  ASSUME RowsInv, NEW w \in Workers, NEW i \in Invites, CreateInviteInsert(w, i)
  PROVE  RowsInv'
<1> USE IdAssumption DEF RowsInv, TypeOK, TxStates, InviteRows, Idle, Marked, CreateInviteInsert, Goto
<1>1. TypeOK'
  BY DEF IdsSpent
<1>2. (NoOrphans /\ IdsSpent /\ StillNotOwner)'
  BY DEF NoOrphans, IdsSpent, StillNotOwner
<1>3. RowLocks'
  BY DEF RowLocks, IdsSpent
<1>4. (AdmissionsRecorded /\ OneAdmission /\ UsedMeansAdmitted)'
  BY DEF AdmissionsRecorded, OneAdmission, UsedMeansAdmitted, IdsSpent, NoOrphans
<1>5. QED
  BY <1>1, <1>2, <1>3, <1>4

\* An invite that expires keeps its budget and its user.
LEMMA ExpireKeeps ==
  ASSUME RowsInv, NEW i \in Invites, Expire(i)
  PROVE  RowsInv'
<1> USE IdAssumption DEF RowsInv, TypeOK, TxStates, InviteRows, Idle, Marked, Expire
<1>1. /\ DOMAIN invite' = DOMAIN invite
      /\ \A x \in DOMAIN invite : invite'[x].used = invite[x].used /\ invite'[x].budget = invite[x].budget
  OBVIOUS
<1>2. TypeOK'
  <2>1. invite' \in [DOMAIN invite -> InviteRows]
    OBVIOUS
  <2> QED
    BY <1>1, <2>1
<1>3. (NoOrphans /\ IdsSpent /\ StillNotOwner)'
  BY <1>1 DEF NoOrphans, IdsSpent, StillNotOwner
<1>4. (RowLocks /\ AdmissionsRecorded /\ OneAdmission /\ UsedMeansAdmitted)'
  BY <1>1 DEF RowLocks, AdmissionsRecorded, OneAdmission, UsedMeansAdmitted
<1>5. QED
  BY <1>1, <1>2, <1>3, <1>4

\* The invite that is read names a budget that exists.
LEMMA AcceptFetchKeeps ==
  ASSUME RowsInv, NEW w \in Workers, NEW u \in Users, NEW i \in Invites, AcceptFetch(w, u, i)
  PROVE  RowsInv'
<1> USE IdAssumption DEF RowsInv, TypeOK, TxStates, InviteRows, Idle, Marked, AcceptFetch, Goto
<1>1. TypeOK'
  OBVIOUS
<1>2. IdsSpent'
  BY DEF IdsSpent, NoOrphans
<1>3. (NoOrphans /\ StillNotOwner /\ RowLocks /\ AdmissionsRecorded /\ OneAdmission /\ UsedMeansAdmitted)'
  BY DEF NoOrphans, StillNotOwner, RowLocks, AdmissionsRecorded, OneAdmission, UsedMeansAdmitted
<1>4. QED
  BY <1>1, <1>2, <1>3

\* The check holds when it is made.
LEMMA AcceptCheckKeeps ==
  ASSUME RowsInv, NEW w \in Workers, AcceptCheck(w)
  PROVE  RowsInv'
<1> USE IdAssumption DEF RowsInv, TypeOK, TxStates, InviteRows, Idle, Marked, AcceptCheck, Goto, Step
<1>1. TypeOK'
  OBVIOUS
<1>2. (StillNotOwner)'
  BY DEF StillNotOwner, Owned
<1>3. (NoOrphans /\ IdsSpent /\ RowLocks /\ AdmissionsRecorded /\ OneAdmission /\ UsedMeansAdmitted)'
  BY DEF NoOrphans, IdsSpent, RowLocks, AdmissionsRecorded, OneAdmission, UsedMeansAdmitted
<1>4. QED
  BY <1>1, <1>2, <1>3

\* The UPDATE locks a row that is unused and that nobody has locked.
LEMMA AcceptMarkKeeps ==
  ASSUME RowsInv, NEW w \in Workers, AcceptMark(w)
  PROVE  RowsInv'
<1> USE IdAssumption DEF RowsInv, TypeOK, TxStates, InviteRows, Idle, Marked, AcceptMark, Goto, Step
<1>1. tx[w].budget = invite[tx[w].invite].budget
  BY DEF IdsSpent
<1>2. tx' \in [Workers -> TxStates]
  OBVIOUS
<1>3. TypeOK'
  BY <1>1, <1>2
<1>4. (NoOrphans /\ IdsSpent /\ StillNotOwner)'
  BY DEF NoOrphans, IdsSpent, StillNotOwner
<1>5. RowLocks'
  BY DEF RowLocks, Locked
<1>6. (AdmissionsRecorded /\ OneAdmission /\ UsedMeansAdmitted)'
  BY DEF AdmissionsRecorded, OneAdmission, UsedMeansAdmitted
<1>7. QED
  BY <1>1, <1>2, <1>3, <1>4, <1>5, <1>6

\* The INSERT is not visible yet.
LEMMA AcceptInsertKeeps ==
  ASSUME RowsInv, NEW w \in Workers, AcceptInsert(w)
  PROVE  RowsInv'
<1> USE IdAssumption DEF RowsInv, TypeOK, TxStates, InviteRows, Idle, Marked, AcceptInsert, Goto, Step
<1>1. TypeOK'
  OBVIOUS
<1>2. (NoOrphans /\ IdsSpent /\ StillNotOwner /\ RowLocks /\ AdmissionsRecorded /\ OneAdmission /\ UsedMeansAdmitted)'
  BY DEF NoOrphans, IdsSpent, StillNotOwner, RowLocks, AdmissionsRecorded, OneAdmission, UsedMeansAdmitted
<1>3. QED
  BY <1>1, <1>2

\* The commit admits the user, who exists, under a row that nobody else has locked.
LEMMA AcceptCommitKeeps ==
  ASSUME RowsInv, NEW w \in Workers, AcceptCommit(w)
  PROVE  RowsInv'
<1> USE IdAssumption DEF RowsInv, TypeOK, TxStates, InviteRows, Idle, Marked, AcceptCommit, Goto
<1>1. TypeOK'
  OBVIOUS
<1>2. /\ tx[w].invite \in DOMAIN invite /\ invite[tx[w].invite].used = {}
      /\ invite[tx[w].invite].budget = tx[w].budget /\ tx[w].user \in profiles
  BY DEF RowLocks, NoOrphans
<1>3. /\ DOMAIN invite' = DOMAIN invite
      /\ \A x \in DOMAIN invite : /\ invite'[x].budget = invite[x].budget
                                /\ x # tx[w].invite => invite'[x] = invite[x]
      /\ invite'[tx[w].invite].used = {tx[w].user}
  BY <1>2
<1>4. NoOrphans'
  BY <1>2, <1>3 DEF NoOrphans, StillNotOwner
<1>5. (IdsSpent /\ StillNotOwner)'
  BY <1>2 DEF IdsSpent, StillNotOwner
<1>6. RowLocks'
  BY <1>2, <1>3 DEF RowLocks
<1>7. \A u \in profiles : <<tx[w].invite, u>> \notin via
  BY <1>2 DEF AdmissionsRecorded
<1>8. AdmissionsRecorded'
  BY <1>2, <1>3, <1>7 DEF AdmissionsRecorded
<1>9. OneAdmission'
  BY <1>7 DEF OneAdmission
<1>10. UsedMeansAdmitted'
  BY <1>3 DEF UsedMeansAdmitted
<1>11. QED
  BY <1>1, <1>2, <1>3, <1>4, <1>5, <1>6, <1>7, <1>8, <1>9, <1>10

\* RemoveCollaborator takes one row away.
LEMMA RemoveCollaboratorKeeps ==
  ASSUME RowsInv, NEW u \in Users, NEW v \in Users, NEW b \in Budgets, RemoveCollaborator(u, b, v)
  PROVE  RowsInv'
<1> USE IdAssumption DEF RowsInv, TypeOK, TxStates, InviteRows, Idle, Marked, RemoveCollaborator
<1>1. TypeOK'
  OBVIOUS
<1>2. (NoOrphans /\ IdsSpent /\ StillNotOwner /\ RowLocks /\ AdmissionsRecorded /\ OneAdmission /\ UsedMeansAdmitted)'
  BY DEF NoOrphans, IdsSpent, StillNotOwner, RowLocks, AdmissionsRecorded, OneAdmission, UsedMeansAdmitted
<1>3. QED
  BY <1>1, <1>2

\* No transaction relies on the rows that DeleteAccount removes, and the user is admitted nowhere afterwards.
LEMMA DeleteAccountKeeps ==
  ASSUME RowsInv, NEW u \in Users, DeleteAccount(u)
  PROVE  RowsInv'
<1> USE IdAssumption DEF RowsInv, TypeOK, TxStates, InviteRows, Idle, Marked, DeleteAccount
<1>1. TypeOK'
  BY DEF Pinned, InvitesOf
<1>2. \A i \in DOMAIN invite' : i \in DOMAIN invite /\ invite'[i].used = invite[i].used \ {u}
  OBVIOUS
<1>3. NoOrphans'
  BY DEF NoOrphans, Owned, Pinned, InvitesOf
<1>4. (IdsSpent /\ StillNotOwner)'
  BY DEF IdsSpent, StillNotOwner, Owned
<1>5. RowLocks'
  BY <1>2 DEF RowLocks, Pinned, InvitesOf
<1>6. (AdmissionsRecorded /\ OneAdmission)'
  BY DEF AdmissionsRecorded, OneAdmission
<1>7. UsedMeansAdmitted'
  BY <1>2, ZenonT(60) DEF UsedMeansAdmitted
<1>8. QED
  BY <1>1, <1>2, <1>3, <1>4, <1>5, <1>6, <1>7

\* A rollback leaves every row as it was.
LEMMA RollbackKeeps ==
  ASSUME RowsInv, NEW w \in Workers, Rollback(w)
  PROVE  RowsInv'
<1> USE IdAssumption DEF RowsInv, TypeOK, TxStates, InviteRows, Idle, Marked, Rollback, Goto
<1>1. TypeOK'
  OBVIOUS
<1>2. (NoOrphans /\ IdsSpent /\ StillNotOwner /\ RowLocks /\ AdmissionsRecorded /\ OneAdmission /\ UsedMeansAdmitted)'
  BY DEF NoOrphans, IdsSpent, StillNotOwner, RowLocks, AdmissionsRecorded, OneAdmission, UsedMeansAdmitted
<1>3. QED
  BY <1>1, <1>2

----------------------------------------------------------------------------
(* The collaborator limit *)

\* A set with one more element has at most one more.
LEMMA AddOne ==
  ASSUME NEW S, NEW x, IsFiniteSet(S)
  PROVE  Cardinality(S \cup {x}) <= Cardinality(S) + 1
<1>1. Cardinality(S) \in Nat
  BY FS_CardinalityType
<1>2. Cardinality(S \cup {x}) = IF x \in S THEN Cardinality(S) ELSE Cardinality(S) + 1
  BY FS_AddElement
<1>3. QED
  BY <1>1, <1>2

\* The sets that OverrunBounded counts are finite.
LEMMA CountsFinite ==
  ASSUME NEW b \in Budgets
  PROVE  /\ IsFiniteSet(Collaborators(b)) /\ Cardinality(Collaborators(b)) \in Nat
         /\ IsFiniteSet(Joining(b)) /\ Cardinality(Joining(b)) \in Nat
         /\ Cardinality(Workers) \in Nat /\ Cardinality(Joining(b)) <= Cardinality(Workers)
<1>1. Collaborators(b) \subseteq Users /\ Joining(b) \subseteq Workers
  BY DEF Collaborators, Joining
<1>2. IsFiniteSet(Users) /\ IsFiniteSet(Workers)
  BY IdAssumption, WorkerAssumption
<1>3. QED
  BY <1>1, <1>2, FS_Subset, FS_CardinalityType

\* So are those of the next state.
LEMMA CountsFinitePrimed ==
  ASSUME NEW b \in Budgets
  PROVE  /\ IsFiniteSet(Collaborators(b)') /\ Cardinality(Collaborators(b)') \in Nat
         /\ IsFiniteSet(Joining(b)') /\ Cardinality(Joining(b)') \in Nat
         /\ Cardinality(Joining(b)') <= Cardinality(Workers)
<1>1. Collaborators(b)' \subseteq Users /\ Joining(b)' \subseteq Workers
  BY DEF Collaborators, Joining
<1>2. IsFiniteSet(Users) /\ IsFiniteSet(Workers)
  BY IdAssumption, WorkerAssumption
<1>3. QED
  BY <1>1, <1>2, FS_Subset, FS_CardinalityType

\* A step that adds neither a collaborator nor a worker about to commit one.
LEMMA FewerKeep ==
  ASSUME OverrunBounded,
         \A b \in Budgets : Collaborators(b)' \subseteq Collaborators(b) /\ Joining(b)' \subseteq Joining(b)
  PROVE  OverrunBounded'
<1> SUFFICES ASSUME NEW b \in Budgets
             PROVE  Cardinality(Collaborators(b)') + Cardinality(Joining(b)')
                      <= MaxCollaborators - 1 + Cardinality(Workers)
  BY DEF OverrunBounded
<1>1. Cardinality(Collaborators(b)') <= Cardinality(Collaborators(b))
  BY CountsFinite, FS_Subset
<1>2. Cardinality(Joining(b)') <= Cardinality(Joining(b))
  BY CountsFinite, FS_Subset
<1>3. QED
  BY <1>1, <1>2, CountsFinite, CountsFinitePrimed, LimitAssumption DEF OverrunBounded

\* The count of the INSERT is below the limit, and no more workers than there are
\* can be about to commit.
LEMMA InsertKeepsOverrun ==
  ASSUME OverrunBounded, TypeOK, NEW w \in Workers, AcceptInsert(w)
  PROVE  OverrunBounded'
<1> SUFFICES ASSUME NEW b \in Budgets
             PROVE  Cardinality(Collaborators(b)') + Cardinality(Joining(b)')
                      <= MaxCollaborators - 1 + Cardinality(Workers)
  BY DEF OverrunBounded
<1>1. Collaborators(b)' = Collaborators(b)
  BY DEF AcceptInsert, Collaborators
<1>2. CASE b = tx[w].budget
  <2>1. Cardinality(Collaborators(b)) <= MaxCollaborators - 1
    BY <1>2, CountsFinite, LimitAssumption DEF AcceptInsert, UnderCap
  <2>2. QED
    BY <1>1, <2>1, CountsFinite, CountsFinitePrimed, LimitAssumption
<1>3. CASE b # tx[w].budget
  <2>1. Joining(b)' = Joining(b)
    BY <1>3 DEF AcceptInsert, Joining, Step, Goto, TypeOK, TxStates, Idle
  <2>2. QED
    BY <1>1, <2>1 DEF OverrunBounded
<1>4. QED
  BY <1>2, <1>3

\* A commit turns one worker about to commit into one collaborator.
LEMMA CommitKeepsOverrun ==
  ASSUME OverrunBounded, TypeOK, NEW w \in Workers, AcceptCommit(w)
  PROVE  OverrunBounded'
<1> SUFFICES ASSUME NEW b \in Budgets
             PROVE  Cardinality(Collaborators(b)') + Cardinality(Joining(b)')
                      <= MaxCollaborators - 1 + Cardinality(Workers)
  BY DEF OverrunBounded
<1> USE DEF TypeOK, TxStates, Idle
<1>1. CASE b = tx[w].budget
  <2>1. Collaborators(b)' = Collaborators(b) \cup {tx[w].user}
    BY <1>1 DEF AcceptCommit, Collaborators
  <2>2. Joining(b)' = Joining(b) \ {w} /\ w \in Joining(b)
    BY <1>1 DEF AcceptCommit, Joining, Goto
  <2>3. Cardinality(Collaborators(b)') <= Cardinality(Collaborators(b)) + 1
    BY <2>1, CountsFinite, AddOne
  <2>4. Cardinality(Joining(b)') = Cardinality(Joining(b)) - 1
    BY <2>2, CountsFinite, FS_RemoveElement
  <2>5. QED
    BY <2>3, <2>4, CountsFinite, CountsFinitePrimed, LimitAssumption DEF OverrunBounded
<1>2. CASE b # tx[w].budget
  <2>1. Collaborators(b)' = Collaborators(b)
    BY <1>2 DEF AcceptCommit, Collaborators
  <2>2. Joining(b)' = Joining(b)
    BY <1>2 DEF AcceptCommit, Joining, Goto
  <2>3. QED
    BY <2>1, <2>2 DEF OverrunBounded
<1>3. QED
  BY <1>1, <1>2

----------------------------------------------------------------------------
(* The theorems *)

\* What holds of a step of Next holds of a stuttering step.
LEMMA StutterKeeps ==
  ASSUME IInv, UNCHANGED vars
  PROVE  IInv'
<1> USE DEF vars
<1>1. TypeOK'
  BY DEF IInv, TypeOK, Marked
<1>2. (NoOrphans /\ IdsSpent /\ StillNotOwner /\ RowLocks)'
  BY DEF IInv, NoOrphans, IdsSpent, StillNotOwner, RowLocks, Marked
<1>3. (AdmissionsRecorded /\ OneAdmission /\ UsedMeansAdmitted)'
  BY DEF IInv, AdmissionsRecorded, OneAdmission, UsedMeansAdmitted
<1>4. OverrunBounded'
  BY FewerKeep DEF IInv, Collaborators, Joining
<1>5. QED
  BY <1>1, <1>2, <1>3, <1>4 DEF IInv

\* The steps of a worker preserve the invariant.
LEMMA WorkerKeeps ==
  ASSUME IInv, NEW w \in Workers, WorkerNext(w)
  PROVE  IInv'
<1>1. RowsInv /\ OverrunBounded /\ TypeOK
  BY DEF IInv, RowsInv
<1> USE DEF TypeOK, TxStates, Idle, Goto, Collaborators, Joining
<1>2. ASSUME NEW u \in Users, CreateBudgetCheck(w, u) PROVE RowsInv' /\ OverrunBounded'
  BY <1>1, <1>2, CreateBudgetCheckKeeps, FewerKeep DEF CreateBudgetCheck
<1>3. ASSUME NEW b \in Budgets, CreateBudgetInsert(w, b) PROVE RowsInv' /\ OverrunBounded'
  BY <1>1, <1>3, CreateBudgetInsertKeeps, FewerKeep DEF CreateBudgetInsert
<1>4. ASSUME NEW u \in Users, NEW b \in Budgets, CreateInviteCheck(w, u, b)
      PROVE  RowsInv' /\ OverrunBounded'
  BY <1>1, <1>4, CreateInviteCheckKeeps, FewerKeep DEF CreateInviteCheck
<1>5. ASSUME NEW i \in Invites, CreateInviteInsert(w, i) PROVE RowsInv' /\ OverrunBounded'
  BY <1>1, <1>5, CreateInviteInsertKeeps, FewerKeep DEF CreateInviteInsert
<1>6. ASSUME NEW u \in Users, NEW i \in Invites, AcceptFetch(w, u, i)
      PROVE  RowsInv' /\ OverrunBounded'
  BY <1>1, <1>6, AcceptFetchKeeps, FewerKeep DEF AcceptFetch
<1>7. CASE AcceptCheck(w)
  BY <1>1, <1>7, AcceptCheckKeeps, FewerKeep, ZenonT(60) DEF AcceptCheck, Step, IInv, RowsInv
<1>8. CASE AcceptMark(w)
  BY <1>1, <1>8, AcceptMarkKeeps, FewerKeep, ZenonT(60) DEF AcceptMark, Step, IInv, RowsInv
<1>9. CASE AcceptInsert(w)
  BY <1>1, <1>9, AcceptInsertKeeps, InsertKeepsOverrun DEF IInv, RowsInv
<1>10. CASE AcceptCommit(w)
  BY <1>1, <1>10, AcceptCommitKeeps, CommitKeepsOverrun DEF IInv, RowsInv
<1>11. CASE Rollback(w)
  BY <1>1, <1>11, RollbackKeeps, FewerKeep DEF Rollback, IInv, RowsInv
<1>12. QED
  BY <1>2, <1>3, <1>4, <1>5, <1>6, <1>7, <1>8, <1>9, <1>10, <1>11 DEF WorkerNext, IInv, RowsInv

\* Every reachable state satisfies the inductive invariant.
THEOREM Invariance == Spec => []IInv
<1>1. Init => IInv
  <2> SUFFICES ASSUME Init PROVE IInv
    OBVIOUS
  <2>1. TypeOK /\ NoOrphans /\ IdsSpent /\ StillNotOwner /\ RowLocks
    BY DEF Init, TypeOK, TxStates, Idle, Marked, NoOrphans, IdsSpent, StillNotOwner, RowLocks
  <2>2. AdmissionsRecorded /\ OneAdmission /\ UsedMeansAdmitted
    BY DEF Init, AdmissionsRecorded, OneAdmission, UsedMeansAdmitted
  <2>3. OverrunBounded
    <3> SUFFICES ASSUME NEW b \in Budgets
                 PROVE  Cardinality(Collaborators(b)) + Cardinality(Joining(b))
                          <= MaxCollaborators - 1 + Cardinality(Workers)
      BY DEF OverrunBounded
    <3>1. Collaborators(b) = {}
      BY DEF Init, Collaborators
    <3>2. QED
      BY <3>1, CountsFinite, FS_EmptySet, LimitAssumption
  <2>4. QED
    BY <2>1, <2>2, <2>3 DEF IInv
<1>2. IInv /\ [Next]_vars => IInv'
  <2> SUFFICES ASSUME IInv, [Next]_vars PROVE IInv'
    OBVIOUS
  <2>1. RowsInv /\ OverrunBounded
    BY DEF IInv, RowsInv
  <2>2. ASSUME NEW i \in Invites, Expire(i) PROVE IInv'
    BY <2>1, <2>2, ExpireKeeps, FewerKeep DEF Expire, Collaborators, Joining, IInv, RowsInv
  <2>3. ASSUME NEW u \in Leavers, DeleteAccount(u) PROVE IInv'
    BY <2>1, <2>3, IdAssumption, DeleteAccountKeeps, FewerKeep
       DEF DeleteAccount, Collaborators, Joining, IInv, RowsInv
  <2>4. ASSUME NEW u \in Users, NEW b \in Budgets, DeleteBudget(u, b) PROVE IInv'
    BY <2>1, <2>4, DeleteBudgetKeeps, FewerKeep
       DEF DeleteBudget, Deleted, Collaborators, Joining, IInv, RowsInv
  <2>5. ASSUME NEW u \in Users, NEW v \in Users, NEW b \in Budgets, RemoveCollaborator(u, b, v)
        PROVE  IInv'
    BY <2>1, <2>5, RemoveCollaboratorKeeps, FewerKeep
       DEF RemoveCollaborator, Collaborators, Joining, IInv, RowsInv
  <2>6. QED
    BY <2>2, <2>3, <2>4, <2>5, WorkerKeeps, StutterKeeps DEF Next
<1>3. QED
  BY <1>1, <1>2, PTL DEF Spec

\* In every reachable state, the variables have their types.
THEOREM TypeCorrect == Spec => []TypeOK
<1>1. IInv => TypeOK
  BY DEF IInv
<1>2. QED
  BY Invariance, <1>1, PTL

\* No row outlives what it refers to, and no owner is a collaborator, whatever
\* overlaps AcceptInvite, DeleteBudget and DeleteAccount.
THEOREM RowsNeverOrphaned == Spec => []NoOrphans
<1>1. IInv => NoOrphans
  BY DEF IInv
<1>2. QED
  BY Invariance, <1>1, PTL

\* An invite admits at most one of the users that exist, however many requests
\* accept it at once.
THEOREM InviteAdmitsOne == Spec => []OneAdmission
<1>1. IInv => OneAdmission
  BY DEF IInv
<1>2. QED
  BY Invariance, <1>1, PTL

\* A failed acceptance never uses an invite up.
THEOREM UseMeansAdmission == Spec => []UsedMeansAdmitted
<1>1. IInv => UsedMeansAdmitted
  BY DEF IInv
<1>2. QED
  BY Invariance, <1>1, PTL

\* The collaborator limit is exceeded by fewer than the number of overlapping
\* requests, whatever the limit and their number.
THEOREM OverrunAlwaysBounded == Spec => []OverrunBounded
<1>1. IInv => OverrunBounded
  BY DEF IInv
<1>2. QED
  BY Invariance, <1>1, PTL

----------------------------------------------------------------------------
(* Allocation *)

\* The states in which a transaction has the budget's row locked.
Holding == {"create_check", "create_insert", "edit_write", "income_check", "income_write"}

\* A transaction that has the row locked is the only one, and the row is there.
LockHeld == \A w \in Writers : allocTx[w].at \in Holding => live /\ lock = {w}

\* What a transaction has checked under the lock still holds: meanwhile categories
\* only go.
CheckHolds(w) ==
  /\ allocTx[w].at = "create_insert" => Total(alloc) + allocTx[w].value <= income
  /\ allocTx[w].at = "edit_write" => allocTx[w].others + allocTx[w].value <= income
  /\ allocTx[w].at = "income_write" /\ allocTx[w].income < income => Total(alloc) <= allocTx[w].income

\* The inductive invariant.
AllocInv == AllocTypeOK /\ CategoryCap /\ LockHeld /\ (\A w \in Writers : CheckHolds(w))

----------------------------------------------------------------------------
(* Sums *)

\* Induction over the subsets of a finite set, with the property as a set: what
\* holds of the empty set, and of a set with one more element, holds of all.
LEMMA SubsetInduction ==
  ASSUME NEW S, IsFiniteSet(S), NEW P, {} \in P,
         \A T \in SUBSET S : \A x \in S \ T : T \in P => T \cup {x} \in P
  PROVE  S \in P
<1> DEFINE C == (SUBSET S) \ P
<1> SUFFICES ASSUME S \notin P PROVE FALSE
  OBVIOUS
<1>1. IsWellFoundedOn(StrictSubsetOrdering(S), SUBSET S)
  BY FS_StrictSubsetOrderingWellFounded, FS_FiniteSubsetsOfFinite
<1>2. C \subseteq SUBSET S /\ C # {}
  OBVIOUS
<1>3. PICK T \in C : \A U \in C : ~(<<U, T>> \in StrictSubsetOrdering(S))
  <2> HIDE DEF C
  <2> QED
    BY <1>1, <1>2, WFMin
<1>4. PICK x \in T : TRUE
  OBVIOUS
<1>5. T \ {x} \notin C
  BY <1>3, <1>4 DEF StrictSubsetOrdering
<1>6. T \ {x} \in SUBSET S /\ x \in S \ (T \ {x}) /\ T = (T \ {x}) \cup {x}
  BY <1>4
<1>7. T \ {x} \in P
  BY <1>5, <1>6
<1>8. T \in P
  BY <1>6, <1>7
<1> QED
  BY <1>8

\* The units of a sum: f[x] of them for each x.
Units(f, S) == UNION {{x} \X (1..f[x]) : x \in S}

\* There are finitely many of them.
LEMMA UnitsFinite ==
  ASSUME NEW f, NEW S, IsFiniteSet(S), \A x \in S : f[x] \in Nat
  PROVE  IsFiniteSet(Units(f, S)) /\ Cardinality(Units(f, S)) \in Nat
<1> DEFINE g == [x \in S |-> {x} \X (1..f[x])]
           R == {{x} \X (1..f[x]) : x \in S}
<1>1. g \in Surjection(S, R)
  BY DEF Surjection
<1>2. \A U \in R : IsFiniteSet(U)
  <2> SUFFICES ASSUME NEW x \in S PROVE IsFiniteSet({x} \X (1..f[x]))
    OBVIOUS
  <2>1. 1 \in Int /\ f[x] \in Int
    OBVIOUS
  <2>2. IsFiniteSet({x}) /\ IsFiniteSet(1..f[x])
    BY <2>1, FS_Singleton, FS_Interval
  <2> QED
    BY <2>2, FS_Product
<1> HIDE DEF g, R
<1>3. IsFiniteSet(R)
  BY <1>1, FS_Surjection
<1>4. IsFiniteSet(UNION R)
  BY <1>2, <1>3, FS_UNION
<1> QED
  BY <1>4, FS_CardinalityType DEF Units, R

\* One element more has its units more.
LEMMA UnitsSplit ==
  ASSUME NEW f, NEW S, IsFiniteSet(S), \A x \in S : f[x] \in Nat, NEW y \in S
  PROVE  Cardinality(Units(f, S)) = f[y] + Cardinality(Units(f, S \ {y}))
<1> DEFINE Own == {y} \X (1..f[y])
           Rest == Units(f, S \ {y})
<1>1. IsFiniteSet(S \ {y})
  BY FS_RemoveElement
<1>2. IsFiniteSet(Rest) /\ Cardinality(Rest) \in Nat
  BY <1>1, UnitsFinite
<1>3. IsFiniteSet(Own) /\ Cardinality(Own) = f[y]
  <2>1. IsFiniteSet({y}) /\ Cardinality({y}) = 1
    BY FS_Singleton
  <2>2. IsFiniteSet(1..f[y]) /\ Cardinality(1..f[y]) = f[y]
    BY FS_Interval
  <2>3. IsFiniteSet(Own) /\ Cardinality(Own) = Cardinality({y}) * Cardinality(1..f[y])
    BY <2>1, <2>2, FS_Product
  <2> QED
    BY <2>1, <2>2, <2>3
<1>4. Units(f, S) = Own \cup Rest /\ Own \cap Rest = {}
  BY DEF Units
<1> HIDE DEF Own, Rest
<1>5. Cardinality(Own \cup Rest) = Cardinality(Own) + Cardinality(Rest) - Cardinality({})
  BY <1>2, <1>3, <1>4, FS_Union
<1>6. Cardinality({}) = 0
  BY FS_EmptySet
<1> QED
  BY <1>2, <1>3, <1>4, <1>5, <1>6 DEF Rest

\* A sum over S, as the fold computes it.
Sum(f, S) == MapThenSumSet(LAMBDA x : f[x], S)

\* h is the fold's table of the sums over the subsets of S.
Tabulates(h, f, S) ==
  h = [s \in SUBSET S |-> IF s = {} THEN 0
                          ELSE f[CHOOSE x \in s : TRUE] + h[s \ {CHOOSE x \in s : TRUE}]]

\* The fold counts the units: there is a table, and no other.
LEMMA SumCounts ==
  ASSUME NEW f, NEW S, IsFiniteSet(S), \A x \in S : f[x] \in Nat
  PROVE  Sum(f, S) = Cardinality(Units(f, S))
<1> DEFINE g == [s \in SUBSET S |-> Cardinality(Units(f, s))]
           h == CHOOSE h : Tabulates(h, f, S)
<1>1. \A s \in SUBSET S : IsFiniteSet(s) /\ \A x \in s : f[x] \in Nat
  BY FS_Subset
<1>2. Cardinality(Units(f, {})) = 0
  <2>1. Units(f, {}) = {}
    BY DEF Units
  <2> QED
    BY <2>1, FS_EmptySet
<1>3. \A s \in SUBSET S : \A y \in s :
        Cardinality(Units(f, s)) = f[y] + Cardinality(Units(f, s \ {y}))
  BY <1>1, UnitsSplit, ZenonT(60)
<1>4. Tabulates(g, f, S)
  <2>1. \A s \in SUBSET S : s \ {CHOOSE x \in s : TRUE} \in SUBSET S
    OBVIOUS
  <2>2. \A s \in SUBSET S : s # {} => (CHOOSE x \in s : TRUE) \in s
    OBVIOUS
  <2>3. \A s \in SUBSET S : g[s] = IF s = {} THEN 0
           ELSE f[CHOOSE x \in s : TRUE] + g[s \ {CHOOSE x \in s : TRUE}]
    BY <1>2, <1>3, <2>1, <2>2
  <2> QED
    BY <2>3 DEF Tabulates
<1>5. Tabulates(h, f, S)
  BY <1>4
<1> HIDE DEF h
<1>6. \A s \in SUBSET S : h[s] = IF s = {} THEN 0
         ELSE f[CHOOSE x \in s : TRUE] + h[s \ {CHOOSE x \in s : TRUE}]
  BY <1>5 DEF Tabulates
<1> DEFINE Same(s) == h[s] = Cardinality(Units(f, s))
           C == {s \in SUBSET S : ~Same(s)}
<1>7. \A s \in SUBSET S : s # {} => \E y \in s : Same(s \ {y}) => Same(s)
  <2> SUFFICES ASSUME NEW s \in SUBSET S, s # {} PROVE \E y \in s : Same(s \ {y}) => Same(s)
    OBVIOUS
  <2> DEFINE y == CHOOSE x \in s : TRUE
  <2>1. y \in s
    OBVIOUS
  <2>2. h[s] = f[y] + h[s \ {y}]
    BY <1>6
  <2> HIDE DEF y
  <2>3. Cardinality(Units(f, s)) = f[y] + Cardinality(Units(f, s \ {y}))
    BY <1>3, <2>1
  <2> QED
    BY <2>1, <2>2, <2>3
<1>8. C = {}
  <2> SUFFICES ASSUME C # {} PROVE FALSE
    OBVIOUS
  <2>1. IsWellFoundedOn(StrictSubsetOrdering(S), SUBSET S)
    BY FS_StrictSubsetOrderingWellFounded, FS_FiniteSubsetsOfFinite
  <2>2. PICK s \in C : \A u \in C : ~(<<u, s>> \in StrictSubsetOrdering(S))
    <3>1. C \subseteq SUBSET S
      OBVIOUS
    <3> HIDE DEF C
    <3> QED
      BY <2>1, <3>1, WFMin
  <2>3. s # {}
    BY <1>2, <1>6
  <2>4. PICK y \in s : Same(s \ {y}) => Same(s)
    BY <1>7, <2>3
  <2>5. s \ {y} \notin C
    <3>1. <<s \ {y}, s>> \in StrictSubsetOrdering(S)
      BY <2>2, <2>4 DEF StrictSubsetOrdering
    <3> QED
      BY <2>2, <3>1
  <2> QED
    BY <2>2, <2>4, <2>5
<1>9. Sum(f, S) = h[S]
  BY DEF Sum, MapThenSumSet, MapThenFoldSet, Tabulates, h
<1> QED
  BY <1>8, <1>9

\* A sum is a natural number, 0 for no elements, and has one term for each element.
LEMMA SumLaws ==
  ASSUME NEW f, NEW S, IsFiniteSet(S), \A x \in S : f[x] \in Nat
  PROVE  /\ Sum(f, S) \in Nat
         /\ Sum(f, {}) = 0
         /\ \A y \in S : Sum(f, S) = f[y] + Sum(f, S \ {y})
<1>1. Sum(f, S) \in Nat
  BY SumCounts, UnitsFinite
<1>2. Sum(f, {}) = 0
  <2>1. Units(f, {}) = {}
    BY DEF Units
  <2>2. IsFiniteSet({}) /\ Cardinality({}) = 0
    BY FS_EmptySet
  <2>3. Sum(f, {}) = Cardinality(Units(f, {}))
    BY <2>2, SumCounts
  <2> QED
    BY <2>1, <2>2, <2>3
<1>3. ASSUME NEW y \in S PROVE Sum(f, S) = f[y] + Sum(f, S \ {y})
  <2>1. IsFiniteSet(S \ {y}) /\ \A x \in S \ {y} : f[x] \in Nat
    BY FS_RemoveElement
  <2>2. Sum(f, S \ {y}) = Cardinality(Units(f, S \ {y}))
    BY <2>1, SumCounts
  <2> QED
    BY <2>2, SumCounts, UnitsSplit
<1> QED
  BY <1>1, <1>2, <1>3

\* Fewer terms make no more.
LEMMA SumOfFewer ==
  ASSUME NEW f, NEW S, IsFiniteSet(S), \A x \in S : f[x] \in Nat,
         NEW g, NEW T \in SUBSET S, \A x \in T : g[x] = f[x]
  PROVE  /\ Sum(g, T) = Sum(f, T)
         /\ Sum(g, T) \in Nat
         /\ Sum(g, T) <= Sum(f, S)
<1>1. IsFiniteSet(T) /\ (\A x \in T : f[x] \in Nat) /\ (\A x \in T : g[x] \in Nat)
  BY FS_Subset
<1>2. Units(g, T) = Units(f, T) /\ Units(f, T) \subseteq Units(f, S)
  BY DEF Units
<1>3. IsFiniteSet(Units(f, S)) /\ Cardinality(Units(f, T)) <= Cardinality(Units(f, S))
  BY <1>2, UnitsFinite, FS_Subset
<1>4. Sum(g, T) = Cardinality(Units(g, T)) /\ Cardinality(Units(g, T)) \in Nat
  BY <1>1, SumCounts, UnitsFinite
<1>5. Sum(f, T) = Cardinality(Units(f, T)) /\ Sum(f, S) = Cardinality(Units(f, S))
  BY <1>1, SumCounts
<1> QED
  BY <1>2, <1>3, <1>4, <1>5

\* A sum depends on its terms only.
LEMMA SumOfSame ==
  ASSUME NEW f, NEW S, IsFiniteSet(S), \A x \in S : f[x] \in Nat,
         NEW g, \A x \in S : g[x] = f[x]
  PROVE  Sum(g, S) = Sum(f, S)
<1>1. S \in SUBSET S
  OBVIOUS
<1> QED
  BY <1>1, SumOfFewer

\* Parts of i, each rounded down, by shares that sum up to the whole at most, are
\* together not more than i.
LEMMA PartsFit ==
  ASSUME NEW S, IsFiniteSet(S), NEW i \in Nat, NEW p, NEW g,
         \A x \in S : p[x] \in Nat /\ g[x] \in Nat /\ 1000 * g[x] <= p[x] * i,
         Sum(p, S) <= 1000
  PROVE  Sum(g, S) <= i
<1> DEFINE P == {T \in SUBSET S : 1000 * Sum(g, T) <= Sum(p, T) * i}
<1>1. \A T \in SUBSET S : /\ IsFiniteSet(T)
                          /\ \A x \in T : p[x] \in Nat
                          /\ \A x \in T : g[x] \in Nat
  BY FS_Subset
<1>2. \A T \in SUBSET S : Sum(p, T) \in Nat /\ Sum(g, T) \in Nat
  BY <1>1, SumLaws
<1>3. {} \in P
  <2>1. Sum(g, {}) = 0 /\ Sum(p, {}) = 0
    BY <1>1, SumLaws
  <2> QED
    BY <2>1
<1>4. ASSUME NEW T \in SUBSET S, NEW x \in S \ T, T \in P PROVE T \cup {x} \in P
  <2>1. T \cup {x} \in SUBSET S /\ (T \cup {x}) \ {x} = T /\ x \in T \cup {x}
    OBVIOUS
  <2>2. Sum(g, T \cup {x}) = g[x] + Sum(g, T)
    <3>1. IsFiniteSet(T \cup {x}) /\ \A z \in T \cup {x} : g[z] \in Nat
      BY <1>1, <2>1
    <3>2. Sum(g, T \cup {x}) = g[x] + Sum(g, (T \cup {x}) \ {x})
      BY <2>1, <3>1, SumLaws
    <3> QED
      BY <2>1, <3>2, ZenonT(60)
  <2>3. Sum(p, T \cup {x}) = p[x] + Sum(p, T)
    <3>1. IsFiniteSet(T \cup {x}) /\ \A z \in T \cup {x} : p[z] \in Nat
      BY <1>1, <2>1
    <3>2. Sum(p, T \cup {x}) = p[x] + Sum(p, (T \cup {x}) \ {x})
      BY <2>1, <3>1, SumLaws
    <3> QED
      BY <2>1, <3>2, ZenonT(60)
  <2>4. \A a, b, c, d, e \in Nat : 1000 * a <= b * e /\ 1000 * c <= d * e => 1000 * (a + c) <= (b + d) * e
    OBVIOUS
  <2>5. 1000 * g[x] <= p[x] * i /\ 1000 * Sum(g, T) <= Sum(p, T) * i
    BY <1>4
  <2>6. g[x] \in Nat /\ p[x] \in Nat /\ Sum(g, T) \in Nat /\ Sum(p, T) \in Nat
    BY <1>2
  <2>7. 1000 * (g[x] + Sum(g, T)) <= (p[x] + Sum(p, T)) * i
    BY <2>4, <2>5, <2>6
  <2> QED
    BY <2>1, <2>2, <2>3, <2>7
<1>5. S \in P
  <2> HIDE DEF P
  <2> QED
    BY <1>3, <1>4, SubsetInduction, ZenonT(60)
<1>6. \A a, b \in Nat : 1000 * a <= b * i /\ b <= 1000 => a <= i
  <2> SUFFICES ASSUME NEW a \in Nat, NEW b \in Nat, 1000 * a <= b * i, b <= 1000 PROVE a <= i
    OBVIOUS
  <2>1. b * i <= 1000 * i
    OBVIOUS
  <2> QED
    BY <2>1
<1>7. Sum(g, S) \in Nat /\ Sum(p, S) \in Nat /\ 1000 * Sum(g, S) <= Sum(p, S) * i
  BY <1>2, <1>5
<1> QED
  BY <1>6, <1>7

----------------------------------------------------------------------------
(* Totals *)

\* Totals are sums.
LEMMA TotalIsSum ==
  ASSUME NEW f, NEW S
  PROVE  TotalWithout(f, S) = Sum(f, DOMAIN f \ S) /\ Total(f) = Sum(f, DOMAIN f)
<1>1. DOMAIN f \ {} = DOMAIN f
  OBVIOUS
<1> QED
  BY <1>1 DEF Total, TotalWithout, Sum

\* f is a finite set of rows with their allocations.
Rows(f) == IsFiniteSet(DOMAIN f) /\ f \in [DOMAIN f -> Nat]

\* Rows that go lower the total, if anything.
LEMMA TotalOfFewer ==
  ASSUME NEW f, Rows(f), NEW S,
         NEW g, DOMAIN g \subseteq DOMAIN f, \A x \in DOMAIN g : g[x] = f[x]
  PROVE  /\ Total(f) \in Nat
         /\ TotalWithout(f, S) \in Nat /\ TotalWithout(f, S) <= Total(f)
         /\ Total(g) \in Nat /\ Total(g) <= Total(f)
<1>1. IsFiniteSet(DOMAIN f) /\ \A x \in DOMAIN f : f[x] \in Nat
  BY DEF Rows
<1>2. Sum(f, DOMAIN f) \in Nat
  BY <1>1, SumLaws
<1>3. DOMAIN f \ S \in SUBSET DOMAIN f /\ DOMAIN g \in SUBSET DOMAIN f
  OBVIOUS
<1>4. Sum(f, DOMAIN f \ S) \in Nat /\ Sum(f, DOMAIN f \ S) <= Sum(f, DOMAIN f)
  BY <1>1, <1>3, SumOfFewer
<1>5. Sum(g, DOMAIN g) \in Nat /\ Sum(g, DOMAIN g) <= Sum(f, DOMAIN f)
  BY <1>1, <1>3, SumOfFewer
<1> QED
  BY <1>2, <1>4, <1>5, TotalIsSum

\* One row inserted or overwritten.
LEMMA TotalWithOne ==
  ASSUME NEW c, NEW v \in Nat, Rows(alloc)
  PROVE  LET f == With(Only(c, v))
         IN  /\ Rows(f) /\ DOMAIN f = DOMAIN alloc \cup {c}
             /\ Total(f) = TotalWithout(alloc, {c}) + v
<1> DEFINE f == With(Only(c, v))
<1>1. /\ DOMAIN f = DOMAIN alloc \cup {c}
      /\ f[c] = v
      /\ \A x \in DOMAIN alloc \ {c} : f[x] = alloc[x]
      /\ f \in [DOMAIN f -> Nat]
  BY DEF With, Only, Rows
<1>2. IsFiniteSet(DOMAIN alloc) /\ IsFiniteSet(DOMAIN f)
  BY <1>1, FS_AddElement DEF Rows
<1> HIDE DEF f
<1>3. \A x \in DOMAIN f : f[x] \in Nat
  BY <1>1
<1>4. Sum(f, DOMAIN f) = f[c] + Sum(f, DOMAIN f \ {c})
  BY <1>1, <1>2, <1>3, SumLaws
<1>5. DOMAIN f \ {c} = DOMAIN alloc \ {c}
  BY <1>1
<1>6. Sum(f, DOMAIN alloc \ {c}) = Sum(alloc, DOMAIN alloc \ {c}) /\ Sum(f, DOMAIN alloc \ {c}) \in Nat
  <2>1. DOMAIN alloc \ {c} \in SUBSET DOMAIN alloc /\ \A x \in DOMAIN alloc : alloc[x] \in Nat
    BY DEF Rows
  <2> QED
    BY <1>1, <1>2, <2>1, SumOfFewer
<1>7. Rows(f)
  BY <1>1, <1>2 DEF Rows
<1>8. Total(f) = Sum(f, DOMAIN f) /\ TotalWithout(alloc, {c}) = Sum(alloc, DOMAIN alloc \ {c})
  BY TotalIsSum
<1>9. Total(f) = TotalWithout(alloc, {c}) + v
  <2>1. Sum(f, DOMAIN f) = v + Sum(alloc, DOMAIN alloc \ {c})
    BY <1>1, <1>4, <1>5, <1>6
  <2>2. Sum(alloc, DOMAIN alloc \ {c}) \in Nat
    BY <1>6
  <2> QED
    BY <1>8, <2>1, <2>2
<1> QED
  BY <1>1, <1>7, <1>9 DEF f

\* A budget without categories has nothing allocated.
LEMMA NothingAllocated == Rows(NoCategories) /\ DOMAIN NoCategories = {} /\ Total(NoCategories) = 0
<1>1. DOMAIN NoCategories = {} /\ NoCategories \in [{} -> Nat]
  BY DEF NoCategories
<1>2. IsFiniteSet({})
  BY FS_EmptySet
<1>3. Sum(NoCategories, {}) = 0
  BY <1>2, SumLaws
<1> QED
  BY <1>1, <1>2, <1>3, TotalIsSum DEF Rows

----------------------------------------------------------------------------
(* The guided template *)

\* An element of a sequence.
LEMMA ElementIn ==
  ASSUME NEW D, NEW s \in Seq(D), NEW k \in 1..Len(s)
  PROVE  s[k] \in D
OBVIOUS

\* The template is a sequence.
LEMMA TemplateType ==
  /\ Len(Template) \in Nat /\ DOMAIN Template = 1..Len(Template)
  /\ \A k \in 1..Len(Template) : Template[k].permille \in Nat
<1>1. Template \in Seq([cat : Ids, permille : Nat])
  BY InputAssumption
<1>2. \A k \in 1..Len(Template) : Template[k] \in [cat : Ids, permille : Nat]
  BY <1>1, ElementIn
<1>3. \A r \in [cat : Ids, permille : Nat] : r.permille \in Nat
  OBVIOUS
<1> QED
  BY <1>1, <1>2, <1>3

Cats == {Template[k].cat : k \in DOMAIN Template}

Floors(i) == [j \in 1..(Len(Template) - 1) |-> Floor(j, i)]

\* What the template's entries get but for the last is not more than the income,
\* and so something is left for the last, if only 0.
LEMMA FloorsFit ==
  ASSUME NEW i \in Nat
  PROVE  /\ Floors(i) \in [1..(Len(Template) - 1) -> Nat]
         /\ IsFiniteSet(1..(Len(Template) - 1))
         /\ Total(Floors(i)) \in Nat /\ Total(Floors(i)) <= i
<1> DEFINE n == Len(Template)
           S == 1..(n - 1)
           p == [k \in DOMAIN Template |-> Template[k].permille]
           g == Floors(i)
<1>1. n \in Nat /\ DOMAIN Template = 1..n /\ \A k \in 1..n : Template[k].permille \in Nat
  BY TemplateType
<1>2. S \in SUBSET (1..n) /\ IsFiniteSet(S) /\ IsFiniteSet(1..n)
  <2>1. 1 \in Int /\ n \in Int /\ n - 1 \in Int
    BY <1>1
  <2>2. IsFiniteSet(1..n) /\ IsFiniteSet(1..(n - 1))
    BY <2>1, FS_Interval
  <2> QED
    BY <1>1, <2>2
<1>3. \A x \in 1..n : p[x] = Template[x].permille /\ p[x] \in Nat
  BY <1>1
<1>4. ASSUME NEW x \in S PROVE g[x] \in Nat /\ 1000 * g[x] <= p[x] * i
  <2>1. x \in 1..n
    BY <1>2
  <2>2. p[x] \in Nat /\ g[x] = (p[x] * i) \div 1000
    <3>1. p[x] = Template[x].permille /\ p[x] \in Nat
      BY <1>3, <2>1, ZenonT(60)
    <3>2. g[x] = Floor(x, i)
      BY DEF Floors
    <3> HIDE DEF p, g
    <3> QED
      BY <3>1, <3>2, ZenonT(60) DEF Floor
  <2> HIDE DEF g, p
  <2>3. p[x] * i \in Nat
    BY <2>2
  <2>4. \A a \in Nat : a \div 1000 \in Nat /\ 1000 * (a \div 1000) <= a
    OBVIOUS
  <2> QED
    BY <2>2, <2>3, <2>4
<1>5. Sum(p, S) <= 1000
  <2>1. Total(p) <= 1000 /\ DOMAIN p = 1..n
    BY <1>1, InputAssumption
  <2> HIDE DEF p
  <2>2. Sum(p, S) \in Nat /\ Sum(p, S) <= Sum(p, 1..n) /\ Sum(p, 1..n) \in Nat
    BY <1>2, <1>3, SumOfFewer, SumLaws
  <2>3. Total(p) = Sum(p, 1..n)
    BY <2>1, TotalIsSum
  <2> QED
    BY <2>1, <2>2, <2>3
<1>6. DOMAIN g = S /\ g \in [S -> Nat]
  <2>1. \A x \in S : g[x] \in Nat
    BY <1>4, ZenonT(60)
  <2>2. g = [j \in S |-> g[j]]
    BY DEF Floors
  <2> HIDE DEF g, S
  <2> QED
    BY <2>1, <2>2
<1> HIDE DEF p, g, S, n
<1>7. Sum(g, S) <= i
  <2>1. \A x \in S : p[x] \in Nat /\ g[x] \in Nat /\ 1000 * g[x] <= p[x] * i
    BY <1>2, <1>3, <1>4
  <2>2. IsFiniteSet(S)
    BY <1>2
  <2> QED
    BY <1>5, <2>1, <2>2, PartsFit, ZenonT(60)
<1>8. Sum(g, S) \in Nat
  BY <1>2, <1>4, SumLaws, ZenonT(60)
<1>9. Total(g) = Sum(g, S)
  BY <1>6, TotalIsSum
<1> QED
  BY <1>2, <1>6, <1>7, <1>8, <1>9 DEF g, S, n

\* What is seeded for income i are rows of the template's categories, which share
\* out no more than i.
LEMMA SeededFits ==
  ASSUME NEW i \in Nat
  PROVE  Rows(Seeded(i)) /\ DOMAIN Seeded(i) = Cats /\ Total(Seeded(i)) <= i /\ Total(Seeded(i)) \in Nat
<1> DEFINE n == Len(Template)
           index(c) == CHOOSE k \in DOMAIN Template : Template[k].cat = c
           share == [k \in 1..n |-> Share(k, i)]
           g == Floors(i)
           f == Seeded(i)
<1>1. n \in Nat /\ DOMAIN Template = 1..n
  BY TemplateType
<1>2. g \in [1..(n - 1) -> Nat] /\ Total(g) \in Nat /\ Total(g) <= i
  BY FloorsFit
<1>3. IsFiniteSet(1..n)
  <2>1. 1 \in Int /\ n \in Int
    BY <1>1
  <2> QED
    BY <2>1, FS_Interval
<1>4. \A c \in Cats : index(c) \in 1..n /\ Template[index(c)].cat = c
  BY <1>1 DEF Cats
<1>5. DOMAIN f = Cats /\ \A c \in Cats : f[c] = Share(index(c), i)
  BY DEF Seeded, Cats
<1>6. \A k \in 1..n : share[k] = IF k = n THEN i - Total(g) ELSE g[k]
  <2> SUFFICES ASSUME NEW k \in 1..n PROVE Share(k, i) = IF k = n THEN i - Total(g) ELSE g[k]
    OBVIOUS
  <2>1. CASE k = n
    BY <2>1 DEF Share, Floors
  <2>2. CASE k # n
    <3>1. k \in 1..(n - 1)
      <4> HIDE DEF n
      <4> QED
        BY <1>1, <2>2
    <3> QED
      BY <2>2, <3>1 DEF Share, Floors
  <2> QED
    BY <2>1, <2>2
<1>7. \A k \in 1..n : share[k] \in Nat
  <2> SUFFICES ASSUME NEW k \in 1..n PROVE share[k] \in Nat
    OBVIOUS
  <2> HIDE DEF share, g, n
  <2>1. k # n => k \in 1..(n - 1)
    BY <1>1
  <2> QED
    BY <1>2, <1>6, <2>1
<1>8. \A c \in Cats : f[c] = share[index(c)] /\ f[c] \in Nat
  BY <1>4, <1>5, <1>7
<1>9. Rows(f)
  <2> DEFINE h == [k \in 1..n |-> Template[k].cat]
  <2>1. h \in Surjection(1..n, Cats)
    BY <1>1 DEF Surjection, Cats
  <2>2. IsFiniteSet(Cats)
    <3> HIDE DEF h
    <3> QED
      BY <1>3, <2>1, FS_Surjection
  <2>3. f \in [Cats -> Nat]
    BY <1>5, <1>8 DEF Seeded, Cats
  <2> QED
    BY <1>5, <2>2, <2>3 DEF Rows
<1> HIDE DEF index, share, g, f, n
<1>10. Sum(share, 1..n) <= i /\ Sum(share, 1..n) \in Nat
  <2>1. CASE n = 0
    <3>1. 1..n = {}
      BY <2>1
    <3>2. Sum(share, 1..n) = 0
      BY <1>3, <1>7, <3>1, SumLaws
    <3> QED
      BY <3>2
  <2>2. CASE n # 0
    <3>1. n \in 1..n /\ (1..n) \ {n} = 1..(n - 1)
      BY <1>1, <2>2
    <3>2. Sum(share, 1..n) = share[n] + Sum(share, (1..n) \ {n})
      <4>1. \A y \in 1..n : Sum(share, 1..n) = share[y] + Sum(share, (1..n) \ {y})
        BY <1>3, <1>7, SumLaws
      <4> QED
        BY <3>1, <4>1
    <3>3. Sum(share, 1..(n - 1)) = Sum(g, 1..(n - 1))
      <4>1. IsFiniteSet(1..(n - 1)) /\ \A k \in 1..(n - 1) : g[k] \in Nat
        BY <1>2, FloorsFit DEF n
      <4>2. \A k \in 1..(n - 1) : share[k] = g[k]
        <5>1. \A k \in 1..(n - 1) : k \in 1..n /\ k # n
          BY <1>1
        <5> QED
          BY <1>6, <5>1
      <4> QED
        BY <4>1, <4>2, SumOfSame
    <3>4. Total(g) = Sum(g, 1..(n - 1))
      BY <1>2, TotalIsSum
    <3>5. share[n] = i - Total(g)
      BY <1>6, <3>1
    <3>6. Sum(share, 1..n) = i
      <4>1. Sum(share, 1..n) = (i - Total(g)) + Total(g)
        BY <3>1, <3>2, <3>3, <3>4, <3>5
      <4> QED
        BY <1>2, <4>1
    <3> QED
      BY <3>6
  <2> QED
    BY <2>1, <2>2
<1>11. Sum(f, Cats) <= Sum(share, 1..n) /\ Sum(f, Cats) \in Nat
  <2> DEFINE U == Units(f, Cats)
             V == Units(share, 1..n)
             m == [u \in U |-> <<index(u[1]), u[2]>>]
  <2>1. \A u \in U : u[1] \in Cats /\ u[2] \in 1..f[u[1]] /\ u = <<u[1], u[2]>>
    BY DEF Units
  <2>2. \A u \in U : m[u] \in V
    <3> SUFFICES ASSUME NEW u \in U PROVE <<index(u[1]), u[2]>> \in V
      OBVIOUS
    <3>1. u[1] \in Cats /\ u[2] \in 1..f[u[1]]
      BY <2>1
    <3>2. index(u[1]) \in 1..n /\ u[2] \in 1..share[index(u[1])]
      BY <1>4, <1>8, <3>1
    <3> QED
      BY <3>2 DEF Units
  <2>3. \A u, w \in U : m[u] = m[w] => u = w
    <3> SUFFICES ASSUME NEW u \in U, NEW w \in U, index(u[1]) = index(w[1]), u[2] = w[2] PROVE u = w
      OBVIOUS
    <3>1. u[1] = w[1]
      BY <1>4, <2>1
    <3> QED
      BY <2>1, <3>1
  <2>4. m \in Injection(U, V)
    BY <2>2, <2>3 DEF Injection, IsInjective
  <2> HIDE DEF m, U, V
  <2>5. IsFiniteSet(V) /\ Cardinality(V) = Sum(share, 1..n)
    BY <1>3, <1>7, UnitsFinite, SumCounts DEF V
  <2>6. Cardinality(U) <= Cardinality(V)
    BY <2>4, <2>5, FS_Injection
  <2>7. IsFiniteSet(Cats)
    BY <1>5, <1>9 DEF Rows
  <2>8. Sum(f, Cats) = Cardinality(U) /\ Cardinality(U) \in Nat
    BY <1>8, <2>7, UnitsFinite, SumCounts DEF U
  <2> QED
    BY <2>5, <2>6, <2>8
<1>12. Total(f) = Sum(f, Cats)
  BY <1>5, TotalIsSum
<1> QED
  BY <1>5, <1>9, <1>10, <1>11, <1>12 DEF f

----------------------------------------------------------------------------
(* Steps *)

\* What a request carries, by where it is.
LEMMA TxFields ==
  ASSUME NEW s \in AllocStates
  PROVE  /\ s.at = "idle" => s = AllocIdle
         /\ s.at = "seed" => s \in [at : {"seed"}, income : Incomes]
         /\ s.at \in {"create_check", "create_insert"} =>
              s \in [at : {"create_check", "create_insert"}, cat : Categories, value : NewValues]
         /\ s.at \in {"edit_wait", "edit_write"} =>
              s \in [at : {"edit_wait", "edit_write"}, cat : Ids, value : EditValues, others : Nat]
         /\ s.at \in {"income_check", "income_write"} =>
              s \in [at : {"income_check", "income_write"}, income : Incomes]
         /\ s.at \in {"idle", "seed", "edit_wait"} \cup Holding
BY DEF AllocStates, AllocIdle, Holding

\* A request that is done holds nothing and has checked nothing.
LEMMA IdleHolds == AllocIdle \in AllocStates /\ AllocIdle.at = "idle" /\ "idle" \notin Holding
BY DEF AllocStates, AllocIdle, Holding

\* The rows of the budget.
LEMMA AllocRows ==
  ASSUME AllocTypeOK
  PROVE  Rows(alloc) /\ Total(alloc) \in Nat /\ income \in Nat
<1>1. Rows(alloc) /\ income \in Nat
  BY InputAssumption DEF AllocTypeOK, Rows
<1> QED
  BY <1>1, TotalOfFewer

\* Worker w goes to s, and takes the lock, keeps it or gives it up.
LEMMA LockStep ==
  ASSUME AllocTypeOK, LockHeld, NEW w \in Writers, NEW s, allocTx' = [allocTx EXCEPT ![w] = s], live' = live,
         \/ lock' = lock \ {w} /\ s.at \notin Holding
         \/ lock' = lock /\ (s.at \in Holding => allocTx[w].at \in Holding)
         \/ lock = {} /\ lock' = {w} /\ live
  PROVE  LockHeld'
<1> SUFFICES ASSUME NEW v \in Writers, allocTx'[v].at \in Holding PROVE live' /\ lock' = {v}
  BY DEF LockHeld
<1>1. CASE v = w
  <2>1. allocTx'[v] = s
    BY <1>1 DEF AllocTypeOK
  <2> QED
    BY <1>1, <2>1 DEF LockHeld
<1>2. CASE v # w
  <2>1. allocTx'[v] = allocTx[v]
    BY <1>2 DEF AllocTypeOK
  <2>2. live /\ lock = {v}
    BY <2>1 DEF LockHeld
  <2> QED
    BY <1>2, <2>2
<1> QED
  BY <1>1, <1>2

\* A step of worker w leaves what the others have checked, if it leaves what they
\* checked or has the lock.
LEMMA ChecksStep ==
  ASSUME AllocTypeOK, LockHeld, \A v \in Writers : CheckHolds(v),
         NEW w \in Writers, NEW s, allocTx' = [allocTx EXCEPT ![w] = s],
         UNCHANGED <<alloc, income>> \/ allocTx[w].at \in Holding \/ lock = {},
         CheckHolds(w)'
  PROVE  \A v \in Writers : CheckHolds(v)'
<1> SUFFICES ASSUME NEW v \in Writers, v # w PROVE CheckHolds(v)'
  OBVIOUS
<1>1. allocTx'[v] = allocTx[v]
  BY DEF AllocTypeOK
<1>2. CheckHolds(v)
  OBVIOUS
<1>3. CASE UNCHANGED <<alloc, income>>
  BY <1>1, <1>2, <1>3 DEF CheckHolds
<1>4. CASE allocTx[w].at \in Holding \/ lock = {}
  <2>1. allocTx[v].at \notin Holding
    BY <1>4 DEF LockHeld
  <2> QED
    BY <1>1, <2>1 DEF CheckHolds, Holding
<1> QED
  BY <1>3, <1>4

\* Worker w leaves the budget alone.
LEMMA QuietStep ==
  ASSUME AllocInv, NEW w \in Writers, NEW s \in AllocStates, allocTx' = [allocTx EXCEPT ![w] = s],
         UNCHANGED <<live, income, alloc>>, lock' \subseteq Writers,
         \/ lock' = lock \ {w} /\ s.at \notin Holding
         \/ lock' = lock /\ (s.at \in Holding => allocTx[w].at \in Holding)
         \/ lock = {} /\ lock' = {w} /\ live,
         allocTx'[w] = s => CheckHolds(w)'
  PROVE  AllocInv'
<1>1. AllocTypeOK' /\ allocTx'[w] = s
  BY DEF AllocInv, AllocTypeOK
<1>2. LockHeld'
  BY LockStep DEF AllocInv
<1>3. \A v \in Writers : CheckHolds(v)'
  BY <1>1, ChecksStep DEF AllocInv
<1> QED
  BY <1>1, <1>2, <1>3 DEF AllocInv, CategoryCap

\* Worker w commits, and is done.
LEMMA CommitStep ==
  ASSUME AllocInv, NEW w \in Writers, allocTx' = [allocTx EXCEPT ![w] = AllocIdle], lock' = lock \ {w},
         allocTx[w].at \in Holding \/ lock = {}, live' = live, live,
         income' \in Incomes \cup {0}, Rows(alloc'), DOMAIN alloc' \subseteq Ids, CategoryCap'
  PROVE  AllocInv'
<1>1. AllocTypeOK' /\ allocTx'[w] = AllocIdle
  BY IdleHolds DEF AllocInv, AllocTypeOK, Rows
<1>2. LockHeld'
  BY IdleHolds, LockStep DEF AllocInv
<1>3. CheckHolds(w)'
  BY <1>1, IdleHolds DEF CheckHolds
<1>4. \A v \in Writers : CheckHolds(v)'
  BY <1>3, ChecksStep DEF AllocInv
<1> QED
  BY <1>1, <1>2, <1>4 DEF AllocInv

\* A request gives up, or has been refused.
LEMMA ReleaseKeeps ==
  ASSUME AllocInv, NEW w \in Writers, Release(w), UNCHANGED <<live, income, alloc>>
  PROVE  AllocInv'
<1>1. allocTx' = [allocTx EXCEPT ![w] = AllocIdle] /\ lock' = lock \ {w} /\ lock' \subseteq Writers
  BY DEF Release, AllocInv, AllocTypeOK
<1>2. allocTx'[w] = AllocIdle => CheckHolds(w)'
  BY IdleHolds DEF CheckHolds
<1> QED
  BY <1>1, <1>2, IdleHolds, QuietStep

----------------------------------------------------------------------------
(* Actions *)

\* CreateBudget: nobody is at work, and a budget that is gone has no categories.
LEMMA CreateBudgetKeeps ==
  ASSUME AllocInv, NEW w \in Writers, NEW i \in Incomes, NEW guided \in BOOLEAN,
         CreateBudget(w, i, guided)
  PROVE  AllocInv'
<1> DEFINE s == IF guided THEN [at |-> "seed", income |-> i] ELSE AllocIdle
<1>1. s \in AllocStates /\ s.at \in {"seed", "idle"}
  BY IdleHolds DEF AllocStates
<1>2. allocTx' = [allocTx EXCEPT ![w] = s] /\ live' = TRUE /\ income' = i /\ UNCHANGED <<alloc, lock>>
  BY DEF CreateBudget
<1> HIDE DEF s
<1>3. AllocTypeOK'
  BY <1>1, <1>2 DEF AllocInv, AllocTypeOK
<1>4. \A v \in Writers : allocTx'[v].at \in {"seed", "idle"}
  <2>1. \A v \in Writers : allocTx[v] = AllocIdle
    BY DEF CreateBudget
  <2> QED
    BY <1>1, <1>2, <2>1, IdleHolds DEF AllocInv, AllocTypeOK
<1>5. LockHeld' /\ \A v \in Writers : CheckHolds(v)'
  BY <1>4 DEF LockHeld, CheckHolds, Holding
<1> QED
  BY <1>2, <1>3, <1>5 DEF AllocInv, CategoryCap

\* Migrate: likewise, with the imported categories, which the trigger has counted.
LEMMA MigrateKeeps ==
  ASSUME AllocInv, NEW i \in Incomes, NEW f \in Imports, Migrate(i, f)
  PROVE  AllocInv'
<1>1. DOMAIN f \subseteq Ids /\ Rows(f)
  BY InputAssumption DEF Ids, Rows
<1>2. AllocTypeOK'
  BY <1>1 DEF Migrate, AllocInv, AllocTypeOK, Rows
<1>3. \A v \in Writers : allocTx'[v] = AllocIdle
  BY DEF Migrate
<1>4. LockHeld' /\ \A v \in Writers : CheckHolds(v)'
  BY <1>3, IdleHolds DEF LockHeld, CheckHolds, Holding
<1>5. CategoryCap'
  BY DEF Migrate, FitsCap, CategoryCap
<1> QED
  BY <1>2, <1>4, <1>5 DEF AllocInv

\* More rows, of Ids.
LEMMA WithRows ==
  ASSUME AllocTypeOK, NEW f, Rows(f), DOMAIN f \subseteq Ids
  PROVE  Rows(With(f)) /\ DOMAIN With(f) \subseteq Ids
<1>1. IsFiniteSet(DOMAIN alloc \cup DOMAIN f)
  BY FS_Union DEF AllocTypeOK, Rows
<1>2. DOMAIN With(f) = DOMAIN alloc \cup DOMAIN f /\ With(f) \in [DOMAIN alloc \cup DOMAIN f -> Nat]
  BY DEF With, AllocTypeOK, Rows
<1> QED
  BY <1>1, <1>2 DEF Rows, AllocTypeOK

\* seedGuidedCategories: nobody has the row locked, and the trigger counts.
LEMMA SeedKeeps ==
  ASSUME AllocInv, NEW w \in Writers, SeedGuidedCategories(w)
  PROVE  AllocInv'
<1>1. allocTx[w].income \in Nat
  <2>1. allocTx[w] \in [at : {"seed"}, income : Incomes]
    BY TxFields DEF SeedGuidedCategories, AllocInv, AllocTypeOK
  <2> QED
    BY <2>1, InputAssumption
<1> DEFINE f == With(Seeded(allocTx[w].income))
<1>2. Rows(f) /\ DOMAIN f \subseteq Ids
  <2>1. Cats \subseteq Ids
    BY DEF Cats, Ids
  <2> QED
    BY <1>1, <2>1, SeededFits, WithRows DEF AllocInv
<1>3. allocTx' = [allocTx EXCEPT ![w] = AllocIdle] /\ lock = {} /\ lock' = lock \ {w} /\ UNCHANGED <<live, income>>
  BY DEF SeedGuidedCategories, Unlocked
<1>4. CASE live /\ FitsCap(f)
  <2>1. alloc' = f
    BY <1>4 DEF SeedGuidedCategories
  <2>2. CategoryCap'
    BY <1>4, <2>1 DEF FitsCap, CategoryCap
  <2>3. income' \in Incomes \cup {0} /\ Rows(alloc') /\ DOMAIN alloc' \subseteq Ids
    BY <1>2, <1>3, <2>1 DEF AllocInv, AllocTypeOK
  <2> HIDE DEF f
  <2> QED
    BY <1>3, <1>4, <2>2, <2>3, CommitStep
<1>5. CASE ~(live /\ FitsCap(f))
  <2>1. alloc' = alloc /\ Release(w)
    BY <1>3, <1>5 DEF SeedGuidedCategories, Release
  <2> QED
    BY <1>3, <2>1, ReleaseKeeps
<1> QED
  BY <1>4, <1>5

\* CreateCategory takes the lock.
LEMMA CreateLockKeeps ==
  ASSUME AllocInv, NEW w \in Writers, NEW c \in Categories, NEW v \in NewValues, CreateLock(w, c, v)
  PROVE  AllocInv'
<1> DEFINE s == [at |-> "create_check", cat |-> c, value |-> v]
<1>1. s \in AllocStates /\ s.at = "create_check"
  BY DEF AllocStates
<1>2. /\ allocTx' = [allocTx EXCEPT ![w] = s] /\ lock = {} /\ lock' = {w} /\ lock' \subseteq Writers /\ live
      /\ UNCHANGED <<live, income, alloc>>
  BY DEF CreateLock, Locking, Unlocked
<1> HIDE DEF s
<1>3. allocTx'[w] = s => CheckHolds(w)'
  BY <1>1 DEF CheckHolds
<1> QED
  BY <1>1, <1>2, <1>3, QuietStep

\* CreateCategory's check.
LEMMA CreateCheckKeeps ==
  ASSUME AllocInv, NEW w \in Writers, CreateCheck(w)
  PROVE  AllocInv'
<1>1. UNCHANGED <<live, income, alloc>> /\ allocTx[w].at = "create_check"
  BY DEF CreateCheck
<1>2. CASE Release(w)
  BY <1>1, <1>2, ReleaseKeeps
<1>3. CASE /\ Total(alloc) + allocTx[w].value <= income
           /\ allocTx' = [allocTx EXCEPT ![w].at = "create_insert"] /\ UNCHANGED lock
  <2> DEFINE s == [allocTx[w] EXCEPT !.at = "create_insert"]
  <2>1. allocTx[w] \in [at : {"create_check", "create_insert"}, cat : Categories, value : NewValues]
    BY <1>1, TxFields DEF AllocInv, AllocTypeOK
  <2>2. s \in AllocStates /\ s.at = "create_insert" /\ s.value = allocTx[w].value
    BY <2>1 DEF AllocStates
  <2>3. allocTx' = [allocTx EXCEPT ![w] = s] /\ lock' = lock /\ lock' \subseteq Writers /\ allocTx[w].at \in Holding
    BY <1>1, <1>3 DEF AllocInv, AllocTypeOK, Holding
  <2> HIDE DEF s
  <2>4. allocTx'[w] = s => CheckHolds(w)'
    BY <1>1, <1>3, <2>2 DEF CheckHolds
  <2> QED
    BY <1>1, <2>2, <2>3, <2>4, QuietStep
<1> QED
  BY <1>2, <1>3 DEF CreateCheck

\* A row of value v for category c: rows, and Ids.
LEMMA OneRow ==
  ASSUME AllocInv, NEW c \in Ids, NEW v \in Nat
  PROVE  LET f == With(Only(c, v))
         IN  Rows(f) /\ DOMAIN f \subseteq Ids /\ DOMAIN f = DOMAIN alloc \cup {c}
<1>1. Rows(alloc) /\ DOMAIN alloc \subseteq Ids
  BY AllocRows DEF AllocInv, AllocTypeOK
<1>2. Rows(With(Only(c, v))) /\ DOMAIN With(Only(c, v)) = DOMAIN alloc \cup {c}
  BY <1>1, TotalWithOne
<1> QED
  BY <1>1, <1>2

\* CreateCategory's INSERT, which the trigger counts.
LEMMA CreateInsertKeeps ==
  ASSUME AllocInv, NEW w \in Writers, CreateInsert(w)
  PROVE  AllocInv'
<1>1. allocTx[w].at = "create_insert" /\ Release(w) /\ UNCHANGED <<live, income>>
  BY DEF CreateInsert
<1>2. allocTx[w].cat \in Ids /\ allocTx[w].value \in Nat
  <2>1. allocTx[w] \in [at : {"create_check", "create_insert"}, cat : Categories, value : NewValues]
    BY <1>1, TxFields DEF AllocInv, AllocTypeOK
  <2> QED
    BY <2>1, InputAssumption DEF Ids
<1> DEFINE f == With(Only(allocTx[w].cat, allocTx[w].value))
<1>3. Rows(f) /\ DOMAIN f \subseteq Ids
  BY <1>2, OneRow
<1>4. CASE FitsCap(f)
  <2>1. alloc' = f
    BY <1>4 DEF CreateInsert
  <2> HIDE DEF f
  <2>2. CategoryCap' /\ Rows(alloc') /\ DOMAIN alloc' \subseteq Ids
    BY <1>3, <1>4, <2>1 DEF FitsCap, CategoryCap
  <2>3. allocTx[w].at \in Holding /\ live /\ income' \in Incomes \cup {0}
    BY <1>1 DEF AllocInv, LockHeld, AllocTypeOK, Holding
  <2> QED
    BY <1>1, <2>2, <2>3, CommitStep DEF Release
<1>5. CASE ~FitsCap(f)
  <2>1. alloc' = alloc
    BY <1>5 DEF CreateInsert
  <2> QED
    BY <1>1, <2>1, ReleaseKeeps
<1> QED
  BY <1>4, <1>5

\* UpdateCategory's statement begins.
LEMMA EditBeginKeeps ==
  ASSUME AllocInv, NEW w \in Writers, NEW c \in Ids, NEW v \in EditValues, EditBegin(w, c, v)
  PROVE  AllocInv'
<1> DEFINE s == [at |-> "edit_wait", cat |-> c, value |-> v, others |-> TotalWithout(alloc, {c})]
<1>1. TotalWithout(alloc, {c}) \in Nat
  BY AllocRows, TotalOfFewer DEF AllocInv
<1>2. s \in AllocStates /\ s.at = "edit_wait" /\ s.at \notin Holding
  BY <1>1 DEF AllocStates, Holding
<1>3. /\ allocTx' = [allocTx EXCEPT ![w] = s] /\ lock' = lock /\ lock' \subseteq Writers
      /\ UNCHANGED <<live, income, alloc>>
  BY DEF EditBegin, AllocInv, AllocTypeOK
<1> HIDE DEF s
<1>4. allocTx'[w] = s => CheckHolds(w)'
  BY <1>2 DEF CheckHolds
<1> QED
  BY <1>2, <1>3, <1>4, QuietStep

\* It gets the lock, and checks.
LEMMA EditLockKeeps ==
  ASSUME AllocInv, NEW w \in Writers, EditLock(w)
  PROVE  AllocInv'
<1>1. UNCHANGED <<live, income, alloc>> /\ allocTx[w].at = "edit_wait"
  BY DEF EditLock
<1>2. CASE Release(w)
  BY <1>1, <1>2, ReleaseKeeps
<1>3. CASE /\ live /\ allocTx[w].others + allocTx[w].value <= income
           /\ Locking(w) /\ allocTx' = [allocTx EXCEPT ![w].at = "edit_write"]
  <2> DEFINE s == [allocTx[w] EXCEPT !.at = "edit_write"]
  <2>1. allocTx[w] \in [at : {"edit_wait", "edit_write"}, cat : Ids, value : EditValues, others : Nat]
    BY <1>1, TxFields DEF AllocInv, AllocTypeOK
  <2>2. s \in AllocStates /\ s.at = "edit_write" /\ s.value = allocTx[w].value /\ s.others = allocTx[w].others
    BY <2>1 DEF AllocStates
  <2>3. allocTx' = [allocTx EXCEPT ![w] = s] /\ lock = {} /\ lock' = {w} /\ lock' \subseteq Writers /\ live
    BY <1>3 DEF AllocInv, AllocTypeOK, Locking, Unlocked
  <2> HIDE DEF s
  <2>4. allocTx'[w] = s => CheckHolds(w)'
    BY <1>1, <1>3, <2>2 DEF CheckHolds
  <2> QED
    BY <1>1, <2>2, <2>3, <2>4, QuietStep
<1> QED
  BY <1>2, <1>3 DEF EditLock

\* UpdateCategory writes the row, if it is there.
LEMMA EditWriteKeeps ==
  ASSUME AllocInv, NEW w \in Writers, EditWrite(w)
  PROVE  AllocInv'
<1>1. allocTx[w].at = "edit_write" /\ Release(w) /\ UNCHANGED <<live, income>>
  BY DEF EditWrite
<1>2. allocTx[w].cat \in Ids /\ allocTx[w].value \in Nat
  <2>1. allocTx[w] \in [at : {"edit_wait", "edit_write"}, cat : Ids, value : EditValues, others : Nat]
    BY <1>1, TxFields DEF AllocInv, AllocTypeOK
  <2> QED
    BY <2>1, InputAssumption
<1> DEFINE f == With(Only(allocTx[w].cat, allocTx[w].value))
<1>3. Rows(f) /\ DOMAIN f \subseteq Ids /\ DOMAIN f = DOMAIN alloc \cup {allocTx[w].cat}
  BY <1>2, OneRow
<1>4. CASE allocTx[w].cat \in DOMAIN alloc
  <2>1. alloc' = f
    BY <1>4 DEF EditWrite
  <2> HIDE DEF f
  <2>2. DOMAIN f = DOMAIN alloc
    BY <1>3, <1>4
  <2>3. CategoryCap' /\ Rows(alloc') /\ DOMAIN alloc' \subseteq Ids
    BY <1>3, <2>1, <2>2 DEF CategoryCap, AllocInv
  <2>4. allocTx[w].at \in Holding /\ live /\ income' \in Incomes \cup {0}
    BY <1>1 DEF AllocInv, LockHeld, AllocTypeOK, Holding
  <2> QED
    BY <1>1, <2>3, <2>4, CommitStep DEF Release
<1>5. CASE allocTx[w].cat \notin DOMAIN alloc
  <2>1. alloc' = alloc
    BY <1>5 DEF EditWrite
  <2> QED
    BY <1>1, <2>1, ReleaseKeeps
<1> QED
  BY <1>4, <1>5

\* UpdateBudget takes the lock, and needs no check for a higher income.
LEMMA IncomeLockKeeps ==
  ASSUME AllocInv, NEW w \in Writers, NEW i \in Incomes, IncomeLock(w, i)
  PROVE  AllocInv'
<1> DEFINE s == [at |-> IF i < income THEN "income_check" ELSE "income_write", income |-> i]
<1>1. s \in AllocStates /\ s.at = (IF i < income THEN "income_check" ELSE "income_write") /\ s.income = i
  BY DEF AllocStates
<1>2. /\ allocTx' = [allocTx EXCEPT ![w] = s] /\ lock = {} /\ lock' = {w} /\ lock' \subseteq Writers /\ live
      /\ UNCHANGED <<live, income, alloc>>
  BY DEF IncomeLock, Locking, Unlocked
<1> HIDE DEF s
<1>3. allocTx'[w] = s => CheckHolds(w)'
  BY <1>1, <1>2 DEF CheckHolds
<1> QED
  BY <1>1, <1>2, <1>3, QuietStep

\* UpdateBudget's check.
LEMMA IncomeCheckKeeps ==
  ASSUME AllocInv, NEW w \in Writers, IncomeCheck(w)
  PROVE  AllocInv'
<1>1. UNCHANGED <<live, income, alloc>> /\ allocTx[w].at = "income_check"
  BY DEF IncomeCheck
<1>2. CASE Release(w)
  BY <1>1, <1>2, ReleaseKeeps
<1>3. CASE /\ Total(alloc) <= allocTx[w].income
           /\ allocTx' = [allocTx EXCEPT ![w].at = "income_write"] /\ UNCHANGED lock
  <2> DEFINE s == [allocTx[w] EXCEPT !.at = "income_write"]
  <2>1. allocTx[w] \in [at : {"income_check", "income_write"}, income : Incomes]
    BY <1>1, TxFields DEF AllocInv, AllocTypeOK
  <2>2. s \in AllocStates /\ s.at = "income_write" /\ s.income = allocTx[w].income
    BY <2>1 DEF AllocStates
  <2>3. allocTx' = [allocTx EXCEPT ![w] = s] /\ lock' = lock /\ lock' \subseteq Writers /\ allocTx[w].at \in Holding
    BY <1>1, <1>3 DEF AllocInv, AllocTypeOK, Holding
  <2> HIDE DEF s
  <2>4. allocTx'[w] = s => CheckHolds(w)'
    BY <1>1, <1>3, <2>2 DEF CheckHolds
  <2> QED
    BY <1>1, <2>2, <2>3, <2>4, QuietStep
<1> QED
  BY <1>2, <1>3 DEF IncomeCheck

\* UpdateBudget writes the income.
LEMMA IncomeWriteKeeps ==
  ASSUME AllocInv, NEW w \in Writers, IncomeWrite(w)
  PROVE  AllocInv'
<1>1. allocTx[w].at = "income_write" /\ Release(w) /\ UNCHANGED <<live, alloc>> /\ income' = allocTx[w].income
  BY DEF IncomeWrite
<1>2. income' \in Incomes \cup {0}
  BY <1>1, TxFields DEF AllocInv, AllocTypeOK
<1>3. allocTx[w].at \in Holding /\ live /\ Rows(alloc') /\ DOMAIN alloc' \subseteq Ids /\ CategoryCap'
  BY <1>1, AllocRows DEF AllocInv, LockHeld, AllocTypeOK, Holding, CategoryCap
<1> QED
  BY <1>1, <1>2, <1>3, CommitStep DEF Release

\* DeleteCategory, which asks for no lock: totals only get lower.
LEMMA DeleteCategoryKeeps ==
  ASSUME AllocInv, NEW c \in Ids, DeleteCategory(c)
  PROVE  AllocInv'
<1>1. DOMAIN alloc' = DOMAIN alloc \ {c} /\ \A x \in DOMAIN alloc' : alloc'[x] = alloc[x]
  BY DEF DeleteCategory
<1>2. IsFiniteSet(DOMAIN alloc') /\ Cardinality(DOMAIN alloc') <= MaxCategories
  <2>1. IsFiniteSet(DOMAIN alloc) /\ DOMAIN alloc' \in SUBSET DOMAIN alloc
    BY <1>1 DEF AllocInv, AllocTypeOK
  <2>2. IsFiniteSet(DOMAIN alloc') /\ Cardinality(DOMAIN alloc') <= Cardinality(DOMAIN alloc)
    BY <2>1, FS_Subset
  <2>3. Cardinality(DOMAIN alloc') \in Nat /\ Cardinality(DOMAIN alloc) \in Nat /\ MaxCategories \in Nat
    BY <2>1, <2>2, FS_CardinalityType, InputAssumption
  <2> QED
    BY <2>2, <2>3 DEF AllocInv, CategoryCap
<1>3. AllocTypeOK'
  <2>1. alloc' \in [DOMAIN alloc' -> Nat]
    BY DEF DeleteCategory, AllocInv, AllocTypeOK
  <2>2. live
    BY NothingAllocated DEF DeleteCategory, AllocInv, AllocTypeOK
  <2> QED
    BY <1>1, <1>2, <2>1, <2>2 DEF DeleteCategory, AllocInv, AllocTypeOK
<1>4. Total(alloc') \in Nat /\ Total(alloc') <= Total(alloc) /\ Total(alloc) \in Nat
  BY <1>1, AllocRows, TotalOfFewer DEF AllocInv
<1>5. ASSUME NEW w \in Writers PROVE CheckHolds(w)'
  <2>1. CheckHolds(w) /\ UNCHANGED <<income, allocTx>>
    BY DEF AllocInv, DeleteCategory
  <2>2. income \in Nat
    BY AllocRows DEF AllocInv
  <2>3. allocTx[w].at = "create_insert" => allocTx[w].value \in Nat
    BY TxFields, InputAssumption DEF AllocInv, AllocTypeOK
  <2>4. allocTx[w].at = "income_write" => allocTx[w].income \in Nat
    BY TxFields, InputAssumption DEF AllocInv, AllocTypeOK
  <2> QED
    BY <1>4, <2>1, <2>2, <2>3, <2>4 DEF CheckHolds
<1> QED
  BY <1>2, <1>3, <1>5 DEF AllocInv, CategoryCap, LockHeld, DeleteCategory

\* DeleteBudget waits until nobody has the row locked.
LEMMA BudgetDeletionKeeps ==
  ASSUME AllocInv, DeleteBudgetRow
  PROVE  AllocInv'
<1>1. AllocTypeOK'
  BY NothingAllocated DEF DeleteBudgetRow, AllocInv, AllocTypeOK, Rows
<1>2. \A w \in Writers : allocTx'[w].at \notin Holding
  BY DEF DeleteBudgetRow, Unlocked, AllocInv, LockHeld
<1>3. LockHeld' /\ \A w \in Writers : CheckHolds(w)'
  BY <1>2 DEF LockHeld, CheckHolds, Holding
<1>4. CategoryCap'
  <2>1. DOMAIN alloc' = {} /\ Cardinality({}) = 0 /\ MaxCategories \in Nat
    BY NothingAllocated, FS_EmptySet, InputAssumption DEF DeleteBudgetRow
  <2> QED
    BY <2>1 DEF CategoryCap
<1> QED
  BY <1>1, <1>3, <1>4 DEF AllocInv

----------------------------------------------------------------------------
(* The theorems *)

\* The invariant holds initially.
LEMMA InitAlloc == AllocInit => AllocInv
<1> SUFFICES ASSUME AllocInit PROVE AllocInv
  OBVIOUS
<1>1. AllocTypeOK
  BY NothingAllocated, IdleHolds DEF AllocInit, AllocTypeOK, Rows
<1>2. LockHeld /\ \A w \in Writers : CheckHolds(w)
  BY IdleHolds DEF AllocInit, LockHeld, CheckHolds, Holding
<1>3. CategoryCap
  <2>1. DOMAIN alloc = {} /\ Cardinality({}) = 0 /\ MaxCategories \in Nat
    BY NothingAllocated, FS_EmptySet, InputAssumption DEF AllocInit
  <2> QED
    BY <2>1 DEF CategoryCap
<1> QED
  BY <1>1, <1>2, <1>3 DEF AllocInv

\* Every step preserves the invariant.
LEMMA NextAlloc == AllocInv /\ [AllocNext]_allocVars => AllocInv'
<1> SUFFICES ASSUME AllocInv, [AllocNext]_allocVars PROVE AllocInv'
  OBVIOUS
<1>1. ASSUME NEW w \in Writers, WriterNext(w) PROVE AllocInv'
  <2>1. CASE \E i \in Incomes, g \in Guided : CreateBudget(w, i, g)
    BY <2>1, CreateBudgetKeeps, InputAssumption
  <2>2. CASE \E c \in Categories, v \in NewValues : CreateLock(w, c, v)
    BY <2>2, CreateLockKeeps
  <2>3. CASE \E c \in Ids, v \in EditValues : EditBegin(w, c, v)
    BY <2>3, EditBeginKeeps
  <2>4. CASE \E i \in Incomes : IncomeLock(w, i)
    BY <2>4, IncomeLockKeeps
  <2>5. CASE AllocRollback(w)
    BY <2>5, ReleaseKeeps DEF AllocRollback
  <2> QED
    BY <1>1, <2>1, <2>2, <2>3, <2>4, <2>5, SeedKeeps, CreateCheckKeeps, CreateInsertKeeps,
      EditLockKeeps, EditWriteKeeps, IncomeCheckKeeps, IncomeWriteKeeps DEF WriterNext
<1>2. ASSUME NEW i \in Incomes, NEW f \in Imports, Migrate(i, f) PROVE AllocInv'
  BY <1>2, MigrateKeeps
<1>3. ASSUME NEW c \in Ids, DeleteCategory(c) PROVE AllocInv'
  BY <1>3, DeleteCategoryKeeps
<1>4. ASSUME DeleteBudgetRow PROVE AllocInv'
  BY <1>4, BudgetDeletionKeeps
<1>5. CASE UNCHANGED allocVars
  BY <1>5 DEF allocVars, AllocInv, AllocTypeOK, CategoryCap, LockHeld, CheckHolds
<1> QED
  BY <1>1, <1>2, <1>3, <1>4, <1>5 DEF AllocNext

\* Every reachable state satisfies the inductive invariant.
THEOREM AllocInvariance == AllocSpec => []AllocInv
BY InitAlloc, NextAlloc, PTL DEF AllocSpec

\* Rows and transactions keep their types; the categories of a budget are finitely
\* many, their allocations natural numbers in spite of the template's rounding
\* (budgets.go:421-425), and none outlives the budget.
THEOREM AllocTypeCorrect == AllocSpec => []AllocTypeOK
<1>1. AllocInv => AllocTypeOK
  BY DEF AllocInv
<1> QED
  BY AllocInvariance, <1>1, PTL

\* No budget ever has more than maxCategoriesPerBudget categories, for every maximum
\* and template, and any number of requests that create, import and seed.
THEOREM CapAlwaysHolds == AllocSpec => []CategoryCap
<1>1. AllocInv => CategoryCap
  BY DEF AllocInv
<1> QED
  BY AllocInvariance, <1>1, PTL

\* A worker that is done after a step did the step itself.
LEMMA OwnStep ==
  ASSUME AllocTypeOK, NEW w \in Writers, NEW v \in Writers, NEW s, allocTx' = [allocTx EXCEPT ![v] = s],
         allocTx'[w] # allocTx[w]
  PROVE  w = v
BY DEF AllocTypeOK

\* The checks hold at the commit.
LEMMA CommitHolds ==
  ASSUME AllocInv, AllocNext, NEW w \in Writers, allocTx'[w] = AllocIdle, allocTx[w].at # "idle",
         \/ allocTx[w].at = "create_insert" /\ alloc' # alloc
         \/ allocTx[w].at = "income_write" /\ income' < income
         \/ allocTx[w].at = "seed" /\ alloc = NoCategories /\ income = allocTx[w].income
         \/ /\ allocTx[w].at = "edit_write" /\ alloc' # alloc
            /\ TotalWithout(alloc, {allocTx[w].cat}) <= allocTx[w].others
  PROVE  Total(alloc') <= income'
<1>1. allocTx'[w] # allocTx[w]
  BY IdleHolds
<1>2. PICK v \in Writers : WriterNext(v)
  BY <1>1 DEF AllocNext, Migrate, DeleteCategory, DeleteBudgetRow
<1>3. v = w
  <2>1. \E s : allocTx' = [allocTx EXCEPT ![v] = s]
    BY <1>2 DEF WriterNext, CreateBudget, SeedGuidedCategories, CreateLock, CreateCheck, CreateInsert,
      EditBegin, EditLock, EditWrite, IncomeLock, IncomeCheck, IncomeWrite, AllocRollback, Release
  <2> QED
    BY <1>1, <2>1, OwnStep DEF AllocInv
<1>4. AllocTypeOK /\ CheckHolds(w) /\ income \in Nat /\ Total(alloc) \in Nat /\ Rows(alloc)
  BY AllocRows DEF AllocInv
<1>5. CASE allocTx[w].at = "create_insert" /\ alloc' # alloc
  <2>1. CreateInsert(w)
    BY <1>2, <1>3, <1>5, IdleHolds DEF WriterNext, CreateBudget, SeedGuidedCategories, CreateLock,
      CreateCheck, EditBegin, EditLock, EditWrite, IncomeLock, IncomeCheck, IncomeWrite, AllocRollback
  <2> DEFINE c == allocTx[w].cat
             x == allocTx[w].value
  <2>2. alloc' = With(Only(c, x)) /\ income' = income
    BY <1>5, <2>1 DEF CreateInsert
  <2>3. x \in Nat
    BY <1>4, <1>5, TxFields, InputAssumption DEF AllocTypeOK
  <2>4. Total(alloc') = TotalWithout(alloc, {c}) + x
    BY <1>4, <2>2, <2>3, TotalWithOne
  <2>5. TotalWithout(alloc, {c}) \in Nat /\ TotalWithout(alloc, {c}) <= Total(alloc)
    BY <1>4, TotalOfFewer
  <2>6. Total(alloc) + x <= income
    BY <1>4, <1>5 DEF CheckHolds
  <2> QED
    BY <1>4, <2>2, <2>3, <2>4, <2>5, <2>6
<1>6. CASE allocTx[w].at = "income_write" /\ income' < income
  <2>1. income' # income
    <3>1. income' \in Int
      BY NextAlloc, InputAssumption DEF AllocInv, AllocTypeOK
    <3> QED
      BY <1>4, <1>6, <3>1
  <2>2. IncomeWrite(w)
    BY <1>2, <1>3, <1>6, <2>1, IdleHolds DEF WriterNext, CreateBudget, SeedGuidedCategories,
      CreateLock, CreateCheck, CreateInsert, EditBegin, EditLock, EditWrite, IncomeLock, IncomeCheck,
      AllocRollback
  <2> QED
    BY <1>4, <1>6, <2>2 DEF IncomeWrite, CheckHolds
<1>7. CASE allocTx[w].at = "seed" /\ alloc = NoCategories /\ income = allocTx[w].income
  <2>1. SeedGuidedCategories(w) \/ AllocRollback(w)
    BY <1>2, <1>3, <1>7, IdleHolds DEF WriterNext, CreateBudget, CreateLock,
      CreateCheck, CreateInsert, EditBegin, EditLock, EditWrite, IncomeLock, IncomeCheck, IncomeWrite
  <2>2. income' = income /\ (alloc' = alloc \/ alloc' = With(Seeded(income)))
    BY <1>7, <2>1 DEF SeedGuidedCategories, AllocRollback
  <2>3. With(Seeded(income)) = Seeded(income)
    <3>1. DOMAIN alloc = {}
      BY <1>7, NothingAllocated
    <3> QED
      BY <3>1 DEF With, Seeded
  <2>4. Total(Seeded(income)) <= income /\ Total(NoCategories) <= income
    BY <1>4, SeededFits, NothingAllocated
  <2> QED
    BY <1>7, <2>2, <2>3, <2>4
<1>8. CASE /\ allocTx[w].at = "edit_write" /\ alloc' # alloc
           /\ TotalWithout(alloc, {allocTx[w].cat}) <= allocTx[w].others
  <2>1. EditWrite(w)
    BY <1>2, <1>3, <1>8, IdleHolds DEF WriterNext, CreateBudget, SeedGuidedCategories, CreateLock,
      CreateCheck, CreateInsert, EditBegin, EditLock, IncomeLock, IncomeCheck, IncomeWrite, AllocRollback
  <2> DEFINE c == allocTx[w].cat
             x == allocTx[w].value
  <2>2. alloc' = With(Only(c, x)) /\ income' = income
    BY <1>8, <2>1 DEF EditWrite
  <2>3. x \in Nat /\ allocTx[w].others \in Nat
    BY <1>4, <1>8, TxFields, InputAssumption DEF AllocTypeOK
  <2>4. Total(alloc') = TotalWithout(alloc, {c}) + x
    BY <1>4, <2>2, <2>3, TotalWithOne
  <2>5. TotalWithout(alloc, {c}) \in Nat
    BY <1>4, TotalOfFewer
  <2>6. allocTx[w].others + x <= income
    BY <1>4, <1>8 DEF CheckHolds
  <2> QED
    BY <1>4, <1>8, <2>2, <2>3, <2>4, <2>5, <2>6
<1> QED
  BY <1>5, <1>6, <1>7, <1>8

\* Neither CreateCategory nor an UpdateBudget that lowers the income leaves the
\* ceiling exceeded (budgets.go:580-587), nor do the seeding of a budget that nobody
\* has changed, whatever the template and the income, and UpdateCategory while its
\* sum of the others is no less than theirs (categories.go:299).
THEOREM ChecksAlwaysHold == AllocSpec => ChecksHoldAtCommit
<1> DEFINE Done(w) ==
       \/ allocTx[w].at = "create_insert" /\ allocTx'[w] = AllocIdle /\ alloc' # alloc
       \/ allocTx[w].at = "income_write" /\ allocTx'[w] = AllocIdle /\ income' < income
       \/ allocTx[w].at = "seed" /\ allocTx'[w] = AllocIdle /\ alloc = NoCategories /\ income = allocTx[w].income
       \/ /\ allocTx[w].at = "edit_write" /\ allocTx'[w] = AllocIdle /\ alloc' # alloc
          /\ TotalWithout(alloc, {allocTx[w].cat}) <= allocTx[w].others
       Fit == \A w \in Writers : Done(w) => Total(alloc') <= income'
<1>1. AllocInv /\ [AllocNext]_allocVars => [Fit]_allocVars
  <2> SUFFICES ASSUME AllocInv, AllocNext, NEW w \in Writers, Done(w) PROVE Total(alloc') <= income'
    OBVIOUS
  <2>1. allocTx'[w] = AllocIdle /\ allocTx[w].at # "idle"
    OBVIOUS
  <2> QED
    BY <2>1, CommitHolds
<1> QED
  BY AllocInvariance, <1>1, PTL DEF AllocSpec, ChecksHoldAtCommit

=============================================================================
