------------------------- MODULE SessionAuthProofs -------------------------
(***************************************************************************)
(* What SessionAuth promises for every number of tokens, requests and      *)
(* revocations, and every TTL.                                             *)
(***************************************************************************)
EXTENDS SessionAuth, TLAPS

\* What requests, revocations, rows and cache entries name has been handed out.
TokensKnown ==
  /\ DOMAIN sessionCache \subseteq issued
  /\ \A r \in Requests : req[r] # Idle => req[r].token \in issued
  /\ \A o \in Ops : op[o].at = "invalidate" => op[o].token \in issued
  /\ \A t \in Tokens : row[t] # "none" \/ since[t] # Never => t \in issued

\* The session is over for good: its row is revoked, or went with the account.
Over(t) == row[t] = "revoked" \/ (row[t] = "none" /\ Owner[t] \notin profiles)

\* A revoked session is over, and a deleted account has no rows.
RowsFollow ==
  /\ \A t \in Tokens : since[t] # Never => Over(t)
  /\ \A t \in Tokens : Owner[t] \notin profiles => row[t] = "none"
  /\ \A o \in Ops : op[o].at \in {"committed", "purge"} => op[o].user \notin profiles

\* A request that came in after the revocation finds no active row.
LateKnown ==
  \A r \in Requests :
    /\ req[r].at = "query" /\ req[r].late # Never => since[req[r].token] # Never
    /\ req[r].at = "store" /\ req[r].late # Never => req[r].revoked

\* Whatever a request or the cache takes to be revoked is over.
SeenRevoked ==
  /\ \A t \in DOMAIN sessionCache : sessionCache[t].revoked => Over(t)
  /\ \A r \in Requests : req[r].at = "store" /\ req[r].revoked => Over(req[r].token)
  /\ \A r \in Requests : req[r].at = "done" /\ req[r].verdict = "revoked" => Over(req[r].token)

\* What a load in progress saw is no older than its wait.
LoadsRecent ==
  \A r \in Requests :
    req[r].at = "store" /\ ~req[r].revoked => since[req[r].token] <= req[r].wait

\* What an entry says is no older than its age and the load that stored it.
EntriesRecent ==
  \A t \in DOMAIN sessionCache :
    ~sessionCache[t].revoked => since[t] <= sessionCache[t].age + MaxLoad

\* The walk of InvalidateUserSessionCache still has the older entries to do.
WalkCovers ==
  \A o \in Ops : op[o].at = "purge" =>
    \A t \in DOMAIN sessionCache :
      Owner[t] = op[o].user /\ ~sessionCache[t].revoked /\ ~sessionCache[t].behind
        => t \in op[o].todo

\* The inductive invariant.
IInv ==
  /\ TypeOK /\ TokensKnown /\ RowsFollow /\ SeenRevoked /\ LateKnown /\ LoadsRecent
  /\ EntriesRecent /\ WalkCovers /\ OnlyOverlappingLoads /\ RevokedAfterTTL

----------------------------------------------------------------------------
(* Each action preserves the invariant *)

\* What the SELECT of request r found: the row, revoked or not.
Loaded(r, b) ==
  /\ row[req[r].token] # "none"
  /\ b <=> row[req[r].token] = "revoked"
  /\ req' = [req EXCEPT ![r] =
       [at |-> "store", token |-> req[r].token, late |-> req[r].late, revoked |-> b, wait |-> 0]]

\* A query that answers with a row is a load of that row.
LEMMA QueryLoads ==
  ASSUME NEW r \in Requests, Query(r),
         ~\E v \in {"failed", "missing"} : Answered(r, req[r].token, req[r].late, v)
  PROVE  \E b \in BOOLEAN : Loaded(r, b)
<1> WITNESS (row[req[r].token] = "revoked") \in BOOLEAN
<1> QED
  BY Zenon DEF Query, Loaded

\* The entry of a load that stores after the row stopped being active.
LEMMA StoreBehind ==
  ASSUME NEW r \in Requests, Store(r), row[req[r].token] # "active"
  PROVE  sessionCache'[req[r].token].behind
<1>1. sessionCache'[req[r].token] =
        [revoked |-> req[r].revoked, age |-> 0, behind |-> row[req[r].token] # "active"]
  BY DEF Store
<1>2. sessionCache'[req[r].token].behind = (row[req[r].token] # "active")
  BY <1>1
<1>3. QED
  BY <1>2

\* A session whose row is revoked is over.
LEMMA RevokedIsOver ==
  ASSUME NEW t, row[t] = "revoked"
  PROVE  Over(t)
BY DEF Over

\* What a load found revoked is over.
LEMMA LoadedIsOver ==
  ASSUME NEW r \in Requests, NEW b \in BOOLEAN, Loaded(r, b), b
  PROVE  Over(req[r].token)
<1>1. row[req[r].token] = "revoked"
  BY Zenon DEF Loaded
<1>2. QED
  BY <1>1, RevokedIsOver

\* A session whose revocation was answered is over.
LEMMA AnsweredIsOver ==
  ASSUME RowsFollow, NEW t \in Tokens, since[t] # Never \/ Revoked(t)
  PROVE  Over(t)
BY RevokedIsOver DEF RowsFollow, Revoked

\* since stays in range when a tick passes.
LEMMA LatenessGrows ==
  ASSUME NEW x \in Lateness, x \notin {Never, Horizon}
  PROVE  x + 1 \in Lateness
<1>1. x \in 0..(TTL + MaxLoad) /\ x # TTL + MaxLoad
  BY DEF Lateness, Never, Horizon
<1>2. TTL + MaxLoad \in Nat
  BY TimeAssumption
<1>3. x + 1 \in 0..(TTL + MaxLoad)
  BY <1>1, <1>2
<1>4. QED
  BY <1>3 DEF Lateness, Horizon

\* CreateSession hands out a token, and may add its row.
LEMMA CreateSessionKeeps ==
  ASSUME IInv, NEW t \in Tokens, CreateSession(t)
  PROVE  IInv'
<1> USE OwnerAssumption, TimeAssumption
      DEF IInv, TypeOK, RequestStates, OpStates, Idle, Never, Lateness, Horizon, Entries, Ages
<1>1. TypeOK'
  BY DEF CreateSession
<1>2. TokensKnown'
  BY DEF CreateSession, TokensKnown
<1>3. RowsFollow'
  BY DEF CreateSession, RowsFollow, Over, TokensKnown
<1>4. (LateKnown /\ LoadsRecent /\ EntriesRecent /\ WalkCovers /\ OnlyOverlappingLoads /\ RevokedAfterTTL)'
  BY DEF CreateSession, LateKnown, LoadsRecent, EntriesRecent, WalkCovers, OnlyOverlappingLoads, RevokedAfterTTL
<1>5. SeenRevoked'
  BY DEF CreateSession, SeenRevoked, Over
<1>6. QED
  BY <1>1, <1>2, <1>3, <1>4, <1>5

\* Load: a hit is no staler than a fresh entry can be.
LEMMA LoadKeeps ==
  ASSUME IInv, NEW r \in Requests, NEW t \in Tokens, Load(r, t)
  PROVE  IInv'
<1> USE OwnerAssumption, TimeAssumption
      DEF IInv, TypeOK, RequestStates, OpStates, Idle, Never, Lateness, Horizon, Entries, Ages
<1>1. TypeOK'
  BY DEF Load, Hit, Fresh, Answered
<1>2. TokensKnown'
  BY DEF Load, Hit, Fresh, Answered, TokensKnown
<1>3. LateKnown'
  BY DEF Load, Hit, Fresh, Answered, LateKnown
<1>4. LoadsRecent'
  BY DEF Load, Hit, Fresh, Answered, LoadsRecent
<1>5. RevokedAfterTTL'
  BY DEF Load, Hit, Fresh, Answered, RevokedAfterTTL, EntriesRecent
<1>6. (RowsFollow /\ EntriesRecent /\ WalkCovers /\ OnlyOverlappingLoads)'
  BY DEF Load, RowsFollow, Over, EntriesRecent, WalkCovers, OnlyOverlappingLoads
<1>7. SeenRevoked'
  BY DEF Load, Hit, Fresh, Answered, SeenRevoked, Over
<1>8. QED
  BY <1>1, <1>2, <1>3, <1>4, <1>5, <1>6, <1>7

\* Query: a load that sees an active row precedes the revocation.
LEMMA QueryKeeps ==
  ASSUME IInv, NEW r \in Requests, Query(r)
  PROVE  IInv'
<1> USE OwnerAssumption, TimeAssumption
      DEF IInv, TypeOK, RequestStates, OpStates, Idle, Never, Lateness, Horizon, Entries, Ages
<1>0. SeenRevoked
  BY DEF IInv
<1>1. TypeOK'
  <2>1. CASE \E v \in {"failed", "missing"} : Answered(r, req[r].token, req[r].late, v)
    BY <2>1 DEF Query, Answered
  <2>2. ASSUME NEW b \in BOOLEAN, Loaded(r, b) PROVE TypeOK'
    BY <2>2 DEF Query, Loaded
  <2>3. QED
    BY <2>1, <2>2, QueryLoads DEF Query
<1>2. TokensKnown'
  BY DEF Query, Answered, TokensKnown
<1>3. LateKnown'
  <2>1. CASE \E v \in {"failed", "missing"} : Answered(r, req[r].token, req[r].late, v)
    BY <2>1 DEF Query, Answered, LateKnown, RowsFollow, Over, TokensKnown
  <2>2. ASSUME NEW b \in BOOLEAN, Loaded(r, b) PROVE LateKnown'
    BY <2>2 DEF Query, Loaded, LateKnown, RowsFollow, Over, TokensKnown
  <2>3. QED
    BY <2>1, <2>2, QueryLoads DEF Query
<1>4. LoadsRecent'
  <2>1. CASE \E v \in {"failed", "missing"} : Answered(r, req[r].token, req[r].late, v)
    BY <2>1 DEF Query, Answered, LoadsRecent, RowsFollow, Over, TokensKnown
  <2>2. ASSUME NEW b \in BOOLEAN, Loaded(r, b) PROVE LoadsRecent'
    BY <2>2 DEF Query, Loaded, LoadsRecent, RowsFollow, Over, TokensKnown
  <2>3. QED
    BY <2>1, <2>2, QueryLoads DEF Query
<1>5. RevokedAfterTTL'
  BY DEF Query, Answered, RevokedAfterTTL, LateKnown, RowsFollow, Over
<1>6. (RowsFollow /\ EntriesRecent /\ WalkCovers /\ OnlyOverlappingLoads)'
  BY DEF Query, RowsFollow, Over, EntriesRecent, WalkCovers, OnlyOverlappingLoads
<1>7. SeenRevoked'
  <2>1. CASE \E v \in {"failed", "missing"} : Answered(r, req[r].token, req[r].late, v)
    BY <2>1 DEF Query, Answered, SeenRevoked, Over
  <2>2. ASSUME NEW b \in BOOLEAN, Loaded(r, b) PROVE SeenRevoked'
    <3>1. b => Over(req[r].token)
      BY <2>2, LoadedIsOver
    <3>2. UNCHANGED <<profiles, row, sessionCache>>
      BY DEF Query
    <3>3. ASSUME NEW q \in Requests, q # r PROVE req'[q] = req[q]
      BY <2>2, <3>3 DEF Loaded
    <3>4. req'[r].at = "store" /\ req'[r].token = req[r].token /\ req'[r].revoked = b
      BY <2>2 DEF Loaded
    <3>5. \A x : Over(x) => Over(x)'
      BY <3>2 DEF Over
    <3> HIDE DEF IInv, TypeOK
    <3>6. QED
      BY <3>1, <3>2, <3>3, <3>4, <3>5, <1>0 DEF SeenRevoked
  <2>3. QED
    BY <2>1, <2>2, QueryLoads DEF Query
<1>8. QED
  BY <1>1, <1>2, <1>3, <1>4, <1>5, <1>6, <1>7

\* Store: an entry is behind exactly when the load overlapped the revocation.
LEMMA StoreKeeps ==
  ASSUME IInv, NEW r \in Requests, Store(r)
  PROVE  IInv'
<1> USE OwnerAssumption, TimeAssumption
      DEF IInv, TypeOK, RequestStates, OpStates, Idle, Never, Lateness, Horizon, Entries, Ages
<1>1. TypeOK'
  BY DEF Store, Answered
<1>2. TokensKnown'
  BY DEF Store, Answered, TokensKnown
<1>3. LateKnown'
  BY DEF Store, Answered, LateKnown
<1>4. LoadsRecent'
  BY DEF Store, Answered, LoadsRecent
<1>5. EntriesRecent'
  BY DEF Store, Answered, EntriesRecent, LoadsRecent
<1>6. WalkCovers'
  <2> SUFFICES ASSUME NEW o \in Ops, op'[o].at = "purge", NEW t \in DOMAIN sessionCache',
                      Owner[t] = op'[o].user, ~sessionCache'[t].revoked, ~sessionCache'[t].behind
               PROVE  t \in op'[o].todo
    BY DEF WalkCovers
  <2>1. CASE t = req[r].token
    <3>1. row[t] # "active"
      BY <2>1 DEF Store, RowsFollow, Over
    <3>2. QED
      BY <2>1, <3>1, StoreBehind
  <2>2. CASE t # req[r].token
    BY <2>2 DEF Store, WalkCovers
  <2>3. QED
    BY <2>1, <2>2
<1>7. OnlyOverlappingLoads'
  <2> SUFFICES ASSUME NEW t \in DOMAIN sessionCache', since'[t] # Never, ~sessionCache'[t].revoked
               PROVE  sessionCache'[t].behind
    BY DEF OnlyOverlappingLoads
  <2>1. CASE t = req[r].token
    <3>1. row[t] # "active"
      BY <2>1 DEF Store, RowsFollow, Over
    <3>2. QED
      BY <2>1, <3>1, StoreBehind
  <2>2. CASE t # req[r].token
    BY <2>2 DEF Store, OnlyOverlappingLoads
  <2>3. QED
    BY <2>1, <2>2
<1>8. RevokedAfterTTL'
  BY DEF Store, Answered, RevokedAfterTTL, LateKnown
<1>9. (RowsFollow)'
  BY DEF Store, RowsFollow, Over
<1>10. SeenRevoked'
  BY DEF Store, Answered, SeenRevoked, Over
<1>11. QED
  BY <1>1, <1>2, <1>3, <1>4, <1>5, <1>6, <1>7, <1>8, <1>9, <1>10

\* Finish forgets the request.
LEMMA FinishKeeps ==
  ASSUME IInv, NEW r \in Requests, Finish(r)
  PROVE  IInv'
<1> USE OwnerAssumption, TimeAssumption
      DEF IInv, TypeOK, RequestStates, OpStates, Idle, Never, Lateness, Horizon, Entries, Ages
<1>1. TypeOK'
  BY DEF Finish
<1>2. TokensKnown'
  BY DEF Finish, TokensKnown
<1>3. LateKnown'
  BY DEF Finish, LateKnown
<1>4. LoadsRecent'
  BY DEF Finish, LoadsRecent
<1>5. RevokedAfterTTL'
  BY DEF Finish, RevokedAfterTTL
<1>6. (RowsFollow /\ EntriesRecent /\ WalkCovers /\ OnlyOverlappingLoads)'
  BY DEF Finish, RowsFollow, Over, EntriesRecent, WalkCovers, OnlyOverlappingLoads
<1>7. SeenRevoked'
  BY DEF Finish, SeenRevoked, Over
<1>8. QED
  BY <1>1, <1>2, <1>3, <1>4, <1>5, <1>6, <1>7

\* RevokeSession turns an active row into a revoked one.
LEMMA RevokeSessionKeeps ==
  ASSUME IInv, NEW o \in Ops, NEW t \in Tokens, RevokeSession(o, t)
  PROVE  IInv'
<1> USE OwnerAssumption, TimeAssumption
      DEF IInv, TypeOK, RequestStates, OpStates, Idle, Never, Lateness, Horizon, Entries, Ages
<1>1. TypeOK'
  BY DEF RevokeSession, TokensOf
<1>2. TokensKnown'
  BY DEF RevokeSession, TokensOf, TokensKnown
<1>3. RowsFollow'
  BY DEF RevokeSession, TokensOf, RowsFollow, Over
<1>4. WalkCovers'
  BY DEF RevokeSession, TokensOf, WalkCovers
<1>5. (LateKnown /\ LoadsRecent /\ EntriesRecent /\ OnlyOverlappingLoads /\ RevokedAfterTTL)'
  BY DEF RevokeSession, LateKnown, LoadsRecent, EntriesRecent, OnlyOverlappingLoads, RevokedAfterTTL
<1>6. SeenRevoked'
  BY DEF RevokeSession, SeenRevoked, Over
<1>7. QED
  BY <1>1, <1>2, <1>3, <1>4, <1>5, <1>6

\* SignOut makes no row active.
LEMMA SignOutKeeps ==
  ASSUME IInv, NEW o \in Ops, NEW t \in Tokens, SignOut(o, t)
  PROVE  IInv'
<1> USE OwnerAssumption, TimeAssumption
      DEF IInv, TypeOK, RequestStates, OpStates, Idle, Never, Lateness, Horizon, Entries, Ages
<1>1. TypeOK'
  BY DEF SignOut
<1>2. TokensKnown'
  BY DEF SignOut, TokensKnown
<1>3. RowsFollow'
  BY DEF SignOut, RowsFollow, Over
<1>4. WalkCovers'
  BY DEF SignOut, WalkCovers
<1>5. (LateKnown /\ LoadsRecent /\ EntriesRecent /\ OnlyOverlappingLoads /\ RevokedAfterTTL)'
  BY DEF SignOut, LateKnown, LoadsRecent, EntriesRecent, OnlyOverlappingLoads, RevokedAfterTTL
<1>6. SeenRevoked'
  BY DEF SignOut, SeenRevoked, Over
<1>7. QED
  BY <1>1, <1>2, <1>3, <1>4, <1>5, <1>6

\* InvalidateSessionCache: the entry goes in the step that answers.
LEMMA InvalidateSessionCacheKeeps ==
  ASSUME IInv, NEW o \in Ops, InvalidateSessionCache(o)
  PROVE  IInv'
<1> USE OwnerAssumption, TimeAssumption
      DEF IInv, TypeOK, RequestStates, OpStates, Idle, Never, Lateness, Horizon, Entries, Ages
<1>1. TypeOK'
  BY DEF InvalidateSessionCache, Dropped, Revoked
<1>2. TokensKnown'
  BY DEF InvalidateSessionCache, Dropped, Revoked, TokensKnown
<1>3. RowsFollow'
  <2>1. UNCHANGED <<profiles, row>> /\ \A x : Over(x) => Over(x)'
    BY DEF InvalidateSessionCache, Over
  <2>2. ASSUME NEW t \in Tokens, since'[t] # Never PROVE Over(t)
    <3>1. since[t] # Never \/ Revoked(t)
      BY <2>2 DEF InvalidateSessionCache
    <3>2. QED
      BY <3>1, AnsweredIsOver
  <2>3. ASSUME NEW p \in Ops, op'[p].at \in {"committed", "purge"} PROVE op'[p] = op[p]
    BY <2>3 DEF InvalidateSessionCache
  <2>4. QED
    BY <2>1, <2>2, <2>3 DEF RowsFollow
<1>4. LateKnown'
  BY DEF InvalidateSessionCache, Dropped, Revoked, LateKnown
<1>5. LoadsRecent'
  BY DEF InvalidateSessionCache, Dropped, Revoked, LoadsRecent
<1>6. EntriesRecent'
  BY DEF InvalidateSessionCache, Dropped, Revoked, EntriesRecent
<1>7. WalkCovers'
  BY DEF InvalidateSessionCache, Dropped, Revoked, WalkCovers
<1>8. OnlyOverlappingLoads'
  BY DEF InvalidateSessionCache, Dropped, Revoked, OnlyOverlappingLoads
<1>9. (RevokedAfterTTL)'
  BY DEF InvalidateSessionCache, RevokedAfterTTL
<1>10. SeenRevoked'
  BY DEF InvalidateSessionCache, Dropped, SeenRevoked, Over
<1>11. QED
  BY <1>1, <1>2, <1>3, <1>4, <1>5, <1>6, <1>7, <1>8, <1>9, <1>10

\* DeleteAccount: the rows and the profile go together.
LEMMA DeleteAccountKeeps ==
  ASSUME IInv, NEW o \in Ops, NEW u \in Users, DeleteAccount(o, u)
  PROVE  IInv'
<1> USE OwnerAssumption, TimeAssumption
      DEF IInv, TypeOK, RequestStates, OpStates, Idle, Never, Lateness, Horizon, Entries, Ages
<1>1. TypeOK'
  BY DEF DeleteAccount, TokensOf
<1>2. TokensKnown'
  BY DEF DeleteAccount, TokensOf, TokensKnown
<1>3. RowsFollow'
  BY DEF DeleteAccount, TokensOf, RowsFollow, Over
<1>4. WalkCovers'
  BY DEF DeleteAccount, TokensOf, WalkCovers
<1>5. (LateKnown /\ LoadsRecent /\ EntriesRecent /\ OnlyOverlappingLoads /\ RevokedAfterTTL)'
  BY DEF DeleteAccount, LateKnown, LoadsRecent, EntriesRecent, OnlyOverlappingLoads, RevokedAfterTTL
<1>6. SeenRevoked'
  BY DEF DeleteAccount, RowsFollow, SeenRevoked, Over
<1>7. QED
  BY <1>1, <1>2, <1>3, <1>4, <1>5, <1>6

\* InvalidateUserSessionCache: the walk is to visit every key that is there.
LEMMA InvalidateUserSessionCacheKeeps ==
  ASSUME IInv, NEW o \in Ops, InvalidateUserSessionCache(o)
  PROVE  IInv'
<1> USE OwnerAssumption, TimeAssumption
      DEF IInv, TypeOK, RequestStates, OpStates, Idle, Never, Lateness, Horizon, Entries, Ages
<1>1. TypeOK'
  BY DEF InvalidateUserSessionCache, TokensOf
<1>2. TokensKnown'
  BY DEF InvalidateUserSessionCache, TokensOf, TokensKnown
<1>3. RowsFollow'
  BY DEF InvalidateUserSessionCache, TokensOf, RowsFollow, Over
<1>4. WalkCovers'
  BY DEF InvalidateUserSessionCache, TokensOf, WalkCovers, TokensKnown
<1>5. (LateKnown /\ LoadsRecent /\ EntriesRecent /\ OnlyOverlappingLoads /\ RevokedAfterTTL)'
  BY DEF InvalidateUserSessionCache, LateKnown, LoadsRecent, EntriesRecent, OnlyOverlappingLoads, RevokedAfterTTL
<1>6. SeenRevoked'
  BY DEF InvalidateUserSessionCache, SeenRevoked, Over
<1>7. QED
  BY <1>1, <1>2, <1>3, <1>4, <1>5, <1>6

\* PurgeOne: a key leaves the walk and the cache together.
LEMMA PurgeOneKeeps ==
  ASSUME IInv, NEW o \in Ops, NEW t \in Tokens, PurgeOne(o, t)
  PROVE  IInv'
<1> USE OwnerAssumption, TimeAssumption
      DEF IInv, TypeOK, RequestStates, OpStates, Idle, Never, Lateness, Horizon, Entries, Ages
<1>1. TypeOK'
  BY DEF PurgeOne, Dropped
<1>2. TokensKnown'
  BY DEF PurgeOne, Dropped, TokensKnown
<1>3. RowsFollow'
  BY DEF PurgeOne, Dropped, RowsFollow, Over
<1>4. EntriesRecent'
  BY DEF PurgeOne, Dropped, EntriesRecent
<1>5. WalkCovers'
  BY DEF PurgeOne, Dropped, WalkCovers
<1>6. OnlyOverlappingLoads'
  BY DEF PurgeOne, Dropped, OnlyOverlappingLoads
<1>7. (LateKnown /\ LoadsRecent /\ RevokedAfterTTL)'
  BY DEF PurgeOne, LateKnown, LoadsRecent, RevokedAfterTTL
<1>8. SeenRevoked'
  BY DEF PurgeOne, Dropped, SeenRevoked, Over
<1>9. QED
  BY <1>1, <1>2, <1>3, <1>4, <1>5, <1>6, <1>7, <1>8

\* PurgeEnd: no older entry is left when DeleteAccount answers.
LEMMA PurgeEndKeeps ==
  ASSUME IInv, NEW o \in Ops, PurgeEnd(o)
  PROVE  IInv'
<1> USE OwnerAssumption, TimeAssumption
      DEF IInv, TypeOK, RequestStates, OpStates, Idle, Never, Lateness, Horizon, Entries, Ages
<1>1. TypeOK'
  BY DEF PurgeEnd, TokensOf
<1>2. TokensKnown'
  BY DEF PurgeEnd, TokensOf, TokensKnown
<1>3. RowsFollow'
  BY DEF PurgeEnd, TokensOf, RowsFollow, Over
<1>4. LateKnown'
  BY DEF PurgeEnd, TokensOf, LateKnown
<1>5. LoadsRecent'
  BY DEF PurgeEnd, TokensOf, LoadsRecent
<1>6. EntriesRecent'
  BY DEF PurgeEnd, TokensOf, EntriesRecent
<1>7. WalkCovers'
  BY DEF PurgeEnd, TokensOf, WalkCovers
<1>8. OnlyOverlappingLoads'
  BY DEF PurgeEnd, TokensOf, OnlyOverlappingLoads, WalkCovers, TokensKnown
<1>9. (RevokedAfterTTL)'
  BY DEF PurgeEnd, RevokedAfterTTL
<1>10. SeenRevoked'
  BY DEF PurgeEnd, SeenRevoked, Over
<1>11. QED
  BY <1>1, <1>2, <1>3, <1>4, <1>5, <1>6, <1>7, <1>8, <1>9, <1>10

\* Judge only marks a key.
LEMMA JudgeKeeps ==
  ASSUME IInv, NEW t \in Tokens, Judge(t)
  PROVE  IInv'
<1> USE OwnerAssumption, TimeAssumption
      DEF IInv, TypeOK, RequestStates, OpStates, Idle, Never, Lateness, Horizon, Entries, Ages
<1>1. TypeOK'
  BY DEF Judge
<1>2. (TokensKnown /\ RowsFollow /\ LateKnown /\ LoadsRecent /\ EntriesRecent /\ WalkCovers /\ OnlyOverlappingLoads /\ RevokedAfterTTL)'
  BY DEF Judge, TokensKnown, RowsFollow, Over, LateKnown, LoadsRecent, EntriesRecent, WalkCovers, OnlyOverlappingLoads, RevokedAfterTTL
<1>3. SeenRevoked'
  BY DEF Judge, SeenRevoked, Over
<1>4. QED
  BY <1>1, <1>2, <1>3

\* Evict drops an entry.
LEMMA EvictKeeps ==
  ASSUME IInv, Evict
  PROVE  IInv'
<1> USE OwnerAssumption, TimeAssumption
      DEF IInv, TypeOK, RequestStates, OpStates, Idle, Never, Lateness, Horizon, Entries, Ages
<1>1. TypeOK'
  BY DEF Evict, Dropped
<1>2. TokensKnown'
  BY DEF Evict, Dropped, TokensKnown
<1>3. EntriesRecent'
  BY DEF Evict, Dropped, EntriesRecent
<1>4. WalkCovers'
  BY DEF Evict, Dropped, WalkCovers
<1>5. OnlyOverlappingLoads'
  BY DEF Evict, Dropped, OnlyOverlappingLoads
<1>6. (RowsFollow /\ LateKnown /\ LoadsRecent /\ RevokedAfterTTL)'
  BY DEF Evict, RowsFollow, Over, LateKnown, LoadsRecent, RevokedAfterTTL
<1>7. SeenRevoked'
  BY DEF Evict, Dropped, SeenRevoked, Over
<1>8. QED
  BY <1>1, <1>2, <1>3, <1>4, <1>5, <1>6, <1>7

\* Tick: entries, loads and revocations age together.
LEMMA TickKeeps ==
  ASSUME IInv, Tick
  PROVE  IInv'
<1> USE OwnerAssumption, TimeAssumption
      DEF IInv, TypeOK, RequestStates, OpStates, Idle, Never, Lateness, Horizon, Entries, Ages
<1>1. TypeOK'
  <2>1. DOMAIN sessionCache' \subseteq Tokens /\ \A t \in DOMAIN sessionCache' : sessionCache'[t] \in Entries
    BY DEF Tick
  <2>2. req' \in [Requests -> RequestStates]
    <3>1. ASSUME NEW r \in Requests, req[r].at = "store" PROVE req'[r] \in RequestStates
      <4>1. req'[r] = [req[r] EXCEPT !.wait = @ + 1] /\ req[r].wait < MaxLoad
        BY <3>1 DEF Tick
      <4>2. req[r] \in [at : {"store"}, token : Tokens, late : Lateness, revoked : BOOLEAN,
                         wait : 0..MaxLoad]
        BY <3>1
      <4>3. QED
        BY <4>1, <4>2
    <3>2. ASSUME NEW r \in Requests, req[r].at # "store" PROVE req'[r] = req[r]
      BY <3>2 DEF Tick
    <3>3. QED
      BY <3>1, <3>2 DEF Tick
  <2>3. since' \in [Tokens -> Lateness]
    <3>1. \A t \in Tokens : since'[t] = IF since[t] \in {Never, Horizon} THEN since[t] ELSE since[t] + 1
      BY DEF Tick
    <3>2. ASSUME NEW t \in Tokens PROVE since'[t] \in Lateness
      <4>1. since[t] \in Lateness
        BY DEF TypeOK
      <4> HIDE DEF Lateness, Never, Horizon, IInv, TypeOK
      <4>2. CASE since[t] \in {Never, Horizon}
        BY <3>1, <4>1, <4>2
      <4>3. CASE since[t] \notin {Never, Horizon}
        <5>1. since[t] + 1 \in Lateness
          BY <4>1, <4>3, LatenessGrows
        <5>2. QED
          BY <3>1, <4>3, <5>1
      <4>4. QED
        BY <4>2, <4>3
    <3>3. QED
      BY <3>2 DEF Tick
  <2>4. QED
    BY <2>1, <2>2, <2>3 DEF Tick
<1>2. TokensKnown'
  BY DEF Tick, TokensKnown
<1>3. RowsFollow'
  BY DEF Tick, RowsFollow, Over
<1>4. LateKnown'
  BY DEF Tick, LateKnown
<1>5. LoadsRecent'
  BY DEF Tick, LoadsRecent
<1>6. EntriesRecent'
  BY DEF Tick, EntriesRecent
<1>7. WalkCovers'
  BY DEF Tick, WalkCovers
<1>8. OnlyOverlappingLoads'
  BY DEF Tick, OnlyOverlappingLoads
<1>9. RevokedAfterTTL'
  BY DEF Tick, RevokedAfterTTL
<1>10. SeenRevoked'
  BY DEF Tick, SeenRevoked, Over
<1>11. QED
  BY <1>1, <1>2, <1>3, <1>4, <1>5, <1>6, <1>7, <1>8, <1>9, <1>10

----------------------------------------------------------------------------
(* The theorems *)

\* Every step preserves the invariant.
LEMMA NextKeeps == IInv /\ [Next]_vars => IInv'
<1> SUFFICES ASSUME IInv, [Next]_vars PROVE IInv'
  OBVIOUS
<1>1. ASSUME NEW t \in Tokens, CreateSession(t) \/ Judge(t) PROVE IInv'
  BY <1>1, CreateSessionKeeps, JudgeKeeps
<1>2. ASSUME NEW r \in Requests, RequestNext(r) PROVE IInv'
  BY <1>2, LoadKeeps, QueryKeeps, StoreKeeps, FinishKeeps DEF RequestNext
<1>3. ASSUME NEW o \in Ops, OpNext(o) PROVE IInv'
  BY <1>3, RevokeSessionKeeps, SignOutKeeps, InvalidateSessionCacheKeeps, DeleteAccountKeeps,
     InvalidateUserSessionCacheKeeps, PurgeOneKeeps, PurgeEndKeeps DEF OpNext
<1>4. CASE UNCHANGED vars
  BY <1>4 DEF vars, IInv, TypeOK, TokensKnown, RowsFollow, Over, LateKnown, LoadsRecent,
     EntriesRecent, WalkCovers, OnlyOverlappingLoads, RevokedAfterTTL, SeenRevoked, Over
<1>5. QED
  BY <1>1, <1>2, <1>3, <1>4, EvictKeeps, TickKeeps DEF Next

\* The invariant holds in every reachable state.
THEOREM Invariance == Spec => []IInv
<1>1. Init => IInv
  BY OwnerAssumption, TimeAssumption
     DEF Init, IInv, TypeOK, RequestStates, OpStates, Idle, Never, Lateness, TokensKnown, RowsFollow, Over,
         SeenRevoked, Over, LateKnown, LoadsRecent, EntriesRecent, WalkCovers, OnlyOverlappingLoads,
         RevokedAfterTTL
<1>2. QED
  BY <1>1, NextKeeps, PTL DEF Spec

\* The variables of the session cache and its requests keep their types.
THEOREM TypeCorrect == Spec => []TypeOK
<1>1. IInv => TypeOK
  BY DEF IInv
<1>2. QED
  BY <1>1, Invariance, PTL

\* A request that came in after a revocation was answered is rejected, unless it
\* hits an entry within the TTL and the time of a load, its SELECT fails, or the
\* row went with the account: middleware.Protected with RevokeSession, SignOut and
\* DeleteAccount.
THEOREM StalenessBounded == Spec => []RevokedAfterTTL
<1>1. IInv => RevokedAfterTTL
  BY DEF IInv
<1>2. QED
  BY <1>1, Invariance, PTL

\* Once a revocation is answered, every active entry of the session cache was
\* stored by a load that overlapped it.
THEOREM OnlyOverlapsAreStale == Spec => []OnlyOverlappingLoads
<1>1. IInv => OnlyOverlappingLoads
  BY DEF IInv
<1>2. QED
  BY <1>1, Invariance, PTL

\* Nobody with an active session is turned away, although a token may be handed out
\* twice and CreateSession leaves the session cache alone: the second INSERT fails
\* on the token's row, and a deleted account gets no row.
THEOREM NobodyFalselyRejected == Spec => []NoFalseRejection
<1>1. IInv => NoFalseRejection
  BY DEF IInv, SeenRevoked, Over, NoFalseRejection
<1>2. QED
  BY <1>1, Invariance, PTL

============================================================================
