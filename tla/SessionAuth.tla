----------------------------- MODULE SessionAuth -----------------------------
(***************************************************************************)
(* Sessions: the Protected middleware with its in-memory session cache     *)
(* (internal/middleware/auth.go) and the handlers that create, revoke and  *)
(* delete sessions (internal/handlers/sessions.go, and DeleteAccount of    *)
(* internal/handlers/auth.go).                                             *)
(*                                                                         *)
(* A request reads the cache, then possibly the user_sessions row, then    *)
(* writes the cache, with anything in between; a revocation writes the row *)
(* and then drops the cache entry.  A token stands for its hash; the JWT   *)
(* itself is valid throughout, and the row's user is the token's, so the   *)
(* user mismatch branches are never taken.  Time is counted in ticks.      *)
(***************************************************************************)
EXTENDS Integers

CONSTANTS Tokens, Users,
          Owner,       \* Tokens -> Users: the user_id claim
          Requests,    \* requests that may be in Protected at the same time
          Ops,         \* revocations and deletions that may be in progress
          TTL,         \* sessionCacheTTL
          MaxAge,      \* sessionCacheMaxAge
          MaxLoad      \* ticks between a request's SELECT and its Store

ASSUME OwnerAssumption == Owner \in [Tokens -> Users]
ASSUME TimeAssumption == TTL \in Nat /\ MaxAge \in Nat /\ MaxLoad \in Nat /\ TTL <= MaxAge

VARIABLES
  profiles,     \* users whose profile row exists
  issued,       \* tokens handed out
  row,          \* the token's row in user_sessions
  sessionCache, \* token -> [revoked, age, behind], a partial function; behind
                \* (history): the row was not active when the entry was stored
  req,          \* where each request is
  op,           \* where each revocation or deletion is
  evicting,     \* the key the evictor is about to delete, as a set
  since         \* ticks since the token's revocation was answered (history)

vars == <<profiles, issued, row, sessionCache, req, op, evicting, since>>

Idle == [at |-> "idle"]
Never == -1

\* since stops counting here.
Horizon == TTL + MaxLoad

Ages == 0..(MaxAge + 1)
Entries == [revoked : BOOLEAN, age : Ages, behind : BOOLEAN]
Lateness == {Never} \cup 0..Horizon

RequestStates ==
  {Idle}
    \cup [at : {"query"}, token : Tokens, late : Lateness]
    \cup [at : {"store"}, token : Tokens, late : Lateness, revoked : BOOLEAN, wait : 0..MaxLoad]
    \cup [at : {"done"}, token : Tokens, late : Lateness,
          verdict : {"active", "revoked", "missing", "failed"}]

OpStates ==
  {Idle} \cup [at : {"invalidate"}, token : Tokens]
         \cup [at : {"committed"}, user : Users]
         \cup [at : {"purge"}, user : Users, todo : SUBSET Tokens]

TypeOK ==
  /\ profiles \subseteq Users
  /\ issued \subseteq Tokens
  /\ row \in [Tokens -> {"none", "active", "revoked"}]
  /\ DOMAIN sessionCache \subseteq Tokens
  /\ \A t \in DOMAIN sessionCache : sessionCache[t] \in Entries
  /\ req \in [Requests -> RequestStates]
  /\ op \in [Ops -> OpStates]
  /\ evicting \subseteq Tokens
  /\ since \in [Tokens -> Lateness]

Init ==
  /\ profiles = Users
  /\ issued = {}
  /\ row = [t \in Tokens |-> "none"]
  /\ sessionCache = [t \in {} |-> {}]
  /\ req = [r \in Requests |-> Idle]
  /\ op = [o \in Ops |-> Idle]
  /\ evicting = {}
  /\ since = [t \in Tokens |-> Never]

Dropped(S) == [t \in DOMAIN sessionCache \ S |-> sessionCache[t]]

----------------------------------------------------------------------------
(* CreateSession *)

\* Mutant of CreateSession: the row of a known token is activated again.
CreateSessionUpsert(t) ==
  /\ issued' = issued \cup {t}
  /\ \/ UNCHANGED row
     \/ Owner[t] \in profiles /\ row' = [row EXCEPT ![t] = "active"]
  /\ UNCHANGED <<profiles, sessionCache, req, op, evicting, since>>

\* A sign-in hands out a token.  Its claims are the user and the time in seconds
\* (GenerateToken), so a second sign-in may hand out the same token again, here
\* at any later time.  The INSERT needs the user's profile row (schema.sql:148)
\* and that the token has no row yet (schema.sql:149).  If it fails, that is only
\* logged, and the token is handed out all the same.
CreateSession(t) ==
  /\ issued' = issued \cup {t}
  /\ \/ UNCHANGED row
     \/ row[t] = "none" /\ Owner[t] \in profiles /\ row' = [row EXCEPT ![t] = "active"]
  /\ UNCHANGED <<profiles, sessionCache, req, op, evicting, since>>

----------------------------------------------------------------------------
(* Protected *)

\* Mutant of Fresh: the TTL is not enforced on a hit.
FreshAlways(e) == TRUE

\* `time.Since(entry.cachedAt) < sessionCacheTTL`
Fresh(e) == e.age < TTL

Hit(t) == t \in DOMAIN sessionCache /\ Fresh(sessionCache[t])

Answered(r, t, late, v) ==
  req' = [req EXCEPT ![r] = [at |-> "done", token |-> t, late |-> late, verdict |-> v]]

\* sessionCache.Load: a fresh entry decides, anything else goes to the database.
Load(r, t) ==
  /\ req[r] = Idle
  /\ t \in issued
  /\ \/ /\ Hit(t)
        /\ Answered(r, t, since[t], IF sessionCache[t].revoked THEN "revoked" ELSE "active")
     \/ /\ ~Hit(t)
        /\ req' = [req EXCEPT ![r] = [at |-> "query", token |-> t, late |-> since[t]]]
  /\ UNCHANGED <<profiles, issued, row, sessionCache, op, evicting, since>>

\* The SELECT fails, finds no row, or finds one.  The first two are not told apart
\* by the code and let the request through; the verdicts say which it was.
Query(r) ==
  /\ req[r].at = "query"
  /\ \/ Answered(r, req[r].token, req[r].late, "failed")
     \/ row[req[r].token] = "none" /\ Answered(r, req[r].token, req[r].late, "missing")
     \/ /\ row[req[r].token] # "none"
        /\ req' = [req EXCEPT ![r] =
             [at |-> "store", token |-> req[r].token, late |-> req[r].late,
              revoked |-> row[req[r].token] = "revoked", wait |-> 0]]
  /\ UNCHANGED <<profiles, issued, row, sessionCache, op, evicting, since>>

\* sessionCache.Store with what the SELECT saw, and the verdict on it.
Store(r) ==
  /\ req[r].at = "store"
  /\ sessionCache' = [t \in DOMAIN sessionCache \cup {req[r].token} |->
       IF t = req[r].token
         THEN [revoked |-> req[r].revoked, age |-> 0, behind |-> row[t] # "active"]
         ELSE sessionCache[t]]
  /\ Answered(r, req[r].token, req[r].late, IF req[r].revoked THEN "revoked" ELSE "active")
  /\ UNCHANGED <<profiles, issued, row, op, evicting, since>>

Finish(r) ==
  /\ req[r].at = "done"
  /\ req' = [req EXCEPT ![r] = Idle]
  /\ UNCHANGED <<profiles, issued, row, sessionCache, op, evicting, since>>

----------------------------------------------------------------------------
(* Revocation: the row first, then the cache entry *)

TokensOf(u) == {t \in issued : Owner[t] = u}

\* RevokeSession's UPDATE ... RETURNING: the caller's own user, an unrevoked
\* session, and not the one the caller is using.  Without such a row it changes
\* nothing and never gets to the cache.
RevokeSession(o, t) ==
  /\ op[o] = Idle
  /\ row[t] = "active"
  /\ TokensOf(Owner[t]) \ {t} # {}
  /\ row' = [row EXCEPT ![t] = "revoked"]
  /\ op' = [op EXCEPT ![o] = [at |-> "invalidate", token |-> t]]
  /\ UNCHANGED <<profiles, issued, sessionCache, req, evicting, since>>

\* SignOut: an error of the UPDATE is only logged, the entry is dropped anyway.
SignOut(o, t) ==
  /\ op[o] = Idle
  /\ t \in issued
  /\ row' \in {row, [row EXCEPT ![t] = IF @ = "none" THEN @ ELSE "revoked"]}
  /\ op' = [op EXCEPT ![o] = [at |-> "invalidate", token |-> t]]
  /\ UNCHANGED <<profiles, issued, sessionCache, req, evicting, since>>

Revoked(t) == row[t] = "revoked"

\* Mutant of InvalidateSessionCache: the entry is not dropped.
InvalidateNothing(o) ==
  /\ op[o].at = "invalidate"
  /\ since' = [since EXCEPT ![op[o].token] = IF Revoked(op[o].token) /\ @ = Never THEN 0 ELSE @]
  /\ op' = [op EXCEPT ![o] = Idle]
  /\ UNCHANGED <<profiles, issued, row, sessionCache, req, evicting>>

\* InvalidateSessionCache, and the 204 of the handler that called it.
InvalidateSessionCache(o) ==
  /\ op[o].at = "invalidate"
  /\ sessionCache' = Dropped({op[o].token})
  /\ since' = [since EXCEPT ![op[o].token] = IF Revoked(op[o].token) /\ @ = Never THEN 0 ELSE @]
  /\ op' = [op EXCEPT ![o] = Idle]
  /\ UNCHANGED <<profiles, issued, row, req, evicting>>

\* DeleteAccount's transaction commits: the user's session rows and profile are
\* gone.  (If it does not commit, nothing changes.)
DeleteAccount(o, u) ==
  /\ op[o] = Idle
  /\ TokensOf(u) # {}
  /\ profiles' = profiles \ {u}
  /\ row' = [t \in Tokens |-> IF Owner[t] = u THEN "none" ELSE row[t]]
  /\ op' = [op EXCEPT ![o] = [at |-> "committed", user |-> u]]
  /\ UNCHANGED <<issued, sessionCache, req, evicting, since>>

\* InvalidateUserSessionCache walks the cache with sync.Map.Range, which visits
\* every key that is there from the start, and may or may not visit one that is
\* stored during the walk.
InvalidateUserSessionCache(o) ==
  /\ op[o].at = "committed"
  /\ \E S \in SUBSET TokensOf(op[o].user) :
       /\ DOMAIN sessionCache \cap TokensOf(op[o].user) \subseteq S
       /\ op' = [op EXCEPT ![o] = [at |-> "purge", user |-> op[o].user, todo |-> S]]
  /\ UNCHANGED <<profiles, issued, row, sessionCache, req, evicting, since>>

\* One key of the walk.
PurgeOne(o, t) ==
  /\ op[o].at = "purge"
  /\ t \in op[o].todo
  /\ sessionCache' = Dropped({t})
  /\ op' = [op EXCEPT ![o].todo = @ \ {t}]
  /\ UNCHANGED <<profiles, issued, row, req, evicting, since>>

\* DeleteAccount answers 204.
PurgeEnd(o) ==
  /\ op[o].at = "purge"
  /\ op[o].todo = {}
  /\ since' = [t \in Tokens |->
                 IF t \in TokensOf(op[o].user) /\ since[t] = Never THEN 0 ELSE since[t]]
  /\ op' = [op EXCEPT ![o] = Idle]
  /\ UNCHANGED <<profiles, issued, row, sessionCache, req, evicting>>

----------------------------------------------------------------------------
(* Time *)

TooOld(t) == t \in DOMAIN sessionCache /\ sessionCache[t].age > MaxAge

\* Mutant of Judge: the evictor applies the age test the wrong way round.
JudgeYoung(t) ==
  /\ evicting = {}
  /\ t \in DOMAIN sessionCache /\ sessionCache[t].age <= MaxAge
  /\ evicting' = {t}
  /\ UNCHANGED <<profiles, issued, row, sessionCache, req, op, since>>

\* startSessionCacheEvictor comes to an entry that is too old ...
Judge(t) ==
  /\ evicting = {}
  /\ TooOld(t)
  /\ evicting' = {t}
  /\ UNCHANGED <<profiles, issued, row, sessionCache, req, op, since>>

\* ... and deletes the key, whatever is stored under it by now.
Evict ==
  /\ evicting # {}
  /\ sessionCache' = Dropped(evicting)
  /\ evicting' = {}
  /\ UNCHANGED <<profiles, issued, row, req, op, since>>

\* A tick passes; no request takes longer than MaxLoad from SELECT to Store.
Tick ==
  /\ \A r \in Requests : req[r].at = "store" => req[r].wait < MaxLoad
  /\ sessionCache' = [t \in DOMAIN sessionCache |->
       [sessionCache[t] EXCEPT !.age = IF @ > MaxAge THEN @ ELSE @ + 1]]
  /\ req' = [r \in Requests |->
       IF req[r].at = "store" THEN [req[r] EXCEPT !.wait = @ + 1] ELSE req[r]]
  /\ since' = [t \in Tokens |->
       IF since[t] \in {Never, Horizon} THEN since[t] ELSE since[t] + 1]
  /\ UNCHANGED <<profiles, issued, row, op, evicting>>

----------------------------------------------------------------------------
RequestNext(r) ==
  (\E t \in Tokens : Load(r, t)) \/ Query(r) \/ Store(r) \/ Finish(r)

OpNext(o) ==
  \/ \E t \in Tokens : RevokeSession(o, t) \/ SignOut(o, t) \/ PurgeOne(o, t)
  \/ \E u \in Users : DeleteAccount(o, u)
  \/ InvalidateSessionCache(o) \/ InvalidateUserSessionCache(o) \/ PurgeEnd(o)

Next ==
  \/ \E t \in Tokens : CreateSession(t)
  \/ \E r \in Requests : RequestNext(r)
  \/ \E o \in Ops : OpNext(o)
  \/ \E t \in Tokens : Judge(t)
  \/ Evict
  \/ Tick

Spec == Init /\ [][Next]_vars

\* The evictor's ticker fires for ever and each round visits every key.
FairSpec == Spec /\ WF_vars(Evict) /\ \A t \in Tokens : SF_vars(Judge(t))

----------------------------------------------------------------------------
(* Properties *)

\* A request that comes in after RevokeSession, SignOut or DeleteAccount has
\* answered is rejected (sessions.go:135-138, handlers/auth.go:683-691), but for
\* three ways through: a cached entry, within sessionCacheTTL of the answer plus
\* the time of the load that overlapped the revocation; a SELECT that fails; and
\* the rows being gone with the account (middleware/auth.go:264).
RevokedAfterTTL ==
  \A r \in Requests :
    req[r].at = "done" /\ req[r].late # Never =>
      \/ req[r].verdict \in {"revoked", "failed"}
      \/ req[r].verdict = "active" /\ req[r].late < TTL + MaxLoad
      \/ req[r].verdict = "missing" /\ Owner[req[r].token] \notin profiles

\* What dropping the entry after the UPDATE or the COMMIT is for: once the
\* revocation is answered, no active entry is left from the time when the
\* session was active.  Only a load that overlapped the revocation can put one
\* back (sessions.go:136-142, auth.go:683-691).
OnlyOverlappingLoads ==
  \A t \in DOMAIN sessionCache :
    since[t] # Never /\ ~sessionCache[t].revoked => sessionCache[t].behind

\* Nobody who has an active session is turned away as revoked, now or on the next
\* hit: a sign-in does not drop the token's cached entry, so it must never make
\* the row of a token active again that was seen revoked, although the same token
\* may be handed out twice (sessions.go:27-43, middleware/auth.go:198-202, 275-289).
NoFalseRejection ==
  /\ \A t \in DOMAIN sessionCache : sessionCache[t].revoked => row[t] # "active"
  /\ \A r \in Requests :
       req[r].at = "done" /\ req[r].verdict = "revoked" => row[req[r].token] # "active"

\* An abandoned entry does not sit in memory for ever (auth.go:82-87).
EvictorBounds == \A t \in Tokens : TooOld(t) ~> ~TooOld(t)

============================================================================
