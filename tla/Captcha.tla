------------------------------- MODULE Captcha -------------------------------
(***************************************************************************)
(* The gate before sign-in: the captcha middleware                         *)
(* (internal/middleware/captcha.go), the verifier of each platform         *)
(* (internal/captcha), and the attestation endpoints and tables            *)
(* (internal/handlers/attest.go).                                          *)
(*                                                                         *)
(* Web tokens are checked by Cloudflare Turnstile, whose verdicts are      *)
(* cached; iOS assertions redeem a challenge and advance the counter of a  *)
(* registered key; Android verdicts redeem a challenge if they carry one.  *)
(* What the bytes of a token must satisfy on their own (encodings, hashes, *)
(* signatures) is abstracted to a check that passes or fails.              *)
(***************************************************************************)
EXTENDS Integers, Sequences, FiniteSets

CONSTANTS Requests,     \* requests in progress at the same time
          WebTokens,    \* Turnstile tokens
          Challenges,   \* the challenges that are drawn
          Keys,         \* App Attest keys
          MaxCounter,   \* of an assertion
          VerdictTTL,   \* ticks that a verdict is cached
          CacheMax,     \* verdicts that are cached
          ChallengeTTL, \* ticks that a challenge is good for
          DoorSets      \* the doors that are used together

ASSUME RequestAssumption == IsFiniteSet(Requests)
ASSUME CounterAssumption == MaxCounter \in Nat \ {0}
ASSUME CaptchaTTLAssumption == VerdictTTL \in Nat /\ ChallengeTTL \in Nat \ {0}
ASSUME CacheMaxAssumption == CacheMax \in Nat \ {0}

Doors == {"web", "ios", "android", "email"}

ASSUME DoorAssumption == DoorSets \subseteq SUBSET Doors

VARIABLES
  doors,     \* the doors through which requests come in this behaviour
  request,   \* where each request is
  challenge, \* attest_challenges: Undrawn, Spent, or ticks left
  counter,   \* attest_keys: the counter of a key, or Unregistered
  cache,     \* token -> ticks left of its verdict
  cacheLRU,  \* tokens in the order in which they were cached
  redeemed,  \* the tokens that Cloudflare has accepted
  uses,      \* history: how often a challenge has admitted somebody
  accepted,  \* history: how often a counter of a key was, since it was registered
  cachings,  \* history: the tokens cached, in order, with the ticks since
  dropped    \* history: how many expired verdicts a lookup has removed

attestVars == <<challenge, counter, uses, accepted>>
turnstileVars == <<cache, cacheLRU, redeemed, cachings, dropped>>
captchaVars == <<doors, request, attestVars, turnstileVars>>

Undrawn == -1
Spent == -2
Unregistered == -1

Idle == [at |-> "idle"]

\* The middleware is done, and the handler's turn comes.
Passed == [at |-> "passed"]

Counters == 0..MaxCounter

CaptchaInit ==
  /\ doors \in DoorSets
  /\ request = [r \in Requests |-> Idle]
  /\ challenge = [c \in Challenges |-> Undrawn]
  /\ counter = [k \in Keys |-> Unregistered]
  /\ cache = [t \in {} |-> 0]
  /\ cacheLRU = <<>>
  /\ redeemed = {}
  /\ uses = [c \in Challenges |-> 0]
  /\ accepted = [k \in Keys |-> [n \in Counters |-> 0]]
  /\ cachings = <<>>
  /\ dropped = 0

Goto(r, s) == request' = [request EXCEPT ![r] = s]

----------------------------------------------------------------------------
(* Turnstile.  The lock is not held while Cloudflare is asked. *)

\* A verdict that has expired is removed from the map, not from cacheLRU.
cacheHit(t) ==
  IF t \in DOMAIN cache /\ cache[t] < 0
  THEN /\ cache' = [u \in DOMAIN cache \ {t} |-> cache[u]]
       /\ dropped' = dropped + 1
  ELSE UNCHANGED <<cache, dropped>>

\* The middleware dispatches to the web verifier, which looks up the verdict.
VerifyWeb(r, t) ==
  /\ "web" \in doors
  /\ request[r] = Idle
  /\ cacheHit(t)
  /\ Goto(r, IF t \in DOMAIN cache' THEN Passed ELSE [at |-> "siteverify", token |-> t])
  /\ UNCHANGED <<doors, attestVars, cacheLRU, redeemed, cachings>>

\* Cloudflare accepts a token once.
Accept(r) ==
  /\ request[r].at = "siteverify"
  /\ request[r].token \notin redeemed
  /\ redeemed' = redeemed \cup {request[r].token}
  /\ Goto(r, [at |-> "verdict", token |-> request[r].token])
  /\ UNCHANGED <<doors, attestVars, cache, cacheLRU, cachings, dropped>>

\* It refuses a token, or its answer is lost, or names another action.
Refuse(r) ==
  /\ request[r].at = "siteverify"
  /\ redeemed' \in {redeemed, redeemed \cup {request[r].token}}
  /\ Goto(r, Idle)
  /\ UNCHANGED <<doors, attestVars, cache, cacheLRU, cachings, dropped>>

\* Mutant of Evicted: the verdict that was cached last is evicted.
EvictedLast(full) ==
  IF full /\ cacheLRU # <<>> THEN {cacheLRU[Len(cacheLRU)]} ELSE {}

\* The oldest insertion goes when the map is full, which may be one whose verdict
\* a lookup has removed already.
Evicted(full) == IF full /\ cacheLRU # <<>> THEN {cacheLRU[1]} ELSE {}

\* Mutant of cacheStore: nothing is evicted.
StoreUnbounded(t) ==
  /\ cache' = [u \in DOMAIN cache \cup {t} |-> IF u = t THEN VerdictTTL ELSE cache[u]]
  /\ cacheLRU' = IF t \in DOMAIN cache THEN cacheLRU ELSE Append(cacheLRU, t)

cacheStore(t) ==
  LET full == t \notin DOMAIN cache /\ Cardinality(DOMAIN cache) >= CacheMax
      out == Evicted(full)
  IN  /\ cache' = [u \in (DOMAIN cache \ out) \cup {t} |-> IF u = t THEN VerdictTTL ELSE cache[u]]
      /\ cacheLRU' = IF t \in DOMAIN cache THEN cacheLRU
                     ELSE Append(IF out = {} THEN cacheLRU ELSE Tail(cacheLRU), t)

\* The verdict is cached, and the request goes on.
CacheVerdict(r) ==
  /\ request[r].at = "verdict"
  /\ cacheStore(request[r].token)
  /\ cachings' = Append(cachings, [token |-> request[r].token, age |-> 0])
  /\ Goto(r, Passed)
  /\ UNCHANGED <<doors, attestVars, redeemed, dropped>>

----------------------------------------------------------------------------
(* Challenges *)

\* AttestChallenge draws a challenge.
AttestChallenge(c) ==
  /\ doors \cap {"ios", "android"} # {}
  /\ challenge[c] = Undrawn
  /\ challenge' = [challenge EXCEPT ![c] = ChallengeTTL]
  /\ UNCHANGED <<doors, request, counter, uses, accepted, turnstileVars>>

\* One statement deletes the row, if it is there and has not expired.
Consume(c) ==
  /\ challenge[c] > 0
  /\ challenge' = [challenge EXCEPT ![c] = Spent]

Admit(c) == uses' = [uses EXCEPT ![c] = @ + 1]

----------------------------------------------------------------------------
(* App Attest.  Only what gets past a check is modelled: a request that is   *)
(* refused before it has redeemed its challenge changes nothing.             *)

\* The assertion names a key, a counter and a challenge, which is redeemed first.
VerifyIOS(r, k, n, c) ==
  /\ "ios" \in doors
  /\ request[r] = Idle
  /\ Consume(c)
  /\ Goto(r, [at |-> "lookup", key |-> k, counter |-> n, challenge |-> c])
  /\ UNCHANGED <<doors, counter, uses, accepted, turnstileVars>>

\* The key is registered and its counter lower, and the signature is good.
Lookup(r) ==
  /\ request[r].at = "lookup"
  /\ counter[request[r].key] # Unregistered
  /\ request[r].counter > counter[request[r].key]
  /\ Goto(r, [request[r] EXCEPT !.at = "bump"])
  /\ UNCHANGED <<doors, attestVars, turnstileVars>>

\* A check or a statement fails: the challenge stays spent.
RefuseIOS(r) ==
  /\ request[r].at \in {"lookup", "bump"}
  /\ Goto(r, Idle)
  /\ UNCHANGED <<doors, attestVars, turnstileVars>>

\* Mutant of BumpCounter: the counter is set without a condition.
BumpAlways(k, n) == counter' = [counter EXCEPT ![k] = n]

\* One statement advances the counter, if it is still lower.
BumpCounter(k, n) ==
  /\ counter[k] < n
  /\ counter' = [counter EXCEPT ![k] = n]

Bump(r) ==
  /\ request[r].at = "bump"
  /\ BumpCounter(request[r].key, request[r].counter)
  /\ Admit(request[r].challenge)
  /\ accepted' = [accepted EXCEPT ![request[r].key][request[r].counter] = @ + 1]
  /\ Goto(r, Passed)
  /\ UNCHANGED <<doors, challenge, turnstileVars>>

\* AttestRegister: the object names the key and its counter, and the challenge is
\* redeemed before the key is stored.
AttestRegister(r, k, n, c) ==
  /\ "ios" \in doors
  /\ request[r] = Idle
  /\ Consume(c)
  /\ Goto(r, [at |-> "upsert", key |-> k, counter |-> n, challenge |-> c])
  /\ UNCHANGED <<doors, counter, uses, accepted, turnstileVars>>

\* The key and its counter replace what is stored.
Upsert(r) ==
  /\ request[r].at = "upsert"
  /\ counter' = [counter EXCEPT ![request[r].key] = request[r].counter]
  /\ accepted' = [accepted EXCEPT ![request[r].key] = [n \in Counters |-> 0]]
  /\ Admit(request[r].challenge)
  /\ Goto(r, Idle)
  /\ UNCHANGED <<doors, challenge, turnstileVars>>

UpsertFails(r) ==
  /\ request[r].at = "upsert"
  /\ Goto(r, Idle)
  /\ UNCHANGED <<doors, attestVars, turnstileVars>>

----------------------------------------------------------------------------
(* Play Integrity *)

\* The verdict is good; the challenge in it, if there is one, is redeemed.
VerifyAndroid(r, c) ==
  /\ "android" \in doors
  /\ request[r] = Idle
  /\ Consume(c)
  /\ Admit(c)
  /\ Goto(r, Passed)
  /\ UNCHANGED <<doors, counter, accepted, turnstileVars>>

VerifyAndroidBare(r) ==
  /\ "android" \in doors
  /\ request[r] = Idle
  /\ Goto(r, Passed)
  /\ UNCHANGED <<doors, attestVars, turnstileVars>>

----------------------------------------------------------------------------
CaptchaStep(r) ==
  \/ \E t \in WebTokens : VerifyWeb(r, t)
  \/ Accept(r) \/ Refuse(r) \/ CacheVerdict(r)
  \/ \E k \in Keys, n \in Counters, c \in Challenges :
       VerifyIOS(r, k, n, c) \/ AttestRegister(r, k, n, c)
  \/ Lookup(r) \/ RefuseIOS(r) \/ Bump(r) \/ Upsert(r) \/ UpsertFails(r)
  \/ \E c \in Challenges : VerifyAndroid(r, c)
  \/ VerifyAndroidBare(r)

CaptchaNext ==
  \/ \E r \in Requests : CaptchaStep(r)
  \/ \E c \in Challenges : AttestChallenge(c)

\* Time passes for challenges and verdicts.
CaptchaTick ==
  /\ challenge' = [c \in Challenges |-> IF challenge[c] > 0 THEN challenge[c] - 1 ELSE challenge[c]]
  /\ cache' = [t \in DOMAIN cache |-> IF cache[t] < 0 THEN cache[t] ELSE cache[t] - 1]
  /\ cachings' = [i \in DOMAIN cachings |->
                    IF cachings[i].age > VerdictTTL THEN cachings[i] ELSE [cachings[i] EXCEPT !.age = @ + 1]]
  /\ UNCHANGED <<doors, request, counter, uses, accepted, cacheLRU, redeemed, dropped>>

----------------------------------------------------------------------------
(* Properties *)

\* A challenge admits one request or registration, and a key's counter value one
\* assertion between two registrations of the key, however the statements of
\* concurrent requests interleave (attest.go:66-68, 118-119).
NoReplay ==
  /\ \A c \in Challenges : uses[c] <= 1
  /\ \A k \in Keys, n \in Counters : accepted[k][n] <= 1

\* The last CacheMax verdicts are there for as long as they are good, so that a
\* retry does not ask Cloudflare again, which would refuse the token
\* (turnstile.go:30-34).
VerdictsKept ==
  \A i \in DOMAIN cachings :
    cachings[i].age <= VerdictTTL /\ i > Len(cachings) - CacheMax =>
      cachings[i].token \in DOMAIN cache /\ cache[cachings[i].token] >= 0

\* The map exceeds its limit by no more than the verdicts that lookups have
\* removed, whose places in cacheLRU stay (turnstile.go:37).
VerdictsBounded == Cardinality(DOMAIN cache) <= CacheMax + dropped

=============================================================================
