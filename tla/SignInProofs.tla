---------------------------- MODULE SignInProofs ----------------------------
(***************************************************************************)
(* What SignIn and the Captcha before it promise for every number of       *)
(* requests, tokens, challenges, keys and addresses, and every limit.      *)
(***************************************************************************)
EXTENDS SignIn, FiniteSetTheorems, TLAPS

----------------------------------------------------------------------------
(* The invariant, in one part for each group of variables *)

\* The requests that have redeemed a challenge and not used it yet.
Holders == {r \in Requests : request[r].at \in {"lookup", "bump", "upsert"}}

\* A challenge that somebody holds or has used is spent; it has one holder, and
\* none after its use.  A counter value that was accepted is not above the key's.
AttestInv ==
  /\ \A r \in Holders : challenge[request[r].challenge] = Spent /\ uses[request[r].challenge] = 0
  /\ \A q, r \in Holders : request[q].challenge = request[r].challenge => q = r
  /\ \A c \in Challenges : uses[c] <= 1 /\ (uses[c] > 0 => challenge[c] = Spent)
  /\ \A k \in Keys, n \in Counters : accepted[k][n] <= 1 /\ (accepted[k][n] > 0 => n <= counter[k])

\* A token is cached once: Cloudflare accepts it once, and one request has that
\* verdict.
TokensOnce ==
  /\ \A i \in DOMAIN cachings : cachings[i].token \in redeemed
  /\ \A i, j \in DOMAIN cachings : cachings[i].token = cachings[j].token => i = j
  /\ \A r \in Requests : request[r].at = "verdict" =>
       /\ request[r].token \in redeemed
       /\ \A i \in DOMAIN cachings : cachings[i].token # request[r].token
       /\ \A q \in Requests : request[q].at = "verdict" /\ request[q].token = request[r].token => q = r

\* cacheLRU has the tokens that were cached last, in order, among them all that
\* are in the map, where a verdict has the time left that its age says.
LruIsRecent ==
  /\ Len(cacheLRU) <= Len(cachings)
  /\ \A j \in 1..Len(cacheLRU) : cacheLRU[j] = cachings[Len(cachings) - Len(cacheLRU) + j].token
  /\ \A t \in DOMAIN cache : \E j \in 1..Len(cacheLRU) : cacheLRU[j] = t
  /\ \A i \in DOMAIN cachings : cachings[i].token \in DOMAIN cache =>
       cache[cachings[i].token] = VerdictTTL - cachings[i].age

\* The places in cacheLRU without a verdict in the map are those of verdicts that a
\* lookup has removed.
LruBounded ==
  /\ IsFiniteSet(DOMAIN cache)
  /\ Len(cacheLRU) <= Cardinality(DOMAIN cache) + dropped
  /\ Len(cacheLRU) <= CacheMax + dropped

TurnstileInv == TokensOnce /\ LruIsRecent /\ LruBounded /\ VerdictsKept

\* A request that is about to insert a profile which exists by now has been
\* overtaken.
RaceKnown ==
  /\ \A r \in Requests : request[r].at = "insert" /\ profiles[request[r].email] # "none" => request[r].raced
  /\ FailsOnlyInRace

\* The inductive invariant.
IInv == TypeOK /\ AttestInv /\ TurnstileInv /\ RaceKnown /\ AttemptsBounded

----------------------------------------------------------------------------
(* Steps that do not concern a part *)

\* What a request carries, by where it is.
LEMMA StateFields ==
  ASSUME NEW s \in RequestStates
  PROVE  /\ s.at \in {"siteverify", "verdict"} => s.token \in WebTokens
         /\ s.at \in {"lookup", "bump", "upsert"} =>
              s \in [at : {"lookup", "bump", "upsert"}, key : Keys, counter : Counters, challenge : Challenges]
         /\ s.at = "insert" =>
              s \in [at : {"insert"}, email : Emails, provider : {"google", "email"}, raced : BOOLEAN]
         /\ s.at = "failed" => s.raced \in BOOLEAN
         /\ s.at = "compare" => s.email \in Emails
<1>1. CASE s \in {Idle, Passed}
  BY <1>1 DEF Idle, Passed
<1>2. CASE s \in [at : {"siteverify", "verdict"}, token : WebTokens]
  BY <1>2
<1>3. CASE s \in [at : {"lookup", "bump", "upsert"}, key : Keys, counter : Counters, challenge : Challenges]
  BY <1>3
<1>4. CASE s \in [at : {"insert"}, email : Emails, provider : {"google", "email"}, raced : BOOLEAN]
  BY <1>4
<1>5. CASE s \in [at : {"failed"}, raced : BOOLEAN]
  BY <1>5
<1>6. CASE s \in [at : {"compare"}, email : Emails]
  BY <1>6
<1>7. QED
  BY <1>1, <1>2, <1>3, <1>4, <1>5, <1>6 DEF RequestStates

Same(states) == \A r \in Requests : request'[r].at \in states => request'[r] = request[r]

\* Challenges, counters and their holders stay as they are.
LEMMA AttestFrame ==
  ASSUME AttestInv, UNCHANGED attestVars, Same({"lookup", "bump", "upsert"})
  PROVE  AttestInv'
BY DEF AttestInv, attestVars, Same, Holders

\* So do the verdicts and the requests that have one.
LEMMA TurnstileFrame ==
  ASSUME TurnstileInv, UNCHANGED turnstileVars, Same({"verdict"})
  PROVE  TurnstileInv'
<1> USE DEF turnstileVars
<1>1. TokensOnce'
  BY DEF TurnstileInv, TokensOnce, Same
<1>2. LruIsRecent'
  BY DEF TurnstileInv, LruIsRecent
<1>3. LruBounded'
  BY DEF TurnstileInv, LruBounded
<1>4. VerdictsKept'
  BY DEF TurnstileInv, VerdictsKept
<1>5. QED
  BY <1>1, <1>2, <1>3, <1>4 DEF TurnstileInv

\* So do the profiles and the requests that are about to insert one.
LEMMA RaceFrame ==
  ASSUME RaceKnown, UNCHANGED profiles, Same({"insert", "failed"})
  PROVE  RaceKnown'
BY DEF RaceKnown, FailsOnlyInRace, Same

\* The requests that compare a password for e.
Comparing(e) == {r \in Requests : request[r].at = "compare" /\ request[r].email = e}

\* They are finitely many.
LEMMA ComparingFinite ==
  ASSUME NEW e
  PROVE  /\ IsFiniteSet(Comparing(e)) /\ Cardinality(Comparing(e)) \in Nat
         /\ IsFiniteSet(Comparing(e)') /\ Cardinality(Comparing(e)') \in Nat
         /\ Cardinality(Requests) \in Nat
         /\ Cardinality(Comparing(e)) <= Cardinality(Requests)
         /\ Cardinality(Comparing(e)') <= Cardinality(Requests)
<1>1. Comparing(e) \subseteq Requests /\ Comparing(e)' \subseteq Requests
  BY DEF Comparing
<1>2. QED
  BY <1>1, RequestAssumption, FS_Subset, FS_CardinalityType

\* No request begins to compare, and no failure is added.
LEMMA AttemptsFrame ==
  ASSUME TypeOK, AttemptsBounded, Same({"compare"}),
         DOMAIN loginAttempts' \subseteq DOMAIN loginAttempts,
         \A e \in DOMAIN loginAttempts' : loginAttempts'[e].attempts = loginAttempts[e].attempts
  PROVE  AttemptsBounded'
<1> SUFFICES ASSUME NEW e \in DOMAIN loginAttempts'
             PROVE  loginAttempts'[e].attempts + Cardinality(Comparing(e)')
                      <= MaxAttempts - 1 + Cardinality(Requests)
  BY DEF AttemptsBounded, Comparing
<1>1. Comparing(e)' \subseteq Comparing(e)
  BY DEF Comparing, Same
<1>2. Cardinality(Comparing(e)') <= Cardinality(Comparing(e))
  BY <1>1, ComparingFinite, FS_Subset
<1>3. loginAttempts[e].attempts + Cardinality(Comparing(e)) <= MaxAttempts - 1 + Cardinality(Requests)
  BY DEF AttemptsBounded, Comparing
<1>4. loginAttempts[e].attempts \in Nat
  BY DEF TypeOK
<1>5. QED
  BY <1>2, <1>3, <1>4, ComparingFinite, LimitAssumption

----------------------------------------------------------------------------
(* Challenges, App Attest and Play Integrity *)

\* Spending and drawing a challenge, and counting its use, keep the types.
LEMMA ChallengeTypes ==
  ASSUME TypeOK, NEW c \in Challenges
  PROVE  /\ [challenge EXCEPT ![c] = Spent] \in [Challenges -> Spent..ChallengeTTL]
         /\ [challenge EXCEPT ![c] = ChallengeTTL] \in [Challenges -> Spent..ChallengeTTL]
         /\ [uses EXCEPT ![c] = @ + 1] \in [Challenges -> Nat]
<1>1. Spent \in Spent..ChallengeTTL /\ ChallengeTTL \in Spent..ChallengeTTL
  BY CaptchaTTLAssumption DEF Spent
<1>2. QED
  BY <1>1 DEF TypeOK

\* So do advancing a counter and starting it anew.
LEMMA CounterTypes ==
  ASSUME TypeOK, NEW k \in Keys, NEW n \in Counters
  PROVE  /\ [counter EXCEPT ![k] = n] \in [Keys -> Unregistered..MaxCounter]
         /\ [accepted EXCEPT ![k][n] = @ + 1] \in [Keys -> [Counters -> Nat]]
         /\ [accepted EXCEPT ![k] = [m \in Counters |-> 0]] \in [Keys -> [Counters -> Nat]]
<1>1. n \in Unregistered..MaxCounter
  BY CounterAssumption DEF Counters, Unregistered
<1>2. QED
  BY <1>1 DEF TypeOK

\* A challenge that is drawn has no holder.
LEMMA AttestChallengeKeeps ==
  ASSUME IInv, NEW c \in Challenges, AttestChallenge(c), UNCHANGED signInVars
  PROVE  IInv'
<1> USE DEF AttestChallenge, Goto, signInVars
<1>1. request' \in [Requests -> RequestStates]
  BY DEF IInv, TypeOK
<1>2. TypeOK'
  BY <1>1, ChallengeTypes DEF IInv, TypeOK, attestVars, turnstileVars, signInVars
<1>3. AttestInv'
  BY DEF IInv, TypeOK, AttestInv, Holders, RequestStates, Idle, Passed, Spent, Undrawn, attestVars
<1>4. TurnstileInv'
  BY TurnstileFrame DEF IInv, TypeOK, Same, turnstileVars, Idle, Passed
<1>5. RaceKnown'
  BY RaceFrame DEF IInv, TypeOK, Same, Idle, Passed
<1>6. AttemptsBounded'
  BY AttemptsFrame DEF IInv, TypeOK, Same, Idle, Passed
<1>7. QED
  BY <1>2, <1>3, <1>4, <1>5, <1>6 DEF IInv

\* The statement that redeems a challenge makes the request its holder.
LEMMA VerifyIOSKeeps ==
  ASSUME IInv, NEW r \in Requests, NEW k \in Keys, NEW n \in Counters, NEW c \in Challenges, VerifyIOS(r, k, n, c), UNCHANGED signInVars
  PROVE  IInv'
<1> USE DEF VerifyIOS, Goto, Consume, signInVars
<1>1. request' \in [Requests -> RequestStates]
  BY DEF IInv, TypeOK, RequestStates, Idle, Passed
<1>2. TypeOK'
  BY <1>1, ChallengeTypes DEF IInv, TypeOK, attestVars, turnstileVars, signInVars
<1>3. AttestInv'
  BY DEF IInv, TypeOK, AttestInv, Holders, RequestStates, Idle, Passed, Spent, Undrawn, attestVars
<1>4. TurnstileInv'
  BY TurnstileFrame DEF IInv, TypeOK, Same, turnstileVars, Idle, Passed
<1>5. RaceKnown'
  BY RaceFrame DEF IInv, TypeOK, Same, Idle, Passed
<1>6. AttemptsBounded'
  BY AttemptsFrame DEF IInv, TypeOK, Same, Idle, Passed
<1>7. QED
  BY <1>2, <1>3, <1>4, <1>5, <1>6 DEF IInv

\* A registration is made the holder of its challenge in the same way.
LEMMA AttestRegisterKeeps ==
  ASSUME IInv, NEW r \in Requests, NEW k \in Keys, NEW n \in Counters, NEW c \in Challenges, AttestRegister(r, k, n, c), UNCHANGED signInVars
  PROVE  IInv'
<1> USE DEF AttestRegister, Goto, Consume, signInVars
<1>1. request' \in [Requests -> RequestStates]
  BY DEF IInv, TypeOK, RequestStates, Idle, Passed
<1>2. TypeOK'
  BY <1>1, ChallengeTypes DEF IInv, TypeOK, attestVars, turnstileVars, signInVars
<1>3. AttestInv'
  BY DEF IInv, TypeOK, AttestInv, Holders, RequestStates, Idle, Passed, Spent, Undrawn, attestVars
<1>4. TurnstileInv'
  BY TurnstileFrame DEF IInv, TypeOK, Same, turnstileVars, Idle, Passed
<1>5. RaceKnown'
  BY RaceFrame DEF IInv, TypeOK, Same, Idle, Passed
<1>6. AttemptsBounded'
  BY AttemptsFrame DEF IInv, TypeOK, Same, Idle, Passed
<1>7. QED
  BY <1>2, <1>3, <1>4, <1>5, <1>6 DEF IInv

\* The holder goes on.
LEMMA LookupKeeps ==
  ASSUME IInv, NEW r \in Requests, Lookup(r), UNCHANGED signInVars
  PROVE  IInv'
<1> USE DEF Lookup, Goto, signInVars
<1>1. request' \in [Requests -> RequestStates]
  <2>1. [request[r] EXCEPT !.at = "bump"] \in RequestStates
    <3> DEFINE S == [at : {"lookup", "bump", "upsert"}, key : Keys, counter : Counters, challenge : Challenges]
    <3>1. request[r] \in S
      BY StateFields DEF IInv, TypeOK
    <3>2. [request[r] EXCEPT !.at = "bump"] \in S
      BY <3>1
    <3>3. QED
      BY <3>2 DEF RequestStates
  <2>2. QED
    BY <2>1 DEF IInv, TypeOK
<1>2. TypeOK'
  BY <1>1 DEF IInv, TypeOK, attestVars, turnstileVars, signInVars
<1>3. AttestInv'
  BY DEF IInv, TypeOK, AttestInv, Holders, RequestStates, Idle, Passed, Spent, Undrawn, attestVars
<1>4. TurnstileInv'
  BY TurnstileFrame DEF IInv, TypeOK, Same, turnstileVars, Idle, Passed
<1>5. RaceKnown'
  BY RaceFrame DEF IInv, TypeOK, Same, Idle, Passed
<1>6. AttemptsBounded'
  BY AttemptsFrame DEF IInv, TypeOK, Same, Idle, Passed
<1>7. QED
  BY <1>2, <1>3, <1>4, <1>5, <1>6 DEF IInv

\* The holder gives up.
LEMMA RefuseIOSKeeps ==
  ASSUME IInv, NEW r \in Requests, RefuseIOS(r), UNCHANGED signInVars
  PROVE  IInv'
<1> USE DEF RefuseIOS, Goto, signInVars
<1>1. request' \in [Requests -> RequestStates]
  BY DEF IInv, TypeOK, RequestStates, Idle, Passed
<1>2. TypeOK'
  BY <1>1 DEF IInv, TypeOK, attestVars, turnstileVars, signInVars
<1>3. AttestInv'
  BY DEF IInv, TypeOK, AttestInv, Holders, RequestStates, Idle, Passed, Spent, Undrawn, attestVars
<1>4. TurnstileInv'
  BY TurnstileFrame DEF IInv, TypeOK, Same, turnstileVars, Idle, Passed
<1>5. RaceKnown'
  BY RaceFrame DEF IInv, TypeOK, Same, Idle, Passed
<1>6. AttemptsBounded'
  BY AttemptsFrame DEF IInv, TypeOK, Same, Idle, Passed
<1>7. QED
  BY <1>2, <1>3, <1>4, <1>5, <1>6 DEF IInv

\* The use ends the holding; the counter value is above all that were accepted.
LEMMA BumpKeeps ==
  ASSUME IInv, NEW r \in Requests, Bump(r), UNCHANGED signInVars
  PROVE  IInv'
<1> USE DEF Bump, Goto, BumpCounter, Admit, signInVars
<1>1. request' \in [Requests -> RequestStates]
  BY DEF IInv, TypeOK, RequestStates, Idle, Passed
<1>2. TypeOK'
  <2>1. request[r].key \in Keys /\ request[r].counter \in Counters /\ request[r].challenge \in Challenges
    BY StateFields DEF IInv, TypeOK
  <2>2. QED
    BY <1>1, <2>1, ChallengeTypes, CounterTypes DEF IInv, TypeOK, turnstileVars, signInVars
<1>3. AttestInv'
  <2> DEFINE k == request[r].key
             n == request[r].counter
  <2>1. r \in Holders /\ k \in Keys /\ n \in Counters /\ request[r].challenge \in Challenges
    BY StateFields DEF IInv, TypeOK, Holders
  <2>2. Holders' = Holders \ {r} /\ \A q \in Holders' : request'[q] = request[q]
    BY DEF IInv, TypeOK, Holders, Passed
  <2>3. /\ \A q \in Holders' : challenge'[request'[q].challenge] = Spent /\ uses'[request'[q].challenge] = 0
        /\ \A p, q \in Holders' : request'[p].challenge = request'[q].challenge => p = q
    BY <2>1, <2>2 DEF IInv, TypeOK, AttestInv
  <2>4. \A c \in Challenges : uses'[c] <= 1 /\ (uses'[c] > 0 => challenge'[c] = Spent)
    BY <2>1 DEF IInv, TypeOK, AttestInv
  <2>5. counter'[k] = n /\ counter[k] < n /\ counter[k] \in Int
    BY <2>1 DEF IInv, TypeOK, Unregistered
  <2>6. accepted[k][n] = 0
    <3>1. accepted[k][n] \in Nat
      BY <2>1 DEF IInv, TypeOK
    <3>2. accepted[k][n] > 0 => n <= counter[k]
      BY <2>1 DEF IInv, AttestInv
    <3>3. n \in Int
      BY <2>1 DEF Counters
    <3>4. QED
      BY <2>5, <3>1, <3>2, <3>3
  <2>7. \A j \in Keys, m \in Counters :
          accepted'[j][m] = IF j = k /\ m = n THEN 1 ELSE accepted[j][m]
    BY <2>1, <2>6 DEF IInv, TypeOK
  <2>8. \A j \in Keys, m \in Counters : accepted'[j][m] <= 1 /\ (accepted'[j][m] > 0 => m <= counter'[j])
    <3> SUFFICES ASSUME NEW j \in Keys, NEW m \in Counters
                 PROVE  accepted'[j][m] <= 1 /\ (accepted'[j][m] > 0 => m <= counter'[j])
      OBVIOUS
    <3>1. accepted[j][m] <= 1 /\ (accepted[j][m] > 0 => m <= counter[j])
      BY DEF IInv, AttestInv
    <3>2. m \in Int /\ n \in Int
      BY <2>1 DEF Counters
    <3>3. j # k => counter'[j] = counter[j]
      BY DEF IInv, TypeOK
    <3>4. QED
      BY <2>5, <2>6, <2>7, <3>1, <3>2, <3>3
  <2>9. QED
    BY <2>3, <2>4, <2>8 DEF AttestInv
<1>4. TurnstileInv'
  BY TurnstileFrame DEF IInv, TypeOK, Same, turnstileVars, Idle, Passed
<1>5. RaceKnown'
  BY RaceFrame DEF IInv, TypeOK, Same, Idle, Passed
<1>6. AttemptsBounded'
  BY AttemptsFrame DEF IInv, TypeOK, Same, Idle, Passed
<1>7. QED
  BY <1>2, <1>3, <1>4, <1>5, <1>6 DEF IInv

\* A registration starts the count of its key anew.
LEMMA UpsertKeeps ==
  ASSUME IInv, NEW r \in Requests, Upsert(r), UNCHANGED signInVars
  PROVE  IInv'
<1> USE DEF Upsert, Goto, Admit, signInVars
<1>1. request' \in [Requests -> RequestStates]
  BY DEF IInv, TypeOK, RequestStates, Idle, Passed
<1>2. TypeOK'
  <2>1. request[r].key \in Keys /\ request[r].counter \in Counters /\ request[r].challenge \in Challenges
    BY StateFields DEF IInv, TypeOK
  <2>2. QED
    BY <1>1, <2>1, ChallengeTypes, CounterTypes DEF IInv, TypeOK, turnstileVars, signInVars
<1>3. AttestInv'
  BY DEF IInv, TypeOK, AttestInv, Holders, RequestStates, Idle, Passed, Spent, Undrawn, attestVars
<1>4. TurnstileInv'
  BY TurnstileFrame DEF IInv, TypeOK, Same, turnstileVars, Idle, Passed
<1>5. RaceKnown'
  BY RaceFrame DEF IInv, TypeOK, Same, Idle, Passed
<1>6. AttemptsBounded'
  BY AttemptsFrame DEF IInv, TypeOK, Same, Idle, Passed
<1>7. QED
  BY <1>2, <1>3, <1>4, <1>5, <1>6 DEF IInv

\* The holder gives up.
LEMMA UpsertFailsKeeps ==
  ASSUME IInv, NEW r \in Requests, UpsertFails(r), UNCHANGED signInVars
  PROVE  IInv'
<1> USE DEF UpsertFails, Goto, signInVars
<1>1. request' \in [Requests -> RequestStates]
  BY DEF IInv, TypeOK, RequestStates, Idle, Passed
<1>2. TypeOK'
  BY <1>1 DEF IInv, TypeOK, attestVars, turnstileVars, signInVars
<1>3. AttestInv'
  BY DEF IInv, TypeOK, AttestInv, Holders, RequestStates, Idle, Passed, Spent, Undrawn, attestVars
<1>4. TurnstileInv'
  BY TurnstileFrame DEF IInv, TypeOK, Same, turnstileVars, Idle, Passed
<1>5. RaceKnown'
  BY RaceFrame DEF IInv, TypeOK, Same, Idle, Passed
<1>6. AttemptsBounded'
  BY AttemptsFrame DEF IInv, TypeOK, Same, Idle, Passed
<1>7. QED
  BY <1>2, <1>3, <1>4, <1>5, <1>6 DEF IInv

\* A verdict redeems and uses its challenge at once.
LEMMA VerifyAndroidKeeps ==
  ASSUME IInv, NEW r \in Requests, NEW c \in Challenges, VerifyAndroid(r, c), UNCHANGED signInVars
  PROVE  IInv'
<1> USE DEF VerifyAndroid, Goto, Consume, Admit, signInVars
<1>1. request' \in [Requests -> RequestStates]
  BY DEF IInv, TypeOK, RequestStates, Idle, Passed
<1>2. TypeOK'
  BY <1>1, ChallengeTypes DEF IInv, TypeOK, attestVars, turnstileVars, signInVars
<1>3. AttestInv'
  BY DEF IInv, TypeOK, AttestInv, Holders, RequestStates, Idle, Passed, Spent, Undrawn, attestVars
<1>4. TurnstileInv'
  BY TurnstileFrame DEF IInv, TypeOK, Same, turnstileVars, Idle, Passed
<1>5. RaceKnown'
  BY RaceFrame DEF IInv, TypeOK, Same, Idle, Passed
<1>6. AttemptsBounded'
  BY AttemptsFrame DEF IInv, TypeOK, Same, Idle, Passed
<1>7. QED
  BY <1>2, <1>3, <1>4, <1>5, <1>6 DEF IInv

\* Without a challenge, nothing is redeemed.
LEMMA VerifyAndroidBareKeeps ==
  ASSUME IInv, NEW r \in Requests, VerifyAndroidBare(r), UNCHANGED signInVars
  PROVE  IInv'
<1> USE DEF VerifyAndroidBare, Goto, signInVars
<1>1. request' \in [Requests -> RequestStates]
  BY DEF IInv, TypeOK, RequestStates, Idle, Passed
<1>2. TypeOK'
  BY <1>1 DEF IInv, TypeOK, attestVars, turnstileVars, signInVars
<1>3. AttestInv'
  BY AttestFrame DEF IInv, TypeOK, Same, attestVars, Idle, Passed
<1>4. TurnstileInv'
  BY TurnstileFrame DEF IInv, TypeOK, Same, turnstileVars, Idle, Passed
<1>5. RaceKnown'
  BY RaceFrame DEF IInv, TypeOK, Same, Idle, Passed
<1>6. AttemptsBounded'
  BY AttemptsFrame DEF IInv, TypeOK, Same, Idle, Passed
<1>7. QED
  BY <1>2, <1>3, <1>4, <1>5, <1>6 DEF IInv

----------------------------------------------------------------------------
(* Sign-in *)

\* A sign-in that goes on to insert has found no profile.
LEMMA GoogleLoginKeeps ==
  ASSUME IInv, NEW r \in Requests, NEW e \in Emails, GoogleLogin(r, e)
  PROVE  IInv'
<1> USE DEF GoogleLogin, Goto, signInVars
<1>1. request' \in [Requests -> RequestStates]
  BY DEF IInv, TypeOK, RequestStates, Idle, Passed
<1>2. TypeOK'
  BY <1>1 DEF IInv, TypeOK, attestVars, turnstileVars, signInVars
<1>3. AttestInv'
  BY AttestFrame DEF IInv, TypeOK, Same, attestVars, Idle, Passed
<1>4. TurnstileInv'
  BY TurnstileFrame DEF IInv, TypeOK, Same, turnstileVars, Idle, Passed
<1>5. RaceKnown'
  BY DEF IInv, TypeOK, RaceKnown, FailsOnlyInRace, FindsProfile, RequestStates, Idle, Passed
<1>6. AttemptsBounded'
  BY AttemptsFrame DEF IInv, TypeOK, Same, Idle, Passed
<1>7. QED
  BY <1>2, <1>3, <1>4, <1>5, <1>6 DEF IInv

\* The request ends.
LEMMA GoogleFailsKeeps ==
  ASSUME IInv, NEW r \in Requests, GoogleFails(r)
  PROVE  IInv'
<1> USE DEF GoogleFails, Goto, signInVars
<1>1. request' \in [Requests -> RequestStates]
  BY DEF IInv, TypeOK, RequestStates, Idle, Passed
<1>2. TypeOK'
  BY <1>1 DEF IInv, TypeOK, attestVars, turnstileVars, signInVars
<1>3. AttestInv'
  BY AttestFrame DEF IInv, TypeOK, Same, attestVars, Idle, Passed
<1>4. TurnstileInv'
  BY TurnstileFrame DEF IInv, TypeOK, Same, turnstileVars, Idle, Passed
<1>5. RaceKnown'
  BY RaceFrame DEF IInv, TypeOK, Same, Idle, Passed
<1>6. AttemptsBounded'
  BY AttemptsFrame DEF IInv, TypeOK, Same, Idle, Passed
<1>7. QED
  BY <1>2, <1>3, <1>4, <1>5, <1>6 DEF IInv

\* A registration that goes on to insert has found no profile.
LEMMA RegisterKeeps ==
  ASSUME IInv, NEW r \in Requests, NEW e \in Emails, Register(r, e)
  PROVE  IInv'
<1> USE DEF Register, Goto, signInVars
<1>1. request' \in [Requests -> RequestStates]
  BY DEF IInv, TypeOK, RequestStates, Idle, Passed
<1>2. TypeOK'
  BY <1>1 DEF IInv, TypeOK, attestVars, turnstileVars, signInVars
<1>3. AttestInv'
  BY AttestFrame DEF IInv, TypeOK, Same, attestVars, Idle, Passed
<1>4. TurnstileInv'
  BY TurnstileFrame DEF IInv, TypeOK, Same, turnstileVars, Idle, Passed
<1>5. RaceKnown'
  BY DEF IInv, TypeOK, RaceKnown, FailsOnlyInRace, FindsProfile, RequestStates, Idle, Passed
<1>6. AttemptsBounded'
  BY AttemptsFrame DEF IInv, TypeOK, Same, Idle, Passed
<1>7. QED
  BY <1>2, <1>3, <1>4, <1>5, <1>6 DEF IInv

\* A profile is inserted: the others that are about to insert the same email are
\* overtaken, and nothing else changes.
LEMMA InsertSucceeds ==
  ASSUME IInv, NEW r \in Requests, InsertProfile(r), profiles[request[r].email] = "none"
  PROVE  IInv'
<1> DEFINE e == request[r].email
<1>1. /\ profiles' = [profiles EXCEPT ![e] = request[r].provider]
      /\ request' = [q \in Requests |-> IF q = r THEN Idle
                                       ELSE IF request[q].at = "insert" /\ request[q].email = e
                                       THEN [request[q] EXCEPT !.raced = TRUE] ELSE request[q]]
      /\ UNCHANGED <<doors, attestVars, turnstileVars, loginAttempts>>
  BY DEF InsertProfile
<1>2. e \in Emails /\ request[r].provider \in {"google", "email"}
  BY StateFields DEF InsertProfile, IInv, TypeOK
<1>3. \A q \in Requests : request'[q].at # "insert" =>
        request'[q] = Idle \/ request'[q] = request[q]
  BY <1>1 DEF IInv, TypeOK, RequestStates, Idle, Passed
<1>4. request' \in [Requests -> RequestStates]
  <2>1. ASSUME NEW q \in Requests, request[q].at = "insert"
        PROVE  [request[q] EXCEPT !.raced = TRUE] \in RequestStates
    <3> DEFINE S == [at : {"insert"}, email : Emails, provider : {"google", "email"}, raced : BOOLEAN]
    <3>1. request[q] \in S
      BY <2>1, StateFields DEF IInv, TypeOK
    <3>2. [request[q] EXCEPT !.raced = TRUE] \in S
      BY <3>1
    <3>3. QED
      BY <3>2 DEF RequestStates
  <2>2. \A q \in Requests : request[q] \in RequestStates
    BY DEF IInv, TypeOK
  <2>3. Idle \in RequestStates
    BY DEF RequestStates
  <2>4. QED
    BY <1>1, <2>1, <2>2, <2>3
<1>5. TypeOK'
  BY <1>1, <1>2, <1>4 DEF IInv, TypeOK, attestVars, turnstileVars
<1>6. AttestInv' /\ TurnstileInv'
  BY <1>1, <1>3, AttestFrame, TurnstileFrame DEF IInv, Same, attestVars, turnstileVars, Idle
<1>7. RaceKnown'
  BY <1>1, <1>2, <1>3 DEF IInv, TypeOK, RaceKnown, FailsOnlyInRace, RequestStates, Idle, Passed
<1>8. AttemptsBounded'
  BY <1>1, <1>3, AttemptsFrame DEF IInv, Same, Idle
<1>9. QED
  BY <1>5, <1>6, <1>7, <1>8 DEF IInv

\* The email has a profile by now, and the request knows that it was overtaken.
LEMMA InsertIsRefused ==
  ASSUME IInv, NEW r \in Requests, InsertProfile(r), profiles[request[r].email] # "none"
  PROVE  IInv'
<1>1. /\ request' = [request EXCEPT ![r] = [at |-> "failed", raced |-> request[r].raced]]
      /\ UNCHANGED <<doors, attestVars, turnstileVars, signInVars>>
  BY DEF InsertProfile, Goto, signInVars
<1>2. request[r].raced \in BOOLEAN
  BY StateFields DEF InsertProfile, IInv, TypeOK
<1>3. request' \in [Requests -> RequestStates]
  BY <1>1, <1>2 DEF IInv, TypeOK, RequestStates
<1>4. TypeOK'
  BY <1>1, <1>3 DEF IInv, TypeOK, attestVars, turnstileVars, signInVars
<1>5. AttestInv' /\ TurnstileInv' /\ AttemptsBounded'
  BY <1>1, AttestFrame, TurnstileFrame, AttemptsFrame
     DEF IInv, TypeOK, Same, attestVars, turnstileVars, signInVars
<1>6. RaceKnown'
  BY <1>1 DEF IInv, TypeOK, RaceKnown, FailsOnlyInRace, InsertProfile, signInVars
<1>7. QED
  BY <1>4, <1>5, <1>6 DEF IInv

\* The request ends.
LEMMA Answer500Keeps ==
  ASSUME IInv, NEW r \in Requests, Answer500(r)
  PROVE  IInv'
<1> USE DEF Answer500, Goto, signInVars
<1>1. request' \in [Requests -> RequestStates]
  BY DEF IInv, TypeOK, RequestStates, Idle, Passed
<1>2. TypeOK'
  BY <1>1 DEF IInv, TypeOK, attestVars, turnstileVars, signInVars
<1>3. AttestInv'
  BY AttestFrame DEF IInv, TypeOK, Same, attestVars, Idle, Passed
<1>4. TurnstileInv'
  BY TurnstileFrame DEF IInv, TypeOK, Same, turnstileVars, Idle, Passed
<1>5. RaceKnown'
  BY RaceFrame DEF IInv, TypeOK, Same, Idle, Passed
<1>6. AttemptsBounded'
  BY AttemptsFrame DEF IInv, TypeOK, Same, Idle, Passed
<1>7. QED
  BY <1>2, <1>3, <1>4, <1>5, <1>6 DEF IInv

\* A profile that goes leaves nobody overtaken who was not.
LEMMA DeleteProfileKeeps ==
  ASSUME IInv, NEW e \in Emails, DeleteProfile(e)
  PROVE  IInv'
<1> USE DEF DeleteProfile, Goto, captchaVars
<1>1. request' \in [Requests -> RequestStates]
  BY DEF IInv, TypeOK
<1>2. TypeOK'
  BY <1>1 DEF IInv, TypeOK, attestVars, turnstileVars, signInVars
<1>3. AttestInv'
  BY AttestFrame DEF IInv, TypeOK, Same, attestVars, Idle, Passed
<1>4. TurnstileInv'
  BY TurnstileFrame DEF IInv, TypeOK, Same, turnstileVars, Idle, Passed
<1>5. RaceKnown'
  BY DEF IInv, TypeOK, RaceKnown, FailsOnlyInRace, FindsProfile, RequestStates, Idle, Passed
<1>6. AttemptsBounded'
  BY AttemptsFrame DEF IInv, TypeOK, Same, Idle, Passed
<1>7. QED
  BY <1>2, <1>3, <1>4, <1>5, <1>6 DEF IInv

\* The request ends.
LEMMA DatabaseFailsKeeps ==
  ASSUME IInv, NEW r \in Requests, DatabaseFails(r)
  PROVE  IInv'
<1> USE DEF DatabaseFails, Goto, signInVars
<1>1. request' \in [Requests -> RequestStates]
  BY DEF IInv, TypeOK, RequestStates, Idle, Passed
<1>2. TypeOK'
  BY <1>1 DEF IInv, TypeOK, attestVars, turnstileVars, signInVars
<1>3. AttestInv'
  BY AttestFrame DEF IInv, TypeOK, Same, attestVars, Idle, Passed
<1>4. TurnstileInv'
  BY TurnstileFrame DEF IInv, TypeOK, Same, turnstileVars, Idle, Passed
<1>5. RaceKnown'
  BY RaceFrame DEF IInv, TypeOK, Same, Idle, Passed
<1>6. AttemptsBounded'
  BY AttemptsFrame DEF IInv, TypeOK, Same, Idle, Passed
<1>7. QED
  BY <1>2, <1>3, <1>4, <1>5, <1>6 DEF IInv

\* The check leaves room for one failure of each request.
LEMMA LoginKeeps ==
  ASSUME IInv, NEW r \in Requests, NEW e \in Emails, Login(r, e)
  PROVE  IInv'
<1> USE DEF Login, Goto, Forget
<1>1. request' \in [Requests -> RequestStates]
  BY DEF IInv, TypeOK, RequestStates, Idle, Passed
<1>2. TypeOK'
  BY <1>1, LimitAssumption DEF IInv, TypeOK, attestVars, turnstileVars, signInVars
<1>3. AttestInv'
  BY AttestFrame DEF IInv, TypeOK, Same, attestVars, Idle, Passed
<1>4. TurnstileInv'
  BY TurnstileFrame DEF IInv, TypeOK, Same, turnstileVars, Idle, Passed
<1>5. RaceKnown'
  BY RaceFrame DEF IInv, TypeOK, Same, Idle, Passed
<1>6. AttemptsBounded'
  <2> SUFFICES ASSUME NEW d \in DOMAIN loginAttempts'
               PROVE  loginAttempts'[d].attempts + Cardinality(Comparing(d)')
                        <= MaxAttempts - 1 + Cardinality(Requests)
    BY DEF AttemptsBounded, Comparing
  <2>1. d \in DOMAIN loginAttempts /\ loginAttempts'[d] = loginAttempts[d] /\ loginAttempts[d].attempts \in Nat
    BY DEF IInv, TypeOK, Forget
  <2>2. CASE d = e
    <3>1. loginAttempts[d].attempts < MaxAttempts
      BY <2>1, <2>2, LimitAssumption DEF TooMany, Forget
    <3>2. QED
      BY <2>1, <3>1, ComparingFinite, LimitAssumption
  <2>3. CASE d # e
    <3>1. Comparing(d)' = Comparing(d)
      BY <2>3 DEF Comparing, IInv, TypeOK, Idle
    <3>2. QED
      BY <2>1, <3>1 DEF IInv, AttemptsBounded, Comparing
  <2>4. QED
    BY <2>2, <2>3
<1>7. QED
  BY <1>2, <1>3, <1>4, <1>5, <1>6 DEF IInv

\* A failure takes the place of the request that made it.
LEMMA WrongPasswordKeeps ==
  ASSUME IInv, NEW r \in Requests, WrongPassword(r)
  PROVE  IInv'
<1> USE DEF WrongPassword, Goto
<1>1. request' \in [Requests -> RequestStates]
  BY DEF IInv, TypeOK, RequestStates, Idle, Passed
<1>2. TypeOK'
  <2>1. request[r].email \in Emails
    BY StateFields DEF IInv, TypeOK
  <2>2. [attempts |-> 1, left |-> Window] \in [attempts : Nat, left : -1..Window]
    BY LimitAssumption
  <2>3. ASSUME NEW d \in DOMAIN loginAttempts
        PROVE  /\ loginAttempts[d] \in [attempts : Nat, left : -1..Window]
               /\ [loginAttempts[d] EXCEPT !.attempts = @ + 1] \in [attempts : Nat, left : -1..Window]
    <3>1. loginAttempts[d] \in [attempts : Nat, left : -1..Window]
      BY DEF IInv, TypeOK
    <3>2. QED
      BY <3>1
  <2>4. /\ DOMAIN loginAttempts' \subseteq Emails
        /\ loginAttempts' \in [DOMAIN loginAttempts' -> [attempts : Nat, left : -1..Window]]
    BY <2>1, <2>2, <2>3 DEF IInv, TypeOK
  <2>5. QED
    BY <1>1, <2>4 DEF IInv, TypeOK, attestVars, turnstileVars
<1>3. AttestInv'
  BY AttestFrame DEF IInv, TypeOK, Same, attestVars, Idle, Passed
<1>4. TurnstileInv'
  BY TurnstileFrame DEF IInv, TypeOK, Same, turnstileVars, Idle, Passed
<1>5. RaceKnown'
  BY RaceFrame DEF IInv, TypeOK, Same, Idle, Passed
<1>6. AttemptsBounded'
  <2> DEFINE e == request[r].email
  <2> SUFFICES ASSUME NEW d \in DOMAIN loginAttempts'
               PROVE  loginAttempts'[d].attempts + Cardinality(Comparing(d)')
                        <= MaxAttempts - 1 + Cardinality(Requests)
    BY DEF AttemptsBounded, Comparing
  <2>1. CASE d = e
    <3>1. r \in Comparing(d) /\ Comparing(d)' = Comparing(d) \ {r}
      BY <2>1 DEF Comparing, IInv, TypeOK, Idle
    <3>2. Cardinality(Comparing(d)') = Cardinality(Comparing(d)) - 1
      BY <3>1, ComparingFinite, FS_RemoveElement
    <3>3. CASE e \in DOMAIN loginAttempts /\ ~Expired(e)
      <4>1. loginAttempts[d].attempts \in Nat /\ loginAttempts'[d].attempts = loginAttempts[d].attempts + 1
        BY <2>1, <3>3 DEF IInv, TypeOK
      <4>2. loginAttempts[d].attempts + Cardinality(Comparing(d)) <= MaxAttempts - 1 + Cardinality(Requests)
        BY <2>1, <3>3 DEF IInv, AttemptsBounded, Comparing
      <4>3. QED
        BY <3>2, <4>1, <4>2, ComparingFinite, LimitAssumption
    <3>4. CASE ~(e \in DOMAIN loginAttempts /\ ~Expired(e))
      <4>1. loginAttempts'[d].attempts = 1
        BY <2>1, <3>4
      <4>2. QED
        BY <3>2, <4>1, ComparingFinite, LimitAssumption
    <3>5. QED
      BY <3>3, <3>4
  <2>2. CASE d # e
    <3>1. d \in DOMAIN loginAttempts /\ loginAttempts'[d] = loginAttempts[d]
      BY <2>2
    <3>2. Comparing(d)' = Comparing(d)
      BY <2>2 DEF Comparing, IInv, TypeOK, Idle
    <3>3. QED
      BY <3>1, <3>2 DEF IInv, AttemptsBounded, Comparing
  <2>3. QED
    BY <2>1, <2>2
<1>7. QED
  BY <1>2, <1>3, <1>4, <1>5, <1>6 DEF IInv

\* The failures are forgotten.
LEMMA RightPasswordKeeps ==
  ASSUME IInv, NEW r \in Requests, RightPassword(r)
  PROVE  IInv'
<1> USE DEF RightPassword, Goto, Forget
<1>1. request' \in [Requests -> RequestStates]
  BY DEF IInv, TypeOK, RequestStates, Idle, Passed
<1>2. TypeOK'
  BY <1>1 DEF IInv, TypeOK, attestVars, turnstileVars, signInVars
<1>3. AttestInv'
  BY AttestFrame DEF IInv, TypeOK, Same, attestVars, Idle, Passed
<1>4. TurnstileInv'
  BY TurnstileFrame DEF IInv, TypeOK, Same, turnstileVars, Idle, Passed
<1>5. RaceKnown'
  BY RaceFrame DEF IInv, TypeOK, Same, Idle, Passed
<1>6. AttemptsBounded'
  BY AttemptsFrame DEF IInv, TypeOK, Same, Idle
<1>7. QED
  BY <1>2, <1>3, <1>4, <1>5, <1>6 DEF IInv

\* Records are removed.
LEMMA PurgeKeeps ==
  ASSUME IInv, Purge
  PROVE  IInv'
<1> USE DEF Purge, Goto, captchaVars
<1>1. request' \in [Requests -> RequestStates]
  BY DEF IInv, TypeOK
<1>2. TypeOK'
  BY <1>1 DEF IInv, TypeOK, attestVars, turnstileVars, signInVars
<1>3. AttestInv'
  BY AttestFrame DEF IInv, TypeOK, Same, attestVars, Idle, Passed
<1>4. TurnstileInv'
  BY TurnstileFrame DEF IInv, TypeOK, Same, turnstileVars, Idle, Passed
<1>5. RaceKnown'
  BY RaceFrame DEF IInv, TypeOK, Same, Idle, Passed
<1>6. AttemptsBounded'
  BY AttemptsFrame DEF IInv, TypeOK, Same, Idle
<1>7. QED
  BY <1>2, <1>3, <1>4, <1>5, <1>6 DEF IInv

----------------------------------------------------------------------------
(* Turnstile *)

\* A sequence that has lost its first element and got a last one.
LEMMA Shifted ==
  ASSUME NEW S, NEW s \in Seq(S), NEW e \in S, Len(s) > 0
  PROVE  /\ Append(Tail(s), e) \in Seq(S)
         /\ Len(Append(Tail(s), e)) = Len(s)
         /\ Append(Tail(s), e)[Len(s)] = e
         /\ \A j \in 1..(Len(s) - 1) : Append(Tail(s), e)[j] = s[j + 1]
<1>1. s # <<>> /\ Len(s) \in Nat
  OBVIOUS
<1>2. /\ Tail(s) \in Seq(S) /\ Len(Tail(s)) = Len(s) - 1
      /\ \A j \in 1..(Len(s) - 1) : Tail(s)[j] = s[j + 1]
  BY <1>1
<1>3. QED
  BY <1>1, <1>2

\* A sequence that has got a last element.
LEMMA Appended ==
  ASSUME NEW S, NEW s \in Seq(S), NEW e \in S
  PROVE  /\ Append(s, e) \in Seq(S)
         /\ Len(Append(s, e)) = Len(s) + 1
         /\ Append(s, e)[Len(s) + 1] = e
         /\ \A j \in 1..Len(s) : Append(s, e)[j] = s[j]
OBVIOUS

\* A set that may have lost an element.
LEMMA RemoveOne ==
  ASSUME NEW S, NEW x, IsFiniteSet(S)
  PROVE  /\ IsFiniteSet(S \ {x}) /\ Cardinality(S \ {x}) \in Nat
         /\ Cardinality(S \ {x}) >= Cardinality(S) - 1
<1>1. Cardinality(S) \in Nat
  BY FS_CardinalityType
<1>2. /\ IsFiniteSet(S \ {x})
      /\ Cardinality(S \ {x}) = IF x \in S THEN Cardinality(S) - 1 ELSE Cardinality(S)
  BY FS_RemoveElement
<1>3. Cardinality(S \ {x}) \in Nat
  BY <1>2, FS_CardinalityType
<1>4. QED
  BY <1>1, <1>2, <1>3

\* The map has no more verdicts than cacheLRU has places.
LEMMA MapWithinLru ==
  ASSUME TypeOK, LruIsRecent
  PROVE  /\ IsFiniteSet(DOMAIN cache) /\ Cardinality(DOMAIN cache) \in Nat
         /\ Cardinality(DOMAIN cache) <= Len(cacheLRU)
<1> DEFINE I == 1..Len(cacheLRU)
           R == {cacheLRU[j] : j \in I}
<1>1. Len(cacheLRU) \in Nat
  BY DEF TypeOK
<1>2. IsFiniteSet(I) /\ Cardinality(I) = Len(cacheLRU)
  BY <1>1, FS_Interval, SMTT(30)
<1>3. [j \in I |-> cacheLRU[j]] \in Surjection(I, R)
  BY DEF Surjection
<1>4. IsFiniteSet(R) /\ Cardinality(R) <= Len(cacheLRU)
  <2> HIDE DEF R
  <2>1. QED
    BY <1>2, <1>3, FS_Surjection
<1>5. DOMAIN cache \subseteq R
  BY DEF LruIsRecent
<1>6. Cardinality(R) \in Nat
  BY <1>4, FS_CardinalityType
<1> HIDE DEF R
<1>7. QED
  BY <1>1, <1>4, <1>5, <1>6, FS_Subset, FS_CardinalityType

\* A lookup removes a verdict only if its time is up, and counts it.
LEMMA VerifyWebKeeps ==
  ASSUME IInv, NEW r \in Requests, NEW t \in WebTokens, VerifyWeb(r, t), UNCHANGED signInVars
  PROVE  IInv'
<1>1. request' = [request EXCEPT ![r] = IF t \in DOMAIN cache' THEN Passed ELSE [at |-> "siteverify", token |-> t]]
  BY DEF VerifyWeb, Goto
<1>2. request' \in [Requests -> RequestStates]
  BY <1>1 DEF IInv, TypeOK, RequestStates
<1>3. /\ DOMAIN cache' \subseteq DOMAIN cache
      /\ \A u \in DOMAIN cache' : cache'[u] = cache[u]
      /\ \A u \in DOMAIN cache : cache[u] >= 0 => u \in DOMAIN cache'
      /\ cache' \in [DOMAIN cache' -> -1..VerdictTTL]
  BY DEF VerifyWeb, cacheHit, IInv, TypeOK
<1>4. dropped' \in Nat
  BY DEF VerifyWeb, cacheHit, IInv, TypeOK
<1>5. TypeOK'
  BY <1>2, <1>3, <1>4 DEF VerifyWeb, IInv, TypeOK, attestVars, signInVars
<1>6. AttestInv' /\ RaceKnown' /\ AttemptsBounded'
  BY <1>1, AttestFrame, RaceFrame, AttemptsFrame
     DEF VerifyWeb, IInv, TypeOK, Same, attestVars, signInVars, Passed
<1>7. TokensOnce'
  BY <1>1 DEF VerifyWeb, IInv, TypeOK, TurnstileInv, TokensOnce, Passed
<1>8. LruIsRecent'
  BY <1>3 DEF VerifyWeb, IInv, TurnstileInv, LruIsRecent
<1>9. LruBounded'
  <2>1. CASE t \in DOMAIN cache /\ cache[t] < 0
    <3>1. DOMAIN cache' = DOMAIN cache \ {t} /\ dropped' = dropped + 1 /\ cacheLRU' = cacheLRU
      BY <2>1 DEF VerifyWeb, cacheHit
    <3>2. /\ IsFiniteSet(DOMAIN cache) /\ Cardinality(DOMAIN cache) \in Nat
          /\ Len(cacheLRU) <= Cardinality(DOMAIN cache) + dropped /\ Len(cacheLRU) <= CacheMax + dropped
      BY MapWithinLru DEF IInv, TurnstileInv, LruBounded
    <3>3. IsFiniteSet(DOMAIN cache') /\ Cardinality(DOMAIN cache') = Cardinality(DOMAIN cache) - 1
      BY <2>1, <3>1, <3>2, FS_RemoveElement
    <3>4. dropped \in Nat /\ Len(cacheLRU) \in Nat
      BY DEF IInv, TypeOK
    <3>5. QED
      BY <3>1, <3>2, <3>3, <3>4, CacheMaxAssumption DEF LruBounded
  <2>2. CASE ~(t \in DOMAIN cache /\ cache[t] < 0)
    BY <2>2 DEF VerifyWeb, cacheHit, IInv, TurnstileInv, LruBounded
  <2>3. QED
    BY <2>1, <2>2
<1>10. VerdictsKept'
  BY <1>3 DEF VerifyWeb, IInv, TypeOK, TurnstileInv, VerdictsKept
<1>11. QED
  BY <1>5, <1>6, <1>7, <1>8, <1>9, <1>10 DEF IInv, TurnstileInv

\* Cloudflare accepts a token that nobody has a verdict on and that is not cached.
LEMMA AcceptKeeps ==
  ASSUME IInv, NEW r \in Requests, Accept(r), UNCHANGED signInVars
  PROVE  IInv'
<1>1. request[r].token \in WebTokens
  BY StateFields DEF Accept, IInv, TypeOK
<1>2. request' \in [Requests -> RequestStates]
  BY <1>1 DEF Accept, Goto, IInv, TypeOK, RequestStates
<1>3. TypeOK'
  BY <1>1, <1>2 DEF Accept, IInv, TypeOK, attestVars, signInVars
<1>4. AttestInv' /\ RaceKnown' /\ AttemptsBounded'
  BY AttestFrame, RaceFrame, AttemptsFrame DEF Accept, Goto, IInv, TypeOK, Same, attestVars, signInVars
<1>5. TokensOnce'
  BY DEF Accept, Goto, IInv, TypeOK, TurnstileInv, TokensOnce
<1>6. LruIsRecent' /\ LruBounded' /\ VerdictsKept'
  BY DEF Accept, IInv, TurnstileInv, LruIsRecent, LruBounded, VerdictsKept
<1>7. QED
  BY <1>3, <1>4, <1>5, <1>6 DEF IInv, TurnstileInv

\* A refusal makes no verdict.
LEMMA RefuseKeeps ==
  ASSUME IInv, NEW r \in Requests, Refuse(r), UNCHANGED signInVars
  PROVE  IInv'
<1>1. request[r].token \in WebTokens
  BY StateFields DEF Refuse, IInv, TypeOK
<1>2. request' \in [Requests -> RequestStates]
  BY DEF Refuse, Goto, IInv, TypeOK, RequestStates
<1>3. TypeOK'
  BY <1>1, <1>2 DEF Refuse, IInv, TypeOK, attestVars, signInVars
<1>4. AttestInv' /\ RaceKnown' /\ AttemptsBounded'
  BY AttestFrame, RaceFrame, AttemptsFrame DEF Refuse, Goto, IInv, TypeOK, Same, attestVars, signInVars, Idle
<1>5. TokensOnce'
  BY DEF Refuse, Goto, IInv, TypeOK, TurnstileInv, TokensOnce, Idle
<1>6. LruIsRecent' /\ LruBounded' /\ VerdictsKept'
  BY DEF Refuse, IInv, TurnstileInv, LruIsRecent, LruBounded, VerdictsKept
<1>7. QED
  BY <1>3, <1>4, <1>5, <1>6 DEF IInv, TurnstileInv

\* The verdict that is cached is new, and the one that goes, if any, is older than
\* the last CacheMax.
LEMMA CacheVerdictKeeps ==
  ASSUME IInv, NEW r \in Requests, CacheVerdict(r), UNCHANGED signInVars
  PROVE  IInv'
<1> DEFINE t == request[r].token
           full == Cardinality(DOMAIN cache) >= CacheMax
           Ll == Len(cacheLRU)
           Lc == Len(cachings)
           new == [token |-> t, age |-> 0]
<1>1. t \in WebTokens
  BY StateFields DEF CacheVerdict, IInv, TypeOK
<1>2. /\ TypeOK /\ TokensOnce /\ LruIsRecent /\ LruBounded /\ VerdictsKept
      /\ Ll \in Nat /\ Lc \in Nat /\ CacheMax \in Nat \ {0} /\ VerdictTTL \in Nat /\ dropped \in Nat
  BY CacheMaxAssumption, CaptchaTTLAssumption DEF IInv, TypeOK, TurnstileInv
<1>3. \A i \in 1..Lc : cachings[i].token # t
  BY <1>2 DEF CacheVerdict, TokensOnce, TypeOK
<1>4. t \notin DOMAIN cache
  BY <1>2, <1>3 DEF LruIsRecent
<1>5. IsFiniteSet(DOMAIN cache) /\ Cardinality(DOMAIN cache) \in Nat /\ Cardinality(DOMAIN cache) <= Ll
  BY <1>2, MapWithinLru
<1>6. /\ cachings' = Append(cachings, new) /\ cachings' \in Seq([token : WebTokens, age : 0..(VerdictTTL + 1)])
      /\ Len(cachings') = Lc + 1 /\ cachings'[Lc + 1] = new
      /\ \A i \in 1..Lc : cachings'[i] = cachings[i]
  <2>1. new \in [token : WebTokens, age : 0..(VerdictTTL + 1)]
    BY <1>1, <1>2
  <2>2. QED
    BY <1>2, <2>1 DEF CacheVerdict, TypeOK
<1>7. \E x : /\ DOMAIN cache' = (DOMAIN cache \ {x}) \cup {t}
             /\ cache'[t] = VerdictTTL
             /\ \A u \in DOMAIN cache \ {x} : cache'[u] = cache[u]
             /\ \/ /\ full /\ Ll > 0 /\ x = cacheLRU[1]
                   /\ cacheLRU' = Append(Tail(cacheLRU), t)
                \/ /\ ~full /\ x = t
                   /\ cacheLRU' = Append(cacheLRU, t)
  <2>1. CASE full
    <3>1. Ll > 0 /\ cacheLRU # <<>>
      BY <1>2, <1>5, <2>1
    <3>2. Evicted(TRUE) = {cacheLRU[1]} /\ Evicted(TRUE) # {}
      BY <3>1 DEF Evicted
    <3>3. /\ cache' = [u \in (DOMAIN cache \ {cacheLRU[1]}) \cup {t} |-> IF u = t THEN VerdictTTL ELSE cache[u]]
          /\ cacheLRU' = Append(Tail(cacheLRU), t)
      BY <1>4, <2>1, <3>2 DEF CacheVerdict, cacheStore
    <3>4. QED
      BY <1>4, <2>1, <3>1, <3>3
  <2>2. CASE ~full
    <3>1. Evicted(FALSE) = {}
      BY DEF Evicted
    <3>2. /\ cache' = [u \in DOMAIN cache \cup {t} |-> IF u = t THEN VerdictTTL ELSE cache[u]]
          /\ cacheLRU' = Append(cacheLRU, t)
      BY <1>4, <2>2, <3>1 DEF CacheVerdict, cacheStore
    <3>3. QED
      BY <1>4, <2>2, <3>2
  <2>3. QED
    BY <2>1, <2>2
<1>8. PICK x : /\ DOMAIN cache' = (DOMAIN cache \ {x}) \cup {t}
               /\ cache'[t] = VerdictTTL
               /\ \A u \in DOMAIN cache \ {x} : cache'[u] = cache[u]
               /\ \/ /\ full /\ Ll > 0 /\ x = cacheLRU[1]
                     /\ cacheLRU' = Append(Tail(cacheLRU), t)
                  \/ /\ ~full /\ x = t
                     /\ cacheLRU' = Append(cacheLRU, t)
  BY <1>7
<1>9. /\ cacheLRU' \in Seq(WebTokens)
      /\ full => /\ Len(cacheLRU') = Ll /\ cacheLRU'[Ll] = t
                 /\ \A j \in 1..(Ll - 1) : cacheLRU'[j] = cacheLRU[j + 1]
      /\ ~full => /\ Len(cacheLRU') = Ll + 1 /\ cacheLRU'[Ll + 1] = t
                  /\ \A j \in 1..Ll : cacheLRU'[j] = cacheLRU[j]
  <2>1. cacheLRU \in Seq(WebTokens)
    BY <1>2 DEF TypeOK
  <2>2. CASE full
    <3>1. Ll > 0 /\ cacheLRU' = Append(Tail(cacheLRU), t)
      BY <1>8, <2>2
    <3>2. QED
      BY <1>1, <2>1, <2>2, <3>1, Shifted
  <2>3. CASE ~full
    BY <1>1, <1>8, <2>1, <2>3, Appended
  <2>4. QED
    BY <2>2, <2>3
<1>10. cache' \in [DOMAIN cache' -> -1..VerdictTTL]
  <2>1. \E D : cache' \in [D -> -1..VerdictTTL]
    <3>1. VerdictTTL \in -1..VerdictTTL
      BY <1>2
    <3>2. \A u \in DOMAIN cache : cache[u] \in -1..VerdictTTL
      BY <1>2 DEF TypeOK
    <3>3. cache' = [u \in (DOMAIN cache \ Evicted(t \notin DOMAIN cache /\ full)) \cup {t} |->
                     IF u = t THEN VerdictTTL ELSE cache[u]]
      BY DEF CacheVerdict, cacheStore
    <3>4. QED
      BY <3>1, <3>2, <3>3
  <2>2. QED
    BY <2>1
<1>11. request' = [request EXCEPT ![r] = Passed] /\ request' \in [Requests -> RequestStates]
  BY <1>2 DEF CacheVerdict, Goto, TypeOK, RequestStates
<1>12. TypeOK'
  BY <1>1, <1>2, <1>6, <1>8, <1>9, <1>10, <1>11 DEF CacheVerdict, TypeOK, attestVars, signInVars
<1>13. AttestInv' /\ RaceKnown' /\ AttemptsBounded'
  BY <1>11, AttestFrame, RaceFrame, AttemptsFrame
     DEF CacheVerdict, IInv, TypeOK, Same, attestVars, signInVars, Passed
<1>14. TokensOnce'
  <2>1. DOMAIN cachings' = 1..(Lc + 1) /\ DOMAIN cachings = 1..Lc
    BY <1>2, <1>6 DEF TypeOK
  <2>2. t \in redeemed /\ redeemed' = redeemed
    BY <1>2 DEF CacheVerdict, TokensOnce
  <2>3. \A i \in 1..(Lc + 1) : i \in 1..Lc \/ i = Lc + 1
    BY <1>2
  <2>4. /\ \A i \in DOMAIN cachings' : cachings'[i].token \in redeemed'
        /\ \A i, j \in DOMAIN cachings' : cachings'[i].token = cachings'[j].token => i = j
    BY <1>2, <1>3, <1>6, <2>1, <2>2, <2>3 DEF TokensOnce
  <2>5. ASSUME NEW p \in Requests, request'[p].at = "verdict"
        PROVE  /\ request'[p].token \in redeemed'
               /\ \A i \in DOMAIN cachings' : cachings'[i].token # request'[p].token
               /\ \A q \in Requests : request'[q].at = "verdict" /\ request'[q].token = request'[p].token => q = p
    <3>1. p # r /\ request'[p] = request[p]
      BY <1>2, <1>11, <2>5 DEF TypeOK, Passed
    <3>2. request[p].token # t
      BY <1>2, <2>5, <3>1 DEF CacheVerdict, TokensOnce
    <3>3. \A q \in Requests : request'[q].at = "verdict" => request'[q] = request[q]
      BY <1>2, <1>11 DEF TypeOK, Passed
    <3>4. request[p].token \in redeemed /\ \A i \in DOMAIN cachings : cachings[i].token # request[p].token
      BY <1>2, <2>5, <3>1 DEF TokensOnce
    <3>5. \A i \in DOMAIN cachings' : cachings'[i].token # request[p].token
      BY <1>6, <2>1, <2>3, <3>2, <3>4
    <3>6. \A q \in Requests : request'[q].at = "verdict" /\ request'[q].token = request'[p].token => q = p
      BY <1>2, <2>5, <3>1, <3>3 DEF TokensOnce
    <3>7. QED
      BY <2>2, <3>1, <3>4, <3>5, <3>6
  <2>6. QED
    BY <2>4, <2>5 DEF TokensOnce
<1>15. LruIsRecent'
  <2>1. /\ Len(cacheLRU') <= Lc + 1
        /\ \A j \in 1..Len(cacheLRU') : cacheLRU'[j] = cachings'[Lc + 1 - Len(cacheLRU') + j].token
    <3>1. Ll <= Lc /\ \A j \in 1..Ll : cacheLRU[j] = cachings[Lc - Ll + j].token
      BY <1>2 DEF LruIsRecent
    <3>2. CASE full
      <4>1. Len(cacheLRU') = Ll /\ Ll > 0
        BY <1>8, <1>9, <3>2
      <4>2. ASSUME NEW j \in 1..Ll PROVE cacheLRU'[j] = cachings'[Lc + 1 - Ll + j].token
        <5>1. CASE j = Ll
          <6>1. Lc + 1 - Ll + j = Lc + 1
            BY <1>2, <5>1
          <6>2. QED
            BY <1>6, <1>9, <3>2, <5>1, <6>1
        <5>2. CASE j \in 1..(Ll - 1)
          <6>1. j + 1 \in 1..Ll /\ Lc - Ll + (j + 1) = Lc + 1 - Ll + j /\ Lc + 1 - Ll + j \in 1..Lc
            BY <1>2, <3>1, <5>2
          <6>2. cacheLRU'[j] = cacheLRU[j + 1] /\ cacheLRU[j + 1] = cachings[Lc + 1 - Ll + j].token
            BY <1>9, <3>1, <3>2, <5>2, <6>1
          <6>3. QED
            BY <1>6, <6>1, <6>2
        <5>3. QED
          BY <1>2, <5>1, <5>2
      <4>3. QED
        BY <1>2, <3>1, <4>1, <4>2
    <3>3. CASE ~full
      <4>1. Len(cacheLRU') = Ll + 1
        BY <1>9, <3>3
      <4>2. ASSUME NEW j \in 1..(Ll + 1) PROVE cacheLRU'[j] = cachings'[Lc + 1 - (Ll + 1) + j].token
        <5>1. CASE j = Ll + 1
          <6>1. Lc + 1 - (Ll + 1) + j = Lc + 1
            BY <1>2, <5>1
          <6>2. QED
            BY <1>6, <1>9, <3>3, <5>1, <6>1
        <5>2. CASE j \in 1..Ll
          <6>1. Lc + 1 - (Ll + 1) + j = Lc - Ll + j /\ Lc - Ll + j \in 1..Lc
            BY <1>2, <3>1, <5>2
          <6>2. QED
            BY <1>6, <1>9, <3>1, <3>3, <5>2, <6>1
        <5>3. QED
          BY <1>2, <5>1, <5>2
      <4>3. QED
        BY <1>2, <3>1, <4>1, <4>2
    <3>4. QED
      BY <3>2, <3>3
  <2>2. ASSUME NEW u \in DOMAIN cache' PROVE \E j \in 1..Len(cacheLRU') : cacheLRU'[j] = u
    <3>1. CASE u = t
      <4>1. Len(cacheLRU') \in 1..Len(cacheLRU') /\ cacheLRU'[Len(cacheLRU')] = t
        BY <1>2, <1>8, <1>9
      <4>2. QED
        BY <3>1, <4>1
    <3>2. CASE u # t
      <4>1. u \in DOMAIN cache /\ u # x
        BY <1>8, <3>2
      <4>2. PICK j \in 1..Ll : cacheLRU[j] = u
        BY <1>2, <4>1 DEF LruIsRecent
      <4>3. CASE full
        <5>1. j # 1
          BY <1>8, <4>1, <4>2, <4>3
        <5>2. j - 1 \in 1..(Ll - 1) /\ (j - 1) + 1 = j /\ j - 1 \in 1..Ll
          BY <1>2, <4>2, <5>1
        <5>3. cacheLRU'[j - 1] = u /\ Len(cacheLRU') = Ll
          BY <1>9, <4>2, <4>3, <5>2
        <5>4. QED
          BY <5>2, <5>3
      <4>4. CASE ~full
        <5>1. j \in 1..Len(cacheLRU') /\ cacheLRU'[j] = u
          BY <1>2, <1>9, <4>2, <4>4
        <5>2. QED
          BY <5>1
      <4>5. QED
        BY <4>3, <4>4
    <3>3. QED
      BY <3>1, <3>2
  <2>3. ASSUME NEW i \in DOMAIN cachings', cachings'[i].token \in DOMAIN cache'
        PROVE  cache'[cachings'[i].token] = VerdictTTL - cachings'[i].age
    <3>1. i \in 1..(Lc + 1)
      BY <1>2, <1>6 DEF TypeOK
    <3>2. CASE i = Lc + 1
      BY <1>2, <1>6, <1>8, <3>2
    <3>3. CASE i \in 1..Lc
      <4>1. cachings'[i] = cachings[i] /\ cachings[i].token # t
        BY <1>3, <1>6, <3>3
      <4>2. cachings[i].token \in DOMAIN cache \ {x}
        BY <1>8, <2>3, <4>1
      <4>3. QED
        BY <1>2, <1>8, <3>3, <4>1, <4>2 DEF LruIsRecent, TypeOK
    <3>4. QED
      BY <1>2, <3>1, <3>2, <3>3
  <2>4. /\ Len(cacheLRU') <= Len(cachings')
        /\ \A j \in 1..Len(cacheLRU') : cacheLRU'[j] = cachings'[Len(cachings') - Len(cacheLRU') + j].token
    <3>1. Len(cachings') = Lc + 1
      BY <1>6
    <3>2. QED
      BY <2>1, <3>1
  <2>5. QED
    BY <2>2, <2>3, <2>4 DEF LruIsRecent
<1>16. LruBounded'
  <2>1. dropped' = dropped
    BY DEF CacheVerdict
  <2>2. CASE full
    <3>1. Len(cacheLRU') = Ll
      BY <1>9, <2>2
    <3>2. /\ IsFiniteSet(DOMAIN cache \ {x}) /\ Cardinality(DOMAIN cache \ {x}) \in Nat
          /\ Cardinality(DOMAIN cache \ {x}) >= Cardinality(DOMAIN cache) - 1
      BY <1>5, RemoveOne
    <3>3. IsFiniteSet(DOMAIN cache') /\ Cardinality(DOMAIN cache') = Cardinality(DOMAIN cache \ {x}) + 1
      <4>1. t \notin DOMAIN cache \ {x} /\ DOMAIN cache' = (DOMAIN cache \ {x}) \cup {t}
        BY <1>4, <1>8
      <4>2. QED
        BY <3>2, <4>1, FS_AddElement, SMTT(30)
    <3>4. QED
      BY <1>2, <1>5, <2>1, <3>1, <3>2, <3>3 DEF LruBounded
  <2>3. CASE ~full
    <3>1. Len(cacheLRU') = Ll + 1
      BY <1>9, <2>3
    <3>2. DOMAIN cache' = DOMAIN cache \cup {t}
      BY <1>8, <2>3
    <3>3. IsFiniteSet(DOMAIN cache') /\ Cardinality(DOMAIN cache') = Cardinality(DOMAIN cache) + 1
      BY <1>4, <1>5, <3>2, FS_AddElement
    <3>4. QED
      BY <1>2, <1>5, <2>1, <2>3, <3>1, <3>3 DEF LruBounded
  <2>4. QED
    BY <2>2, <2>3
<1>17. VerdictsKept'
  <2> SUFFICES ASSUME NEW i \in DOMAIN cachings', cachings'[i].age <= VerdictTTL, i > Len(cachings') - CacheMax
               PROVE  cachings'[i].token \in DOMAIN cache' /\ cache'[cachings'[i].token] >= 0
    BY DEF VerdictsKept
  <2>1. i > Lc + 1 - CacheMax
    <3>1. Len(cachings') = Lc + 1 /\ Lc \in Nat /\ CacheMax \in Nat
      BY <1>2, <1>6
    <3>2. i \in Nat
      BY <1>6
    <3>3. QED
      BY <3>1, <3>2
  <2>2. i \in 1..(Lc + 1)
    BY <1>2, <1>6 DEF TypeOK
  <2>3. CASE i = Lc + 1
    BY <1>2, <1>6, <1>8, <2>3
  <2>4. CASE i \in 1..Lc
    <3>1. cachings'[i] = cachings[i] /\ cachings[i].token # t /\ i \in DOMAIN cachings
      BY <1>2, <1>3, <1>6, <2>4 DEF TypeOK
    <3>2. cachings[i].token \in DOMAIN cache /\ cache[cachings[i].token] >= 0
      BY <1>2, <2>1, <2>4, <3>1 DEF VerdictsKept
    <3>3. cachings[i].token # x
      <4>1. CASE full
        <5> DEFINE k == Lc - Ll + 1
        <5>1. x = cachings[k].token /\ k \in 1..Lc
          BY <1>2, <1>8, <4>1 DEF LruIsRecent
        <5>2. k # i
          BY <1>2, <1>5, <2>1, <4>1
        <5>3. QED
          BY <1>2, <2>4, <5>1, <5>2, SMTT(30) DEF TokensOnce, TypeOK
      <4>2. CASE ~full
        BY <1>8, <3>1, <4>2
      <4>3. QED
        BY <4>1, <4>2
    <3>4. QED
      BY <1>8, <3>1, <3>2, <3>3
  <2>5. QED
    BY <1>2, <2>2, <2>3, <2>4
<1>18. QED
  BY <1>12, <1>13, <1>14, <1>15, <1>16, <1>17 DEF IInv, TurnstileInv

----------------------------------------------------------------------------
(* Time *)

\* An element of a sequence over a set is in that set.
LEMMA ElementOf ==
  ASSUME NEW S, NEW s \in Seq(S), NEW i \in DOMAIN s
  PROVE  s[i] \in S
OBVIOUS

\* Every recorded verdict is a token and its age.
LEMMA RecordElement ==
  ASSUME TypeOK, NEW i \in DOMAIN cachings
  PROVE  /\ cachings[i] \in [token : WebTokens, age : 0..(VerdictTTL + 1)]
         /\ cachings[i].age \in 0..(VerdictTTL + 1)
<1>1. cachings \in Seq([token : WebTokens, age : 0..(VerdictTTL + 1)])
  BY DEF TypeOK
<1>2. cachings[i] \in [token : WebTokens, age : 0..(VerdictTTL + 1)]
  BY <1>1, ElementOf, Zenon
<1>3. QED
  BY <1>2

\* Ages grow as the time that is left shrinks, and no time brings a challenge back.
LEMMA TickKeeps ==
  ASSUME IInv, Tick
  PROVE  IInv'
<1>1. /\ TypeOK /\ VerdictTTL \in Nat /\ ChallengeTTL \in Nat /\ Window \in Nat /\ CacheMax \in Nat
      /\ UNCHANGED <<doors, request, counter, uses, accepted, cacheLRU, redeemed, dropped, profiles>>
  BY CaptchaTTLAssumption, LimitAssumption, CacheMaxAssumption DEF IInv, Tick, CaptchaTick
<1>2. /\ challenge' \in [Challenges -> Spent..ChallengeTTL]
      /\ \A c \in Challenges : challenge[c] = Spent => challenge'[c] = Spent
  BY <1>1 DEF Tick, CaptchaTick, TypeOK, Spent
<1>3. /\ DOMAIN cache' = DOMAIN cache
      /\ cache' \in [DOMAIN cache' -> -1..VerdictTTL]
      /\ \A t \in DOMAIN cache : cache'[t] = IF cache[t] < 0 THEN cache[t] ELSE cache[t] - 1
  <2>1. \A t \in DOMAIN cache : cache[t] \in -1..VerdictTTL
    BY <1>1 DEF TypeOK
  <2>2. cache' = [t \in DOMAIN cache |-> IF cache[t] < 0 THEN cache[t] ELSE cache[t] - 1]
    BY DEF Tick, CaptchaTick
  <2>3. QED
    BY <1>1, <2>1, <2>2
<1>4. /\ DOMAIN cachings' = DOMAIN cachings /\ Len(cachings') = Len(cachings)
      /\ cachings' \in Seq([token : WebTokens, age : 0..(VerdictTTL + 1)])
      /\ \A i \in DOMAIN cachings :
           /\ cachings'[i].token = cachings[i].token
           /\ cachings'[i].age = IF cachings[i].age > VerdictTTL THEN cachings[i].age ELSE cachings[i].age + 1
  <2> DEFINE E == [token : WebTokens, age : 0..(VerdictTTL + 1)]
             F(e) == IF e.age > VerdictTTL THEN e ELSE [e EXCEPT !.age = @ + 1]
  <2>1. \A e \in E : /\ F(e) \in E /\ F(e).token = e.token
                      /\ F(e).age = IF e.age > VerdictTTL THEN e.age ELSE e.age + 1
    BY <1>1
  <2>2. cachings' = [i \in DOMAIN cachings |-> F(cachings[i])]
    BY DEF Tick, CaptchaTick
  <2>3. cachings \in Seq(E) /\ DOMAIN cachings = 1..Len(cachings) /\ Len(cachings) \in Nat
    BY <1>1 DEF TypeOK
  <2>4. \A i \in DOMAIN cachings : cachings[i] \in E
    BY <1>1, RecordElement DEF TypeOK
  <2> HIDE DEF E, F
  <2>5. cachings' \in [1..Len(cachings) -> E]
    BY <2>1, <2>2, <2>3, <2>4
  <2>6. cachings' \in Seq(E) /\ Len(cachings') = Len(cachings)
    BY <2>3, <2>5
  <2>7. \A i \in DOMAIN cachings : cachings'[i] = F(cachings[i])
    BY <2>2
  <2>8. QED
    BY <2>1, <2>2, <2>4, <2>6, <2>7 DEF E
<1>5. /\ DOMAIN loginAttempts' = DOMAIN loginAttempts
      /\ loginAttempts' \in [DOMAIN loginAttempts' -> [attempts : Nat, left : -1..Window]]
      /\ \A e \in DOMAIN loginAttempts : loginAttempts'[e].attempts = loginAttempts[e].attempts
  <2> DEFINE A == [attempts : Nat, left : -1..Window]
             G(a) == IF a.left < 0 THEN a ELSE [a EXCEPT !.left = @ - 1]
  <2>1. \A a \in A : G(a) \in A /\ G(a).attempts = a.attempts
    BY <1>1
  <2>2. loginAttempts' = [e \in DOMAIN loginAttempts |-> G(loginAttempts[e])]
    BY DEF Tick, Expired
  <2>3. \A e \in DOMAIN loginAttempts : loginAttempts[e] \in A
    BY <1>1 DEF TypeOK
  <2> HIDE DEF A, G
  <2>4. loginAttempts' \in [DOMAIN loginAttempts -> A]
    BY <2>1, <2>2, <2>3
  <2>5. QED
    BY <2>1, <2>2, <2>3, <2>4 DEF A
<1>6. TypeOK'
  BY <1>1, <1>2, <1>3, <1>4, <1>5 DEF TypeOK
<1>7. AttestInv'
  BY <1>1, <1>2, StateFields DEF IInv, TypeOK, AttestInv, Holders
<1>8. RaceKnown' /\ AttemptsBounded'
  BY <1>1, <1>5, RaceFrame, AttemptsFrame DEF IInv, Same
<1>9. TokensOnce'
  BY <1>1, <1>4 DEF IInv, TurnstileInv, TokensOnce
<1>10. LruBounded'
  BY <1>1, <1>3 DEF IInv, TurnstileInv, LruBounded
<1>11. ASSUME NEW i \in DOMAIN cachings, cachings[i].token \in DOMAIN cache
       PROVE  /\ cachings[i].age \in Nat /\ cachings'[i].age \in Nat
              /\ cache[cachings[i].token] = VerdictTTL - cachings[i].age
              /\ cache'[cachings'[i].token] = VerdictTTL - cachings'[i].age
  <2>1. cachings[i].age \in 0..(VerdictTTL + 1)
    BY <1>1, RecordElement
  <2>2. cache[cachings[i].token] = VerdictTTL - cachings[i].age
    BY <1>11 DEF IInv, TurnstileInv, LruIsRecent
  <2>3. cachings'[i].token = cachings[i].token
    BY <1>4
  <2>4. cachings'[i].age = IF cachings[i].age > VerdictTTL THEN cachings[i].age ELSE cachings[i].age + 1
    BY <1>4
  <2>5. cache'[cachings[i].token] =
          IF cache[cachings[i].token] < 0 THEN cache[cachings[i].token] ELSE cache[cachings[i].token] - 1
    BY <1>3, <1>11
  <2>6. QED
    BY <1>1, <2>1, <2>2, <2>3, <2>4, <2>5
<1>12. LruIsRecent'
  <2>1. /\ Len(cacheLRU) <= Len(cachings) /\ Len(cacheLRU) \in Nat /\ Len(cachings) \in Nat
        /\ DOMAIN cachings = 1..Len(cachings)
    BY <1>1 DEF IInv, TurnstileInv, LruIsRecent, TypeOK
  <2>2. ASSUME NEW j \in 1..Len(cacheLRU)
        PROVE  cacheLRU[j] = cachings'[Len(cachings) - Len(cacheLRU) + j].token
    <3>1. Len(cachings) - Len(cacheLRU) + j \in DOMAIN cachings
      BY <2>1
    <3>2. QED
      BY <1>4, <3>1 DEF IInv, TurnstileInv, LruIsRecent
  <2>3. \A t \in DOMAIN cache : \E j \in 1..Len(cacheLRU) : cacheLRU[j] = t
    BY DEF IInv, TurnstileInv, LruIsRecent
  <2>4. QED
    BY <1>1, <1>3, <1>4, <1>11, <2>1, <2>2, <2>3 DEF LruIsRecent
<1>13. VerdictsKept'
  <2> SUFFICES ASSUME NEW i \in DOMAIN cachings', cachings'[i].age <= VerdictTTL, i > Len(cachings') - CacheMax
               PROVE  cachings'[i].token \in DOMAIN cache' /\ cache'[cachings'[i].token] >= 0
    BY DEF VerdictsKept
  <2>1. i \in DOMAIN cachings /\ i > Len(cachings) - CacheMax
    BY <1>4
  <2>2. cachings[i].age \in 0..(VerdictTTL + 1)
    BY <1>1, <2>1, RecordElement
  <2>3. cachings'[i].age = IF cachings[i].age > VerdictTTL THEN cachings[i].age ELSE cachings[i].age + 1
    BY <1>4, <2>1
  <2>4. cachings[i].age <= VerdictTTL
    BY <1>1, <2>2, <2>3
  <2>5. cachings[i].token \in DOMAIN cache
    BY <2>1, <2>4 DEF IInv, TurnstileInv, VerdictsKept
  <2>6. QED
    BY <1>1, <1>3, <1>4, <1>11, <2>1, <2>5
<1>14. QED
  BY <1>6, <1>7, <1>8, <1>9, <1>10, <1>12, <1>13 DEF IInv, TurnstileInv

----------------------------------------------------------------------------
(* The theorems *)

\* What holds of a step holds of a stuttering step.
LEMMA StutterKeeps ==
  ASSUME IInv, UNCHANGED vars
  PROVE  IInv'
<1> USE DEF vars, captchaVars, signInVars
<1>1. TypeOK'
  BY DEF IInv, TypeOK, attestVars, turnstileVars
<1>2. AttestInv' /\ TurnstileInv' /\ RaceKnown' /\ AttemptsBounded'
  BY AttestFrame, TurnstileFrame, RaceFrame, AttemptsFrame DEF IInv, Same
<1>3. QED
  BY <1>1, <1>2 DEF IInv

\* The steps of the captcha preserve the invariant.
LEMMA CaptchaKeeps ==
  ASSUME IInv, CaptchaNext, UNCHANGED signInVars
  PROVE  IInv'
<1>1. ASSUME NEW r \in Requests, CaptchaStep(r) PROVE IInv'
  <2>1. ASSUME NEW k \in Keys, NEW n \in Counters, NEW c \in Challenges,
               VerifyIOS(r, k, n, c) \/ AttestRegister(r, k, n, c)
        PROVE  IInv'
    BY <2>1, VerifyIOSKeeps, AttestRegisterKeeps
  <2>2. ASSUME NEW t \in WebTokens, VerifyWeb(r, t) PROVE IInv'
    BY <2>2, VerifyWebKeeps
  <2>3. ASSUME NEW c \in Challenges, VerifyAndroid(r, c) PROVE IInv'
    BY <2>3, VerifyAndroidKeeps
  <2>4. QED
    BY <1>1, <2>1, <2>2, <2>3, AcceptKeeps, RefuseKeeps, CacheVerdictKeeps, LookupKeeps, RefuseIOSKeeps,
       BumpKeeps, UpsertKeeps, UpsertFailsKeeps, VerifyAndroidBareKeeps DEF CaptchaStep
<1>2. QED
  BY <1>1, AttestChallengeKeeps DEF CaptchaNext

\* The steps of a sign-in preserve the invariant.
LEMMA SignInKeeps ==
  ASSUME IInv, NEW r \in Requests, SignInStep(r)
  PROVE  IInv'
<1>1. ASSUME NEW e \in Emails, GoogleLogin(r, e) \/ Register(r, e) \/ Login(r, e) PROVE IInv'
  BY <1>1, GoogleLoginKeeps, RegisterKeeps, LoginKeeps
<1>2. CASE InsertProfile(r)
  BY <1>2, InsertSucceeds, InsertIsRefused
<1>3. QED
  BY <1>1, <1>2, GoogleFailsKeeps, Answer500Keeps, WrongPasswordKeeps, RightPasswordKeeps, DatabaseFailsKeeps
     DEF SignInStep

\* Every reachable state satisfies the inductive invariant.
THEOREM Invariance == Spec => []IInv
<1>1. Init => IInv
  <2> SUFFICES ASSUME Init PROVE IInv
    OBVIOUS
  <2> USE DEF Init, CaptchaInit
  <2>1. TypeOK
    BY CounterAssumption, CaptchaTTLAssumption, LimitAssumption
       DEF TypeOK, RequestStates, Undrawn, Spent, Unregistered, Counters
  <2>2. AttestInv
    BY DEF AttestInv, Holders, Idle
  <2>3. TokensOnce /\ LruIsRecent /\ VerdictsKept
    BY DEF TokensOnce, LruIsRecent, VerdictsKept, Idle
  <2>4. LruBounded
    <3>1. DOMAIN cache = {} /\ Len(cacheLRU) = 0 /\ dropped = 0
      OBVIOUS
    <3>2. QED
      BY <3>1, FS_EmptySet, CacheMaxAssumption DEF LruBounded
  <2>5. RaceKnown /\ AttemptsBounded
    BY DEF RaceKnown, FailsOnlyInRace, AttemptsBounded, Idle
  <2>6. QED
    BY <2>1, <2>2, <2>3, <2>4, <2>5 DEF IInv, TurnstileInv
<1>2. IInv /\ [Next]_vars => IInv'
  <2> SUFFICES ASSUME IInv, [Next]_vars PROVE IInv'
    OBVIOUS
  <2>1. ASSUME NEW e \in Emails, DeleteProfile(e) PROVE IInv'
    BY <2>1, DeleteProfileKeeps
  <2>2. QED
    BY <2>1, CaptchaKeeps, SignInKeeps, PurgeKeeps, TickKeeps, StutterKeeps DEF Next
<1>3. QED
  BY <1>1, <1>2, PTL DEF Spec

\* In every reachable state, the variables have their types.
THEOREM TypeCorrect == Spec => []TypeOK
<1>1. IInv => TypeOK
  BY DEF IInv
<1>2. QED
  BY Invariance, <1>1, PTL

\* No challenge and no counter value of a key admits twice, however many requests
\* present it at once.
THEOREM NothingReplayed == Spec => []NoReplay
<1>1. IInv => NoReplay
  BY DEF IInv, AttestInv, NoReplay
<1>2. QED
  BY Invariance, <1>1, PTL

\* The last CacheMax verdicts stay in the map for their time.
THEOREM VerdictsAlwaysKept == Spec => []VerdictsKept
<1>1. IInv => VerdictsKept
  BY DEF IInv, TurnstileInv
<1>2. QED
  BY Invariance, <1>1, PTL

\* The map exceeds its limit by no more than what lookups have removed.
THEOREM VerdictsAlwaysBounded == Spec => []VerdictsBounded
<1>1. ASSUME IInv PROVE VerdictsBounded
  <2>1. Cardinality(DOMAIN cache) \in Nat /\ Cardinality(DOMAIN cache) <= Len(cacheLRU)
    BY <1>1, MapWithinLru DEF IInv, TurnstileInv
  <2>2. Len(cacheLRU) <= CacheMax + dropped /\ Len(cacheLRU) \in Nat /\ dropped \in Nat
    BY <1>1 DEF IInv, TurnstileInv, LruBounded, TypeOK
  <2>3. QED
    BY <2>1, <2>2, CacheMaxAssumption DEF VerdictsBounded
<1>2. QED
  BY Invariance, <1>1, PTL

\* The failures of an email exceed their limit by fewer than the overlapping
\* requests.
THEOREM AttemptsAlwaysBounded == Spec => []AttemptsBounded
<1>1. IInv => AttemptsBounded
  BY DEF IInv
<1>2. QED
  BY Invariance, <1>1, PTL

\* A sign-in that has passed its checks fails only if it was overtaken.
THEOREM FailuresAreRaces == Spec => []FailsOnlyInRace
<1>1. IInv => FailsOnlyInRace
  BY DEF IInv, RaceKnown
<1>2. QED
  BY Invariance, <1>1, PTL

=============================================================================
