------------------------------- MODULE SignIn -------------------------------
(***************************************************************************)
(* Signing in, behind the captcha: GoogleLogin and GoogleMobileLogin with  *)
(* the profile that they find or create (internal/handlers/auth.go), and   *)
(* Register and Login with a password and the per-email limit on failures  *)
(* (auth_email.go; the captcha is wired for the day when these two are     *)
(* mounted, so that here they have a door of their own).  What becomes of  *)
(* the session is in SessionAuth.                                          *)
(***************************************************************************)
EXTENDS Captcha

CONSTANTS Emails,      \* addresses
          MaxAttempts, \* maxLoginAttemptsPerEmail
          Window       \* ticks of loginAttemptWindow

ASSUME LimitAssumption == MaxAttempts \in Nat \ {0} /\ Window \in Nat

VARIABLES profiles,     \* profiles, by email: the provider, or "none"
          loginAttempts \* email -> failures in the window, and ticks left of it

signInVars == <<profiles, loginAttempts>>
vars == <<captchaVars, signInVars>>

RequestStates ==
  {Idle, Passed}
    \cup [at : {"siteverify", "verdict"}, token : WebTokens]
    \cup [at : {"lookup", "bump", "upsert"}, key : Keys, counter : Counters, challenge : Challenges]
    \cup [at : {"insert"}, email : Emails, provider : {"google", "email"}, raced : BOOLEAN]
    \cup [at : {"failed"}, raced : BOOLEAN]
    \cup [at : {"compare"}, email : Emails]

\* The types of the variables.
TypeOK ==
  /\ doors \in DoorSets
  /\ request \in [Requests -> RequestStates]
  /\ challenge \in [Challenges -> Spent..ChallengeTTL]
  /\ counter \in [Keys -> Unregistered..MaxCounter]
  /\ DOMAIN cache \subseteq WebTokens /\ cache \in [DOMAIN cache -> -1..VerdictTTL]
  /\ cacheLRU \in Seq(WebTokens)
  /\ redeemed \subseteq WebTokens
  /\ uses \in [Challenges -> Nat]
  /\ accepted \in [Keys -> [Counters -> Nat]]
  /\ cachings \in Seq([token : WebTokens, age : 0..(VerdictTTL + 1)])
  /\ dropped \in Nat
  /\ profiles \in [Emails -> {"none", "email", "google"}]
  /\ DOMAIN loginAttempts \subseteq Emails
  /\ loginAttempts \in [DOMAIN loginAttempts -> [attempts : Nat, left : -1..Window]]

Init ==
  /\ CaptchaInit
  /\ profiles \in [Emails -> {"none", "email"}]
  /\ loginAttempts = [e \in {} |-> 0]

----------------------------------------------------------------------------
(* Google *)

\* Mutant of FindsProfile: profiles of the other provider are not found.
FindsGoogleProfile(e) == profiles[e] = "google"

\* upsertProfile looks the email up, whatever the provider.
FindsProfile(e) == profiles[e] # "none"

\* Google has verified the email; upsertProfile finds the profile, with which the
\* request ends, or goes on to create it.
GoogleLogin(r, e) ==
  /\ request[r] = Passed
  /\ Goto(r, IF FindsProfile(e) THEN Idle
             ELSE [at |-> "insert", email |-> e, provider |-> "google", raced |-> FALSE])
  /\ UNCHANGED <<doors, attestVars, turnstileVars, signInVars>>

\* Google refuses, or the lookup fails.
GoogleFails(r) ==
  /\ request[r] = Passed
  /\ Goto(r, Idle)
  /\ UNCHANGED <<doors, attestVars, turnstileVars, signInVars>>

----------------------------------------------------------------------------
(* Password *)

\* Register refuses an email that has a profile, and hashes the password.
Register(r, e) ==
  /\ "email" \in doors
  /\ request[r] = Idle
  /\ ~FindsProfile(e)
  /\ Goto(r, [at |-> "insert", email |-> e, provider |-> "email", raced |-> FALSE])
  /\ UNCHANGED <<doors, attestVars, turnstileVars, signInVars>>

\* createNewProfile and Register insert the profile.  An email that has one by now
\* is an error of PostCtx, and so of the sign-in: what createNewProfile does about
\* other answers than 201 is not reached.  raced is history: somebody else has
\* inserted this email since it was looked up.
InsertProfile(r) ==
  /\ request[r].at = "insert"
  /\ LET e == request[r].email
     IN  IF profiles[e] = "none"
         THEN /\ profiles' = [profiles EXCEPT ![e] = request[r].provider]
              /\ request' = [q \in Requests |->
                               IF q = r THEN Idle
                               ELSE IF request[q].at = "insert" /\ request[q].email = e
                               THEN [request[q] EXCEPT !.raced = TRUE]
                               ELSE request[q]]
         ELSE /\ Goto(r, [at |-> "failed", raced |-> request[r].raced])
              /\ UNCHANGED profiles
  /\ UNCHANGED <<doors, attestVars, turnstileVars, loginAttempts>>

\* The answer 500 is sent.
Answer500(r) ==
  /\ request[r].at = "failed"
  /\ Goto(r, Idle)
  /\ UNCHANGED <<doors, attestVars, turnstileVars, signInVars>>

\* DeleteAccount, and a new start.
DeleteProfile(e) ==
  /\ profiles[e] # "none"
  /\ profiles' = [profiles EXCEPT ![e] = "none"]
  /\ UNCHANGED <<captchaVars, loginAttempts>>

Expired(e) == loginAttempts[e].left < 0

Forget(e) == [d \in DOMAIN loginAttempts \ {e} |-> loginAttempts[d]]

\* Mutant of TooMany: one attempt more.
OneTooMany(e) == e \in DOMAIN loginAttempts /\ ~Expired(e) /\ loginAttempts[e].attempts > MaxAttempts

\* checkEmailRateLimit says no; an expired record is removed.
TooMany(e) == e \in DOMAIN loginAttempts /\ ~Expired(e) /\ loginAttempts[e].attempts >= MaxAttempts

\* Login checks the limit before it reads the profile and compares the password.
Login(r, e) ==
  /\ "email" \in doors
  /\ request[r] = Idle
  /\ ~TooMany(e)
  /\ loginAttempts' = IF e \in DOMAIN loginAttempts /\ Expired(e) THEN Forget(e) ELSE loginAttempts
  /\ Goto(r, [at |-> "compare", email |-> e])
  /\ UNCHANGED <<doors, attestVars, turnstileVars, profiles>>

\* No profile, no password, or the wrong one: recordFailedLogin.
WrongPassword(r) ==
  /\ request[r].at = "compare"
  /\ LET e == request[r].email
         old == e \in DOMAIN loginAttempts /\ ~Expired(e)
     IN  loginAttempts' = [d \in DOMAIN loginAttempts \cup {e} |->
           IF d # e THEN loginAttempts[d]
           ELSE IF old THEN [loginAttempts[e] EXCEPT !.attempts = @ + 1]
           ELSE [attempts |-> 1, left |-> Window]]
  /\ Goto(r, Idle)
  /\ UNCHANGED <<doors, attestVars, turnstileVars, profiles>>

\* The right one: clearLoginAttempts.
RightPassword(r) ==
  /\ request[r].at = "compare"
  /\ profiles[request[r].email] = "email"
  /\ loginAttempts' = Forget(request[r].email)
  /\ Goto(r, Idle)
  /\ UNCHANGED <<doors, attestVars, turnstileVars, profiles>>

\* The profile cannot be read, or the new one not written.
DatabaseFails(r) ==
  /\ request[r].at \in {"compare", "insert"}
  /\ Goto(r, Idle)
  /\ UNCHANGED <<doors, attestVars, turnstileVars, signInVars>>

\* The goroutine that removes expired records.
Purge ==
  /\ loginAttempts' = [e \in {d \in DOMAIN loginAttempts : ~Expired(d)} |-> loginAttempts[e]]
  /\ UNCHANGED <<captchaVars, profiles>>

----------------------------------------------------------------------------
Tick ==
  /\ CaptchaTick
  /\ loginAttempts' = [e \in DOMAIN loginAttempts |->
                         IF Expired(e) THEN loginAttempts[e] ELSE [loginAttempts[e] EXCEPT !.left = @ - 1]]
  /\ UNCHANGED profiles

SignInStep(r) ==
  \/ \E e \in Emails : GoogleLogin(r, e) \/ Register(r, e) \/ Login(r, e)
  \/ GoogleFails(r) \/ InsertProfile(r) \/ Answer500(r)
  \/ WrongPassword(r) \/ RightPassword(r) \/ DatabaseFails(r)

Next ==
  \/ CaptchaNext /\ UNCHANGED signInVars
  \/ \E r \in Requests : SignInStep(r)
  \/ \E e \in Emails : DeleteProfile(e)
  \/ Purge
  \/ Tick

Spec == Init /\ [][Next]_vars

----------------------------------------------------------------------------
(* Properties *)

\* An email never has more failures in a window than the limit and one for every
\* other request that had passed the check by then: the limit is checked before,
\* not with, the attempt.
AttemptsBounded ==
  \A e \in DOMAIN loginAttempts :
    loginAttempts[e].attempts + Cardinality({r \in Requests : request[r].at = "compare"
                                                           /\ request[r].email = e})
      <= MaxAttempts - 1 + Cardinality(Requests)

\* With the database at hand, a sign-in or registration that has passed every
\* check fails only if another one created the same profile in between.
FailsOnlyInRace == \A r \in Requests : request[r].at = "failed" => request[r].raced

=============================================================================
