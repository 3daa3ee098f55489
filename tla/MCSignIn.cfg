SPECIFICATION Spec
CONSTANTS
  Requests = {r1, r2}
  WebTokens = {t1, t2, t3, t4}
  Challenges = {c1, c2, c3}
  Keys = {k1}
  MaxCounter = 2
  VerdictTTL = 1
  CacheMax = 2
  ChallengeTTL = 1
  DoorSets <- Together
  Emails = {e1}
  MaxAttempts = 2
  Window = 2
INVARIANTS NoReplay VerdictsKept VerdictsBounded AttemptsBounded FailsOnlyInRace
SYMMETRY Symmetry
