SPECIFICATION FairSpec
CONSTANTS
  Tokens = {t1, t2}
  TheUser = u1
  Users <- OnlyUser
  Owner <- OneOwner
  Requests = {r1}
  Ops = {o1}
  TTL = 2
  MaxAge = 3
  MaxLoad = 1
INVARIANTS RevokedAfterTTL OnlyOverlappingLoads NoFalseRejection
PROPERTY EvictorBounds
