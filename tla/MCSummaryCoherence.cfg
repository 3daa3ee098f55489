SPECIFICATION FairSpec
CONSTANTS
  Viewers = {u1, u2}
  Readers = {r1, r2}
  u1 = u1
  Demands <- Apart
  MaxVersion = 1
  MaxLoad = 1
  TTL = 1
INVARIANTS StaleBounded CleanWritesSeen NoLeak
PROPERTY RequestsEnd
