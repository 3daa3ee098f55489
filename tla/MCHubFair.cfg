SPECIFICATION FairSpec
CONSTANTS
  Clients = {c1}
  Budgets = {b1, b2}
  Callers = {k1}
  CallAfterIndexed = TRUE
  SendBufSize = 2
  BroadcastCap = 2
INVARIANTS SettledConsistent
PROPERTIES EjectedLeaves HandlerLeaves NoGoroutineLeak
