SPECIFICATION Spec
CONSTANTS
  Clients = {c1, c2}
  Budgets = {b1}
  Callers = {k1}
  CallAfterIndexed = FALSE
  SendBufSize = 1
  BroadcastCap = 1
INVARIANTS NoPanic IndexSound SingleEjector RegisterNotBehindWrite
SYMMETRY Symmetry
