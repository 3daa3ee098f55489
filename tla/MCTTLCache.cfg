SPECIFICATION Spec
CONSTANTS
  Keys = {k1, k2, k3}
  Budgets = {b1, b2}
  Data = {d1, d2}
  MaxTTL = 2
  MaxEntries = 2
  SweepInterval = 3
INVARIANTS ListExact IndexExact 
PROPERTIES EvictsLeastRecent KeepsContract
SYMMETRY Symmetry
