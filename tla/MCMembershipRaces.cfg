SPECIFICATION Spec
CONSTANTS
  Users = {u1, u2, u3, u4}
  Leavers = {u1, u2}
  Budgets = {b1}
  Invites = {i1, i2, i3}
  Workers = {w1, w2}
  MaxCollaborators = 1
  MaxBudgets = 2
INVARIANTS NoOrphans OneAdmission UsedMeansAdmitted OverrunBounded
SYMMETRY Symmetry
