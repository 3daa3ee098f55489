SPECIFICATION Spec
CONSTANTS
  u1 = u1
  u2 = u2
  b1 = b1
  b2 = b2
  c3 = c3
  Users = {u1, u2}
  Budgets = {b1, b2}
  Categories = {c1, c2, c3}
  BudgetOf <- InBudgets
  Owner <- Owners
  MaxLinks = 1
  Requests = {r1, r2}
  Book = b1
  Expenses = {e1, e2, e3}
  Values = {v1, v2}
  v1 = v1
  First = v1
  MaxExpenses = 1
  Imports = {3}
  Uses <- Apart
INVARIANTS CircleOnlyInRace CreatorsHaveAccess LimitsOverrunBounded NoLostUpdate
SYMMETRY Symmetry
