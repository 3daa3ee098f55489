SPECIFICATION AllocSpec
CONSTANTS
  c1 = c1
  c2 = c2
  g1 = g1
  g2 = g2
  Writers = {w1, w2, w3}
  Categories = {c1, c2}
  Template <- TwoGuided
  MaxCategories = 2
  Incomes = {1, 3}
  NewValues = {1, 2}
  EditValues = {0, 3}
  Imports <- OneImported
  Guided = {TRUE, FALSE}
INVARIANTS CategoryCap
PROPERTIES ChecksHoldAtCommit
SYMMETRY Symmetry
