SPECIFICATION TargetsSpec
CONSTANTS
  Targets = {t1, t2}
  SourceCategories = {c1, c2}
  Workers = {w1, w2}
  TTL = 2
INVARIANTS OldLinksReached
SYMMETRY Symmetry
