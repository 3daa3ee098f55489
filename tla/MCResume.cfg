SPECIFICATION Spec
CONSTANTS
  Viewers = {u1}
  Requests = {r1, r2}
  Endpoints = {"resume", "dashboard"}
  Cutoffs = {0, 1, 15, 28, 29, 30, 31}
  Months = {0, 1, 3, 6, 12}
  Created <- BeforeOctober31
  Expenses <- ExpenseDays
  FirstDay <- NewYear
  LastDay <- NewYearsEve
  AskDays <- DayBefore
  AskConfigs <- SomeConfigs
INVARIANTS ResumeExact
PROPERTIES DayInLastMonth SqlMirrorsGo PeriodsTile
CHECK_DEADLOCK FALSE
SYMMETRY Symmetry
