------------------------------ MODULE MCResume ------------------------------
(* Instances of Resume for TLC: two years of days, the first a leap year, and *)
(* requests where February ends.                                             *)
EXTENDS Resume, TLC

NewYear == Date(2024, 1, 1)
NewYearsEve == Date(2025, 12, 31)
DayBefore == {Date(2024, 2, 28)}

\* Four months are completed at the end of February, and no quarter.
BeforeOctober31 == Date(2023, 10, 15)

\* Around the limits of the periods that requests look at.
ExpenseDays == {Date(2023, 12, 31), Date(2024, 1, 30), Date(2024, 2, 28)}

\* Two whose periods differ, one without a completed period, and a one-time budget.
SomeConfigs == {[months |-> 1, cutoff |-> 31], [months |-> 1, cutoff |-> 29],
                [months |-> 3, cutoff |-> 31], [months |-> 0, cutoff |-> 0]}

Symmetry == Permutations(Viewers) \cup Permutations(Requests)

=============================================================================
