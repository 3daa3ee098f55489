------------------------------ MODULE MCLedger ------------------------------
(* Two budgets of two owners, who may join each other's; two categories in one *)
(* budget and one in the other.                                                *)
EXTENDS Ledger, TLC

CONSTANTS u1, u2, b1, b2, c3, v1

InBudgets == [c \in Categories |-> IF c = c3 THEN b2 ELSE b1]
Owners == [b \in Budgets |-> IF b = b1 THEN u1 ELSE u2]

Apart == {{"links"}, {"expenses", "updates"}, {"expenses", "imports"}}

Symmetry == Permutations(Requests) \cup Permutations(Categories \ {c3}) \cup Permutations(Expenses)

=============================================================================
