---------------------------- MODULE MCAllocation ----------------------------
(* Instances of Allocation for TLC: a guided template of two categories. *)
EXTENDS Allocation, TLC

CONSTANTS c1, c2, g1, g2

TwoGuided == <<[cat |-> g1, permille |-> 500], [cat |-> g2, permille |-> 500]>>

\* Migrate imports a budget whose one category is within or above the income.
OneImported == {[c \in {c1} |-> v] : v \in {1, 4}}

Symmetry == Permutations(Writers)

============================================================================
