------------------------------- MODULE MCHub -------------------------------
(* Instances of Hub for TLC.  Clients, budgets and callers are model values *)
(* that nothing orders, so they may be permuted where only safety is asked. *)
EXTENDS Hub, TLC

Symmetry == Permutations(Clients) \cup Permutations(Budgets) \cup Permutations(Callers)

============================================================================
