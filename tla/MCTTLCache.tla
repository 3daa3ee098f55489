----------------------------- MODULE MCTTLCache -----------------------------
(* An instance of TTLCache for TLC: one key more than the cache holds. *)
EXTENDS TTLCache, TLC

Symmetry == Permutations(Keys) \cup Permutations(Budgets) \cup Permutations(Data)

=============================================================================
