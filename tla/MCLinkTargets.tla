--------------------------- MODULE MCLinkTargets ---------------------------
(* Instances of LinkTargets for TLC. *)
EXTENDS LinkTargets, TLC

Symmetry == Permutations(Targets) \cup Permutations(SourceCategories) \cup Permutations(Workers)

============================================================================
