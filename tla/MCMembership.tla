---------------------------- MODULE MCMembership ----------------------------
(* Instances of Membership for TLC. *)
EXTENDS Membership, TLC

Symmetry ==
  Permutations(Leavers) \cup Permutations(Users \ Leavers) \cup Permutations(Budgets)
    \cup Permutations(Invites) \cup Permutations(Workers)

============================================================================
