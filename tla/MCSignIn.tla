------------------------------ MODULE MCSignIn ------------------------------
(* Instances of SignIn for TLC.  The doors that share state are used together. *)
EXTENDS SignIn, TLC

Together == {{"web"}, {"ios", "android"}, {"web", "email"}}

Symmetry == Permutations(Requests) \cup Permutations(WebTokens)

=============================================================================
