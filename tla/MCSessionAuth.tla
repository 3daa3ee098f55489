--------------------------- MODULE MCSessionAuth ---------------------------
(* Instances of SessionAuth for TLC: every token belongs to the same user. *)
EXTENDS SessionAuth

CONSTANT TheUser

OneOwner == [t \in Tokens |-> TheUser]
OnlyUser == {TheUser}

============================================================================
