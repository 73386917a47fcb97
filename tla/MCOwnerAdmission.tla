--------------------------- MODULE MCOwnerAdmission ---------------------------
(* One owner, distinct session IDs in the order of connection.               *)
EXTENDS OwnerAdmission, TLC

CONSTANTS s1, s2

MCSessionID == (s1 :> 1) @@ (s2 :> 2)
Symmetry == Permutations(Token)
=============================================================================
