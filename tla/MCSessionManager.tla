--------------------------- MODULE MCSessionManager ---------------------------
(* Small instances of SessionManager. s1 and s3 share an ID, so that        *)
(* RegisterSession may overwrite a session.                                 *)
EXTENDS SessionManager, TLC

CONSTANTS s1, s2, s3

Symmetry == Permutations(Token) \cup Permutations(Request) \cup Permutations(Refresher)
MCSessionID == (s1 :> 1) @@ (s2 :> 2) @@ (s3 :> 1)
=============================================================================
