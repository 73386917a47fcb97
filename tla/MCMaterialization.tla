--------------------------- MODULE MCMaterialization ---------------------------
(* Small instances of Materialization.                                     *)
EXTENDS Materialization, TLC

CONSTANTS p1, p2, s1, d1

OneSession == [d \in Request |-> s1]
Symmetry   == Permutations(Proc)
=============================================================================
