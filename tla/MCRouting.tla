------------------------------ MODULE MCRouting ------------------------------
(* Two sessions, whose hosts use the same ID and the same token.           *)
EXTENDS Routing

MCFrom == [q1 |-> "s1", q2 |-> "s2"]
MCHostID == [q1 |-> 1, q2 |-> 1]
MCToken == [q1 |-> 1, q2 |-> 1]
MCKind == [e \in Era |-> [q1 |-> "call", q2 |-> IF e = "legacy" THEN "list" ELSE "listen"]]
MCMaxEvents == [e \in Era |-> IF e = "legacy" THEN 2 ELSE 3]
=============================================================================
