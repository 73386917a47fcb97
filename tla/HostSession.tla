----------------------------- MODULE HostSession -----------------------------
(***************************************************************************)
(* What the engine supervisor promises the MCP host, whatever happens to   *)
(* the engines behind it: a request is settled exactly once, by one answer *)
(* or because the host withdrew it, until the session ends.                *)
(***************************************************************************)
EXTENDS Naturals

CONSTANT Id   \* the request identifiers of the host

VARIABLES
  outstanding,  \* requests read from the host and not settled
  withdrawn,    \* requests the host has sent a cancellation for
  answers,      \* how many answers each identifier got
  ended         \* the session is over

hostSessionVars == <<outstanding, withdrawn, answers, ended>>

HSInit ==
  /\ outstanding = {}
  /\ withdrawn = {}
  /\ answers = [i \in Id |-> 0]
  /\ ended = FALSE

Ask(i) ==
  /\ i \notin outstanding \cup withdrawn
  /\ ~ended
  /\ outstanding' = outstanding \cup {i}
  /\ UNCHANGED <<withdrawn, answers, ended>>

Withdraw(i) ==
  /\ ~ended
  /\ withdrawn' = withdrawn \cup {i}
  /\ UNCHANGED <<outstanding, answers, ended>>

\* A is answered and W, withdrawn before, is dropped without an answer.  An
\* answer that was under way when its request was withdrawn (L) may still come.
Settle(A, W, L) ==
  /\ ~ended
  /\ A \subseteq outstanding
  /\ W \subseteq outstanding \cap withdrawn
  /\ L \subseteq withdrawn
  /\ ended' \in BOOLEAN
  /\ outstanding' = IF ended' THEN {} ELSE outstanding \ (A \cup W)
  /\ answers' = [i \in Id |-> answers[i] + IF i \in A \cup L THEN 1 ELSE 0]
  /\ UNCHANGED withdrawn

HSNext ==
  \/ \E i \in Id : Ask(i) \/ Withdraw(i)
  \/ \E A, W, L \in SUBSET Id : Settle(A, W, L)

HSSpec == HSInit /\ [][HSNext]_hostSessionVars
=============================================================================
