--------------------------- MODULE AgentSessionMC ---------------------------
(* Small instances of AgentSession for TLC: every message has its own text. *)
EXTENDS AgentSession

OwnText == [u \in Users |-> u]

\* Calls of one kind are interchangeable, and so are the shell commands.
Symmetry == Permutations(Users) \cup Permutations(FgCalls) \cup Permutations(Rows)
=============================================================================
