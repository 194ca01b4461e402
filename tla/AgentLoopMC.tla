----------------------------- MODULE AgentLoopMC -----------------------------
(* Small instances of AgentLoop for TLC.                                    *)
EXTENDS AgentConversation, TLC

\* User messages are interchangeable, and so are the calls of one kind.
Symmetry == Permutations(Users) \cup Permutations(FgCalls) \cup Permutations(BgCalls)
=============================================================================
