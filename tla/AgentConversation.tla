--------------------------- MODULE AgentConversation ---------------------------
(***************************************************************************)
(* The agent and its loop implement a Conversation.                        *)
(***************************************************************************)
EXTENDS AgentLoop

\* Accepted and not heard: queued, about to be injected, or a prompt whose events are to
\* come.
WaitingUsers ==
    ToSet(steerQ) \cup ToSet(followQ) \cup
    {u \in Users : \/ UserMsg(u) \in ToSet(pending)
                   \/ pc = "prompts" /\ UserMsg(u) \in ToSet(Unsent)}

Owed == {c \in Batch : call[c] # "answered"}

Promised == INSTANCE Conversation WITH
    transcript <- messages, waiting <- WaitingUsers, owed <- Owed, active <- pc # "idle"

\* However prompts, the two queues, parallel and detached tools, aborts and failures
\* interleave, the transcript that the agent reduces from the events is a conversation:
\* each step of agent and loop is a step of Conversation or none.
ImplementsConversation == Promised!ConversationSpec
=============================================================================
