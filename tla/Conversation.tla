----------------------------- MODULE Conversation -----------------------------
(***************************************************************************)
(* What the agent promises of its transcript, whatever queues, batches and *)
(* background tasks it keeps: a conversation grows by one message at a     *)
(* time and only while a run is active; the model speaks only when nothing *)
(* it called is unanswered, and nothing comes between a call and its       *)
(* answer; what a user says is heard once, or given up; a background tool  *)
(* reports once, after its call was answered; a run that fails gives up    *)
(* the calls it owed and what it was about to say.  AgentConversation      *)
(* shows that the agent and its loop implement it.                         *)
(***************************************************************************)
EXTENDS SequencesExt

CONSTANTS
    Users, Calls,
    Batches,      \* the calls a response may make, in their order
    None

VARIABLES
    transcript,   \* the messages so far
    waiting,      \* users whose message was accepted and is not heard yet
    owed,         \* calls without their answer
    active        \* a run is under way

conversationVars == <<transcript, waiting, owed, active>>

Said(role, who) == [role |-> role, id |-> who, calls |-> <<>>]
Spoken(m) == m \in ToSet(transcript)
Speak(m) == active /\ transcript' = Append(transcript, m)

ConversationInit == transcript = <<>> /\ waiting = {} /\ owed = {} /\ active = FALSE

\* A user's message is accepted, alone or with the run it begins.
Accept(u) ==
    /\ u \notin waiting /\ ~Spoken(Said("user", u))
    /\ waiting' = waiting \cup {u}
    /\ active' \in {active, TRUE}
    /\ UNCHANGED <<transcript, owed>>

Begin == ~active /\ active' = TRUE /\ UNCHANGED <<transcript, waiting, owed>>
End == active /\ owed = {} /\ active' = FALSE /\ UNCHANGED <<transcript, waiting, owed>>

GiveUp == waiting' \in SUBSET waiting /\ UNCHANGED <<transcript, owed, active>>

Hear(u) ==
    /\ u \in waiting /\ owed = {}
    /\ Speak(Said("user", u))
    /\ waiting' = waiting \ {u}
    /\ UNCHANGED <<owed, active>>

Respond(s) ==
    /\ owed = {}
    /\ Speak([role |-> "assistant", id |-> None, calls |-> s])
    /\ owed' = ToSet(s)
    /\ UNCHANGED <<waiting, active>>

Answer(c) ==
    /\ c \in owed
    /\ Speak(Said("toolResult", c))
    /\ owed' = owed \ {c}
    /\ UNCHANGED <<waiting, active>>

Report(c) ==
    /\ owed = {}
    /\ Spoken(Said("toolResult", c)) /\ ~Spoken(Said("background", c))
    /\ Speak(Said("background", c))
    /\ UNCHANGED <<waiting, owed, active>>

\* The provider gives up, or the run does, with or without a word of it.
Fail ==
    /\ active
    /\ \/ Speak(Said("failure", None))
       \/ UNCHANGED transcript
    /\ owed' = {} /\ waiting' \in SUBSET waiting
    /\ UNCHANGED active

ConversationNext ==
    \/ \E u \in Users : Accept(u) \/ Hear(u)
    \/ Begin \/ End \/ GiveUp \/ Fail
    \/ \E s \in Batches : Respond(s)
    \/ \E c \in Calls : Answer(c) \/ Report(c)

ConversationSpec == ConversationInit /\ [][ConversationNext]_conversationVars
=============================================================================
