---------------------------- MODULE AgentSession ----------------------------
(***************************************************************************)
(* The session around the agent (packages/code/session/agent_session.py):  *)
(* it prompts the agent or queues for it, keeps the lists of queued texts  *)
(* a UI shows, listens to the agent's events, and records the shell        *)
(* commands the user runs beside the conversation.  The module extends     *)
(* AgentLoop with the session's own state; its listener runs inside the    *)
(* step of the agent that emits the event.  The transcript stands for the  *)
(* session file too: the listener appends to it what the event appended.   *)
(***************************************************************************)
EXTENDS AgentLoop

CONSTANT Text    \* [Users -> texts]: two messages may say the same

VARIABLES
    uiSteer,     \* _steering_messages: texts, for display
    uiFollow,    \* _follow_up_messages
    deferred,    \* _pending_bash_messages
    command,     \* what became of each shell command (execute_bash)
    bashCtl,     \* _bash_abort_controller: whose it is
    finished     \* history: the commands recorded, in order

uiVars      == <<uiSteer, uiFollow>>
bashVars    == <<deferred, command, bashCtl, finished>>
sessionVars == <<vars, uiVars, bashVars>>

RowMsgs(s) == [i \in DOMAIN s |-> Row(s[i])]

SessionInit ==
    /\ Init
    /\ uiSteer = <<>> /\ uiFollow = <<>>
    /\ deferred = <<>> /\ command = [r \in Rows |-> "new"]
    /\ bashCtl = None /\ finished = <<>>

-----------------------------------------------------------------------------
(* prompt(): the rows deferred during the last turn go into the transcript, *)
(* then the agent is prompted, unless there is no usable model.             *)
FlushAgain == messages' = messages \o RowMsgs(deferred) /\ UNCHANGED deferred  \* mutant
FlushRows == /\ messages' = messages \o RowMsgs(deferred)
             /\ deferred' = <<>>

SessionPrompt(u) ==
    /\ pc = "idle" /\ u \in Fresh
    /\ FlushRows
    /\ context' = messages' \o <<UserMsg(u)>>
    /\ prompted' = prompted \cup {u}
    /\ pc' = "prompts" /\ skipPoll' = FALSE
    /\ UNCHANGED <<steerQ, followQ, pendingCalls, aborted, pending, hasMore,
                   batch, call, bgVars, steered, followed, discarded>>
    /\ UNCHANGED <<uiVars, command, bashCtl, finished>>

PromptRefused ==
    /\ pc = "idle" /\ deferred # <<>>
    /\ FlushRows
    /\ UNCHANGED <<steerQ, followQ, pendingCalls, aborted, loopVars, bgVars,
                   historyVars, uiVars, command, bashCtl, finished>>

\* _queue_steer and _queue_follow_up, reached from prompt() while streaming and
\* from steer() and follow_up().
QueueSteer(u) ==
    /\ Steer(u)
    /\ uiSteer' = Append(uiSteer, Text[u])
    /\ UNCHANGED <<uiFollow, bashVars>>

QueueFollowUp(u) ==
    /\ FollowUp(u)
    /\ uiFollow' = Append(uiFollow, Text[u])
    /\ UNCHANGED <<uiSteer, bashVars>>

ClearQueue ==
    /\ uiSteer # <<>> \/ uiFollow # <<>>
    /\ \/ ClearQueues
       \/ steerQ = <<>> /\ followQ = <<>> /\ UNCHANGED vars
    /\ uiSteer' = <<>> /\ uiFollow' = <<>>
    /\ UNCHANGED bashVars

SessionAbort == Abort /\ UNCHANGED <<uiVars, bashVars>>

-----------------------------------------------------------------------------
(* _process_agent_event at the message_start of a user message: the first   *)
(* text equal to it leaves the steering list, else the follow-up list.      *)
DeliveredAll(u) == uiSteer' = <<>> /\ UNCHANGED uiFollow   \* mutant: list emptied
Delivered(u) ==
    LET t == Text[u] IN
    /\ uiSteer' = RemoveFirst(uiSteer, t)
    /\ uiFollow' = IF Contains(uiSteer, t) THEN uiFollow ELSE RemoveFirst(uiFollow, t)

Listener ==
    IF Len(messages') > Len(messages) /\ Last(messages').role = "user"
    THEN Delivered(Last(messages').id)
    ELSE UNCHANGED uiVars

AgentStep == (RunStep \/ TaskStep) /\ Listener /\ UNCHANGED bashVars

\* Where a listener of the session raised at a message_start, the text has left
\* the list although the message goes no further.
AgentFails ==
    /\ RunFails
    /\ \/ UNCHANGED uiVars
       \/ pc = "inject" /\ Head(pending).role = "user" /\ Delivered(Head(pending).id)
    /\ UNCHANGED bashVars

-----------------------------------------------------------------------------
(* execute_bash: the one controller is replaced by each new command and     *)
(* forgotten when any command ends.                                         *)
BashStart(r) ==
    /\ command[r] = "new"
    /\ command' = [command EXCEPT ![r] = "running"]
    /\ bashCtl' = r
    /\ UNCHANGED <<vars, uiVars, deferred, finished>>

\* record_bash_result: while the agent streams the row waits.
BashEnds(r) ==
    /\ command[r] = "running"
    /\ command' = [command EXCEPT ![r] = "ended"]
    /\ bashCtl' = None
    /\ finished' = Append(finished, r)
    /\ IF pc = "idle"
       THEN messages' = Append(messages, Row(r)) /\ UNCHANGED deferred
       ELSE deferred' = Append(deferred, r) /\ UNCHANGED messages
    /\ UNCHANGED <<steerQ, followQ, pendingCalls, aborted, loopVars, bgVars,
                   historyVars, uiVars>>

\* The command could not be run: nothing is recorded.
BashRaises(r) ==
    /\ command[r] = "running"
    /\ command' = [command EXCEPT ![r] = "ended"]
    /\ bashCtl' = None
    /\ UNCHANGED <<vars, uiVars, deferred, finished>>

-----------------------------------------------------------------------------
SessionNext ==
    \/ \E u \in Users : SessionPrompt(u) \/ QueueSteer(u) \/ QueueFollowUp(u)
    \/ PromptRefused \/ ClearQueue \/ SessionAbort
    \/ AgentStep \/ AgentFails
    \/ \E r \in Rows : BashStart(r) \/ BashEnds(r) \/ BashRaises(r)

SessionSpec == SessionInit /\ [][SessionNext]_sessionVars

-----------------------------------------------------------------------------
(* Properties                                                               *)
\* Each recorded command has exactly one row, in the transcript or deferred, and none
\* lies between a call and its results, whichever of the prompts, refusals and failed
\* runs came between.
RowsRecordedOnce ==
    /\ \A r \in Rows : Occurrences(Row(r), messages) + Occurrences(r, deferred)
                        = Occurrences(r, finished)
    /\ EveryCallAnsweredInPlace

\* While a response streams, the text of every message still queued is shown.
Shown(ui, q) == \A u \in ToSet(q) : Contains(ui, Text[u])
\* No list shows the text of a message that has been delivered, even when the
\* queues were cleared meanwhile or the run failed half way through injecting.
NothingDeliveredShown ==
    \A u \in Users : UserMsg(u) \in ToSet(messages) =>
        ~Contains(uiSteer, Text[u]) /\ ~Contains(uiFollow, Text[u])
\* The lists that are shown are those of the queues: what waits is on them, and what
\* has been delivered is not.
UiShowsQueues ==
    /\ pc = "stream" => Shown(uiSteer, steerQ) /\ Shown(uiFollow, followQ)
    /\ NothingDeliveredShown

\* What abort_bash and is_bash_running rely on: "Cancel the running bash command,
\* if there is one."  (Refuted: the first of two commands to end takes the
\* controller of the other with it.)
RunningBashCanBeAborted ==
    (\E r \in Rows : command[r] = "running") => bashCtl # None
=============================================================================
