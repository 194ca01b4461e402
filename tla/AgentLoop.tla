------------------------------ MODULE AgentLoop ------------------------------
(***************************************************************************)
(* The agent (packages/agent/agent) and the loop it drives                 *)
(* (packages/agent/loop): one run at a time, prompted by the user, which   *)
(* streams an assistant response, executes the tool calls of the response, *)
(* injects the messages that were queued meanwhile and the results of      *)
(* detached background tools, and goes on until nothing is left to do.     *)
(*                                                                         *)
(* Everything runs on one asyncio loop.  An action is the code between two *)
(* points at which the loop may be suspended: the emission of an event     *)
(* (listeners are awaited), the provider stream, a hook, a tool, or the    *)
(* wait for a background task.  Agent.steer, follow_up, abort and          *)
(* clear_all_queues may be called, and background tasks may end, at every  *)
(* such point.                                                             *)
(***************************************************************************)
EXTENDS Naturals, Sequences, SequencesExt

CONSTANTS
    Users,            \* user messages; each is prompted or queued at most once
    FgCalls,          \* tool calls whose tool is awaited
    BgCalls,          \* tool calls whose tool has `background` set
    SequentialCalls,  \* calls whose tool has execution_mode "sequential"
    Rows,             \* rows a session appends to the transcript between runs
    MaxBatch,         \* bound: tool calls in one assistant message
    SteeringMode, FollowUpMode,   \* QueueMode of the two queues
    ToolExecution,    \* AgentLoopConfig.tool_execution
    None

Calls == FgCalls \cup BgCalls
QueueModes == {"all", "one-at-a-time"}

ASSUME CallsAssumption ==
    /\ FgCalls \cap BgCalls = {}
    /\ SequentialCalls \subseteq FgCalls
    /\ Users \cap Calls = {}
ASSUME ModesAssumption ==
    /\ SteeringMode \in QueueModes /\ FollowUpMode \in QueueModes
    /\ ToolExecution \in {"parallel", "sequential"}
    /\ MaxBatch \in Nat

VARIABLES
    \* Agent
    messages,     \* state.messages: the transcript, reduced from the events
    steerQ,       \* _steering_queue
    followQ,      \* _follow_up_queue
    pendingCalls, \* state.pending_tool_calls
    aborted,      \* the abort signal of the active run
    \* AgentLoop: the run's program counter and locals
    pc, context, pending, skipPoll, hasMore, batch, call,
    \* _BackgroundTaskManager
    bg,           \* what became of each background call
    results,      \* _results: finished, not drained
    waiter,       \* _waiter
    \* history
    prompted, steered, followed, discarded

agentVars   == <<messages, steerQ, followQ, pendingCalls, aborted>>
loopVars    == <<pc, context, pending, skipPoll, hasMore, batch, call>>
bgVars      == <<bg, results, waiter>>
historyVars == <<prompted, steered, followed, discarded>>
vars        == <<agentVars, loopVars, bgVars, historyVars>>

-----------------------------------------------------------------------------
(* Messages.  A message is told apart by its role and by whose it is; an    *)
(* assistant message also by the tool calls it makes.                       *)
UserMsg(u)    == [role |-> "user",       id |-> u,    calls |-> <<>>]
Result(c)     == [role |-> "toolResult", id |-> c,    calls |-> <<>>]
Background(c) == [role |-> "background", id |-> c,    calls |-> <<>>]
Row(r)        == [role |-> "row",        id |-> r,    calls |-> <<>>]
Response(s)   == [role |-> "assistant",  id |-> None, calls |-> s]
\* An assistant message whose stop_reason is "error" or "aborted".
Failure       == [role |-> "failure",    id |-> None, calls |-> <<>>]

Roles   == {"user", "toolResult", "background", "row", "assistant", "failure"}
Message == [role : Roles, id : Users \cup Calls \cup Rows \cup {None},
            calls : Seq(Calls)]
UserMsgs(s)    == [i \in DOMAIN s |-> UserMsg(s[i])]
Backgrounds(s) == [i \in DOMAIN s |-> Background(s[i])]
Results(s)     == [i \in DOMAIN s |-> Result(s[i])]

\* PendingMessageQueue.drain: what it returns and what it leaves.
Drained(q, mode) == IF mode = "all" \/ q = <<>> THEN q ELSE <<Head(q)>>
KeptAlways(q, mode) == IF q = <<>> THEN <<>> ELSE Tail(q)  \* mutant: mode ignored
Kept(q, mode)    == IF mode = "all" \/ q = <<>> THEN <<>> ELSE Tail(q)

Fresh == Users \ (prompted \cup ToSet(steered) \cup ToSet(followed))

-----------------------------------------------------------------------------
(* The batch of tool calls being executed.                                  *)
Batch      == ToSet(batch)
Foreground == Batch \cap FgCalls
Parallel   == ToolExecution = "parallel" /\ Foreground \cap SequentialCalls = {}

\* Background calls are dispatched first, then the foreground calls start; each
\* partition keeps the order of the assistant message.
Earlier(c, d, calls) ==
    IF c \in BgCalls <=> d \in BgCalls
    THEN \E i, j \in DOMAIN calls : i < j /\ calls[i] = c /\ calls[j] = d
    ELSE c \in BgCalls
Before(c, d) == Earlier(c, d, batch)

\* The code has gone past c to the next call: a foreground call of a parallel
\* batch is only prepared on the way, every other call is answered.
Passed(c) ==
    \/ call[c] = "answered"
    \/ c \in FgCalls /\ Parallel /\ call[c] \in {"prepared", "finalized"}

NoneInFlight == {}     \* mutant: pending_count() left out of the loop's test
InFlight == {c \in BgCalls : bg[c] \in {"running", "resulted"}}

-----------------------------------------------------------------------------
Init ==
    /\ messages = <<>> /\ steerQ = <<>> /\ followQ = <<>>
    /\ pendingCalls = {} /\ aborted = FALSE
    /\ pc = "idle" /\ context = <<>> /\ pending = <<>> /\ skipPoll = FALSE
    /\ hasMore = FALSE /\ batch = <<>> /\ call = [c \in Calls |-> "new"]
    /\ bg = [c \in BgCalls |-> "none"] /\ results = <<>> /\ waiter = "none"
    /\ prompted = {} /\ steered = <<>> /\ followed = <<>> /\ discarded = {}

(* Starting a run.  The loop works on a copy of the transcript extended     *)
(* with the prompts; the transcript itself grows by the emitted events.     *)
StartRun(prompts, skip) ==
    /\ context' = messages \o prompts
    /\ pc' = "prompts"
    /\ skipPoll' = skip
    /\ UNCHANGED <<messages, pendingCalls, aborted, pending, hasMore, batch,
                   call, bgVars>>

\* Agent.prompt; a call while a run is active raises and changes nothing.
Prompt(u) ==
    /\ pc = "idle" /\ u \in Fresh
    /\ prompted' = prompted \cup {u}
    /\ StartRun(<<UserMsg(u)>>, FALSE)
    /\ UNCHANGED <<steerQ, followQ, steered, followed, discarded>>

\* Agent.continue_conversation.  After an assistant message it needs a queued
\* message to continue with: steering first, and then the first poll of the run
\* is skipped, so that "one-at-a-time" stays one at a time.
ContinueRun ==
    /\ pc = "idle" /\ messages # <<>>
    /\ IF Last(messages).role \notin {"assistant", "failure"}
       THEN StartRun(<<>>, FALSE) /\ UNCHANGED <<steerQ, followQ>>
       ELSE \/ /\ steerQ # <<>>
               /\ StartRun(UserMsgs(Drained(steerQ, SteeringMode)), TRUE)
               /\ steerQ' = Kept(steerQ, SteeringMode)
               /\ UNCHANGED followQ
            \/ /\ steerQ = <<>> /\ followQ # <<>>
               /\ StartRun(UserMsgs(Drained(followQ, FollowUpMode)), FALSE)
               /\ followQ' = Kept(followQ, FollowUpMode)
               /\ UNCHANGED steerQ
    /\ UNCHANGED historyVars

-----------------------------------------------------------------------------
(* Calls other tasks make at any time.                                      *)
SteerAtFront(u) ==     \* mutant: enqueue at the wrong end
    /\ u \in Fresh
    /\ steerQ' = <<u>> \o steerQ
    /\ steered' = Append(steered, u)
    /\ UNCHANGED <<messages, followQ, pendingCalls, aborted, loopVars, bgVars,
                   prompted, followed, discarded>>
Steer(u) ==
    /\ u \in Fresh
    /\ steerQ' = Append(steerQ, u)
    /\ steered' = Append(steered, u)
    /\ UNCHANGED <<messages, followQ, pendingCalls, aborted, loopVars, bgVars,
                   prompted, followed, discarded>>

FollowUp(u) ==
    /\ u \in Fresh
    /\ followQ' = Append(followQ, u)
    /\ followed' = Append(followed, u)
    /\ UNCHANGED <<messages, steerQ, pendingCalls, aborted, loopVars, bgVars,
                   prompted, steered, discarded>>

ClearQueues ==
    /\ steerQ # <<>> \/ followQ # <<>>
    /\ steerQ' = <<>> /\ followQ' = <<>>
    /\ discarded' = discarded \cup ToSet(steerQ) \cup ToSet(followQ)
    /\ UNCHANGED <<messages, pendingCalls, aborted, loopVars, bgVars,
                   prompted, steered, followed>>

Abort ==
    /\ pc # "idle" /\ ~aborted
    /\ aborted' = TRUE
    /\ UNCHANGED <<messages, steerQ, followQ, pendingCalls, loopVars, bgVars,
                   historyVars>>

-----------------------------------------------------------------------------
(* AgentLoop.run: the prompts' events; then the first collection.           *)
EmitPrompt ==
    /\ pc = "prompts" /\ Len(messages) < Len(context)
    /\ messages' = Append(messages, context[Len(messages) + 1])
    /\ UNCHANGED <<steerQ, followQ, pendingCalls, aborted, loopVars, bgVars,
                   historyVars>>

(* _collect_pending_messages and the tests of the two while loops, which    *)
(* follow it without a suspension point: finished background results first, *)
(* then steering; with nothing to do the loop waits for a background task   *)
(* in flight, else asks for follow-ups, else ends.                          *)
PollWithTools == ~skipPoll /\ hasMore   \* mutant: only between tool calls
Poll == ~skipPoll
CollectThen(more) ==
    LET polled == IF Poll THEN Drained(steerQ, SteeringMode) ELSE <<>>
        got == Backgrounds(results) \o UserMsgs(polled)
        followUps == UserMsgs(Drained(followQ, FollowUpMode))
        busy == more \/ got # <<>>
    IN
    /\ skipPoll' = FALSE
    /\ steerQ' = IF Poll THEN Kept(steerQ, SteeringMode) ELSE steerQ
    /\ results' = <<>>
    /\ \/ /\ busy
          /\ pending' = got
          /\ pc' = IF got = <<>> THEN "stream" ELSE "inject"
          /\ waiter' = "none" /\ UNCHANGED followQ
       \/ /\ ~busy /\ InFlight # {}
          /\ pending' = <<>> /\ pc' = "wait"
          /\ waiter' = "waiting" /\ UNCHANGED followQ
       \/ /\ ~busy /\ InFlight = {}
          /\ pending' = followUps
          /\ followQ' = Kept(followQ, FollowUpMode)
          /\ pc' = IF followUps = <<>> THEN "agentEnd" ELSE "inject"
          /\ waiter' = "none"
    /\ UNCHANGED <<messages, pendingCalls, aborted, context, hasMore, batch,
                   call, bg, historyVars>>

FirstCollect == pc = "prompts" /\ Len(messages) = Len(context) /\ CollectThen(TRUE)
EndTurn      == pc = "turnEnd" /\ CollectThen(hasMore)
Woken        == pc = "wait" /\ waiter = "woken" /\ CollectThen(FALSE)

\* One queued message: its events, then the loop's own copy.
InjectUnseen ==        \* mutant: the loop's own copy is forgotten
    /\ pc = "inject" /\ pending # <<>>
    /\ messages' = Append(messages, Head(pending))
    /\ pending' = Tail(pending)
    /\ pc' = IF Tail(pending) = <<>> THEN "stream" ELSE "inject"
    /\ UNCHANGED <<steerQ, followQ, pendingCalls, aborted, context, skipPoll,
                   hasMore, batch, call, bgVars, historyVars>>
Inject ==
    /\ pc = "inject" /\ pending # <<>>
    /\ messages' = Append(messages, Head(pending))
    /\ context' = Append(context, Head(pending))
    /\ pending' = Tail(pending)
    /\ pc' = IF Tail(pending) = <<>> THEN "stream" ELSE "inject"
    /\ UNCHANGED <<steerQ, followQ, pendingCalls, aborted, skipPoll, hasMore,
                   batch, call, bgVars, historyVars>>

(* _stream_assistant_response.  A provider looks at the signal before it    *)
(* lets a response complete.                                                *)
StreamDone(calls) ==
    /\ pc = "stream" /\ ~aborted
    /\ \A i \in DOMAIN calls : call[calls[i]] = "new"
    /\ messages' = Append(messages, Response(calls))
    /\ context' = Append(context, Response(calls))
    /\ batch' = calls
    /\ call' = [c \in Calls |-> IF c \in ToSet(calls) THEN "queued" ELSE call[c]]
    \* a batch terminates the loop when it has foreground results and all ask for it
    /\ hasMore' = (calls # <<>> /\ ToSet(calls) \cap FgCalls = {})
    /\ pc' = IF calls = <<>> THEN "turnEnd" ELSE "tools"
    /\ UNCHANGED <<steerQ, followQ, pendingCalls, aborted, pending, skipPoll,
                   bgVars, historyVars>>

\* stop_reason "error" or "aborted": turn_end and agent_end follow at once, and
\* whatever is queued or in flight stays where it is.
StreamStops ==
    /\ pc = "stream"
    /\ messages' = Append(messages, Failure)
    /\ context' = Append(context, Failure)
    /\ pc' = "stopped"
    /\ UNCHANGED <<steerQ, followQ, pendingCalls, aborted, pending, skipPoll,
                   hasMore, batch, call, bgVars, historyVars>>

-----------------------------------------------------------------------------
(* Tool execution.                                                          *)
\* tool_execution_start, then the preparation suspends in before_tool_call.
StartCall(c) ==
    /\ pc = "tools" /\ call[c] = "queued"
    /\ \A d \in Batch : Before(d, c) => Passed(d)
    /\ call' = [call EXCEPT ![c] = "started"]
    /\ pendingCalls' = pendingCalls \cup {c}
    /\ UNCHANGED <<messages, steerQ, followQ, aborted, pc, context, pending,
                   skipPoll, hasMore, batch, bgVars, historyVars>>

\* tool_execution_end; with the result's own events unless the call is one of a
\* parallel batch, whose results are emitted after the last call has ended.
EndCallShown(c, more) == \* mutant: a late call stays in pending_tool_calls
    LET late == c \in FgCalls /\ Parallel IN
    /\ call' = [call EXCEPT ![c] = IF late THEN "finalized" ELSE "answered"]
    /\ messages' = IF late THEN messages ELSE Append(messages, Result(c))
    /\ pendingCalls' = IF late THEN pendingCalls ELSE pendingCalls \ {c}
    /\ hasMore' = more
    /\ UNCHANGED <<steerQ, followQ, aborted, pc, context, pending, skipPoll,
                   batch, results, waiter, historyVars>>
EndCall(c, more) ==
    LET late == c \in FgCalls /\ Parallel IN
    /\ call' = [call EXCEPT ![c] = IF late THEN "finalized" ELSE "answered"]
    /\ messages' = IF late THEN messages ELSE Append(messages, Result(c))
    /\ pendingCalls' = pendingCalls \ {c}
    /\ hasMore' = more
    /\ UNCHANGED <<steerQ, followQ, aborted, pc, context, pending, skipPoll,
                   batch, results, waiter, historyVars>>

\* Unknown tool, invalid arguments, or vetoed: an error result at once.  An
\* error result never asks to terminate.
RejectCall(c) ==
    /\ pc = "tools" /\ call[c] = "started"
    /\ EndCall(c, IF c \in FgCalls THEN TRUE ELSE hasMore)
    /\ UNCHANGED bg

DetachSilently(c) ==   \* mutant: spawned without a placeholder
    /\ pc = "tools" /\ call[c] = "started" /\ c \in BgCalls
    /\ call' = [call EXCEPT ![c] = "answered"]
    /\ pendingCalls' = pendingCalls \ {c}
    /\ bg' = [bg EXCEPT ![c] = "running"]
    /\ UNCHANGED <<messages, steerQ, followQ, aborted, pc, context, pending,
                   skipPoll, hasMore, batch, results, waiter, historyVars>>
\* A prepared background call: answered by its placeholder, then spawned.
DetachCall(c) ==
    /\ pc = "tools" /\ call[c] = "started" /\ c \in BgCalls
    /\ EndCall(c, hasMore)
    /\ bg' = [bg EXCEPT ![c] = "running"]

PrepareCall(c) ==
    /\ pc = "tools" /\ call[c] = "started" /\ c \in FgCalls
    /\ call' = [call EXCEPT ![c] = "prepared"]
    /\ UNCHANGED <<agentVars, pc, context, pending, skipPoll, hasMore, batch,
                   bgVars, historyVars>>

\* The tool has returned or raised and after_tool_call has had its say.  The
\* coroutines of a parallel batch run once gather has them all.
FinishCall(c) ==
    /\ pc = "tools" /\ call[c] = "prepared"
    /\ Parallel => \A d \in Foreground : call[d] \in {"prepared", "finalized"}
    /\ \E terminate \in BOOLEAN : EndCall(c, hasMore \/ ~terminate)
    /\ UNCHANGED bg

\* A result of a parallel batch, in the order of the assistant message.
AnswerCall(c) ==
    /\ pc = "tools" /\ call[c] = "finalized"
    /\ \A d \in Foreground : /\ call[d] \in {"finalized", "answered"}
                             /\ Before(d, c) => call[d] = "answered"
    /\ call' = [call EXCEPT ![c] = "answered"]
    /\ messages' = Append(messages, Result(c))
    /\ UNCHANGED <<steerQ, followQ, pendingCalls, aborted, pc, context, pending,
                   skipPoll, hasMore, batch, bgVars, historyVars>>

\* _order_tool_results_by_source: the loop's own copy of the results.
EndBatchEarly ==       \* mutant: the results of a parallel batch are not emitted
    /\ pc = "tools" /\ \A c \in Batch : call[c] \in {"finalized", "answered"}
    /\ context' = context \o Results(batch)
    /\ batch' = <<>>
    /\ pc' = "turnEnd"
    /\ UNCHANGED <<agentVars, pending, skipPoll, hasMore, call, bgVars, historyVars>>
EndBatch ==
    /\ pc = "tools" /\ \A c \in Batch : call[c] = "answered"
    /\ context' = context \o Results(batch)
    /\ batch' = <<>>
    /\ pc' = "turnEnd"
    /\ UNCHANGED <<agentVars, pending, skipPoll, hasMore, call, bgVars, historyVars>>

-----------------------------------------------------------------------------
(* Background tasks.  A result is appended when the coroutine ends; the     *)
(* done callback that takes the task out of _inflight runs later.           *)
TaskEndsEmpty(c) ==    \* mutant: the message of the result is missing
    /\ pc # "idle" /\ bg[c] = "running"
    /\ bg' = [bg EXCEPT ![c] = "resulted"]
    /\ results' = Append(results, None)
    /\ UNCHANGED <<agentVars, loopVars, waiter, historyVars>>
TaskEnds(c) ==
    /\ pc # "idle" /\ bg[c] = "running"
    /\ bg' = [bg EXCEPT ![c] = "resulted"]
    /\ results' = Append(results, c)
    /\ UNCHANGED <<agentVars, loopVars, waiter, historyVars>>

TaskSettlesQuietly(c) == \* mutant: the waiter is not resolved
    /\ pc # "idle" /\ bg[c] = "resulted"
    /\ bg' = [bg EXCEPT ![c] = "settled"]
    /\ UNCHANGED <<agentVars, loopVars, results, waiter, historyVars>>
TaskSettles(c) ==
    /\ pc # "idle" /\ bg[c] = "resulted"
    /\ bg' = [bg EXCEPT ![c] = "settled"]
    /\ waiter' = IF waiter = "waiting" THEN "woken" ELSE waiter
    /\ UNCHANGED <<agentVars, loopVars, results, historyVars>>

-----------------------------------------------------------------------------
(* The end of a run.                                                        *)
\* A listener, a hook outside the tools' try, or the stream function raised:
\* _handle_run_failure emits a failure message in the run's place, unless a
\* listener raises at its message_start too.
RunFails ==
    /\ pc \notin {"idle", "failed"}
    /\ \/ messages' = Append(messages, Failure)
       \/ UNCHANGED messages
    /\ discarded' = discarded \cup {u \in Users :
            \/ UserMsg(u) \in ToSet(pending)
            \/ UserMsg(u) \in ToSet(context) /\ UserMsg(u) \notin ToSet(messages)}
    /\ pending' = <<>> /\ batch' = <<>>
    /\ call' = [c \in Calls |-> IF c \in Batch /\ call[c] # "answered"
                                THEN "dropped" ELSE call[c]]
    /\ pc' = "failed"
    /\ UNCHANGED <<steerQ, followQ, pendingCalls, aborted, context, skipPoll,
                   hasMore, bgVars, prompted, steered, followed>>

\* _finish_run.  The background manager was the run's: nobody reads it again, so
\* a call not reported by now never will be.
FinishRun ==
    /\ pc \in {"agentEnd", "stopped", "failed"}
    /\ pc' = "idle"
    /\ aborted' = FALSE /\ pendingCalls' = {}
    /\ context' = <<>> /\ skipPoll' = FALSE /\ hasMore' = FALSE
    /\ bg' = [c \in BgCalls |->
                 CASE bg[c] = "none" -> "none"
                   [] Background(c) \in ToSet(messages) -> "settled"
                   [] OTHER -> "abandoned"]
    /\ results' = <<>> /\ waiter' = "none"
    /\ UNCHANGED <<messages, steerQ, followQ, pending, batch, call, historyVars>>

-----------------------------------------------------------------------------
Batches == {s \in SeqOf(Calls, MaxBatch) : IsInjective(s)}

CallStep(c) == \/ StartCall(c) \/ RejectCall(c) \/ DetachCall(c)
               \/ PrepareCall(c) \/ FinishCall(c) \/ AnswerCall(c)

\* Steps of the run itself; a response and a tool come to an end, see Fairness.
RunStep == \/ EmitPrompt \/ FirstCollect \/ EndTurn \/ Woken \/ Inject
           \/ StreamStops \/ (\E s \in Batches : StreamDone(s))
           \/ (\E c \in Calls : CallStep(c)) \/ EndBatch
           \/ FinishRun

TaskStep == \E c \in BgCalls : TaskEnds(c) \/ TaskSettles(c)

Callers == \/ \E u \in Users : Prompt(u) \/ Steer(u) \/ FollowUp(u)
           \/ ContinueRun \/ ClearQueues \/ Abort

Next == Callers \/ RunStep \/ TaskStep \/ RunFails

Spec == Init /\ [][Next]_vars

Fairness == /\ WF_vars(RunStep)
            /\ \A c \in BgCalls : WF_vars(TaskEnds(c)) /\ WF_vars(TaskSettles(c))

FairSpec == Spec /\ Fairness

-----------------------------------------------------------------------------
(* Properties                                                               *)
States == {"new", "queued", "started", "prepared", "finalized", "answered", "dropped"}

TypeOK ==
    /\ messages \in Seq(Message) /\ context \in Seq(Message) /\ pending \in Seq(Message)
    /\ steerQ \in Seq(Users) /\ followQ \in Seq(Users)
    /\ pendingCalls \subseteq Calls
    /\ aborted \in BOOLEAN /\ skipPoll \in BOOLEAN /\ hasMore \in BOOLEAN
    /\ pc \in {"idle", "prompts", "inject", "stream", "tools", "turnEnd", "wait",
               "agentEnd", "stopped", "failed"}
    /\ batch \in Seq(Calls)
    /\ call \in [Calls -> States]
    /\ bg \in [BgCalls -> {"none", "running", "resulted", "settled", "abandoned"}]
    /\ results \in Seq(BgCalls)
    /\ waiter \in {"none", "waiting", "woken"}
    /\ prompted \subseteq Users /\ discarded \subseteq Users
    /\ steered \in Seq(Users) /\ followed \in Seq(Users)

Occurrences(m, s) == Cardinality({i \in DOMAIN s : s[i] = m})

\* At every request an assistant message that calls tools is followed at once by
\* one result for each call, whatever mixture of detached, rejected, parallel and
\* sequential calls it made: in the transcript those of background tools first, as
\* they were emitted; in the loop's copy in that order or, for the batches of this
\* run, in the order of the calls.  A batch cut short by a failed run is exempt.
Complete(m) == m.role = "assistant" /\ \A c \in ToSet(m.calls) : call[c] = "answered"
AnswersEmitted(s, i) ==
    LET calls == s[i].calls  next == (i + 1)..(i + Len(s[i].calls)) IN
    /\ i + Len(calls) <= Len(s)
    /\ {s[k] : k \in next} = {Result(c) : c \in ToSet(calls)}
    /\ \A k, l \in next : k < l => Earlier(s[k].id, s[l].id, calls)
AnswersInOrder(s, i) ==
    /\ i + Len(s[i].calls) <= Len(s)
    /\ \A k \in DOMAIN s[i].calls : s[i + k] = Result(s[i].calls[k])
EveryCallAnsweredInPlace ==
    pc = "stream" =>
        /\ \A i \in DOMAIN messages : Complete(messages[i]) => AnswersEmitted(messages, i)
        /\ \A i \in DOMAIN context : Complete(context[i]) =>
              AnswersEmitted(context, i) \/ AnswersInOrder(context, i)

\* The transcript the agent reduces from the events and the copy the loop sends
\* to the provider tell the same conversation at every request: the same message
\* at every position, tool results up to their order.
TranscriptsAgree ==
    pc = "stream" =>
        /\ Len(messages) = Len(context)
        /\ ToSet(messages) = ToSet(context)
        /\ \A i \in DOMAIN context :
              context[i].role # "toolResult" => messages[i] = context[i]

\* Between runs and at every request no call is shown as pending, and while a
\* batch executes exactly the calls that were started and have not ended are.
PendingCallsExact ==
    pc # "failed" =>
        pendingCalls = {c \in Batch : call[c] \in {"started", "prepared"}}

\* A message given to steer() or follow_up() is, at any time, in exactly one
\* place, and once: its queue, the prompts of a continuation, the messages about
\* to be injected, the transcript, or the ones given up by clear_all_queues or by
\* a run that failed.  A background result is reported at most once.
Unsent == SubSeq(context, Len(messages) + 1, Len(context))
Places(u) ==
    Occurrences(u, steerQ \o followQ)
    + Occurrences(UserMsg(u), pending \o messages)
    + (IF pc = "prompts" THEN Occurrences(UserMsg(u), Unsent) ELSE 0)
    + (IF u \in discarded THEN 1 ELSE 0)
EverythingOnce ==
    /\ \A u \in Users : u \notin Fresh => Places(u) = 1
    /\ \A c \in BgCalls :
          Occurrences(Background(c), Backgrounds(results) \o pending \o messages) <= 1

\* Steering messages enter the transcript in the order steer() got them, and so
\* do follow-ups, in either queue mode and across runs and continuations.
InOrder(s) == \A i, j \in DOMAIN s : \A k, l \in DOMAIN messages :
    (i < j /\ messages[k] = UserMsg(s[i]) /\ messages[l] = UserMsg(s[j])) => k < l
QueuesAreFifo == InOrder(steered) /\ InOrder(followed)

\* A run that ends of itself leaves no background task in flight and no finished
\* result unread: every call it detached has been reported in the transcript.
NoBackgroundResultLost ==
    pc = "agentEnd" =>
        /\ results = <<>>
        /\ \A c \in BgCalls : \/ bg[c] \in {"none", "abandoned"}
                              \/ bg[c] = "settled" /\ Background(c) \in ToSet(messages)

\* A run comes to its end, whatever is queued, detached or aborted meanwhile,
\* provided that tools and responses end: no wake-up of the wait for background
\* tasks is lost.
RunsEnd == pc # "idle" ~> pc = "idle"

\* A steering message that waits while a response streams is taken up by the same
\* run, unless the run is stopped by an error or an abort, or fails.
SteeringHeard ==
    \A u \in Users : (pc = "stream" /\ u \in ToSet(steerQ)) ~>
                       (u \notin ToSet(steerQ) \/ pc \in {"stopped", "failed"})

\* What the placeholder tells the model: "Its result will arrive as a follow-up
\* message once it finishes".  (Refuted: a run that stops or fails leaves the
\* task running and its result unread.)
PromisesAreKept == \A c \in BgCalls : bg[c] # "abandoned"
=============================================================================
