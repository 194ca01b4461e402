-------------------------- MODULE ConversationProofs --------------------------
(***************************************************************************)
(* Proofs about AgentLoop, for every set of messages and calls, every      *)
(* queue mode and either way of executing tools; and that every message is *)
(* in one place at a time, on its way from a queue to the transcript, and  *)
(* that therefore the agent and its loop implement a Conversation.         *)
(***************************************************************************)
EXTENDS AgentConversation, SequenceTheorems, FiniteSetTheorems, TLAPS

-----------------------------------------------------------------------------
(* The type of the sequence operations, in the form the provers use.         *)
LEMMA Nil == \A S : <<>> \in Seq(S)
BY EmptySeq

LEMMA Appended ==
    ASSUME NEW S, NEW s \in Seq(S), NEW e \in S
    PROVE  /\ Append(s, e) \in Seq(S)
           /\ Len(Append(s, e)) = Len(s) + 1
           /\ Append(s, e)[Len(s) + 1] = e
           /\ \A i \in 1..Len(s) : Append(s, e)[i] = s[i]
BY AppendProperties

(* What is drained from a queue and what is kept are both queues.           *)
LEMMA DrainType ==
    ASSUME NEW q \in Seq(Users), NEW mode
    PROVE  Drained(q, mode) \in Seq(Users) /\ Kept(q, mode) \in Seq(Users)
BY DEF Drained, Kept

(* A sequence of ids makes a sequence of messages of the same length.       *)
LEMMA MessagesOf ==
    /\ \A s \in Seq(Users)   : UserMsgs(s)    \in Seq(Message)
    /\ \A s \in Seq(BgCalls) : Backgrounds(s) \in Seq(Message)
    /\ \A s \in Seq(Calls)   : Results(s)     \in Seq(Message)
<1>1. \A u \in Users : UserMsg(u) \in Message
  BY DEF UserMsg, Message, Roles
<1>2. \A c \in Calls : Background(c) \in Message /\ Result(c) \in Message
  BY DEF Background, Result, Message, Roles
<1>3. ASSUME NEW s \in Seq(Users) PROVE UserMsgs(s) \in Seq(Message)
  <2>1. DOMAIN s = 1..Len(s) /\ Len(s) \in Nat /\ \A i \in 1..Len(s) : s[i] \in Users
    OBVIOUS
  <2>. QED BY <1>1, <2>1, SeqDef DEF UserMsgs
<1>4. ASSUME NEW s \in Seq(BgCalls) PROVE Backgrounds(s) \in Seq(Message)
  <2>1. DOMAIN s = 1..Len(s) /\ Len(s) \in Nat /\ \A i \in 1..Len(s) : s[i] \in Calls
    BY DEF Calls
  <2>. QED BY <1>2, <2>1, SeqDef DEF Backgrounds
<1>5. ASSUME NEW s \in Seq(Calls) PROVE Results(s) \in Seq(Message)
  <2>1. DOMAIN s = 1..Len(s) /\ Len(s) \in Nat /\ \A i \in 1..Len(s) : s[i] \in Calls
    OBVIOUS
  <2>. QED BY <1>2, <2>1, SeqDef DEF Results
<1>. QED BY <1>3, <1>4, <1>5

(* What an assistant message may call is a sequence of calls.               *)
LEMMA BatchType == Batches \subseteq Seq(Calls)
<1>. SUFFICES ASSUME NEW s \in Batches PROVE s \in Seq(Calls)
  OBVIOUS
<1>1. PICK m \in 0..MaxBatch : s \in [1..m -> Calls]
  BY DEF Batches, SeqOf
<1>. QED BY <1>1, ModesAssumption, SeqDef

(* Messages made of calls are messages.                                     *)
LEMMA MessageTypes ==
    /\ Failure \in Message
    /\ \A s \in Seq(Calls) : Response(s) \in Message
    /\ \A c \in Calls : Result(c) \in Message
BY DEF Failure, Response, Result, Message, Roles

-----------------------------------------------------------------------------
(* Every variable keeps its type, in particular: the queues hold only user   *)
(* messages, the manager only background calls, the counter of the run only  *)
(* the places named in the code.                                             *)
LEMMA CollectType ==
    ASSUME TypeOK, NEW more \in BOOLEAN, CollectThen(more)
    PROVE  TypeOK'
<1>. DEFINE polled == IF Poll THEN Drained(steerQ, SteeringMode) ELSE <<>>
            got == Backgrounds(results) \o UserMsgs(polled)
            followUps == UserMsgs(Drained(followQ, FollowUpMode))
<1>1. polled \in Seq(Users) /\ Drained(followQ, FollowUpMode) \in Seq(Users)
  BY DrainType DEF TypeOK
<1>2. got \in Seq(Message) /\ followUps \in Seq(Message)
  <2>1. Backgrounds(results) \in Seq(Message) BY MessagesOf DEF TypeOK
  <2>2. UserMsgs(polled) \in Seq(Message) BY <1>1, MessagesOf
  <2>3. followUps \in Seq(Message) BY <1>1, MessagesOf
  <2>. QED BY <2>1, <2>2, <2>3
<1>3. steerQ' \in Seq(Users) /\ followQ' \in Seq(Users)
  <2>1. Kept(steerQ, SteeringMode) \in Seq(Users) /\ Kept(followQ, FollowUpMode) \in Seq(Users)
    BY DrainType DEF TypeOK
  <2>. QED BY <2>1 DEF CollectThen, TypeOK
<1>4. /\ pending' \in Seq(Message)
      /\ pc' \in {"stream", "inject", "wait", "agentEnd"}
      /\ waiter' \in {"none", "waiting"}
  BY <1>2 DEF CollectThen
<1>5. /\ results' = <<>> /\ skipPoll' = FALSE
      /\ UNCHANGED <<messages, pendingCalls, aborted, context, hasMore, batch,
                     call, bg, prompted, steered, followed, discarded>>
  BY DEF CollectThen, historyVars
<1>6. results' \in Seq(BgCalls) /\ skipPoll' \in BOOLEAN
  BY <1>5, Nil
<1>. QED BY <1>3, <1>4, <1>5, <1>6 DEF TypeOK

(* Each step of the agent, its loop, its tasks and its callers keeps the    *)
(* type of every variable.                                                  *)
LEMMA TypeInductive == TypeOK /\ [Next]_vars => TypeOK'
<1>. SUFFICES ASSUME TypeOK, [Next]_vars PROVE TypeOK'
  OBVIOUS
<1>. USE DEF TypeOK, agentVars, loopVars, bgVars, historyVars
<1>0. /\ \A m \in Message : /\ Append(messages, m) \in Seq(Message)
                             /\ Append(context, m) \in Seq(Message)
      /\ \A u \in Users : /\ Append(steerQ, u) \in Seq(Users)
                           /\ Append(followQ, u) \in Seq(Users)
                           /\ Append(steered, u) \in Seq(Users)
                           /\ Append(followed, u) \in Seq(Users)
      /\ \A c \in BgCalls : Append(results, c) \in Seq(BgCalls)
  BY Appended
<1>1. CASE \E u \in Users : Prompt(u)
  <2>1. PICK u \in Users : Prompt(u) BY <1>1
  <2>2. <<UserMsg(u)>> \in Seq(Message) BY DEF UserMsg, Message, Roles
  <2>3. messages \o <<UserMsg(u)>> \in Seq(Message) BY <2>2
  <2>. QED BY <2>1, <2>3 DEF Prompt, StartRun
<1>2. CASE \E u \in Users : Steer(u) \/ FollowUp(u)
  BY <1>2, <1>0 DEF Steer, FollowUp
<1>3. CASE ContinueRun
  <2>1. /\ UserMsgs(Drained(steerQ, SteeringMode)) \in Seq(Message)
        /\ UserMsgs(Drained(followQ, FollowUpMode)) \in Seq(Message)
        /\ Kept(steerQ, SteeringMode) \in Seq(Users)
        /\ Kept(followQ, FollowUpMode) \in Seq(Users)
    BY DrainType, MessagesOf
  <2>2. \E p \in Seq(Message), b \in BOOLEAN :
            StartRun(p, b) /\ steerQ' \in Seq(Users) /\ followQ' \in Seq(Users)
    <3>1. CASE Last(messages).role \notin {"assistant", "failure"}
      BY <1>3, <3>1, Nil DEF ContinueRun
    <3>2. CASE Last(messages).role \in {"assistant", "failure"}
      BY <1>3, <2>1, <3>2 DEF ContinueRun
    <3>. QED BY <3>1, <3>2
  <2>3. PICK p \in Seq(Message), b \in BOOLEAN :
            StartRun(p, b) /\ steerQ' \in Seq(Users) /\ followQ' \in Seq(Users)
    BY <2>2
  <2>4. messages \o p \in Seq(Message) OBVIOUS
  <2>5. UNCHANGED historyVars BY <1>3 DEF ContinueRun
  <2>. QED BY <2>3, <2>4, <2>5 DEF StartRun
<1>4. CASE ClearQueues \/ Abort
  <2>1. ToSet(steerQ) \subseteq Users /\ ToSet(followQ) \subseteq Users
    BY DEF ToSet
  <2>. QED BY <1>4, <2>1, Nil DEF ClearQueues, Abort
<1>5. CASE EmitPrompt
  <2>1. context[Len(messages) + 1] \in Message
    BY <1>5 DEF EmitPrompt
  <2>. QED BY <1>5, <2>1, <1>0 DEF EmitPrompt
<1>6. CASE FirstCollect \/ EndTurn \/ Woken
  BY <1>6, CollectType DEF FirstCollect, EndTurn, Woken
<1>7. CASE Inject
  <2>1. pending # <<>> /\ pc = "inject"
    BY <1>7 DEF Inject
  <2>2. Head(pending) \in Message /\ Tail(pending) \in Seq(Message)
    BY <2>1, HeadTailProperties
  <2>. QED BY <1>7, <2>2, <1>0 DEF Inject
<1>8. CASE StreamStops
  BY <1>8, <1>0, MessageTypes DEF StreamStops
<1>9. CASE \E s \in Batches : StreamDone(s)
  <2>1. PICK s \in Batches : StreamDone(s) BY <1>9
  <2>2. s \in Seq(Calls) BY BatchType
  <2>3. Response(s) \in Message BY <2>2, MessageTypes
  <2>. QED BY <2>1, <2>2, <2>3, <1>0 DEF StreamDone, States
<1>10. CASE \E c \in Calls : CallStep(c)
  <2>1. PICK c \in Calls : CallStep(c) BY <1>10
  <2>2. Result(c) \in Message BY MessageTypes
  <2>3. CASE StartCall(c) \/ PrepareCall(c) \/ AnswerCall(c)
    BY <2>2, <2>3, <1>0 DEF StartCall, PrepareCall, AnswerCall, States
  <2>4. CASE RejectCall(c) \/ FinishCall(c)
    BY <2>2, <2>4, <1>0 DEF RejectCall, FinishCall, EndCall, States
  <2>5. CASE DetachCall(c)
    BY <2>2, <2>5, <1>0 DEF DetachCall, EndCall, States
  <2>. QED BY <2>1, <2>3, <2>4, <2>5 DEF CallStep
<1>11. CASE EndBatch
  <2>1. context \o Results(batch) \in Seq(Message) BY MessagesOf
  <2>. QED BY <1>11, <2>1, Nil DEF EndBatch
<1>12. CASE FinishRun
  BY <1>12, Nil DEF FinishRun
<1>13. CASE TaskStep
  BY <1>13, <1>0 DEF TaskStep, TaskEnds, TaskSettles
<1>14. CASE RunFails
  <2>1. messages' \in Seq(Message)
    BY <1>14, <1>0, MessageTypes DEF RunFails
  <2>2. discarded' \subseteq Users
    BY <1>14 DEF RunFails
  <2>3. call' \in [Calls -> States]
    BY <1>14 DEF RunFails, States
  <2>. QED BY <1>14, Nil, <2>1, <2>2, <2>3 DEF RunFails
<1>15. CASE UNCHANGED vars
  BY <1>15 DEF vars
<1>. QED
  BY <1>1, <1>2, <1>3, <1>4, <1>5, <1>6, <1>7, <1>8, <1>9, <1>10, <1>11, <1>12,
     <1>13, <1>14, <1>15 DEF Next, Callers, RunStep

\* Every variable of the agent and its loop keeps its type.
THEOREM TypeCorrect == Spec => []TypeOK
<1>1. Init => TypeOK
  BY Nil DEF Init, TypeOK, States
<1>. QED BY <1>1, TypeInductive, PTL DEF Spec
-----------------------------------------------------------------------------
(* The elements of a sequence, under the operations the loop uses.          *)
LEMMA ElementsAppend ==
    ASSUME NEW S, NEW s \in Seq(S), NEW e \in S
    PROVE  ToSet(Append(s, e)) = ToSet(s) \cup {e}
BY AppendProperties DEF ToSet

(* A concatenation has the elements of both sequences.                      *)
LEMMA ElementsConcat ==
    ASSUME NEW S, NEW s \in Seq(S), NEW t \in Seq(S)
    PROVE  ToSet(s \o t) = ToSet(s) \cup ToSet(t)
<1>1. Range(s \o t) = Range(s) \cup Range(t)
  BY RangeConcatenation
<1>2. \A q : Range(q) = ToSet(q)
  BY DEF Range, ToSet
<1>. QED BY <1>1, <1>2

(* A sequence that is not empty has the elements of its tail and its head.  *)
LEMMA ElementsTail ==
    ASSUME NEW S, NEW s \in Seq(S), s # <<>>
    PROVE  ToSet(s) = {Head(s)} \cup ToSet(Tail(s))
<1>1. /\ Tail(s) \in Seq(S) /\ Len(Tail(s)) = Len(s) - 1 /\ Len(s) \in Nat \ {0}
      /\ \A i \in 1..Len(Tail(s)) : Tail(s)[i] = s[i + 1]
      /\ Head(s) = s[1]
  BY HeadTailProperties
<1>2. ASSUME NEW x \in ToSet(s) PROVE x \in {Head(s)} \cup ToSet(Tail(s))
  <2>1. PICK i \in 1..Len(s) : x = s[i]
    BY <1>2 DEF ToSet
  <2>2. CASE i = 1
    BY <1>1, <2>1, <2>2
  <2>3. CASE i # 1
    <3>1. i - 1 \in 1..Len(Tail(s)) /\ (i - 1) + 1 = i
      BY <1>1, <2>3
    <3>2. Tail(s)[i - 1] = x
      BY <1>1, <2>1, <3>1
    <3>3. DOMAIN Tail(s) = 1..Len(Tail(s))
      BY <1>1
    <3>. QED BY <3>1, <3>2, <3>3 DEF ToSet
  <2>. QED BY <2>2, <2>3
<1>3. ASSUME NEW x \in ToSet(Tail(s)) PROVE x \in ToSet(s)
  <2>1. PICK i \in 1..Len(Tail(s)) : x = Tail(s)[i]
    BY <1>1, <1>3 DEF ToSet
  <2>. QED BY <1>1, <2>1 DEF ToSet
<1>4. Head(s) \in ToSet(s)
  BY <1>1 DEF ToSet
<1>. QED BY <1>2, <1>3, <1>4

(* The empty sequence has no element.                                       *)
LEMMA ElementsNil == ToSet(<<>>) = {}
BY DEF ToSet

(* The messages that report a sequence of results report each of them.      *)
LEMMA ReportsResults ==
    ASSUME NEW s \in Seq(BgCalls), NEW c \in ToSet(s)
    PROVE  Background(c) \in ToSet(Backgrounds(s))
<1>1. PICK i \in DOMAIN s : s[i] = c
  BY DEF ToSet
<1>. QED BY <1>1 DEF Backgrounds, ToSet

-----------------------------------------------------------------------------
(* The inductive invariant.  A call is under way only as part of the batch, *)
(* and there is a batch only while tools execute; a background call that has *)
(* ended is on its way to the transcript: in the manager's results, in the  *)
(* messages about to be injected, or in the transcript itself.  Only a run   *)
(* that has failed may break the chain.                                      *)
BatchInv ==
    /\ pc # "tools" => batch = <<>>
    /\ \A c \in Calls : call[c] \in {"queued", "started", "prepared", "finalized"}
                         => c \in Batch
    /\ PendingCallsExact

OnItsWay(c) == \/ c \in ToSet(results)
               \/ Background(c) \in ToSet(pending)
               \/ Background(c) \in ToSet(messages)

ReportInv ==
    /\ pc # "inject" => pending = <<>>
    /\ pc # "failed" => \A c \in BgCalls :
                           bg[c] \in {"resulted", "settled"} => OnItsWay(c)
    /\ pc = "agentEnd" => InFlight = {} /\ results = <<>>

IInv == TypeOK /\ BatchInv /\ ReportInv

(* Collecting the pending messages keeps the reports: a drained result is   *)
(* pending, and the run ends of itself only with nothing in flight.         *)
LEMMA CollectPreserves ==
    ASSUME TypeOK, ReportInv, NEW more \in BOOLEAN, CollectThen(more),
           pc \in {"prompts", "turnEnd", "wait"}
    PROVE  ReportInv'
<1>. DEFINE polled == IF Poll THEN Drained(steerQ, SteeringMode) ELSE <<>>
            got == Backgrounds(results) \o UserMsgs(polled)
            busy == more \/ got # <<>>
<1>1. /\ results \in Seq(BgCalls) /\ messages \in Seq(Message)
      /\ pending = <<>>
  BY DEF TypeOK, ReportInv
<1>2. /\ Backgrounds(results) \in Seq(Message) /\ UserMsgs(polled) \in Seq(Message)
  <2>1. polled \in Seq(Users)
    BY DrainType, Nil DEF TypeOK
  <2>. QED BY <1>1, <2>1, MessagesOf
<1>3. /\ results' = <<>>
      /\ UNCHANGED <<messages, bg>>
  BY DEF CollectThen
<1>4. pc' # "inject" => pending' = <<>>
  BY DEF CollectThen
<1>5. ASSUME NEW c \in BgCalls, bg[c] \in {"resulted", "settled"} PROVE OnItsWay(c)'
  <2>1. c \in ToSet(results) \/ Background(c) \in ToSet(messages)
    BY <1>1, <1>5, ElementsNil DEF ReportInv, OnItsWay
  <2>2. CASE Background(c) \in ToSet(messages)
    BY <1>3, <2>2 DEF OnItsWay
  <2>3. CASE c \in ToSet(results)
    <3>1. Background(c) \in ToSet(got)
      BY <1>1, <1>2, <2>3, ReportsResults, ElementsConcat
    <3>2. got # <<>>
      BY <3>1, ElementsNil
    <3>3. pending' = got
      BY <3>2 DEF CollectThen
    <3>. QED BY <3>1, <3>3 DEF OnItsWay
  <2>. QED BY <2>1, <2>2, <2>3
<1>6. pc' = "agentEnd" => InFlight' = {} /\ results' = <<>>
  BY <1>3 DEF CollectThen, InFlight
<1>. QED BY <1>3, <1>4, <1>5, <1>6 DEF ReportInv, OnItsWay, Background

(* A call under way is one of the batch, so a step of one call keeps the     *)
(* batch invariant.                                                          *)
LEMMA CallPreserves ==
    ASSUME TypeOK, BatchInv, NEW c \in Calls, CallStep(c)
    PROVE  BatchInv'
<1>1. pc = "tools" /\ pc' = "tools" /\ batch' = batch
  BY DEF CallStep, StartCall, RejectCall, DetachCall, PrepareCall, FinishCall,
         AnswerCall, EndCall
<1>2. call[c] \in {"queued", "started", "prepared", "finalized"}
  BY DEF CallStep, StartCall, RejectCall, DetachCall, PrepareCall, FinishCall, AnswerCall
<1>3. c \in Batch /\ Batch' = Batch
  BY <1>1, <1>2 DEF BatchInv, Batch
<1>4. call' = [call EXCEPT ![c] = call'[c]] /\ call \in [Calls -> States]
  BY DEF CallStep, StartCall, RejectCall, DetachCall, PrepareCall, FinishCall,
         AnswerCall, EndCall, TypeOK
<1>5. \A d \in Calls : d # c => call'[d] = call[d]
  BY <1>4
<1>6. pendingCalls' = IF call'[c] \in {"started", "prepared"}
                      THEN pendingCalls \cup {c} ELSE pendingCalls \ {c}
  <2>1. pendingCalls = {d \in Batch : call[d] \in {"started", "prepared"}}
    BY <1>1 DEF BatchInv, PendingCallsExact
  <2>2. CASE StartCall(c)
    BY <1>4, <2>2 DEF StartCall
  <2>3. CASE PrepareCall(c)
    BY <1>3, <1>4, <2>1, <2>3 DEF PrepareCall, agentVars
  <2>4. CASE AnswerCall(c)
    BY <1>3, <1>4, <2>1, <2>4 DEF AnswerCall
  <2>5. CASE RejectCall(c) \/ DetachCall(c) \/ FinishCall(c)
    BY <1>4, <2>5 DEF RejectCall, DetachCall, FinishCall, EndCall
  <2>. QED BY <2>2, <2>3, <2>4, <2>5 DEF CallStep
<1>7. Batch \subseteq Calls
  BY DEF TypeOK, Batch, ToSet
<1>8. PendingCallsExact'
  BY <1>1, <1>3, <1>5, <1>6, <1>7 DEF BatchInv, PendingCallsExact
<1>. QED BY <1>1, <1>3, <1>5, <1>8 DEF BatchInv

(* Every step keeps the account of the batch being executed.                *)
LEMMA BatchInductive == TypeOK /\ BatchInv /\ [Next]_vars => BatchInv'
<1>. SUFFICES ASSUME TypeOK, BatchInv, [Next]_vars PROVE BatchInv'
  OBVIOUS
<1>0. ToSet(<<>>) = {} BY ElementsNil
<1>1. CASE \E c \in Calls : CallStep(c)
  BY <1>1, CallPreserves
<1>2. CASE \E s \in Batches : StreamDone(s)
  <2>1. PICK s \in Batches : StreamDone(s) BY <1>2
  <2>2. /\ batch = <<>> /\ Batch = {} /\ pendingCalls = {}
        /\ batch' = s /\ Batch' = ToSet(s) /\ pendingCalls' = {}
    BY <1>0, <2>1 DEF StreamDone, BatchInv, PendingCallsExact, Batch
  <2>3. s \in Seq(Calls) /\ ToSet(s) \subseteq Calls
    BY BatchType DEF ToSet
  <2>4. \A c \in Calls : call'[c] = IF c \in ToSet(s) THEN "queued" ELSE call[c]
    BY <2>1 DEF StreamDone
  <2>5. \A c \in Calls : call[c] \notin {"queued", "started", "prepared", "finalized"}
    BY <2>2 DEF BatchInv
  <2>6. PendingCallsExact'
    BY <2>2, <2>3, <2>4 DEF PendingCallsExact
  <2>7. pc' # "tools" => batch' = <<>>
    BY <2>1 DEF StreamDone
  <2>. QED BY <2>2, <2>4, <2>5, <2>6, <2>7 DEF BatchInv
<1>3. CASE EndBatch
  <2>1. pendingCalls' = {} /\ batch' = <<>> /\ call' = call
    BY <1>3 DEF EndBatch, BatchInv, PendingCallsExact, agentVars
  <2>2. \A c \in Calls : call[c] \notin {"queued", "started", "prepared", "finalized"}
    BY <1>3 DEF EndBatch, BatchInv
  <2>3. Batch' = {}
    BY <1>0, <2>1 DEF Batch
  <2>. QED BY <2>1, <2>2, <2>3 DEF BatchInv, PendingCallsExact
<1>4. CASE RunFails
  BY <1>0, <1>4 DEF RunFails, BatchInv, PendingCallsExact, Batch, TypeOK
<1>5. CASE FinishRun
  <2>1. /\ batch = <<>> /\ batch' = <<>> /\ Batch = {} /\ Batch' = {}
        /\ pendingCalls' = {} /\ call' = call
    BY <1>0, <1>5 DEF FinishRun, BatchInv, Batch
  <2>. QED BY <2>1 DEF BatchInv, PendingCallsExact
<1>6. CASE /\ UNCHANGED <<pendingCalls, batch, call>>
           /\ (pc = "tools") <=> (pc' = "tools")
           /\ (pc # "failed" /\ pc' # "failed") \/ pc' = pc
  BY <1>6 DEF BatchInv, PendingCallsExact, Batch
<1>7. ASSUME NEW u \in Users, Prompt(u) \/ Steer(u) \/ FollowUp(u) PROVE BatchInv'
  <2>1. CASE Prompt(u)
    BY <2>1, <1>6 DEF Prompt, StartRun
  <2>2. CASE Steer(u) \/ FollowUp(u)
    BY <2>2, <1>6 DEF Steer, FollowUp, loopVars
  <2>. QED BY <1>7, <2>1, <2>2
<1>8. CASE ContinueRun \/ ClearQueues \/ Abort
  <2>1. CASE ContinueRun
    <3>1. /\ pc = "idle" /\ pc' = "prompts" /\ UNCHANGED <<pendingCalls, batch, call>>
      BY <2>1 DEF ContinueRun, StartRun
    <3>. QED BY <3>1, <1>6
  <2>2. CASE ClearQueues \/ Abort
    BY <2>2, <1>6 DEF ClearQueues, Abort, loopVars
  <2>. QED BY <1>8, <2>1, <2>2
<1>9. CASE EmitPrompt \/ Inject \/ StreamStops
  BY <1>9, <1>6 DEF EmitPrompt, Inject, StreamStops, loopVars
<1>10. CASE FirstCollect \/ EndTurn \/ Woken
  <2>1. PICK more \in BOOLEAN : CollectThen(more) /\ pc \in {"prompts", "turnEnd", "wait"}
    BY <1>10 DEF FirstCollect, EndTurn, Woken, TypeOK
  <2>2. /\ UNCHANGED <<pendingCalls, batch, call>>
        /\ pc' \in {"stream", "inject", "wait", "agentEnd"}
    BY <2>1 DEF CollectThen
  <2>. QED BY <2>1, <2>2, <1>6
<1>11. CASE TaskStep
  BY <1>11, <1>6 DEF TaskStep, TaskEnds, TaskSettles, agentVars, loopVars
<1>12. CASE UNCHANGED vars
  BY <1>12, <1>6 DEF vars, agentVars, loopVars
<1>. QED
  BY <1>1, <1>2, <1>3, <1>4, <1>5, <1>7, <1>8, <1>9, <1>10, <1>11, <1>12
     DEF Next, Callers, RunStep

(* Every step keeps the account of the background results.                  *)
LEMMA ReportInductive == TypeOK /\ ReportInv /\ [Next]_vars => ReportInv'
<1>. SUFFICES ASSUME TypeOK, ReportInv, [Next]_vars PROVE ReportInv'
  OBVIOUS
<1>0. /\ messages \in Seq(Message) /\ pending \in Seq(Message)
      /\ results \in Seq(BgCalls) /\ ToSet(<<>>) = {}
  BY ElementsNil DEF TypeOK
\* A step that adds to the transcript, if anything, and keeps the rest in place.
<1>1. ASSUME UNCHANGED <<pending, results>>,
             \/ messages' = messages
             \/ \E m \in Message : messages' = Append(messages, m),
             \A c \in BgCalls : bg'[c] \in {"resulted", "settled"}
                                => bg[c] \in {"resulted", "settled"},
             (pc = "inject") <=> (pc' = "inject"),
             pc # "failed" \/ pc' = "failed", pc' # "agentEnd"
      PROVE  ReportInv'
  <2>1. ToSet(messages) \subseteq ToSet(messages')
    <3>1. CASE messages' = messages
      BY <3>1
    <3>2. ASSUME NEW m \in Message, messages' = Append(messages, m)
          PROVE  ToSet(messages') = ToSet(messages) \cup {m}
      BY <1>0, <3>2, ElementsAppend
    <3>. QED BY <1>1, <3>1, <3>2
  <2>. QED BY <1>1, <2>1 DEF ReportInv, OnItsWay, Background
<1>2. ASSUME NEW u \in Users, Prompt(u) \/ Steer(u) \/ FollowUp(u) PROVE ReportInv'
  <2>1. CASE Prompt(u)
    BY <2>1, <1>1 DEF Prompt, StartRun, bgVars
  <2>2. CASE Steer(u) \/ FollowUp(u)
    BY <2>2 DEF Steer, FollowUp, loopVars, bgVars, ReportInv, OnItsWay, InFlight, Background
  <2>. QED BY <1>2, <2>1, <2>2
<1>3. CASE ContinueRun
  <2>1. /\ pc = "idle" /\ pc' = "prompts"
        /\ UNCHANGED <<messages, pending, results, bg>>
    BY <1>3 DEF ContinueRun, StartRun, bgVars
  <2>. QED BY <2>1, <1>1
<1>4. CASE ClearQueues \/ Abort
  BY <1>4 DEF ClearQueues, Abort, loopVars, bgVars, ReportInv, OnItsWay, InFlight, Background
<1>5. CASE EmitPrompt
  <2>1. context[Len(messages) + 1] \in Message
    BY <1>5 DEF EmitPrompt, TypeOK
  <2>2. /\ pc = "prompts" /\ pc' = "prompts" /\ UNCHANGED <<pending, results, bg>>
        /\ \E m \in Message : messages' = Append(messages, m)
    BY <1>5, <2>1 DEF EmitPrompt, loopVars, bgVars
  <2>. QED BY <1>1, <2>2
<1>6. CASE FirstCollect \/ EndTurn \/ Woken
  BY <1>6, CollectPreserves DEF FirstCollect, EndTurn, Woken, TypeOK
<1>7. CASE Inject
  <2>1. /\ pending # <<>> /\ pending' = Tail(pending)
        /\ messages' = Append(messages, Head(pending))
        /\ UNCHANGED <<results, bg>> /\ pc = "inject"
        /\ pc' = IF Tail(pending) = <<>> THEN "stream" ELSE "inject"
    BY <1>7 DEF Inject, bgVars
  <2>2. Head(pending) \in Message
    BY <1>0, <2>1, HeadTailProperties
  <2>3. /\ ToSet(pending) = {Head(pending)} \cup ToSet(pending')
        /\ ToSet(messages') = ToSet(messages) \cup {Head(pending)}
    BY <1>0, <2>1, <2>2, ElementsTail, ElementsAppend
  <2>4. ASSUME NEW c \in BgCalls, OnItsWay(c) PROVE OnItsWay(c)'
    BY <2>1, <2>3, <2>4 DEF OnItsWay, Background
  <2>. QED BY <2>1, <2>4 DEF ReportInv
<1>8. CASE StreamStops
  BY <1>1, <1>8, MessageTypes DEF StreamStops, bgVars
<1>9. CASE \E s \in Batches : StreamDone(s)
  <2>1. PICK s \in Batches : StreamDone(s) BY <1>9
  <2>2. Response(s) \in Message
    BY BatchType, MessageTypes
  <2>. QED BY <1>1, <2>1, <2>2 DEF StreamDone, bgVars
<1>10. CASE \E c \in Calls : CallStep(c)
  <2>1. PICK c \in Calls : CallStep(c) BY <1>10
  <2>2. Result(c) \in Message BY MessageTypes
  <2>3. pc = "tools" /\ pc' = "tools" /\ UNCHANGED <<pending, results>>
    BY <2>1 DEF CallStep, StartCall, RejectCall, DetachCall, PrepareCall, FinishCall,
                AnswerCall, EndCall, bgVars
  <2>4. messages' = messages \/ messages' = Append(messages, Result(c))
    BY <2>1 DEF CallStep, StartCall, RejectCall, DetachCall, PrepareCall, FinishCall,
                AnswerCall, EndCall, agentVars
  <2>5. \A d \in BgCalls : bg'[d] \in {"resulted", "settled"} => bg[d] \in {"resulted", "settled"}
    BY <2>1 DEF CallStep, StartCall, RejectCall, DetachCall, PrepareCall, FinishCall,
                AnswerCall, EndCall, bgVars, TypeOK
  <2>. QED BY <1>1, <2>2, <2>3, <2>4, <2>5
<1>11. CASE EndBatch
  BY <1>1, <1>11 DEF EndBatch, agentVars, bgVars
<1>12. CASE FinishRun
  <2>1. /\ pc \in {"agentEnd", "stopped", "failed"} /\ pc' = "idle"
        /\ UNCHANGED <<messages, pending>>
    BY <1>12 DEF FinishRun
  <2>2. pending = <<>>
    BY <2>1 DEF ReportInv
  <2>3. ASSUME NEW c \in BgCalls, bg'[c] \in {"resulted", "settled"}
        PROVE  Background(c) \in ToSet(messages)
    BY <1>12, <2>3 DEF FinishRun
  <2>. QED BY <2>1, <2>2, <2>3 DEF ReportInv, OnItsWay, Background
<1>13. ASSUME NEW c \in BgCalls, TaskEnds(c) \/ TaskSettles(c) PROVE ReportInv'
  <2>1. pc # "agentEnd" /\ UNCHANGED <<pc, pending, messages>>
    BY <1>13 DEF TaskEnds, TaskSettles, ReportInv, InFlight, agentVars, loopVars
  <2>2. CASE TaskEnds(c)
    <3>1. ToSet(results') = ToSet(results) \cup {c}
      BY <1>0, <2>2, ElementsAppend DEF TaskEnds
    <3>2. \A d \in BgCalls : d # c => bg'[d] = bg[d]
      BY <2>2 DEF TaskEnds, TypeOK
    <3>. QED BY <2>1, <3>1, <3>2 DEF ReportInv, OnItsWay, Background
  <2>3. CASE TaskSettles(c)
    <3>1. results' = results /\ bg[c] = "resulted"
      BY <2>3 DEF TaskSettles
    <3>2. \A d \in BgCalls : d # c => bg'[d] = bg[d]
      BY <2>3 DEF TaskSettles, TypeOK
    <3>. QED BY <2>1, <3>1, <3>2 DEF ReportInv, OnItsWay, Background
  <2>. QED BY <1>13, <2>2, <2>3
<1>14. CASE RunFails
  BY <1>14 DEF RunFails, ReportInv
<1>15. CASE UNCHANGED vars
  BY <1>15 DEF vars, agentVars, loopVars, bgVars, ReportInv, OnItsWay, InFlight, Background
<1>. QED
  BY <1>2, <1>3, <1>4, <1>5, <1>6, <1>7, <1>8, <1>9, <1>10, <1>11, <1>12, <1>13,
     <1>14, <1>15 DEF Next, Callers, RunStep, TaskStep

\* The inductive invariant holds throughout: the types, the account of the batch of
\* _execute_tool_calls and the account of the results of _BackgroundTaskManager.
THEOREM Invariance == Spec => []IInv
<1>1. Init => IInv
  <2>1. ASSUME Init PROVE TypeOK
    BY <2>1, Nil DEF Init, TypeOK, States
  <2>2. ASSUME Init PROVE BatchInv
    BY <2>2, ElementsNil DEF Init, BatchInv, PendingCallsExact, Batch
  <2>3. ASSUME Init PROVE ReportInv
    BY <2>3 DEF Init, ReportInv
  <2>. QED BY <2>1, <2>2, <2>3 DEF IInv
<1>2. IInv /\ [Next]_vars => IInv'
  BY TypeInductive, BatchInductive, ReportInductive DEF IInv
<1>. QED BY <1>1, <1>2, PTL DEF Spec

\* state.pending_tool_calls is exact: what a UI shows as running is running.
THEOREM PendingCalls == Spec => []PendingCallsExact
<1>1. IInv => PendingCallsExact
  BY DEF IInv, BatchInv
<1>. QED BY <1>1, Invariance, PTL

(* At its end a run has nothing left on the way to the transcript.          *)
LEMMA AllReported == IInv => NoBackgroundResultLost
<1>. SUFFICES ASSUME IInv, pc = "agentEnd"
              PROVE  /\ results = <<>>
                     /\ \A c \in BgCalls :
                          \/ bg[c] \in {"none", "abandoned"}
                          \/ bg[c] = "settled" /\ Background(c) \in ToSet(messages)
  BY DEF NoBackgroundResultLost
<1>1. InFlight = {} /\ results = <<>> /\ pending = <<>>
  BY DEF IInv, ReportInv
<1>2. \A c \in BgCalls : bg[c] \in {"none", "abandoned", "settled"}
  BY <1>1 DEF InFlight, IInv, TypeOK
<1>3. \A c \in BgCalls : bg[c] = "settled" => Background(c) \in ToSet(messages)
  BY <1>1, ElementsNil DEF IInv, ReportInv, OnItsWay
<1>. QED BY <1>1, <1>2, <1>3

\* A run that ends of itself has reported every call it detached.
THEOREM BackgroundReported == Spec => []NoBackgroundResultLost
BY AllReported, Invariance, PTL

-----------------------------------------------------------------------------
(* A value occurs in a sequence once, if at all.                            *)
Once(m, s) == \A i, j \in DOMAIN s : s[i] = m /\ s[j] = m => i = j

(* What Once is preserved by: appending another value, or a first one.      *)
LEMMA OnceAppend ==
    ASSUME NEW S, NEW s \in Seq(S), NEW e \in S, NEW m, Once(m, s),
           m = e => m \notin ToSet(s)
    PROVE  Once(m, Append(s, e))
<1>1. /\ Append(s, e) \in Seq(S) /\ Len(Append(s, e)) = Len(s) + 1 /\ Len(s) \in Nat
      /\ Append(s, e)[Len(s) + 1] = e
      /\ \A i \in 1..Len(s) : Append(s, e)[i] = s[i]
  BY AppendProperties
<1>2. DOMAIN Append(s, e) = 1..(Len(s) + 1) /\ DOMAIN s = 1..Len(s)
  BY <1>1
<1>3. \A i \in 1..Len(s) : s[i] \in ToSet(s)
  BY <1>2 DEF ToSet
<1>. SUFFICES ASSUME NEW i \in 1..(Len(s) + 1), NEW j \in 1..(Len(s) + 1),
                     Append(s, e)[i] = m, Append(s, e)[j] = m
              PROVE  i = j
  BY <1>2 DEF Once
<1>. QED BY <1>1, <1>2, <1>3 DEF Once

(* Taking the head away takes the only occurrence of it.                    *)
LEMMA OnceTail ==
    ASSUME NEW S, NEW s \in Seq(S), s # <<>>, NEW m, Once(m, s)
    PROVE  /\ Once(m, Tail(s))
           /\ m = Head(s) => m \notin ToSet(Tail(s))
<1>1. /\ Tail(s) \in Seq(S) /\ Len(Tail(s)) = Len(s) - 1 /\ Len(s) \in Nat \ {0}
      /\ \A i \in 1..Len(Tail(s)) : Tail(s)[i] = s[i + 1]
      /\ Head(s) = s[1]
  BY HeadTailProperties
<1>2. DOMAIN Tail(s) = 1..Len(Tail(s)) /\ DOMAIN s = 1..Len(s)
  BY <1>1
<1>3. ASSUME NEW i \in DOMAIN Tail(s), NEW j \in DOMAIN Tail(s), Tail(s)[i] = m, Tail(s)[j] = m
      PROVE  i = j
  <2>1. i + 1 \in DOMAIN s /\ j + 1 \in DOMAIN s /\ s[i + 1] = m /\ s[j + 1] = m
    BY <1>1, <1>2, <1>3
  <2>. QED BY <2>1, <1>1, <1>2 DEF Once
<1>4. ASSUME m = Head(s), NEW i \in DOMAIN Tail(s), Tail(s)[i] = m PROVE FALSE
  <2>1. 1 \in DOMAIN s /\ i + 1 \in DOMAIN s /\ s[i + 1] = m /\ s[1] = m /\ i + 1 # 1
    BY <1>1, <1>2, <1>4
  <2>. QED BY <2>1 DEF Once
<1>. QED BY <1>3, <1>4 DEF Once, ToSet

(* A concatenation of sequences that do not both hold the value.            *)
LEMMA OnceConcat ==
    ASSUME NEW S, NEW s \in Seq(S), NEW t \in Seq(S), NEW m, Once(m, s), Once(m, t),
           m \in ToSet(s) => m \notin ToSet(t)
    PROVE  Once(m, s \o t)
<1>1. /\ Len(s) \in Nat /\ Len(t) \in Nat /\ Len(s \o t) = Len(s) + Len(t)
      /\ \A i \in 1..Len(s) : (s \o t)[i] = s[i]
      /\ \A i \in (Len(s) + 1)..(Len(s) + Len(t)) : (s \o t)[i] = t[i - Len(s)]
      /\ DOMAIN (s \o t) = 1..(Len(s) + Len(t))
      /\ DOMAIN s = 1..Len(s) /\ DOMAIN t = 1..Len(t)
  BY ConcatProperties
<1>2. \A i \in 1..Len(s) : s[i] \in ToSet(s)
  BY <1>1 DEF ToSet
<1>3. \A i \in (Len(s) + 1)..(Len(s) + Len(t)) :
         i - Len(s) \in DOMAIN t /\ t[i - Len(s)] \in ToSet(t)
  BY <1>1 DEF ToSet
<1>. SUFFICES ASSUME NEW i \in 1..(Len(s) + Len(t)), NEW j \in 1..(Len(s) + Len(t)),
                     (s \o t)[i] = m, (s \o t)[j] = m
              PROVE  i = j
  BY <1>1 DEF Once
<1>4. CASE i <= Len(s) /\ j <= Len(s)
  BY <1>1, <1>4 DEF Once
<1>5. CASE i > Len(s) /\ j > Len(s)
  <2>1. i - Len(s) = j - Len(s)
    BY <1>1, <1>3, <1>5 DEF Once
  <2>. QED BY <1>1, <1>5, <2>1
<1>6. CASE (i <= Len(s) /\ j > Len(s)) \/ (j <= Len(s) /\ i > Len(s))
  BY <1>1, <1>2, <1>3, <1>6
<1>. QED BY <1>1, <1>4, <1>5, <1>6

(* Messages made of ids are told apart by the ids.                          *)
LEMMA UserMsgsOnce ==
    ASSUME NEW q \in Seq(Users), NEW u \in Users, Once(u, q)
    PROVE  /\ Once(UserMsg(u), UserMsgs(q))
           /\ UserMsg(u) \in ToSet(UserMsgs(q)) <=> u \in ToSet(q)
BY DEF Once, UserMsg, UserMsgs, ToSet

(* The same of the messages that report results.                            *)
LEMMA BackgroundsOnce ==
    ASSUME NEW q \in Seq(BgCalls), NEW c \in BgCalls, Once(c, q)
    PROVE  /\ Once(Background(c), Backgrounds(q))
           /\ Background(c) \in ToSet(Backgrounds(q)) <=> c \in ToSet(q)
BY DEF Once, Background, Backgrounds, ToSet

(* Users' messages are no reports, and reports no users' messages.          *)
LEMMA KindsApart ==
    /\ \A u \in Users, q \in Seq(BgCalls) : UserMsg(u) \notin ToSet(Backgrounds(q))
    /\ \A c \in BgCalls, q \in Seq(Users) : Background(c) \notin ToSet(UserMsgs(q))
    /\ \A q \in Seq(Users) : ToSet(UserMsgs(q)) \subseteq {UserMsg(u) : u \in Users}
    /\ \A q \in Seq(BgCalls) : ToSet(Backgrounds(q)) \subseteq {Background(c) : c \in BgCalls}
<1>1. \A q \in Seq(Users) : \A i \in DOMAIN q : q[i] \in Users
  OBVIOUS
<1>2. \A q \in Seq(BgCalls) : \A i \in DOMAIN q : q[i] \in BgCalls
  OBVIOUS
<1>. QED BY <1>1, <1>2 DEF UserMsg, UserMsgs, Background, Backgrounds, ToSet

(* A queue is drained into two parts that share nothing.                    *)
LEMMA DrainOnce ==
    ASSUME NEW q \in Seq(Users), NEW mode, NEW u \in Users, Once(u, q)
    PROVE  /\ Once(u, Drained(q, mode)) /\ Once(u, Kept(q, mode))
           /\ u \in ToSet(q) <=> u \in ToSet(Drained(q, mode)) \/ u \in ToSet(Kept(q, mode))
           /\ ~(u \in ToSet(Drained(q, mode)) /\ u \in ToSet(Kept(q, mode)))
<1>1. CASE mode = "all" \/ q = <<>>
  <2>1. Drained(q, mode) = q /\ Kept(q, mode) = <<>>
    BY <1>1 DEF Drained, Kept
  <2>. QED BY <2>1, ElementsNil DEF Once
<1>2. CASE ~(mode = "all" \/ q = <<>>)
  <2>1. Drained(q, mode) = <<Head(q)>> /\ Kept(q, mode) = Tail(q)
    BY <1>2 DEF Drained, Kept
  <2>2. Once(u, <<Head(q)>>) /\ ToSet(<<Head(q)>>) = {Head(q)}
    BY DEF Once, ToSet
  <2>3. ToSet(q) = {Head(q)} \cup ToSet(Tail(q))
    BY <1>2, ElementsTail
  <2>4. Once(u, Tail(q)) /\ (u = Head(q) => u \notin ToSet(Tail(q)))
    BY <1>2, OnceTail
  <2>. QED BY <2>1, <2>2, <2>3, <2>4
<1>. QED BY <1>1, <1>2

(* A sequence that is passed on from t to the end of s.                     *)
LEMMA SplitConcat ==
    ASSUME NEW S, NEW s \in Seq(S), NEW t \in Seq(S)
    PROVE  SubSeq(s \o t, Len(s) + 1, Len(s \o t)) = t
<1>. DEFINE r == s \o t
<1>1. /\ r \in Seq(S) /\ Len(r) = Len(s) + Len(t) /\ Len(s) \in Nat /\ Len(t) \in Nat
      /\ \A i \in 1..Len(t) : r[Len(s) + i] = t[i]
  BY ConcatProperties
<1>2. /\ SubSeq(r, Len(s) + 1, Len(r)) \in Seq(S)
      /\ Len(SubSeq(r, Len(s) + 1, Len(r))) = Len(t)
      /\ \A i \in 1..Len(t) : SubSeq(r, Len(s) + 1, Len(r))[i] = r[Len(s) + i]
  BY <1>1
<1>. QED BY <1>1, <1>2, SeqEqual

(* The head of the rest may be passed on first.                            *)
LEMMA PassHead ==
    ASSUME NEW S, NEW s \in Seq(S), NEW t \in Seq(S), t # <<>>
    PROVE  /\ Append(s, Head(t)) \o Tail(t) = s \o t
           /\ (s \o t)[Len(s) + 1] = Head(t)
<1>1. /\ Head(t) \in S /\ Tail(t) \in Seq(S) /\ Len(Tail(t)) = Len(t) - 1
      /\ Len(t) \in Nat \ {0} /\ Len(s) \in Nat /\ Head(t) = t[1]
      /\ \A i \in 1..Len(Tail(t)) : Tail(t)[i] = t[i + 1]
  BY HeadTailProperties
<1>2. /\ Append(s, Head(t)) \in Seq(S) /\ Len(Append(s, Head(t))) = Len(s) + 1
      /\ Append(s, Head(t))[Len(s) + 1] = Head(t)
      /\ \A i \in 1..Len(s) : Append(s, Head(t))[i] = s[i]
  BY <1>1, Appended
<1>. DEFINE a == Append(s, Head(t)) \o Tail(t)
            b == s \o t
<1>3. /\ b \in Seq(S) /\ Len(b) = Len(s) + Len(t)
      /\ \A i \in 1..(Len(s) + Len(t)) : b[i] = IF i <= Len(s) THEN s[i] ELSE t[i - Len(s)]
  BY ConcatProperties
<1>4. /\ a \in Seq(S) /\ Len(a) = Len(s) + Len(t)
      /\ \A i \in 1..(Len(s) + Len(t)) :
            a[i] = IF i <= Len(s) + 1 THEN Append(s, Head(t))[i] ELSE Tail(t)[i - (Len(s) + 1)]
  BY <1>1, <1>2, ConcatProperties
<1>5. ASSUME NEW i \in 1..(Len(s) + Len(t)) PROVE a[i] = b[i]
  <2>1. CASE i <= Len(s)
    BY <1>1, <1>2, <1>3, <1>4, <2>1
  <2>2. CASE i = Len(s) + 1
    <3>1. a[i] = Head(t) BY <1>1, <1>2, <1>4, <2>2
    <3>2. b[i] = t[1] BY <1>1, <1>3, <2>2
    <3>. QED BY <1>1, <3>1, <3>2
  <2>3. CASE i > Len(s) + 1
    <3>1. a[i] = Tail(t)[i - (Len(s) + 1)] BY <1>1, <1>4, <2>3
    <3>2. /\ i - (Len(s) + 1) \in 1..Len(Tail(t))
          /\ (i - (Len(s) + 1)) + 1 = i - Len(s)
      BY <1>1, <2>3
    <3>3. b[i] = t[i - Len(s)] BY <1>1, <1>3, <2>3
    <3>. QED BY <1>1, <3>1, <3>2, <3>3
  <2>. QED BY <1>1, <2>1, <2>2, <2>3
<1>6. a = b
  BY <1>3, <1>4, <1>5, SeqEqual
<1>7. b[Len(s) + 1] = t[1]
  BY <1>1, <1>3
<1>. QED BY <1>1, <1>6, <1>7

-----------------------------------------------------------------------------

(* The places a user's message passes through.                             *)
Steering(u)  == u \in ToSet(steerQ)
Following(u) == u \in ToSet(followQ)
Collected(u) == UserMsg(u) \in ToSet(pending)
Prompting(u) == pc = "prompts" /\ UserMsg(u) \in ToSet(Unsent)
Heard(u)     == UserMsg(u) \in ToSet(messages)
Given(u)     == u \in discarded
Accepted(u)  == u \in prompted \cup ToSet(steered) \cup ToSet(followed)

Somewhere(u) == \/ Steering(u)  \/ Following(u) \/ Collected(u)
                \/ Prompting(u) \/ Heard(u)     \/ Given(u)
Apart(u) ==
    /\ Steering(u)  => ~Following(u) /\ ~Collected(u) /\ ~Prompting(u) /\ ~Heard(u) /\ ~Given(u)
    /\ Following(u) => ~Collected(u) /\ ~Prompting(u) /\ ~Heard(u) /\ ~Given(u)
    /\ Collected(u) => ~Prompting(u) /\ ~Heard(u) /\ ~Given(u)
    /\ Prompting(u) => ~Heard(u) /\ ~Given(u)
    /\ Heard(u)     => ~Given(u)
Single(u) ==
    /\ Once(u, steerQ) /\ Once(u, followQ)
    /\ Once(UserMsg(u), pending) /\ Once(UserMsg(u), messages)
    /\ pc = "prompts" => Once(UserMsg(u), Unsent)

PromptsInv ==
    /\ pc = "prompts" => /\ context = messages \o Unsent
                         /\ ToSet(Unsent) \subseteq {UserMsg(u) : u \in Users}
    /\ pc # "failed" => \A u \in Users : UserMsg(u) \in ToSet(context) => Heard(u) \/ Prompting(u)
    /\ ToSet(pending) \subseteq {UserMsg(u) : u \in Users} \cup {Background(c) : c \in BgCalls}

Held(c) == c \in ToSet(results)
Due(c)  == Background(c) \in ToSet(pending)
Told(c) == Background(c) \in ToSet(messages)
Reported(c) ==
    /\ Once(c, results) /\ Once(Background(c), pending) /\ Once(Background(c), messages)
    /\ Held(c) => ~Due(c) /\ ~Told(c)
    /\ Due(c) => ~Told(c)
    /\ Held(c) \/ Due(c) \/ Told(c) => bg[c] \notin {"none", "running"}
    /\ bg[c] # "none" => call[c] = "answered" /\ Result(c) \in ToSet(messages)
ResultsInv == \A c \in BgCalls : Reported(c)

(* A run starts with all of its prompts to be sent.                         *)
LEMMA StartsPrompts ==
    ASSUME TypeOK, NEW p \in Seq(Message), NEW skip, StartRun(p, skip)
    PROVE  /\ pc' = "prompts" /\ messages' = messages /\ pending' = pending
           /\ Unsent' = p /\ context' = messages' \o Unsent'
<1>1. pc' = "prompts" /\ messages' = messages /\ pending' = pending /\ context' = messages \o p
  BY DEF StartRun
<1>2. Unsent' = SubSeq(messages \o p, Len(messages) + 1, Len(messages \o p))
  BY <1>1 DEF Unsent
<1>3. messages \in Seq(Message)
  BY DEF TypeOK
<1>. QED BY <1>1, <1>2, <1>3, SplitConcat

(* Each event of a prompt takes the next of them into the transcript.       *)
LEMMA EmitsPrompt ==
    ASSUME TypeOK, PromptsInv, EmitPrompt
    PROVE  /\ pc = "prompts" /\ pc' = "prompts"
           /\ Unsent \in Seq(Message) /\ Unsent # <<>>
           /\ messages' = Append(messages, Head(Unsent)) /\ Unsent' = Tail(Unsent)
           /\ context' = context /\ context' = messages' \o Unsent'
           /\ UNCHANGED <<steerQ, followQ, pending, bgVars, historyVars, batch, call>>
<1>1. /\ pc = "prompts" /\ pc' = pc /\ context' = context /\ Len(messages) < Len(context)
      /\ messages' = Append(messages, context[Len(messages) + 1])
      /\ UNCHANGED <<steerQ, followQ, pending, bgVars, historyVars, batch, call>>
  BY DEF EmitPrompt, loopVars
<1>2. messages \in Seq(Message) /\ context \in Seq(Message) /\ context = messages \o Unsent
  BY <1>1 DEF TypeOK, PromptsInv
<1>3. Unsent \in Seq(Message)
  BY <1>2 DEF Unsent
<1>4. Unsent # <<>>
  BY <1>1, <1>2, ConcatEmptySeq
<1>5. /\ context[Len(messages) + 1] = Head(Unsent)
      /\ Append(messages, Head(Unsent)) \o Tail(Unsent) = context
  BY <1>2, <1>3, <1>4, PassHead
<1>6. Head(Unsent) \in Message /\ Tail(Unsent) \in Seq(Message)
  BY <1>3, <1>4, HeadTailProperties
<1>7. messages' \in Seq(Message) /\ context' = messages' \o Tail(Unsent)
  BY <1>1, <1>2, <1>5, <1>6, Appended
<1>8. Unsent' = SubSeq(context', Len(messages') + 1, Len(context'))
  BY DEF Unsent
<1>9. Unsent' = Tail(Unsent)
  BY <1>6, <1>7, <1>8, SplitConcat
<1>. QED BY <1>1, <1>3, <1>4, <1>5, <1>7, <1>9

(* The first collection comes when every prompt is sent.                    *)
LEMMA PromptsSent ==
    ASSUME TypeOK, PromptsInv, pc = "prompts", Len(messages) = Len(context)
    PROVE  Unsent = <<>> /\ context = messages
<1>1. messages \in Seq(Message) /\ context \in Seq(Message) /\ context = messages \o Unsent
  BY DEF TypeOK, PromptsInv
<1>2. Unsent = <<>>
  BY <1>1 DEF Unsent
<1>. QED BY <1>1, <1>2, ConcatEmptySeq

-----------------------------------------------------------------------------
(* The steps, as far as users' messages and reports go: most of them move   *)
(* none, and add at most a message of another kind to the transcript.       *)
Quiet ==
    /\ UNCHANGED <<steerQ, followQ, pending, discarded, prompted, steered, followed>>
    /\ \/ UNCHANGED <<messages, context, pc>>
       \/ /\ pc # "prompts" /\ pc' # "prompts"
          /\ \/ messages' = messages
             \/ \E m \in Message : /\ m.role \notin {"user", "background", "row"}
                                   /\ messages' = Append(messages, m)
          /\ \/ context' = <<>>
             \/ /\ pc # "failed"
                /\ \A u \in Users : UserMsg(u) \in ToSet(context')
                                     => UserMsg(u) \in ToSet(context)

Collecting ==
    /\ pc \in {"prompts", "turnEnd", "wait"}
    /\ pc = "prompts" => Len(messages) = Len(context)
    /\ \E more \in BOOLEAN : CollectThen(more)

(* Every step is quiet in this sense or one of the few that move a message. *)
LEMMA StepKinds ==
    ASSUME TypeOK, [Next]_vars
    PROVE  \/ Quiet
           \/ \E u \in Users : Prompt(u) \/ Steer(u) \/ FollowUp(u)
           \/ ContinueRun \/ ClearQueues \/ EmitPrompt \/ Collecting \/ Inject \/ RunFails
<1>. USE DEF historyVars, agentVars, loopVars, bgVars
<1>0. /\ Failure \in Message /\ Failure.role = "failure"
      /\ \A c \in Calls : Result(c) \in Message /\ Result(c).role = "toolResult"
      /\ \A s \in Batches : Response(s) \in Message /\ Response(s).role = "assistant"
      /\ \A u \in Users : UserMsg(u).role = "user"
      /\ context \in Seq(Message) /\ batch \in Seq(Calls)
  BY BatchType, MessageTypes DEF Failure, Result, Response, UserMsg, TypeOK
<1>1. CASE Abort \/ TaskStep \/ UNCHANGED vars
  BY <1>1 DEF Abort, TaskStep, TaskEnds, TaskSettles, Quiet, vars
<1>2. CASE StreamStops
  <2>1. ToSet(context') = ToSet(context) \cup {Failure}
    BY <1>0, <1>2, ElementsAppend DEF StreamStops
  <2>. QED BY <1>0, <1>2, <2>1 DEF StreamStops, Quiet
<1>3. CASE \E s \in Batches : StreamDone(s)
  <2>1. PICK s \in Batches : StreamDone(s) BY <1>3
  <2>2. ToSet(context') = ToSet(context) \cup {Response(s)}
    BY <1>0, <2>1, ElementsAppend DEF StreamDone
  <2>. QED BY <1>0, <2>1, <2>2 DEF StreamDone, Quiet
<1>4. CASE \E c \in Calls : CallStep(c)
  <2>1. PICK c \in Calls : CallStep(c) BY <1>4
  <2>2. CASE StartCall(c) \/ PrepareCall(c)
    BY <2>2 DEF StartCall, PrepareCall, Quiet
  <2>3. CASE RejectCall(c) \/ FinishCall(c) \/ DetachCall(c)
    BY <1>0, <2>3 DEF RejectCall, FinishCall, DetachCall, EndCall, Quiet
  <2>4. CASE AnswerCall(c)
    BY <1>0, <2>4 DEF AnswerCall, Quiet
  <2>. QED BY <2>1, <2>2, <2>3, <2>4 DEF CallStep
<1>5. CASE EndBatch
  <2>1. ToSet(context') = ToSet(context) \cup ToSet(Results(batch))
    <3>1. Results(batch) \in Seq(Message) BY <1>0, MessagesOf
    <3>. QED BY <1>0, <1>5, <3>1, ElementsConcat DEF EndBatch
  <2>2. \A u \in Users : UserMsg(u) \notin ToSet(Results(batch))
    BY <1>0 DEF Results, Result, UserMsg, ToSet
  <2>. QED BY <1>5, <2>1, <2>2 DEF EndBatch, Quiet
<1>6. CASE FinishRun
  BY <1>6 DEF FinishRun, Quiet
<1>7. CASE FirstCollect \/ EndTurn \/ Woken
  BY <1>7 DEF FirstCollect, EndTurn, Woken, Collecting, TypeOK
<1>. QED BY <1>1, <1>2, <1>3, <1>4, <1>5, <1>6, <1>7 DEF Next, Callers, RunStep

-----------------------------------------------------------------------------
(* A user's message is in one place.                                        *)
Tracked(u) == (Accepted(u) <=> Somewhere(u)) /\ Apart(u) /\ Single(u)
UserInv == \A u \in Users : Tracked(u)

(* The messages a quiet step adds are none of the users', and none is lost. *)
LEMMA QuietKeeps ==
    ASSUME TypeOK, Quiet, NEW m \in Message, m.role \in {"user", "background"}, Once(m, messages)
    PROVE  /\ Once(m, messages)'
           /\ m \in ToSet(messages') <=> m \in ToSet(messages)
<1>1. messages \in Seq(Message)
  BY DEF TypeOK
<1>2. CASE messages' = messages
  BY <1>2 DEF Once
<1>3. ASSUME NEW e \in Message, e.role \notin {"user", "background"},
             messages' = Append(messages, e)
      PROVE  /\ Once(m, messages)'
             /\ m \in ToSet(messages') <=> m \in ToSet(messages)
  <2>1. e # m
    BY <1>3
  <2>2. Once(m, Append(messages, e)) /\ ToSet(messages') = ToSet(messages) \cup {e}
    BY <1>1, <1>3, <2>1, OnceAppend, ElementsAppend
  <2>3. Once(m, messages')
    BY <1>3, <2>2
  <2>4. Once(m, messages)'
    BY <2>3 DEF Once
  <2>. QED BY <2>1, <2>2, <2>4
<1>. QED BY <1>2, <1>3 DEF Quiet

(* A user's message is a message, of the role that tells it from others.   *)
LEMMA UserMsgType == \A u \in Users : UserMsg(u) \in Message /\ UserMsg(u).role = "user"
BY DEF UserMsg, Message, Roles

(* Different users' messages are different.                                *)
LEMMA UserMsgInjective == \A u, v \in Users : UserMsg(u) = UserMsg(v) => u = v
BY DEF UserMsg

(* Each kind of step keeps a user's message tracked: the quiet ones,       *)
LEMMA TrackedQuiet ==
    ASSUME TypeOK, Quiet, NEW u \in Users, Tracked(u)
    PROVE  Tracked(u)'
<1>1. UserMsg(u) \in Message /\ UserMsg(u).role = "user"
  BY UserMsgType
<1>2. Once(UserMsg(u), messages)' /\ (UserMsg(u) \in ToSet(messages') <=> UserMsg(u) \in ToSet(messages))
  BY <1>1, QuietKeeps DEF Tracked, Single
<1>3. UNCHANGED <<steerQ, followQ, pending, discarded, prompted, steered, followed>>
  BY DEF Quiet
<1>4. (pc' = "prompts") => pc = "prompts" /\ Unsent' = Unsent
  BY DEF Quiet, Unsent
<1>5. (pc = "prompts") => pc' = "prompts" /\ Unsent' = Unsent
  BY DEF Quiet, Unsent
<1>. QED
  BY <1>2, <1>3, <1>4, <1>5
     DEF Tracked, Accepted, Somewhere, Apart, Single, Steering, Following, Collected,
         Prompting, Heard, Given, Once, UserMsg

(* those that accept a message from the user,                              *)
LEMMA TrackedAccept ==
    ASSUME TypeOK, NEW u \in Users, Tracked(u),
           NEW v \in Users, Prompt(v) \/ Steer(v) \/ FollowUp(v)
    PROVE  Tracked(u)'
<1>0. /\ steerQ \in Seq(Users) /\ followQ \in Seq(Users)
      /\ steered \in Seq(Users) /\ followed \in Seq(Users)
  BY DEF TypeOK
<1>1. CASE Prompt(v)
  <2>1. pc = "idle" /\ v \in Fresh /\ prompted' = prompted \cup {v} /\ StartRun(<<UserMsg(v)>>, FALSE)
        /\ UNCHANGED <<steerQ, followQ, steered, followed, discarded>>
    BY <1>1 DEF Prompt
  <2>2. <<UserMsg(v)>> \in Seq(Message)
    BY UserMsgType
  <2>3. /\ pc' = "prompts" /\ messages' = messages /\ pending' = pending
        /\ Unsent' = <<UserMsg(v)>>
    BY <2>1, <2>2, StartsPrompts
  <2>4. Once(UserMsg(u), <<UserMsg(v)>>) /\ (UserMsg(u) \in ToSet(<<UserMsg(v)>>) <=> u = v)
    BY UserMsgInjective DEF Once, ToSet
  <2>5. v \notin prompted /\ v \notin ToSet(steered) /\ v \notin ToSet(followed)
    BY <2>1 DEF Fresh
  <2>. QED
    BY <2>1, <2>3, <2>4, <2>5
       DEF Tracked, Accepted, Somewhere, Apart, Single, Steering, Following, Collected,
           Prompting, Heard, Given, Once, UserMsg
<1>2. CASE Steer(v)
  <2>1. /\ v \in Fresh /\ steerQ' = Append(steerQ, v) /\ steered' = Append(steered, v)
        /\ UNCHANGED <<messages, followQ, pc, context, pending, prompted, followed, discarded>>
    BY <1>2 DEF Steer, loopVars
  <2>2. v \notin prompted /\ v \notin ToSet(steered) /\ v \notin ToSet(followed)
    BY <2>1 DEF Fresh
  <2>3. ToSet(steerQ') = ToSet(steerQ) \cup {v} /\ ToSet(steered') = ToSet(steered) \cup {v}
    BY <1>0, <2>1, ElementsAppend
  <2>4. u = v => ~Steering(u)
    BY <2>2 DEF Tracked, Accepted, Somewhere
  <2>5. Once(u, steerQ')
    BY <1>0, <2>1, <2>4, OnceAppend DEF Tracked, Single, Steering
  <2>6. Unsent' = Unsent
    BY <2>1 DEF Unsent
  <2>. QED
    BY <2>1, <2>2, <2>3, <2>4, <2>5, <2>6
       DEF Tracked, Accepted, Somewhere, Apart, Single, Steering, Following, Collected,
           Prompting, Heard, Given, Once, UserMsg
<1>3. CASE FollowUp(v)
  <2>1. /\ v \in Fresh /\ followQ' = Append(followQ, v) /\ followed' = Append(followed, v)
        /\ UNCHANGED <<messages, steerQ, pc, context, pending, prompted, steered, discarded>>
    BY <1>3 DEF FollowUp, loopVars
  <2>2. v \notin prompted /\ v \notin ToSet(steered) /\ v \notin ToSet(followed)
    BY <2>1 DEF Fresh
  <2>3. ToSet(followQ') = ToSet(followQ) \cup {v} /\ ToSet(followed') = ToSet(followed) \cup {v}
    BY <1>0, <2>1, ElementsAppend
  <2>4. u = v => ~Following(u)
    BY <2>2 DEF Tracked, Accepted, Somewhere
  <2>5. Once(u, followQ')
    BY <1>0, <2>1, <2>4, OnceAppend DEF Tracked, Single, Following
  <2>6. Unsent' = Unsent
    BY <2>1 DEF Unsent
  <2>. QED
    BY <2>1, <2>2, <2>3, <2>4, <2>5, <2>6
       DEF Tracked, Accepted, Somewhere, Apart, Single, Steering, Following, Collected,
           Prompting, Heard, Given, Once, UserMsg
<1>. QED BY <1>1, <1>2, <1>3

(* What is drained from a queue, made messages: the user's message is drained *)
(* or kept, once.                                                           *)
LEMMA DrainedMessages ==
    ASSUME NEW q \in Seq(Users), NEW mode, NEW u \in Users, Once(u, q)
    PROVE  /\ Once(UserMsg(u), UserMsgs(Drained(q, mode))) /\ Once(u, Kept(q, mode))
           /\ \/ /\ u \in ToSet(q) /\ UserMsg(u) \in ToSet(UserMsgs(Drained(q, mode)))
                 /\ u \notin ToSet(Kept(q, mode))
              \/ /\ u \in ToSet(q) /\ UserMsg(u) \notin ToSet(UserMsgs(Drained(q, mode)))
                 /\ u \in ToSet(Kept(q, mode))
              \/ /\ u \notin ToSet(q) /\ UserMsg(u) \notin ToSet(UserMsgs(Drained(q, mode)))
                 /\ u \notin ToSet(Kept(q, mode))
<1>1. Drained(q, mode) \in Seq(Users)
  BY DrainType
<1>. QED BY <1>1, DrainOnce, UserMsgsOnce

(* What a continuation prompts with: messages of one queue, or none.        *)
LEMMA Continues ==
    ASSUME TypeOK, NEW u \in Users, Tracked(u), ContinueRun
    PROVE  /\ pc = "idle" /\ pc' = "prompts"
           /\ UNCHANGED <<messages, pending, batch, call, prompted, steered, followed, discarded>>
           /\ Once(UserMsg(u), Unsent') /\ Once(u, steerQ') /\ Once(u, followQ')
           /\ Steering(u) \/ Following(u) <=>
                 u \in ToSet(steerQ') \/ u \in ToSet(followQ') \/ UserMsg(u) \in ToSet(Unsent')
           /\ u \in ToSet(steerQ') => Steering(u) /\ UserMsg(u) \notin ToSet(Unsent')
           /\ u \in ToSet(followQ') => Following(u) /\ UserMsg(u) \notin ToSet(Unsent')
<1>0. /\ steerQ \in Seq(Users) /\ followQ \in Seq(Users)
      /\ Once(u, steerQ) /\ Once(u, followQ)
  BY DEF TypeOK, Tracked, Single
<1>1. /\ pc = "idle" /\ UNCHANGED <<prompted, steered, followed, discarded>>
  BY DEF ContinueRun, historyVars
<1>. DEFINE S == UserMsgs(Drained(steerQ, SteeringMode))
            F == UserMsgs(Drained(followQ, FollowUpMode))
<1>2. S \in Seq(Message) /\ F \in Seq(Message) /\ <<>> \in Seq(Message)
  BY <1>0, DrainType, MessagesOf, Nil
<1>3. \/ /\ UNCHANGED <<steerQ, followQ>>
         /\ StartRun(<<>>, FALSE)
      \/ /\ steerQ' = Kept(steerQ, SteeringMode) /\ followQ' = followQ
         /\ StartRun(S, TRUE)
      \/ /\ followQ' = Kept(followQ, FollowUpMode) /\ steerQ' = steerQ
         /\ StartRun(F, FALSE)
  BY DEF ContinueRun
<1>4. /\ pc' = "prompts" /\ messages' = messages /\ pending' = pending
      /\ \/ UNCHANGED <<steerQ, followQ>> /\ Unsent' = <<>>
         \/ /\ steerQ' = Kept(steerQ, SteeringMode) /\ followQ' = followQ
            /\ Unsent' = S
         \/ /\ followQ' = Kept(followQ, FollowUpMode) /\ steerQ' = steerQ
            /\ Unsent' = F
  BY <1>2, <1>3, StartsPrompts
<1>5. Once(UserMsg(u), <<>>) /\ UserMsg(u) \notin ToSet(<<>>)
  BY ElementsNil DEF Once
<1>. HIDE DEF S, F
<1>6. /\ Once(UserMsg(u), S) /\ Once(u, Kept(steerQ, SteeringMode))
      /\ (u \in ToSet(steerQ)) <=> (UserMsg(u) \in ToSet(S) \/ u \in ToSet(Kept(steerQ, SteeringMode)))
      /\ UserMsg(u) \in ToSet(S) => u \notin ToSet(Kept(steerQ, SteeringMode))
  BY <1>0, DrainedMessages DEF S
<1>7. /\ Once(UserMsg(u), F) /\ Once(u, Kept(followQ, FollowUpMode))
      /\ (u \in ToSet(followQ)) <=> (UserMsg(u) \in ToSet(F) \/ u \in ToSet(Kept(followQ, FollowUpMode)))
      /\ UserMsg(u) \in ToSet(F) => u \notin ToSet(Kept(followQ, FollowUpMode))
  BY <1>0, DrainedMessages DEF F
<1>8. /\ Once(UserMsg(u), Unsent') /\ Once(u, steerQ') /\ Once(u, followQ')
      /\ Steering(u) \/ Following(u) <=>
            u \in ToSet(steerQ') \/ u \in ToSet(followQ') \/ UserMsg(u) \in ToSet(Unsent')
      /\ u \in ToSet(steerQ') => Steering(u) /\ UserMsg(u) \notin ToSet(Unsent')
      /\ u \in ToSet(followQ') => Following(u) /\ UserMsg(u) \notin ToSet(Unsent')
  BY <1>0, <1>4, <1>5, <1>6, <1>7 DEF Tracked, Apart, Steering, Following
<1>9. UNCHANGED <<batch, call>>
  BY <1>3 DEF StartRun
<1>. QED BY <1>1, <1>4, <1>8, <1>9

(* A continuation moves messages from a queue to the prompts.               *)
LEMMA TrackedContinue ==
    ASSUME TypeOK, NEW u \in Users, Tracked(u), ContinueRun
    PROVE  Tracked(u)'
BY Continues
   DEF Tracked, Accepted, Somewhere, Apart, Single, Steering, Following, Collected,
       Prompting, Heard, Given, Once, UserMsg

(* the event of a prompt,                                                  *)
LEMMA TrackedSend ==
    ASSUME TypeOK, PromptsInv, NEW u \in Users, Tracked(u), EmitPrompt
    PROVE  Tracked(u)'
<1>. DEFINE m == Head(Unsent)
<1>1. /\ pc = "prompts" /\ pc' = "prompts" /\ Unsent \in Seq(Message) /\ Unsent # <<>>
      /\ messages' = Append(messages, m) /\ Unsent' = Tail(Unsent)
      /\ UNCHANGED <<steerQ, followQ, pending, prompted, steered, followed, discarded>>
  BY EmitsPrompt DEF historyVars
<1>2. m \in Message /\ messages \in Seq(Message)
  BY <1>1, HeadTailProperties DEF TypeOK
<1>3. Once(UserMsg(u), Unsent) /\ Once(UserMsg(u), messages)
  BY <1>1 DEF Tracked, Single
<1>4. /\ Once(UserMsg(u), Unsent')
      /\ UserMsg(u) = m => UserMsg(u) \notin ToSet(Unsent')
      /\ ToSet(Unsent) = {m} \cup ToSet(Unsent')
  BY <1>1, <1>3, OnceTail, ElementsTail
<1>5. UserMsg(u) = m => UserMsg(u) \notin ToSet(messages)
  BY <1>1, <1>4 DEF Tracked, Apart, Prompting, Heard
<1>6. Once(UserMsg(u), messages') /\ ToSet(messages') = ToSet(messages) \cup {m}
  BY <1>1, <1>2, <1>3, <1>5, OnceAppend, ElementsAppend
<1>. HIDE DEF m
<1>. QED
  BY <1>1, <1>4, <1>6
     DEF Tracked, Accepted, Somewhere, Apart, Single, Steering, Following, Collected,
         Prompting, Heard, Given, Once, UserMsg

(* the injection of a collected message,                                   *)
LEMMA TrackedInject ==
    ASSUME TypeOK, NEW u \in Users, Tracked(u), Inject
    PROVE  Tracked(u)'
<1>. DEFINE m == Head(pending)
<1>1. /\ pc = "inject" /\ pc' # "prompts" /\ pending \in Seq(Message) /\ pending # <<>>
      /\ messages' = Append(messages, m) /\ pending' = Tail(pending)
      /\ UNCHANGED <<steerQ, followQ, prompted, steered, followed, discarded>>
  BY DEF Inject, historyVars, TypeOK
<1>2. m \in Message /\ messages \in Seq(Message)
  BY <1>1, HeadTailProperties DEF TypeOK
<1>3. Once(UserMsg(u), pending) /\ Once(UserMsg(u), messages)
  BY DEF Tracked, Single
<1>4. /\ Once(UserMsg(u), pending')
      /\ UserMsg(u) = m => UserMsg(u) \notin ToSet(pending')
      /\ ToSet(pending) = {m} \cup ToSet(pending')
  BY <1>1, <1>3, OnceTail, ElementsTail
<1>5. UserMsg(u) = m => UserMsg(u) \notin ToSet(messages)
  BY <1>4 DEF Tracked, Apart, Collected, Heard
<1>6. Once(UserMsg(u), messages') /\ ToSet(messages') = ToSet(messages) \cup {m}
  BY <1>1, <1>2, <1>3, <1>5, OnceAppend, ElementsAppend
<1>. HIDE DEF m
<1>. QED
  BY <1>1, <1>4, <1>6
     DEF Tracked, Accepted, Somewhere, Apart, Single, Steering, Following, Collected,
         Prompting, Heard, Given, Once, UserMsg

(* What a collection takes: finished results and steering messages, or else *)
(* follow-ups, for a message from each queue.                               *)
LEMMA Collects ==
    ASSUME TypeOK, ReportInv, PromptsInv, NEW u \in Users, Tracked(u), Collecting
    PROVE  /\ pending = <<>> /\ ~Prompting(u) /\ pc' # "prompts"
           /\ UNCHANGED <<messages, context, bg, batch, call, historyVars>>
           /\ Once(u, steerQ') /\ Once(u, followQ') /\ Once(UserMsg(u), pending')
           /\ Steering(u) \/ Following(u) <=>
                u \in ToSet(steerQ') \/ u \in ToSet(followQ') \/ UserMsg(u) \in ToSet(pending')
           /\ u \in ToSet(steerQ') => Steering(u) /\ UserMsg(u) \notin ToSet(pending')
           /\ u \in ToSet(followQ') => Following(u) /\ UserMsg(u) \notin ToSet(pending')
<1>. DEFINE polled == IF Poll THEN Drained(steerQ, SteeringMode) ELSE <<>>
            left == IF Poll THEN Kept(steerQ, SteeringMode) ELSE steerQ
            got == Backgrounds(results) \o UserMsgs(polled)
            F == UserMsgs(Drained(followQ, FollowUpMode))
            K == Kept(followQ, FollowUpMode)
<1>0. /\ steerQ \in Seq(Users) /\ followQ \in Seq(Users) /\ results \in Seq(BgCalls)
      /\ Once(u, steerQ) /\ Once(u, followQ)
  BY DEF TypeOK, Tracked, Single
<1>1. /\ steerQ' = left /\ pc' # "prompts"
      /\ UNCHANGED <<messages, context, bg, batch, call, historyVars>>
      /\ \/ pending' = got /\ followQ' = followQ
         \/ pending' = <<>> /\ got = <<>> /\ followQ' = followQ
         \/ pending' = F /\ got = <<>> /\ followQ' = K
  BY DEF Collecting, CollectThen
<1>2. pending = <<>>
  BY DEF Collecting, ReportInv
<1>3. ~Prompting(u)
  BY PromptsSent, ElementsNil DEF Collecting, Prompting
<1>4. /\ Once(UserMsg(u), UserMsgs(polled)) /\ Once(u, left)
      /\ (u \in ToSet(steerQ)) <=> (UserMsg(u) \in ToSet(UserMsgs(polled)) \/ u \in ToSet(left))
      /\ UserMsg(u) \in ToSet(UserMsgs(polled)) => u \notin ToSet(left)
      /\ UserMsgs(polled) \in Seq(Message)
  <2>1. CASE Poll
    BY <1>0, <2>1, DrainedMessages, DrainType, MessagesOf
  <2>2. CASE ~Poll
    <3>1. polled = <<>> /\ left = steerQ /\ polled \in Seq(Users)
      BY <2>2, Nil
    <3>2. Once(u, polled) /\ u \notin ToSet(polled)
      BY <3>1, ElementsNil DEF Once
    <3>. QED BY <1>0, <3>1, <3>2, UserMsgsOnce, MessagesOf
  <2>. QED BY <2>1, <2>2
<1>5. /\ Once(UserMsg(u), F) /\ Once(u, K)
      /\ (u \in ToSet(followQ)) <=> (UserMsg(u) \in ToSet(F) \/ u \in ToSet(K))
      /\ UserMsg(u) \in ToSet(F) => u \notin ToSet(K)
  BY <1>0, DrainedMessages
<1>6. /\ Once(UserMsg(u), got)
      /\ (UserMsg(u) \in ToSet(got)) <=> (UserMsg(u) \in ToSet(UserMsgs(polled)))
  <2>1. Backgrounds(results) \in Seq(Message) /\ UserMsg(u) \notin ToSet(Backgrounds(results))
    BY <1>0, MessagesOf, KindsApart
  <2>2. Once(UserMsg(u), Backgrounds(results))
    BY <2>1 DEF Once, ToSet
  <2>. QED BY <1>4, <2>1, <2>2, OnceConcat, ElementsConcat
<1>7. Once(UserMsg(u), <<>>) /\ UserMsg(u) \notin ToSet(<<>>)
  BY ElementsNil DEF Once
<1>8. u \in ToSet(steerQ) => u \notin ToSet(followQ)
  BY DEF Tracked, Apart, Steering, Following
<1>. HIDE DEF polled, left, got, F, K
<1>. QED
  BY <1>0, <1>1, <1>2, <1>3, <1>4, <1>5, <1>6, <1>7, <1>8 DEF Steering, Following

(* the collection of what is queued,                                       *)
LEMMA TrackedCollect ==
    ASSUME TypeOK, ReportInv, PromptsInv, NEW u \in Users, Tracked(u), Collecting
    PROVE  Tracked(u)'
BY Collects, ElementsNil
   DEF Tracked, Accepted, Somewhere, Apart, Single, Steering, Following, Collected,
       Prompting, Heard, Given, Once, UserMsg, historyVars

(* the failure of a run, which gives up what it had collected,             *)
LEMMA TrackedFailure ==
    ASSUME TypeOK, PromptsInv, NEW u \in Users, Tracked(u), RunFails
    PROVE  Tracked(u)'
<1>1. /\ pc # "failed" /\ pc' = "failed" /\ pending' = <<>>
      /\ UNCHANGED <<steerQ, followQ, prompted, steered, followed>>
      /\ u \in discarded' <=> \/ u \in discarded
                              \/ UserMsg(u) \in ToSet(pending)
                              \/ UserMsg(u) \in ToSet(context) /\ UserMsg(u) \notin ToSet(messages)
  BY DEF RunFails
<1>2. /\ Once(UserMsg(u), messages')
      /\ UserMsg(u) \in ToSet(messages') <=> UserMsg(u) \in ToSet(messages)
  <2>1. messages \in Seq(Message) /\ Failure \in Message /\ Failure # UserMsg(u)
    BY MessageTypes DEF TypeOK, Failure, UserMsg
  <2>2. messages' = messages \/ messages' = Append(messages, Failure)
    BY DEF RunFails
  <2>3. Once(UserMsg(u), messages)
    BY DEF Tracked, Single
  <2>4. CASE messages' = messages
    BY <2>3, <2>4
  <2>5. CASE messages' = Append(messages, Failure)
    BY <2>1, <2>3, <2>5, OnceAppend, ElementsAppend
  <2>. QED BY <2>2, <2>4, <2>5
<1>3. Prompting(u) => UserMsg(u) \in ToSet(context) /\ UserMsg(u) \notin ToSet(messages)
  <2>. SUFFICES ASSUME Prompting(u)
                PROVE  UserMsg(u) \in ToSet(context) /\ UserMsg(u) \notin ToSet(messages)
    OBVIOUS
  <2>1. /\ context = messages \o Unsent /\ messages \in Seq(Message) /\ Unsent \in Seq(Message)
        /\ UserMsg(u) \in ToSet(Unsent)
    BY DEF Prompting, PromptsInv, TypeOK, Unsent
  <2>2. UserMsg(u) \in ToSet(context)
    BY <2>1, ElementsConcat
  <2>. QED BY <2>2 DEF Tracked, Apart, Prompting, Heard
<1>4. UserMsg(u) \in ToSet(context) => Heard(u) \/ Prompting(u)
  BY <1>1 DEF PromptsInv
<1>5. Once(UserMsg(u), <<>>) /\ UserMsg(u) \notin ToSet(<<>>)
  BY ElementsNil DEF Once
<1>. QED
  BY <1>1, <1>2, <1>3, <1>4, <1>5
     DEF Tracked, Accepted, Somewhere, Apart, Single, Steering, Following, Collected,
         Prompting, Heard, Given, Once, UserMsg

(* and clear_all_queues, which gives up what is queued.                    *)
LEMMA TrackedClear ==
    ASSUME TypeOK, NEW u \in Users, Tracked(u), ClearQueues
    PROVE  Tracked(u)'
<1>1. /\ steerQ' = <<>> /\ followQ' = <<>>
      /\ discarded' = discarded \cup ToSet(steerQ) \cup ToSet(followQ)
      /\ UNCHANGED <<messages, pc, context, pending, prompted, steered, followed>>
  BY DEF ClearQueues, loopVars
<1>2. Unsent' = Unsent
  BY <1>1 DEF Unsent
<1>. QED
  BY <1>1, <1>2, ElementsNil
     DEF Tracked, Accepted, Somewhere, Apart, Single, Steering, Following, Collected,
         Prompting, Heard, Given, Once, UserMsg

(* Every step keeps every user's message in one place.                      *)
LEMMA UserInductive ==
    TypeOK /\ ReportInv /\ PromptsInv /\ UserInv /\ [Next]_vars => UserInv'
<1>. SUFFICES ASSUME TypeOK, ReportInv, PromptsInv, UserInv, [Next]_vars, NEW u \in Users
              PROVE  Tracked(u)'
  BY DEF UserInv
<1>1. Tracked(u)
  BY DEF UserInv
<1>. QED BY <1>1, StepKinds, TrackedQuiet, TrackedAccept, TrackedContinue, TrackedClear,
            TrackedSend, TrackedCollect, TrackedInject, TrackedFailure

-----------------------------------------------------------------------------
(* What a continuation takes from a queue, and so every prompt, is a user's *)
(* message.                                                                 *)
LEMMA PromptsAreUsers ==
    ASSUME TypeOK, ContinueRun
    PROVE  \E p \in Seq(Message), skip \in BOOLEAN :
              StartRun(p, skip) /\ ToSet(p) \subseteq {UserMsg(u) : u \in Users}
<1>. DEFINE S == UserMsgs(Drained(steerQ, SteeringMode))
            F == UserMsgs(Drained(followQ, FollowUpMode))
<1>1. /\ S \in Seq(Message) /\ F \in Seq(Message) /\ <<>> \in Seq(Message)
      /\ ToSet(S) \subseteq {UserMsg(u) : u \in Users}
      /\ ToSet(F) \subseteq {UserMsg(u) : u \in Users}
      /\ ToSet(<<>>) = {}
  BY DrainType, MessagesOf, Nil, KindsApart, ElementsNil DEF TypeOK
<1>2. \/ StartRun(<<>>, FALSE) \/ StartRun(S, TRUE) \/ StartRun(F, FALSE)
  BY DEF ContinueRun
<1>. HIDE DEF S, F
<1>3. /\ TRUE \in BOOLEAN /\ FALSE \in BOOLEAN
  OBVIOUS
<1>4. CASE StartRun(<<>>, FALSE)
  BY <1>1, <1>3, <1>4
<1>5. CASE StartRun(S, TRUE)
  BY <1>1, <1>3, <1>5
<1>6. CASE StartRun(F, FALSE)
  BY <1>1, <1>3, <1>6
<1>. QED BY <1>2, <1>4, <1>5, <1>6

(* A run starts with context, transcript and prompts in step.               *)
LEMMA PromptsAtStart ==
    ASSUME TypeOK, PromptsInv, NEW p \in Seq(Message), NEW skip, StartRun(p, skip),
           ToSet(p) \subseteq {UserMsg(u) : u \in Users}
    PROVE  PromptsInv'
<1>1. /\ pc' = "prompts" /\ messages' = messages /\ pending' = pending
      /\ Unsent' = p /\ context' = messages' \o Unsent'
  BY StartsPrompts
<1>2. messages \in Seq(Message)
  BY DEF TypeOK
<1>3. ToSet(context') = ToSet(messages') \cup ToSet(Unsent')
  BY <1>1, <1>2, ElementsConcat
<1>. QED BY <1>1, <1>3 DEF PromptsInv, Heard, Prompting, UserMsg, Background

(* What is collected is users' messages and reports.                        *)
LEMMA CollectKinds ==
    ASSUME TypeOK, Collecting
    PROVE  ToSet(pending') \subseteq {UserMsg(u) : u \in Users} \cup {Background(c) : c \in BgCalls}
<1>. DEFINE polled == IF Poll THEN Drained(steerQ, SteeringMode) ELSE <<>>
            F == UserMsgs(Drained(followQ, FollowUpMode))
<1>1. /\ polled \in Seq(Users) /\ Drained(followQ, FollowUpMode) \in Seq(Users)
      /\ results \in Seq(BgCalls)
  BY DrainType, Nil DEF TypeOK
<1>2. /\ Backgrounds(results) \in Seq(Message) /\ UserMsgs(polled) \in Seq(Message)
      /\ ToSet(Backgrounds(results)) \subseteq {Background(c) : c \in BgCalls}
      /\ ToSet(UserMsgs(polled)) \subseteq {UserMsg(u) : u \in Users}
      /\ ToSet(F) \subseteq {UserMsg(u) : u \in Users}
  BY <1>1, MessagesOf, KindsApart
<1>3. ToSet(Backgrounds(results) \o UserMsgs(polled))
         \subseteq {UserMsg(u) : u \in Users} \cup {Background(c) : c \in BgCalls}
  BY <1>2, ElementsConcat
<1>4. \/ pending' = Backgrounds(results) \o UserMsgs(polled)
      \/ pending' = <<>>
      \/ pending' = F
  BY DEF Collecting, CollectThen
<1>. HIDE DEF polled, F
<1>. QED BY <1>2, <1>3, <1>4, ElementsNil

(* Every step keeps what the loop works on in step with the transcript: the *)
(* prompts not sent are the end of its context, and no user's message is in *)
(* the context but those heard and the prompts to come.                     *)
LEMMA PromptsInductive ==
    TypeOK /\ ReportInv /\ PromptsInv /\ [Next]_vars => PromptsInv'
<1>. SUFFICES ASSUME TypeOK, ReportInv, PromptsInv, [Next]_vars PROVE PromptsInv'
  OBVIOUS
<1>0. /\ messages \in Seq(Message) /\ context \in Seq(Message) /\ pending \in Seq(Message)
  BY DEF TypeOK
<1>1. CASE Quiet
  <2>1. CASE UNCHANGED <<messages, context, pc>>
    BY <1>1, <2>1 DEF Quiet, PromptsInv, Unsent, Heard, Prompting, UserMsg, Background
  <2>2. CASE ~UNCHANGED <<messages, context, pc>>
    <3>1. /\ pending' = pending /\ pc # "prompts" /\ pc' # "prompts"
          /\ \/ messages' = messages
             \/ \E m \in Message : messages' = Append(messages, m)
          /\ \/ context' = <<>>
             \/ /\ pc # "failed"
                /\ \A u \in Users : UserMsg(u) \in ToSet(context') => UserMsg(u) \in ToSet(context)
      BY <1>1, <2>2 DEF Quiet
    <3>2. ToSet(messages) \subseteq ToSet(messages')
      <4>1. \A m \in Message : ToSet(Append(messages, m)) = ToSet(messages) \cup {m}
        BY <1>0, ElementsAppend
      <4>. QED BY <3>1, <4>1
    <3>3. ASSUME NEW u \in Users, UserMsg(u) \in ToSet(context')
          PROVE  UserMsg(u) \in ToSet(messages')
      BY <3>1, <3>2, <3>3, ElementsNil DEF PromptsInv, Heard, Prompting
    <3>. QED BY <3>1, <3>3 DEF PromptsInv, Heard, UserMsg, Background
  <2>. QED BY <2>1, <2>2
<1>2. ASSUME NEW u \in Users, Prompt(u) \/ Steer(u) \/ FollowUp(u) PROVE PromptsInv'
  <2>1. CASE Prompt(u)
    <3>1. <<UserMsg(u)>> \in Seq(Message) /\ ToSet(<<UserMsg(u)>>) \subseteq {UserMsg(v) : v \in Users}
      BY UserMsgType DEF ToSet
    <3>. QED BY <2>1, <3>1, PromptsAtStart DEF Prompt
  <2>2. CASE Steer(u) \/ FollowUp(u)
    BY <2>2 DEF Steer, FollowUp, loopVars, PromptsInv, Unsent, Heard, Prompting, UserMsg, Background
  <2>. QED BY <1>2, <2>1, <2>2
<1>3. CASE ContinueRun
  BY <1>3, PromptsAreUsers, PromptsAtStart
<1>4. CASE ClearQueues
  BY <1>4 DEF ClearQueues, loopVars, PromptsInv, Unsent, Heard, Prompting, UserMsg, Background
<1>5. CASE EmitPrompt
  <2>1. /\ pc = "prompts" /\ pc' = "prompts" /\ Unsent \in Seq(Message) /\ Unsent # <<>>
        /\ messages' = Append(messages, Head(Unsent)) /\ Unsent' = Tail(Unsent)
        /\ context' = context /\ context' = messages' \o Unsent' /\ pending' = pending
    BY <1>5, EmitsPrompt
  <2>2. Head(Unsent) \in Message /\ ToSet(Unsent) = {Head(Unsent)} \cup ToSet(Unsent')
    BY <2>1, ElementsTail, HeadTailProperties
  <2>3. ToSet(messages') = ToSet(messages) \cup {Head(Unsent)}
    BY <1>0, <2>1, <2>2, ElementsAppend
  <2>4. ToSet(Unsent') \subseteq {UserMsg(u) : u \in Users}
    BY <2>1, <2>2 DEF PromptsInv
  <2>. HIDE DEF Unsent
  <2>. QED BY <2>1, <2>2, <2>3, <2>4 DEF PromptsInv, Heard, Prompting, UserMsg, Background
<1>6. CASE Collecting
  <2>1. /\ pc \in {"prompts", "turnEnd", "wait"} /\ pc' # "prompts"
        /\ UNCHANGED <<messages, context>>
    BY <1>6 DEF Collecting, CollectThen
  <2>2. ~(pc = "prompts" /\ context # messages)
    BY <1>6, PromptsSent DEF Collecting
  <2>3. \A u \in Users : UserMsg(u) \in ToSet(context) => UserMsg(u) \in ToSet(messages)
    BY <2>1, <2>2 DEF PromptsInv, Heard, Prompting
  <2>4. ToSet(pending') \subseteq {UserMsg(u) : u \in Users} \cup {Background(c) : c \in BgCalls}
    BY <1>6, CollectKinds
  <2>. QED BY <2>1, <2>3, <2>4 DEF PromptsInv, Heard, UserMsg, Background
<1>7. CASE Inject
  <2>1. /\ pc = "inject" /\ pc' # "prompts" /\ pending # <<>> /\ pending' = Tail(pending)
        /\ messages' = Append(messages, Head(pending)) /\ context' = Append(context, Head(pending))
    BY <1>7 DEF Inject
  <2>2. Head(pending) \in Message /\ ToSet(pending) = {Head(pending)} \cup ToSet(pending')
    BY <1>0, <2>1, ElementsTail, HeadTailProperties
  <2>3. /\ ToSet(messages') = ToSet(messages) \cup {Head(pending)}
        /\ ToSet(context') = ToSet(context) \cup {Head(pending)}
    BY <1>0, <2>1, <2>2, ElementsAppend
  <2>. QED BY <2>1, <2>2, <2>3 DEF PromptsInv, Heard, Prompting, UserMsg, Background
<1>8. CASE RunFails
  <2>1. pc' = "failed" /\ pending' = <<>>
    BY <1>8 DEF RunFails
  <2>. QED BY <2>1, ElementsNil DEF PromptsInv
<1>. QED BY StepKinds, <1>1, <1>2, <1>3, <1>4, <1>5, <1>6, <1>7, <1>8

-----------------------------------------------------------------------------
(* A background result is in one place.                                     *)
(* A step that leaves the call, its task and its report where they are.     *)
LEMMA ReportedStill ==
    ASSUME TypeOK, NEW c \in BgCalls, Reported(c),
           UNCHANGED <<results, pending>>, bg'[c] = bg[c],
           bg[c] # "none" => call'[c] = call[c],
           \/ messages' = messages
           \/ \E m \in Message : m.role # "background" /\ messages' = Append(messages, m)
    PROVE  Reported(c)'
<1>1. messages \in Seq(Message)
  BY DEF TypeOK
<1>2. Once(Background(c), messages)
  BY DEF Reported
<1>3. /\ Once(Background(c), messages')
      /\ Background(c) \in ToSet(messages') <=> Background(c) \in ToSet(messages)
      /\ ToSet(messages) \subseteq ToSet(messages')
  <2>1. CASE messages' = messages
    BY <1>2, <2>1
  <2>2. ASSUME NEW m \in Message, m.role # "background", messages' = Append(messages, m)
        PROVE  /\ Once(Background(c), messages')
               /\ ToSet(messages') = ToSet(messages) \cup {m} /\ Background(c) # m
    <3>1. Background(c) # m
      BY <2>2 DEF Background
    <3>. QED BY <1>1, <1>2, <2>2, <3>1, OnceAppend, ElementsAppend
  <2>. QED BY <2>1, <2>2
<1>. QED BY <1>3 DEF Reported, Held, Due, Told, Once, Background, Result

(* A collection makes the finished results due.                             *)
LEMMA ReportedCollect ==
    ASSUME TypeOK, ReportInv, NEW c \in BgCalls, Reported(c), Collecting
    PROVE  Reported(c)'
<1>. DEFINE polled == IF Poll THEN Drained(steerQ, SteeringMode) ELSE <<>>
            got == Backgrounds(results) \o UserMsgs(polled)
            F == UserMsgs(Drained(followQ, FollowUpMode))
<1>1. /\ polled \in Seq(Users) /\ Drained(followQ, FollowUpMode) \in Seq(Users)
      /\ results \in Seq(BgCalls) /\ Once(c, results)
  BY DrainType, Nil DEF TypeOK, Reported
<1>2. /\ Backgrounds(results) \in Seq(Message) /\ UserMsgs(polled) \in Seq(Message)
      /\ Background(c) \notin ToSet(UserMsgs(polled)) /\ Background(c) \notin ToSet(F)
  BY <1>1, MessagesOf, KindsApart
<1>3. /\ Once(Background(c), Backgrounds(results))
      /\ Background(c) \in ToSet(Backgrounds(results)) <=> c \in ToSet(results)
  BY <1>1, BackgroundsOnce
<1>4. Once(Background(c), UserMsgs(polled)) /\ Once(Background(c), F)
  BY <1>2 DEF Once, ToSet
<1>5. /\ Once(Background(c), got)
      /\ Background(c) \in ToSet(got) <=> c \in ToSet(results)
  BY <1>2, <1>3, <1>4, OnceConcat, ElementsConcat
<1>6. /\ results' = <<>> /\ UNCHANGED <<messages, bg, call>>
      /\ \/ pending' = got
         \/ pending' = <<>> /\ got = <<>>
         \/ pending' = F /\ got = <<>>
  BY DEF Collecting, CollectThen
<1>7. pending = <<>>
  BY DEF Collecting, ReportInv
<1>8. Once(Background(c), <<>>) /\ Once(c, <<>>) /\ ToSet(<<>>) = {}
  BY ElementsNil DEF Once
<1>. HIDE DEF polled, got, F
<1>9. /\ Once(Background(c), pending')
      /\ Background(c) \in ToSet(pending') <=> c \in ToSet(results)
  BY <1>2, <1>4, <1>5, <1>6, <1>8
<1>. QED BY <1>6, <1>8, <1>9 DEF Reported, Held, Due, Told, Once, Background, Result

(* An injection tells what was due.                                         *)
LEMMA ReportedInject ==
    ASSUME TypeOK, NEW c \in BgCalls, Reported(c), Inject
    PROVE  Reported(c)'
<1>. DEFINE m == Head(pending)
<1>1. /\ pending \in Seq(Message) /\ messages \in Seq(Message) /\ pending # <<>>
      /\ messages' = Append(messages, m) /\ pending' = Tail(pending)
      /\ UNCHANGED <<results, bg, call>>
  BY DEF Inject, TypeOK, bgVars
<1>2. m \in Message
  BY <1>1, HeadTailProperties
<1>3. Once(Background(c), pending) /\ Once(Background(c), messages)
  BY DEF Reported
<1>4. /\ Once(Background(c), pending')
      /\ Background(c) = m => Background(c) \notin ToSet(pending')
      /\ ToSet(pending) = {m} \cup ToSet(pending')
  BY <1>1, <1>3, OnceTail, ElementsTail
<1>5. Background(c) = m => Background(c) \notin ToSet(messages)
  BY <1>4 DEF Reported, Due, Told
<1>6. Once(Background(c), messages') /\ ToSet(messages') = ToSet(messages) \cup {m}
  BY <1>1, <1>2, <1>3, <1>5, OnceAppend, ElementsAppend
<1>. HIDE DEF m
<1>. QED BY <1>1, <1>4, <1>6 DEF Reported, Held, Due, Told, Once, Background, Result

(* A call that is not answered has no task, and one that is keeps its       *)
(* answer; the placeholder of a detached call comes with its task.          *)
LEMMA ReportedCall ==
    ASSUME TypeOK, NEW c \in BgCalls, Reported(c), NEW d \in Calls, CallStep(d)
    PROVE  Reported(c)'
<1>0. /\ Result(d) \in Message /\ Result(d).role = "toolResult"
      /\ call \in [Calls -> States] /\ bg \in [BgCalls -> {"none", "running", "resulted", "settled", "abandoned"}]
      /\ c \in Calls /\ c \notin FgCalls /\ messages \in Seq(Message)
  BY MessageTypes, CallsAssumption DEF TypeOK, Result, Calls
<1>1. /\ UNCHANGED <<results, pending>> /\ call[d] # "answered"
      /\ messages' = messages \/ messages' = Append(messages, Result(d))
      /\ call' = [call EXCEPT ![d] = call'[d]]
  BY <1>0 DEF CallStep, StartCall, RejectCall, DetachCall, PrepareCall, FinishCall,
         AnswerCall, EndCall, agentVars, bgVars
<1>2. CASE DetachCall(d) /\ d = c
  <2>1. /\ bg[c] = "none" /\ bg'[c] = "running" /\ call'[c] = "answered"
        /\ messages' = Append(messages, Result(c))
    BY <1>0, <1>1, <1>2 DEF DetachCall, EndCall, Reported
  <2>2. ToSet(messages') = ToSet(messages) \cup {Result(c)}
    BY <1>0, <1>2, <2>1, ElementsAppend
  <2>3. Background(c) # Result(c)
    BY DEF Background, Result
  <2>4. Once(Background(c), messages')
    BY <1>0, <1>2, <2>1, <2>3, OnceAppend DEF Reported
  <2>. QED
    BY <1>1, <2>1, <2>2, <2>3, <2>4 DEF Reported, Held, Due, Told, Once, Background, Result
<1>3. CASE ~(DetachCall(d) /\ d = c)
  <2>1. bg'[c] = bg[c]
    BY <1>0, <1>3 DEF CallStep, StartCall, RejectCall, DetachCall, PrepareCall, FinishCall,
           AnswerCall, EndCall, agentVars, bgVars
  <2>2. bg[c] # "none" => call'[c] = call[c]
    BY <1>0, <1>1 DEF Reported
  <2>. QED BY <1>0, <1>1, <2>1, <2>2, ReportedStill
<1>. QED BY <1>2, <1>3

(* The end of a task finishes a result, once.                               *)
LEMMA ReportedTask ==
    ASSUME TypeOK, NEW c \in BgCalls, Reported(c),
           NEW d \in BgCalls, TaskEnds(d) \/ TaskSettles(d)
    PROVE  Reported(c)'
<1>0. /\ bg \in [BgCalls -> {"none", "running", "resulted", "settled", "abandoned"}]
      /\ results \in Seq(BgCalls)
  BY DEF TypeOK
<1>1. UNCHANGED <<messages, pending, call>>
  BY DEF TaskEnds, TaskSettles, agentVars, loopVars
<1>2. CASE d = c /\ TaskEnds(d)
  <2>1. bg[c] = "running" /\ bg'[c] = "resulted" /\ results' = Append(results, c)
    BY <1>0, <1>2 DEF TaskEnds
  <2>2. c \notin ToSet(results) /\ Once(c, results)
    BY <2>1 DEF Reported, Held
  <2>3. Once(c, results') /\ ToSet(results') = ToSet(results) \cup {c}
    BY <1>0, <2>1, <2>2, OnceAppend, ElementsAppend
  <2>. QED BY <1>1, <2>1, <2>3 DEF Reported, Held, Due, Told, Once, Background, Result
<1>3. CASE d # c /\ TaskEnds(d)
  <2>1. bg'[c] = bg[c] /\ results' = Append(results, d)
    BY <1>0, <1>3 DEF TaskEnds
  <2>2. Once(c, results') /\ ToSet(results') = ToSet(results) \cup {d}
    BY <1>0, <1>3, <2>1, OnceAppend, ElementsAppend DEF Reported
  <2>. QED BY <1>1, <1>3, <2>1, <2>2 DEF Reported, Held, Due, Told, Once, Background, Result
<1>4. CASE TaskSettles(d)
  <2>1. results' = results /\ bg[c] = "none" <=> bg'[c] = "none"
    BY <1>0, <1>4 DEF TaskSettles
  <2>2. bg[c] = "running" <=> bg'[c] = "running"
    BY <1>0, <1>4 DEF TaskSettles
  <2>. QED BY <1>1, <1>4, <2>1, <2>2
           DEF TaskSettles, Reported, Held, Due, Told, Once, Background, Result
<1>. QED BY <1>2, <1>3, <1>4

(* A run that fails or ends drops results, and makes no report.             *)
LEMMA ReportedEnd ==
    ASSUME TypeOK, ReportInv, NEW c \in BgCalls, Reported(c), RunFails \/ FinishRun
    PROVE  Reported(c)'
<1>0. /\ messages \in Seq(Message) /\ Failure \in Message /\ Failure # Background(c)
      /\ call \in [Calls -> States] /\ c \in Calls
      /\ Once(Background(c), messages)
  BY MessageTypes DEF TypeOK, Failure, Background, Calls, Reported
<1>1. CASE RunFails
  <2>1. /\ pending' = <<>> /\ UNCHANGED <<results, bg>>
        /\ messages' = messages \/ messages' = Append(messages, Failure)
    BY <1>1 DEF RunFails, bgVars
  <2>2. call[c] = "answered" => call'[c] = "answered"
    BY <1>0, <1>1 DEF RunFails
  <2>3. /\ Once(Background(c), messages')
        /\ Background(c) \in ToSet(messages') <=> Background(c) \in ToSet(messages)
        /\ ToSet(messages) \subseteq ToSet(messages')
    <3>1. CASE messages' = messages
      BY <1>0, <3>1
    <3>2. CASE messages' = Append(messages, Failure)
      <4>1. ToSet(messages') = ToSet(messages) \cup {Failure} /\ Once(Background(c), messages')
        BY <1>0, <3>2, OnceAppend, ElementsAppend
      <4>. QED BY <1>0, <4>1
    <3>. QED BY <2>1, <3>1, <3>2
  <2>4. Once(Background(c), <<>>) /\ Background(c) \notin ToSet(<<>>)
    BY ElementsNil DEF Once
  <2>. QED BY <2>1, <2>2, <2>3, <2>4 DEF Reported, Held, Due, Told, Once, Background, Result
<1>2. CASE FinishRun
  <2>1. /\ pending = <<>> /\ pending' = <<>> /\ results' = <<>> /\ UNCHANGED <<messages, call>>
    BY <1>2 DEF FinishRun, ReportInv
  <2>2. bg'[c] # "running" /\ (bg'[c] = "none" <=> bg[c] = "none")
    <3>1. bg'[c] = CASE bg[c] = "none" -> "none"
                     [] Background(c) \in ToSet(messages) -> "settled"
                     [] OTHER -> "abandoned"
      BY <1>2 DEF FinishRun
    <3>. HIDE DEF Background
    <3>2. CASE bg[c] = "none"
      <4>1. Background(c) \notin ToSet(messages)
        BY <3>2 DEF Reported, Told
      <4>. QED BY <3>1, <3>2, <4>1
    <3>3. CASE bg[c] # "none"
      BY <3>1, <3>3
    <3>. QED BY <3>2, <3>3
  <2>3. Once(c, <<>>) /\ ToSet(<<>>) = {}
    BY ElementsNil DEF Once
  <2>. QED BY <2>1, <2>2, <2>3 DEF Reported, Held, Due, Told, Once, Background, Result
<1>. QED BY <1>1, <1>2

(* Every step keeps every background result in one place, behind the answer *)
(* of its call.                                                             *)
LEMMA ResultsInductive ==
    TypeOK /\ ReportInv /\ PromptsInv /\ ResultsInv /\ [Next]_vars => ResultsInv'
<1>. SUFFICES ASSUME TypeOK, ReportInv, PromptsInv, ResultsInv, [Next]_vars, NEW c \in BgCalls
              PROVE  Reported(c)'
  BY DEF ResultsInv
<1>0. /\ Reported(c)
      /\ Failure \in Message /\ Failure.role = "failure"
      /\ \A s \in Batches : Response(s) \in Message /\ Response(s).role = "assistant"
      /\ c \in Calls
  BY BatchType, MessageTypes DEF Failure, Response, ResultsInv, Calls
<1>1. ASSUME NEW u \in Users, Prompt(u) \/ Steer(u) \/ FollowUp(u) PROVE Reported(c)'
  <2>1. UNCHANGED <<messages, results, pending, bg, call>>
    BY <1>1 DEF Prompt, StartRun, Steer, FollowUp, loopVars, bgVars
  <2>. QED BY <1>0, <2>1, ReportedStill
<1>2. CASE ContinueRun \/ ClearQueues \/ Abort
  <2>1. UNCHANGED <<messages, results, pending, bg, call>>
    BY <1>2 DEF ContinueRun, StartRun, ClearQueues, Abort, loopVars, bgVars
  <2>. QED BY <1>0, <2>1, ReportedStill
<1>3. CASE EmitPrompt
  <2>1. /\ pc = "prompts" /\ Unsent \in Seq(Message) /\ Unsent # <<>>
        /\ messages' = Append(messages, Head(Unsent))
        /\ UNCHANGED <<results, bg, pending, call>>
    BY <1>3, EmitsPrompt DEF bgVars
  <2>2. Head(Unsent) \in Message /\ Head(Unsent) \in ToSet(Unsent)
    BY <2>1, ElementsTail, HeadTailProperties
  <2>3. Head(Unsent).role = "user"
    BY <2>1, <2>2, UserMsgType DEF PromptsInv
  <2>. QED BY <1>0, <2>1, <2>2, <2>3, ReportedStill
<1>4. CASE FirstCollect \/ EndTurn \/ Woken
  <2>1. Collecting
    BY <1>4 DEF FirstCollect, EndTurn, Woken, Collecting, TypeOK
  <2>. QED BY <1>0, <2>1, ReportedCollect
<1>5. CASE Inject
  BY <1>0, <1>5, ReportedInject
<1>6. CASE StreamStops
  BY <1>0, <1>6, ReportedStill DEF StreamStops, bgVars
<1>7. ASSUME NEW s \in Batches, StreamDone(s) PROVE Reported(c)'
  <2>1. /\ UNCHANGED <<results, pending, bg>> /\ messages' = Append(messages, Response(s))
        /\ call'[c] = IF c \in ToSet(s) THEN "queued" ELSE call[c]
        /\ \A i \in DOMAIN s : call[s[i]] = "new"
    BY <1>0, <1>7 DEF StreamDone, bgVars
  <2>2. c \in ToSet(s) => call[c] = "new"
    BY <2>1 DEF ToSet
  <2>3. bg[c] # "none" => call'[c] = call[c]
    BY <1>0, <2>1, <2>2 DEF Reported
  <2>4. Response(s).role # "background" /\ Response(s) \in Message
    BY <1>0
  <2>. QED BY <1>0, <2>1, <2>3, <2>4, ReportedStill
<1>8. CASE \E d \in Calls : CallStep(d)
  BY <1>0, <1>8, ReportedCall
<1>9. CASE EndBatch
  <2>1. UNCHANGED <<messages, results, pending, bg, call>>
    BY <1>9 DEF EndBatch, agentVars, bgVars
  <2>. QED BY <1>0, <2>1, ReportedStill
<1>10. CASE RunFails \/ FinishRun
  BY <1>0, <1>10, ReportedEnd
<1>11. CASE TaskStep
  BY <1>0, <1>11, ReportedTask DEF TaskStep
<1>12. CASE UNCHANGED vars
  <2>1. UNCHANGED <<messages, results, pending, bg, call>>
    BY <1>12 DEF vars, agentVars, loopVars, bgVars
  <2>. QED BY <1>0, <2>1, ReportedStill
<1>. QED BY <1>1, <1>2, <1>3, <1>4, <1>5, <1>6, <1>7, <1>8, <1>9, <1>10, <1>11, <1>12
         DEF Next, Callers, RunStep

-----------------------------------------------------------------------------
(* The inductive invariant of the messages.                                 *)
MessageInv == IInv /\ PromptsInv /\ UserInv /\ ResultsInv

(* The invariant holds at first, and every step keeps it.                   *)
LEMMA MessageInit == Init => MessageInv
<1>. SUFFICES ASSUME Init PROVE MessageInv
  OBVIOUS
<1>1. IInv
  <2>1. TypeOK
    BY Nil DEF Init, TypeOK, States
  <2>2. BatchInv /\ ReportInv
    BY ElementsNil DEF Init, BatchInv, PendingCallsExact, Batch, ReportInv
  <2>. QED BY <2>1, <2>2 DEF IInv
<1>2. /\ pc = "idle" /\ messages = <<>> /\ steerQ = <<>> /\ followQ = <<>> /\ pending = <<>>
      /\ context = <<>> /\ results = <<>> /\ discarded = {} /\ prompted = {}
      /\ steered = <<>> /\ followed = <<>> /\ bg = [c \in BgCalls |-> "none"]
  BY DEF Init
<1>3. ToSet(<<>>) = {} /\ \A m : Once(m, <<>>)
  BY ElementsNil DEF Once
<1>4. PromptsInv
  BY <1>2, <1>3 DEF PromptsInv
<1>5. ASSUME NEW u \in Users PROVE Tracked(u)
  BY <1>2, <1>3 DEF Tracked, Accepted, Somewhere, Apart, Single, Steering, Following,
                    Collected, Prompting, Heard, Given
<1>6. ASSUME NEW c \in BgCalls PROVE Reported(c)
  BY <1>2, <1>3 DEF Reported, Held, Due, Told
<1>. QED BY <1>1, <1>4, <1>5, <1>6 DEF MessageInv, UserInv, ResultsInv

LEMMA MessageInductive == MessageInv /\ [Next]_vars => MessageInv'
<1>. SUFFICES ASSUME MessageInv, [Next]_vars PROVE MessageInv'
  OBVIOUS
<1>1. TypeOK /\ BatchInv /\ ReportInv /\ PromptsInv /\ UserInv /\ ResultsInv
  BY DEF MessageInv, IInv
<1>2. IInv'
  BY <1>1, TypeInductive, BatchInductive, ReportInductive DEF IInv
<1>. QED BY <1>1, <1>2, PromptsInductive, UserInductive, ResultsInductive DEF MessageInv

\* Users' messages and background results are accounted for throughout: each is in one
\* place, and the loop's context holds no user's message that was not heard or sent.
THEOREM MessagesTracked == Spec => []MessageInv
BY MessageInit, MessageInductive, PTL DEF Spec

(* What occurs once, if at all, is counted so.                              *)
LEMMA OccurrencesOnce ==
    ASSUME NEW s, NEW m, Once(m, s)
    PROVE  Occurrences(m, s) = IF m \in ToSet(s) THEN 1 ELSE 0
<1>. DEFINE I == {i \in DOMAIN s : s[i] = m}
<1>1. CASE m \in ToSet(s)
  <2>1. PICK i \in DOMAIN s : s[i] = m
    BY <1>1 DEF ToSet
  <2>2. I = {i}
    BY <2>1 DEF Once
  <2>. QED BY <1>1, <2>2, FS_Singleton DEF Occurrences
<1>2. CASE m \notin ToSet(s)
  <2>1. I = {}
    BY <1>2 DEF ToSet
  <2>. QED BY <1>2, <2>1, FS_EmptySet DEF Occurrences
<1>. QED BY <1>1, <1>2

(* What is tracked is in one place, once.                                   *)
LEMMA TrackedOnce == MessageInv => EverythingOnce
<1>. SUFFICES ASSUME MessageInv PROVE EverythingOnce
  OBVIOUS
<1>0. /\ steerQ \in Seq(Users) /\ followQ \in Seq(Users) /\ results \in Seq(BgCalls)
      /\ pending \in Seq(Message) /\ messages \in Seq(Message)
  BY DEF MessageInv, IInv, TypeOK
<1>1. ASSUME NEW u \in Users, u \notin Fresh PROVE Places(u) = 1
  <2>1. Accepted(u) /\ Tracked(u)
    BY <1>1 DEF Fresh, Accepted, MessageInv, UserInv
  <2>2. /\ Once(u, steerQ \o followQ)
        /\ ToSet(steerQ \o followQ) = ToSet(steerQ) \cup ToSet(followQ)
    BY <1>0, <2>1, OnceConcat, ElementsConcat DEF Tracked, Single, Apart, Steering, Following
  <2>3. /\ Once(UserMsg(u), pending \o messages)
        /\ ToSet(pending \o messages) = ToSet(pending) \cup ToSet(messages)
    BY <1>0, <2>1, OnceConcat, ElementsConcat DEF Tracked, Single, Apart, Collected, Heard
  <2>4. Occurrences(u, steerQ \o followQ) = IF Steering(u) \/ Following(u) THEN 1 ELSE 0
    BY <2>2, OccurrencesOnce DEF Steering, Following
  <2>5. Occurrences(UserMsg(u), pending \o messages) = IF Collected(u) \/ Heard(u) THEN 1 ELSE 0
    BY <2>3, OccurrencesOnce DEF Collected, Heard
  <2>6. pc = "prompts" => Occurrences(UserMsg(u), Unsent) = IF Prompting(u) THEN 1 ELSE 0
    BY <2>1, OccurrencesOnce DEF Tracked, Single, Prompting
  <2>. QED
    BY <2>1, <2>4, <2>5, <2>6 DEF Places, Tracked, Somewhere, Apart, Given, Prompting
<1>2. ASSUME NEW c \in BgCalls
      PROVE  Occurrences(Background(c), Backgrounds(results) \o pending \o messages) <= 1
  <2>1. Reported(c)
    BY DEF MessageInv, ResultsInv
  <2>2. /\ Backgrounds(results) \in Seq(Message) /\ Once(Background(c), Backgrounds(results))
        /\ Background(c) \in ToSet(Backgrounds(results)) <=> c \in ToSet(results)
    BY <1>0, <2>1, MessagesOf, BackgroundsOnce DEF Reported
  <2>3. /\ Backgrounds(results) \o pending \in Seq(Message)
        /\ Once(Background(c), Backgrounds(results) \o pending)
        /\ ToSet(Backgrounds(results) \o pending) = ToSet(Backgrounds(results)) \cup ToSet(pending)
    BY <1>0, <2>1, <2>2, OnceConcat, ElementsConcat DEF Reported, Held, Due
  <2>4. Once(Background(c), Backgrounds(results) \o pending \o messages)
    BY <1>0, <2>1, <2>2, <2>3, OnceConcat DEF Reported, Held, Due, Told
  <2>. QED BY <2>4, OccurrencesOnce
<1>. QED BY <1>1, <1>2 DEF EverythingOnce

\* Wherever a message given to prompt(), steer() or follow_up() has got to, it is there once
\* and nowhere else; and no background result is reported twice.
THEOREM OnceEverywhere == Spec => []EverythingOnce
BY TrackedOnce, MessagesTracked, PTL

-----------------------------------------------------------------------------
(* The conversation.  A user's message waits while it is in one of four     *)
(* places, and calls are owed only while tools execute.                     *)
LEMMA WaitingPlaces ==
    ASSUME TypeOK
    PROVE  WaitingUsers = {u \in Users : Steering(u) \/ Following(u) \/ Collected(u) \/ Prompting(u)}
<1>1. ToSet(steerQ) \subseteq Users /\ ToSet(followQ) \subseteq Users
  BY DEF TypeOK, ToSet
<1>. QED BY <1>1 DEF WaitingUsers, Steering, Following, Collected, Prompting

(* Answers are owed only while a batch executes.                           *)
LEMMA OwedTools ==
    /\ BatchInv /\ pc # "tools" => Owed = {}
    /\ batch = <<>> => Owed = {}
BY ElementsNil DEF BatchInv, Owed, Batch

(* A step that moves no user's message, makes no message and answers no     *)
(* call is no step of the conversation.                                     *)
LEMMA Stutters ==
    ASSUME UNCHANGED <<messages, steerQ, followQ, pending, pc, context>>, Owed' = Owed
    PROVE  UNCHANGED Promised!conversationVars
<1>1. WaitingUsers' = WaitingUsers
  BY DEF WaitingUsers, Unsent, UserMsg
<1>. QED BY <1>1 DEF Promised!conversationVars

(* Prompt, steer and follow_up accept a message.                            *)
LEMMA Accepts ==
    ASSUME TypeOK, NEW u \in Users, Tracked(u), Prompt(u) \/ Steer(u) \/ FollowUp(u)
    PROVE  Promised!Accept(u)
<1>1. u \notin WaitingUsers /\ UserMsg(u) \notin ToSet(messages)
  <2>1. ~Accepted(u)
    BY DEF Prompt, Steer, FollowUp, Fresh, Accepted
  <2>. QED BY <2>1, WaitingPlaces DEF Tracked, Somewhere, Heard
<1>2. messages' = messages /\ Owed' = Owed /\ (pc' # "idle" \/ pc' = pc)
  BY DEF Prompt, StartRun, Steer, FollowUp, loopVars, Owed, Batch
<1>3. WaitingUsers' = WaitingUsers \cup {u}
  <2>1. CASE Prompt(u)
    <3>1. pc = "idle" /\ StartRun(<<UserMsg(u)>>, FALSE) /\ UNCHANGED <<steerQ, followQ>>
      BY <2>1 DEF Prompt
    <3>0. <<UserMsg(u)>> \in Seq(Message)
      BY UserMsgType
    <3>2. pc' = "prompts" /\ pending' = pending /\ Unsent' = <<UserMsg(u)>>
      BY <3>0, <3>1, StartsPrompts
    <3>3. \A v \in Users : UserMsg(v) \in ToSet(<<UserMsg(u)>>) <=> u = v
      BY UserMsgInjective DEF ToSet
    <3>. QED BY <3>1, <3>2, <3>3 DEF WaitingUsers, UserMsg
  <2>2. CASE Steer(u)
    <3>1. ToSet(steerQ') = ToSet(steerQ) \cup {u} /\ UNCHANGED <<followQ, pending, pc, messages, context>>
      BY <2>2, ElementsAppend DEF Steer, TypeOK, loopVars
    <3>. QED BY <3>1 DEF WaitingUsers, Unsent, UserMsg
  <2>3. CASE FollowUp(u)
    <3>1. ToSet(followQ') = ToSet(followQ) \cup {u} /\ UNCHANGED <<steerQ, pending, pc, messages, context>>
      BY <2>3, ElementsAppend DEF FollowUp, TypeOK, loopVars
    <3>. QED BY <3>1 DEF WaitingUsers, Unsent, UserMsg
  <2>. QED BY <2>1, <2>2, <2>3
<1>. QED BY <1>1, <1>2, <1>3
         DEF Promised!Accept, Promised!Spoken, Promised!Said, Promised!ToSet, ToSet, UserMsg

(* A continuation begins a run with what waits.                             *)
LEMMA Begins ==
    ASSUME TypeOK, UserInv, ContinueRun
    PROVE  Promised!Begin
<1>1. ASSUME NEW u \in Users
      PROVE  /\ pc = "idle" /\ pc' = "prompts" /\ UNCHANGED <<messages, pending, batch, call>>
             /\ Steering(u) \/ Following(u) <=>
                   u \in ToSet(steerQ') \/ u \in ToSet(followQ') \/ UserMsg(u) \in ToSet(Unsent')
  BY Continues DEF UserInv
<1>2. /\ pc = "idle" /\ pc' = "prompts" /\ UNCHANGED <<messages, pending, batch, call>>
      /\ ToSet(steerQ') \subseteq Users /\ ToSet(followQ') \subseteq Users
  <2>1. TypeOK'
    BY TypeInductive DEF Next, Callers
  <2>2. steerQ' \in Seq(Users) /\ followQ' \in Seq(Users)
    BY <2>1 DEF TypeOK
  <2>3. \A q \in Seq(Users) : ToSet(q) \subseteq Users
    BY DEF ToSet
  <2>. QED BY <1>1, <2>2, <2>3 DEF ContinueRun, StartRun
<1>3. WaitingUsers' = WaitingUsers
  BY <1>1, <1>2, WaitingPlaces
     DEF WaitingUsers, Steering, Following, Collected, Prompting, UserMsg
<1>4. Owed' = Owed
  BY <1>2 DEF Owed, Batch
<1>. QED BY <1>2, <1>3, <1>4 DEF Promised!Begin

(* clear_all_queues gives up what is in the queues.                         *)
LEMMA Clears ==
    ASSUME ClearQueues
    PROVE  Promised!GiveUp
<1>1. /\ steerQ' = <<>> /\ followQ' = <<>> /\ UNCHANGED <<messages, pending, pc, context, batch, call>>
  BY DEF ClearQueues, loopVars
<1>2. WaitingUsers' \subseteq WaitingUsers
  BY <1>1, ElementsNil DEF WaitingUsers, Unsent, UserMsg
<1>. QED BY <1>1, <1>2 DEF Promised!GiveUp, Owed, Batch

(* A user's message that goes to the transcript from a place where it was   *)
(* alone is heard.                                                          *)
LEMMA Hears ==
    ASSUME NEW u \in Users, u \in WaitingUsers, Owed = {}, Owed' = {},
           messages' = Append(messages, UserMsg(u)), WaitingUsers' = WaitingUsers \ {u},
           pc # "idle", pc' # "idle"
    PROVE  Promised!Hear(u)
BY DEF Promised!Hear, Promised!Speak, Promised!Said, UserMsg

(* The events of a prompt are heard.                                        *)
LEMMA PromptsHeard ==
    ASSUME TypeOK, BatchInv, PromptsInv, UserInv, EmitPrompt
    PROVE  \E u \in Users : Promised!Hear(u)
<1>. DEFINE m == Head(Unsent)
<1>1. /\ pc = "prompts" /\ pc' = "prompts" /\ Unsent \in Seq(Message) /\ Unsent # <<>>
      /\ messages' = Append(messages, m) /\ Unsent' = Tail(Unsent)
      /\ UNCHANGED <<steerQ, followQ, pending, batch, call>>
  BY EmitsPrompt
<1>2. ToSet(Unsent) = {m} \cup ToSet(Unsent')
  BY <1>1, ElementsTail
<1>3. PICK u \in Users : m = UserMsg(u)
  BY <1>1, <1>2 DEF PromptsInv
<1>4. UserMsg(u) \notin ToSet(Unsent') /\ Prompting(u)
  BY <1>1, <1>2, <1>3, OnceTail DEF UserInv, Tracked, Single, Prompting
<1>5. ~Steering(u) /\ ~Following(u) /\ ~Collected(u)
  BY <1>4 DEF UserInv, Tracked, Apart
<1>6. \A v \in Users : v # u => UserMsg(v) # m
  BY <1>3, UserMsgInjective
<1>. HIDE DEF m
<1>7. WaitingUsers' = WaitingUsers \ {u}
  BY <1>1, <1>2, <1>3, <1>4, <1>5, <1>6
     DEF WaitingUsers, Steering, Following, Collected, Prompting, UserMsg
<1>8. u \in WaitingUsers
  BY <1>4, WaitingPlaces
<1>9. Owed = {} /\ Owed' = {}
  BY <1>1, OwedTools DEF Owed, Batch
<1>. QED BY <1>1, <1>3, <1>7, <1>8, <1>9, Hears

(* A collection moves waiting messages from a queue to the next injection.  *)
LEMMA CollectStutters ==
    ASSUME TypeOK, ReportInv, PromptsInv, UserInv, Collecting
    PROVE  UNCHANGED Promised!conversationVars
<1>1. ASSUME NEW u \in Users
      PROVE  /\ pending = <<>> /\ ~Prompting(u)
             /\ Steering(u) \/ Following(u) <=>
                  u \in ToSet(steerQ') \/ u \in ToSet(followQ') \/ UserMsg(u) \in ToSet(pending')
  BY Collects DEF UserInv
<1>2. pc # "idle" /\ pc' # "idle" /\ pc' # "prompts" /\ UNCHANGED <<messages, batch, call>>
  BY DEF Collecting, CollectThen
<1>3. ToSet(steerQ') \subseteq Users /\ ToSet(followQ') \subseteq Users
  <2>1. TypeOK'
    BY CollectType DEF Collecting
  <2>2. steerQ' \in Seq(Users) /\ followQ' \in Seq(Users)
    BY <2>1 DEF TypeOK
  <2>3. \A q \in Seq(Users) : ToSet(q) \subseteq Users
    BY DEF ToSet
  <2>. QED BY <2>2, <2>3
<1>4. WaitingUsers' = WaitingUsers
  BY <1>1, <1>2, <1>3, WaitingPlaces, ElementsNil
     DEF WaitingUsers, Steering, Following, Collected, Prompting, UserMsg
<1>. QED BY <1>2, <1>4 DEF Promised!conversationVars, Owed, Batch

(* An injected message is a user's, heard, or a background result, reported *)
(* for the first time and behind the answer of its call.                    *)
LEMMA InjectSpeaks ==
    ASSUME MessageInv, Inject
    PROVE  \/ \E u \in Users : Promised!Hear(u)
           \/ \E c \in Calls : Promised!Report(c)
<1>. DEFINE m == Head(pending)
<1>0. TypeOK /\ BatchInv /\ PromptsInv /\ UserInv /\ ResultsInv
  BY DEF MessageInv, IInv
<1>1. /\ pc = "inject" /\ pc' \notin {"idle", "prompts", "tools"}
      /\ pending \in Seq(Message) /\ pending # <<>>
      /\ messages' = Append(messages, m) /\ pending' = Tail(pending)
      /\ UNCHANGED <<steerQ, followQ, batch, call>>
  BY <1>0 DEF Inject, TypeOK
<1>2. ToSet(pending) = {m} \cup ToSet(pending')
  BY <1>1, ElementsTail
<1>3. Owed = {} /\ Owed' = {}
  BY <1>0, <1>1, OwedTools DEF Owed, Batch
<1>4. ASSUME NEW u \in Users, m = UserMsg(u) PROVE Promised!Hear(u)
  <2>1. UserMsg(u) \notin ToSet(pending') /\ Collected(u)
    BY <1>0, <1>1, <1>2, <1>4, OnceTail DEF UserInv, Tracked, Single, Collected
  <2>2. ~Steering(u) /\ ~Following(u)
    BY <1>0, <2>1 DEF UserInv, Tracked, Apart
  <2>3. \A v \in Users : v # u => UserMsg(v) # m
    BY <1>4, UserMsgInjective
  <2>. HIDE DEF m
  <2>4. WaitingUsers' = WaitingUsers \ {u}
    BY <1>1, <1>2, <1>4, <2>1, <2>2, <2>3
       DEF WaitingUsers, Steering, Following, Collected, UserMsg
  <2>5. u \in WaitingUsers
    BY <1>0, <2>1, WaitingPlaces
  <2>. QED BY <1>1, <1>3, <1>4, <2>4, <2>5, Hears
<1>5. ASSUME NEW c \in BgCalls, m = Background(c) PROVE Promised!Report(c)
  <2>1. Due(c) /\ Reported(c)
    BY <1>0, <1>2, <1>5 DEF Due, ResultsInv
  <2>2. Result(c) \in ToSet(messages) /\ Background(c) \notin ToSet(messages)
    BY <2>1 DEF Reported, Due, Told
  <2>3. \A v \in Users : UserMsg(v) # m
    BY <1>5 DEF UserMsg, Background
  <2>. HIDE DEF m
  <2>4. WaitingUsers' = WaitingUsers
    BY <1>1, <1>2, <2>3 DEF WaitingUsers, UserMsg
  <2>. QED BY <1>1, <1>3, <1>5, <2>2, <2>4
           DEF Promised!Report, Promised!Speak, Promised!Spoken, Promised!Said, Promised!ToSet,
               ToSet, Result, Background
<1>6. (\E u \in Users : m = UserMsg(u)) \/ (\E c \in BgCalls : m = Background(c))
  BY <1>0, <1>2 DEF PromptsInv
<1>. QED BY <1>4, <1>5, <1>6 DEF Calls

(* Where a run neither sends prompts nor moves a message, as many wait.     *)
LEMMA WaitingSame ==
    ASSUME UNCHANGED <<steerQ, followQ, pending>>, pc # "prompts", pc' # "prompts"
    PROVE  WaitingUsers' = WaitingUsers
BY DEF WaitingUsers, UserMsg

(* A call that ends is answered then, or later with the rest of its batch.  *)
LEMMA CallSpeaks ==
    ASSUME TypeOK, BatchInv, NEW c \in Calls, CallStep(c)
    PROVE  Promised!Answer(c) \/ UNCHANGED Promised!conversationVars
<1>1. /\ pc = "tools" /\ pc' = "tools" /\ UNCHANGED <<batch, steerQ, followQ, pending>>
      /\ call' = [call EXCEPT ![c] = call'[c]] /\ call[c] # "answered"
      /\ \/ messages' = messages /\ call'[c] # "answered"
         \/ messages' = Append(messages, Result(c)) /\ call'[c] = "answered"
      /\ call \in [Calls -> States]
  <2>1. call \in [Calls -> States]
    BY DEF TypeOK
  <2>. QED BY <2>1 DEF CallStep, StartCall, RejectCall, DetachCall, PrepareCall, FinishCall,
              AnswerCall, EndCall, agentVars
<1>2. c \in Batch /\ Batch' = Batch /\ Batch \subseteq Calls
  <2>1. call[c] \in {"queued", "started", "prepared", "finalized"}
    BY DEF CallStep, StartCall, RejectCall, DetachCall, PrepareCall, FinishCall, AnswerCall
  <2>. QED BY <1>1, <2>1 DEF BatchInv, Batch, TypeOK, ToSet
<1>3. c \in Owed /\ \A d \in Calls : d # c => call'[d] = call[d]
  BY <1>1, <1>2 DEF Owed
<1>4. WaitingUsers' = WaitingUsers
  BY <1>1, WaitingSame
<1>5. CASE messages' = messages /\ call'[c] # "answered"
  <2>1. Owed' = Owed
    BY <1>1, <1>2, <1>3, <1>5 DEF Owed
  <2>. QED BY <1>1, <1>4, <1>5, <2>1 DEF Promised!conversationVars
<1>6. CASE messages' = Append(messages, Result(c)) /\ call'[c] = "answered"
  <2>1. Owed' = Owed \ {c}
    BY <1>1, <1>2, <1>3, <1>6 DEF Owed
  <2>. QED BY <1>1, <1>3, <1>4, <1>6, <2>1
           DEF Promised!Answer, Promised!Speak, Promised!Said, Result
<1>. QED BY <1>1, <1>5, <1>6

(* A response speaks when nothing is owed, and owes what it calls.          *)
LEMMA Responds ==
    ASSUME TypeOK, BatchInv, NEW s \in Batches, StreamDone(s)
    PROVE  Promised!Respond(s)
<1>1. /\ pc = "stream" /\ pc' \notin {"idle", "prompts"} /\ UNCHANGED <<steerQ, followQ, pending>>
      /\ messages' = Append(messages, Response(s)) /\ batch' = s
      /\ call' = [c \in Calls |-> IF c \in ToSet(s) THEN "queued" ELSE call[c]]
  BY DEF StreamDone
<1>2. Owed = {} /\ WaitingUsers' = WaitingUsers
  BY <1>1, OwedTools, WaitingSame
<1>3. ToSet(s) \subseteq Calls
  BY BatchType DEF ToSet
<1>4. Owed' = ToSet(s)
  BY <1>1, <1>3 DEF Owed, Batch
<1>. QED BY <1>1, <1>2, <1>4
         DEF Promised!Respond, Promised!Speak, Promised!ToSet, ToSet, Response

(* A run that stops or fails gives up the calls it owed and the messages it *)
(* was about to send.                                                       *)
LEMMA Fails ==
    ASSUME TypeOK, BatchInv, StreamStops \/ RunFails
    PROVE  Promised!Fail
<1>1. CASE StreamStops
  <2>1. /\ pc = "stream" /\ pc' = "stopped" /\ UNCHANGED <<steerQ, followQ, pending, batch, call>>
        /\ messages' = Append(messages, Failure)
    BY <1>1 DEF StreamStops
  <2>2. Owed = {} /\ Owed' = {} /\ WaitingUsers' = WaitingUsers
    BY <2>1, OwedTools, WaitingSame DEF Owed, Batch
  <2>. QED BY <2>1, <2>2 DEF Promised!Fail, Promised!Speak, Promised!Said, Failure
<1>2. CASE RunFails
  <2>1. /\ pc # "idle" /\ pc' = "failed" /\ pending' = <<>> /\ batch' = <<>>
        /\ UNCHANGED <<steerQ, followQ>>
        /\ messages' = messages \/ messages' = Append(messages, Failure)
    BY <1>2 DEF RunFails
  <2>2. Owed' = {} /\ WaitingUsers' \subseteq WaitingUsers
    BY <2>1, ElementsNil DEF Owed, Batch, WaitingUsers
  <2>. QED BY <2>1, <2>2 DEF Promised!Fail, Promised!Speak, Promised!Said, Failure
<1>. QED BY <1>1, <1>2

\* However the queues, the batches, the background tasks, aborts and failures interleave,
\* the transcript the agent keeps is a conversation: a step of agent and loop is a step of
\* Conversation, or does not show in it.
THEOREM TranscriptIsConversation == Spec => ImplementsConversation
<1>1. Init => Promised!ConversationInit
  BY ElementsNil DEF Init, Promised!ConversationInit, WaitingUsers, Owed, Batch
<1>2. MessageInv /\ [Next]_vars => [Promised!ConversationNext]_(Promised!conversationVars)
  <2>. SUFFICES ASSUME MessageInv, [Next]_vars
                PROVE  Promised!ConversationNext \/ UNCHANGED Promised!conversationVars
    OBVIOUS
  <2>. USE DEF Promised!ConversationNext
  <2>0. TypeOK /\ BatchInv /\ ReportInv /\ PromptsInv /\ UserInv /\ ResultsInv
    BY DEF MessageInv, IInv
  <2>1. ASSUME NEW u \in Users, Prompt(u) \/ Steer(u) \/ FollowUp(u)
        PROVE  Promised!ConversationNext
    BY <2>0, <2>1, Accepts DEF UserInv
  <2>2. CASE ContinueRun
    BY <2>0, <2>2, Begins
  <2>3. CASE ClearQueues
    BY <2>3, Clears
  <2>4. CASE Abort \/ TaskStep \/ UNCHANGED vars
    <3>1. /\ UNCHANGED <<messages, steerQ, followQ, pending, pc, context, batch, call>>
      BY <2>4 DEF Abort, TaskStep, TaskEnds, TaskSettles, vars, agentVars, loopVars
    <3>. QED BY <3>1, Stutters DEF Owed, Batch
  <2>5. CASE EmitPrompt
    BY <2>0, <2>5, PromptsHeard
  <2>6. CASE FirstCollect \/ EndTurn \/ Woken
    <3>1. Collecting
      BY <2>0, <2>6 DEF FirstCollect, EndTurn, Woken, Collecting, TypeOK
    <3>. QED BY <2>0, <3>1, CollectStutters
  <2>7. CASE Inject
    BY <2>7, InjectSpeaks
  <2>8. CASE StreamStops \/ RunFails
    BY <2>0, <2>8, Fails
  <2>9. CASE \E s \in Batches : StreamDone(s)
    BY <2>0, <2>9, Responds
  <2>10. CASE \E c \in Calls : CallStep(c)
    BY <2>0, <2>10, CallSpeaks
  <2>11. CASE EndBatch
    <3>1. /\ pc = "tools" /\ pc' = "turnEnd" /\ UNCHANGED <<messages, steerQ, followQ, pending>>
          /\ Owed = {} /\ batch' = <<>>
      BY <2>11 DEF EndBatch, agentVars, Owed
    <3>2. WaitingUsers' = WaitingUsers
      BY <3>1, WaitingSame
    <3>3. Owed' = {}
      BY <3>1, ElementsNil DEF Owed, Batch
    <3>. QED BY <3>1, <3>2, <3>3 DEF Promised!conversationVars
  <2>12. CASE FinishRun
    <3>1. /\ pc \in {"agentEnd", "stopped", "failed"} /\ pc' = "idle"
          /\ UNCHANGED <<messages, steerQ, followQ, pending, batch, call>>
      BY <2>12 DEF FinishRun
    <3>2. WaitingUsers' = WaitingUsers
      BY <3>1, WaitingSame
    <3>3. Owed = {} /\ Owed' = {}
      BY <2>0, <3>1, OwedTools DEF Owed, Batch
    <3>. QED BY <3>1, <3>2, <3>3 DEF Promised!End
  <2>. QED BY <2>1, <2>2, <2>3, <2>4, <2>5, <2>6, <2>7, <2>8, <2>9, <2>10, <2>11, <2>12
           DEF Next, Callers, RunStep
<1>. QED BY <1>1, <1>2, MessagesTracked, PTL DEF Spec, ImplementsConversation, Promised!ConversationSpec
=============================================================================
