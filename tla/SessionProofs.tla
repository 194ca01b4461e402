---------------------------- MODULE SessionProofs ----------------------------
(***************************************************************************)
(* Proofs about the session around the agent: what is proved of the agent  *)
(* and its loop holds of them in a session too, which appends rows to the  *)
(* transcript between runs; every recorded command has one row; and the    *)
(* lists of queued texts a UI shows are those of the queues.               *)
(***************************************************************************)
EXTENDS AgentSession, TranscriptProofs

(* What the agent's invariants are, all together.                           *)
LoopInv == MessageInv /\ FifoInv /\ CopyInv /\ AnswerInv

(* Between runs rows join the transcript, and a prompt may follow them.      *)
RowsStep ==
    /\ pc = "idle"
    /\ \E s \in Seq(Rows) : messages' = messages \o RowMsgs(s)
    /\ UNCHANGED <<steerQ, followQ, pendingCalls, aborted, pending, hasMore, batch, call,
                   bgVars, steered, followed, discarded>>
    /\ \/ UNCHANGED <<pc, context, skipPoll, prompted>>
       \/ \E u \in Users : /\ u \in Fresh /\ prompted' = prompted \cup {u}
                           /\ context' = messages' \o <<UserMsg(u)>>
                           /\ pc' = "prompts" /\ skipPoll' = FALSE

(* Rows are messages of their own kind.                                     *)
LEMMA RowsAreMessages ==
    /\ \A r \in Rows : Row(r) \in Message /\ Row(r).role = "row"
    /\ \A r, q \in Rows : Row(r) = Row(q) => r = q
    /\ \A s \in Seq(Rows) : /\ RowMsgs(s) \in Seq(Message) /\ Len(RowMsgs(s)) = Len(s)
                            /\ \A i \in DOMAIN RowMsgs(s) : RowMsgs(s)[i].role = "row"
<1>1. \A r \in Rows : Row(r) \in Message /\ Row(r).role = "row"
  BY DEF Row, Message, Roles
<1>2. ASSUME NEW s \in Seq(Rows)
      PROVE  /\ RowMsgs(s) \in Seq(Message) /\ Len(RowMsgs(s)) = Len(s)
             /\ \A i \in DOMAIN RowMsgs(s) : RowMsgs(s)[i].role = "row"
  <2>1. DOMAIN s = 1..Len(s) /\ Len(s) \in Nat /\ \A i \in 1..Len(s) : s[i] \in Rows
    OBVIOUS
  <2>2. RowMsgs(s) \in [1..Len(s) -> Message]
    BY <1>1, <2>1 DEF RowMsgs
  <2>3. RowMsgs(s) \in Seq(Message) /\ Len(RowMsgs(s)) = Len(s)
    BY <2>1, <2>2, SeqDef
  <2>. QED BY <1>1, <2>1, <2>3 DEF RowMsgs
<1>. QED BY <1>1, <1>2 DEF Row

(* Appending rows moves no message of another kind.                         *)
LEMMA RowsAppended ==
    ASSUME NEW s \in Seq(Message), NEW r \in Seq(Rows), NEW t, t = s \o RowMsgs(r)
    PROVE  /\ Grows(s, t)
           /\ \A i \in DOMAIN t : i \notin DOMAIN s => t[i].role = "row"
           /\ \A m \in Message : m.role # "row" =>
                 /\ m \in ToSet(t) <=> m \in ToSet(s)
                 /\ Once(m, s) => Once(m, t)
           /\ \A a, b \in Message : a.role # "row" /\ Ordered(a, b, s) => Ordered(a, b, t)
<1>. DEFINE x == RowMsgs(r)
<1>1. x \in Seq(Message) /\ \A i \in DOMAIN x : x[i].role = "row"
  BY RowsAreMessages
<1>2. \A m \in Message : m.role # "row" => m \notin ToSet(x)
  BY <1>1 DEF ToSet
<1>. HIDE DEF x
<1>3. /\ t \in Seq(Message) /\ Len(t) = Len(s) + Len(x) /\ Len(s) \in Nat /\ Len(x) \in Nat
  <2>1. t = s \o x
    BY DEF x
  <2>. QED BY <1>1, <2>1
<1>4. /\ DOMAIN t = 1..(Len(s) + Len(x)) /\ DOMAIN s = 1..Len(s)
      /\ \A k \in 1..Len(s) : t[k] = s[k]
      /\ \A k \in (Len(s) + 1)..(Len(s) + Len(x)) : t[k] = x[k - Len(s)]
  <2>1. t = s \o x
    BY DEF x
  <2>. QED BY <1>1, <2>1, ConcatParts
<1>5. Grows(s, t)
  BY <1>3, <1>4 DEF Grows
<1>6. ASSUME NEW i \in DOMAIN t, i \notin DOMAIN s PROVE t[i].role = "row"
  <2>1. i - Len(s) \in 1..Len(x) /\ t[i] = x[i - Len(s)]
    BY <1>3, <1>4, <1>6
  <2>2. DOMAIN x = 1..Len(x)
    BY <1>1
  <2>. QED BY <1>1, <2>1, <2>2
<1>7. \A m \in Message, i \in DOMAIN t : m.role # "row" /\ t[i] = m => i \in DOMAIN s /\ s[i] = m
  BY <1>4, <1>6
<1>8. \A i \in DOMAIN s : i \in DOMAIN t /\ t[i] = s[i]
  BY <1>3, <1>4
<1>. QED BY <1>5, <1>6, <1>7, <1>8 DEF ToSet, Once, Ordered


(* Such a step at a glance.                                                 *)
LEMMA RowsShape ==
    ASSUME TypeOK, BatchInv, ReportInv, RowsStep
    PROVE  /\ pc = "idle" /\ batch = <<>> /\ pending = <<>> /\ Sending = <<>>
           /\ messages' \in Seq(Message) /\ Grows(messages, messages')
           /\ \A i \in DOMAIN messages' : i \notin DOMAIN messages => messages'[i].role = "row"
           /\ \A m \in Message : m.role # "row" =>
                 /\ m \in ToSet(messages') <=> m \in ToSet(messages)
                 /\ Once(m, messages) => Once(m, messages')
           /\ \A a, b \in Message :
                 a.role # "row" /\ Ordered(a, b, messages) => Ordered(a, b, messages')
           /\ UNCHANGED <<steerQ, followQ, pendingCalls, aborted, pending, hasMore, batch, call,
                          bg, results, waiter, steered, followed, discarded>>
           /\ \/ /\ UNCHANGED <<pc, context, skipPoll, prompted>>
                 /\ Sending' = <<>>
              \/ \E u \in Users :
                    /\ u \in Fresh /\ prompted' = prompted \cup {u} /\ skipPoll' = FALSE
                    /\ pc' = "prompts" /\ UserMsg(u) \in Message
                    /\ Unsent' = <<UserMsg(u)>> /\ Sending' = Unsent'
                    /\ context' = messages' \o Unsent' /\ context' \in Seq(Message)
                    /\ Grows(messages', context')
                    /\ \A i \in DOMAIN context' : i \notin DOMAIN messages' => context'[i] = UserMsg(u)
<1>1. PICK r \in Seq(Rows) : messages' = messages \o RowMsgs(r)
  BY DEF RowsStep
<1>2. messages \in Seq(Message)
  BY DEF TypeOK
<1>3. /\ Grows(messages, messages')
      /\ \A i \in DOMAIN messages' : i \notin DOMAIN messages => messages'[i].role = "row"
      /\ \A m \in Message : m.role # "row" =>
            /\ m \in ToSet(messages') <=> m \in ToSet(messages)
            /\ Once(m, messages) => Once(m, messages')
      /\ \A a, b \in Message :
            a.role # "row" /\ Ordered(a, b, messages) => Ordered(a, b, messages')
  BY <1>1, <1>2, RowsAppended
<1>4. messages' \in Seq(Message)
  BY <1>3 DEF Grows
<1>5. /\ pc = "idle" /\ batch = <<>> /\ pending = <<>> /\ Sending = <<>>
      /\ UNCHANGED <<steerQ, followQ, pendingCalls, aborted, pending, hasMore, batch, call,
                     bg, results, waiter, steered, followed, discarded>>
  BY DEF RowsStep, BatchInv, ReportInv, Sending, bgVars
<1>6. CASE UNCHANGED <<pc, context, skipPoll, prompted>>
  BY <1>3, <1>4, <1>5, <1>6 DEF Sending
<1>7. ASSUME NEW u \in Users, u \in Fresh, prompted' = prompted \cup {u},
             context' = messages' \o <<UserMsg(u)>>, pc' = "prompts", skipPoll' = FALSE
      PROVE  /\ u \in Fresh /\ prompted' = prompted \cup {u} /\ skipPoll' = FALSE
             /\ pc' = "prompts" /\ UserMsg(u) \in Message
             /\ Unsent' = <<UserMsg(u)>> /\ Sending' = Unsent'
             /\ context' = messages' \o Unsent' /\ context' \in Seq(Message)
             /\ Grows(messages', context')
             /\ \A i \in DOMAIN context' : i \notin DOMAIN messages' => context'[i] = UserMsg(u)
  <2>1. UserMsg(u) \in Message /\ <<UserMsg(u)>> \in Seq(Message)
    BY UserMsgType
  <2>2. Unsent' = SubSeq(messages' \o <<UserMsg(u)>>, Len(messages') + 1,
                         Len(messages' \o <<UserMsg(u)>>))
    BY <1>7 DEF Unsent
  <2>3. Unsent' = <<UserMsg(u)>>
    BY <1>4, <2>1, <2>2, SplitConcat
  <2>4. context' = Append(messages', UserMsg(u))
    BY <1>4, <1>7, <2>1
  <2>5. /\ Grows(messages', context') /\ context' \in Seq(Message)
        /\ \A i \in DOMAIN context' : i \notin DOMAIN messages' => context'[i] = UserMsg(u)
    BY <1>4, <2>1, <2>4, GrowsAppend DEF Grows
  <2>6. Sending' = Unsent'
    BY <1>7 DEF Sending
  <2>. QED BY <1>7, <2>1, <2>3, <2>5, <2>6
<1>. QED BY <1>3, <1>4, <1>5, <1>6, <1>7 DEF RowsStep

(* Rows leave the agent's messages where they are.                          *)
LEMMA RowsKeepMessages ==
    ASSUME MessageInv, RowsStep
    PROVE  MessageInv'
<1>0. TypeOK /\ BatchInv /\ ReportInv /\ PromptsInv /\ UserInv /\ ResultsInv
  BY DEF MessageInv, IInv
<1>. DEFINE Resting == UNCHANGED <<pc, context, skipPoll, prompted>> /\ Sending' = <<>>
            Asks(u) ==
               /\ u \in Fresh /\ prompted' = prompted \cup {u} /\ skipPoll' = FALSE
               /\ pc' = "prompts" /\ UserMsg(u) \in Message
               /\ Unsent' = <<UserMsg(u)>> /\ context' = messages' \o Unsent'
               /\ context' \in Seq(Message)
<1>1. /\ pc = "idle" /\ batch = <<>> /\ pending = <<>> /\ messages' \in Seq(Message)
      /\ \A m \in Message : m.role # "row" =>
            /\ m \in ToSet(messages') <=> m \in ToSet(messages)
            /\ Once(m, messages) => Once(m, messages')
      /\ UNCHANGED <<steerQ, followQ, pendingCalls, aborted, pending, hasMore, batch, call,
                     bg, results, waiter, steered, followed, discarded>>
      /\ Resting \/ \E u \in Users : Asks(u)
  BY <1>0, RowsShape
<1>2. TypeOK'
  BY <1>0, <1>1 DEF TypeOK
<1>3. BatchInv'
  BY <1>0, <1>1 DEF BatchInv, PendingCallsExact, Batch
<1>4. /\ \A u \in Users : UserMsg(u) \in Message /\ UserMsg(u).role = "user"
      /\ \A c \in BgCalls : /\ Background(c) \in Message /\ Background(c).role = "background"
                            /\ Result(c) \in Message /\ Result(c).role = "toolResult"
  BY UserMsgType DEF Background, Result, Message, Roles, Calls
<1>5. ReportInv'
  <2>1. \A c \in BgCalls : OnItsWay(c) => OnItsWay(c)'
    BY <1>1, <1>4 DEF OnItsWay, Background
  <2>. QED BY <1>0, <1>1, <2>1 DEF ReportInv
<1>6. PromptsInv'
  <2>1. ToSet(pending') \subseteq {UserMsg(u) : u \in Users} \cup {Background(c) : c \in BgCalls}
    BY <1>0, <1>1 DEF PromptsInv
  <2>2. CASE Resting
    <3>1. \A u \in Users : UserMsg(u) \in ToSet(context) => UserMsg(u) \in ToSet(messages)
      BY <1>0, <1>1 DEF PromptsInv, Heard, Prompting
    <3>2. \A u \in Users : UserMsg(u) \in ToSet(context') => UserMsg(u) \in ToSet(messages')
      BY <1>1, <1>4, <2>2, <3>1
    <3>. QED BY <1>1, <2>1, <2>2, <3>2 DEF PromptsInv, Heard, UserMsg, Background
  <2>3. ASSUME NEW u \in Users, Asks(u) PROVE PromptsInv'
    <3>1. Unsent' \in Seq(Message) /\ ToSet(Unsent') = {UserMsg(u)}
      BY <2>3 DEF ToSet
    <3>2. ToSet(context') = ToSet(messages') \cup ToSet(Unsent')
      <4>1. messages' \in Seq(Message) /\ context' = messages' \o Unsent'
        BY <1>1, <2>3
      <4>. QED BY <3>1, <4>1, ElementsConcat
    <3>. QED BY <2>1, <2>3, <3>1, <3>2 DEF PromptsInv, Heard, Prompting, UserMsg, Background
  <2>. QED BY <1>1, <2>2, <2>3
<1>7. ASSUME NEW v \in Users PROVE Tracked(v)'
  <2>0. Tracked(v)
    BY <1>0 DEF UserInv
  <2>1. /\ UserMsg(v) \in ToSet(messages') <=> UserMsg(v) \in ToSet(messages)
        /\ Once(UserMsg(v), messages')
    BY <1>1, <1>4, <2>0 DEF Tracked, Single
  <2>2. CASE Resting
    BY <1>1, <2>0, <2>1, <2>2
       DEF Tracked, Accepted, Somewhere, Apart, Single, Steering, Following, Collected,
           Prompting, Heard, Given, Once, UserMsg
  <2>3. ASSUME NEW u \in Users, Asks(u) PROVE Tracked(v)'
    <3>1. Once(UserMsg(v), <<UserMsg(u)>>) /\ (UserMsg(v) \in ToSet(<<UserMsg(u)>>) <=> v = u)
      BY UserMsgInjective DEF Once, ToSet
    <3>2. u \notin prompted /\ u \notin ToSet(steered) /\ u \notin ToSet(followed)
      BY <2>3 DEF Fresh
    <3>. QED
      BY <1>1, <2>0, <2>1, <2>3, <3>1, <3>2
         DEF Tracked, Accepted, Somewhere, Apart, Single, Steering, Following, Collected,
             Prompting, Heard, Given, Once, UserMsg
  <2>. QED BY <1>1, <2>2, <2>3
<1>8. ASSUME NEW c \in BgCalls PROVE Reported(c)'
  <2>1. Reported(c)
    BY <1>0 DEF ResultsInv
  <2>2. /\ Background(c) \in ToSet(messages') <=> Background(c) \in ToSet(messages)
        /\ Result(c) \in ToSet(messages') <=> Result(c) \in ToSet(messages)
        /\ Once(Background(c), messages')
    BY <1>1, <1>4, <2>1 DEF Reported
  <2>. QED BY <1>1, <2>1, <2>2 DEF Reported, Held, Due, Told, Once, Background, Result
<1>. QED BY <1>2, <1>3, <1>5, <1>6, <1>7, <1>8 DEF MessageInv, IInv, UserInv, ResultsInv

(* So they do the order in which messages come.                             *)
LEMMA RowsKeepOrder ==
    ASSUME MessageInv, FifoInv, RowsStep
    PROVE  FifoInv'
<1>0. TypeOK /\ BatchInv /\ ReportInv /\ UserInv
  BY DEF MessageInv, IInv
<1>1. /\ pending = <<>> /\ pending' = <<>> /\ Sending = <<>>
      /\ \A m \in Message : m.role # "row" => (m \in ToSet(messages') <=> m \in ToSet(messages))
      /\ \A a, b \in Message :
            a.role # "row" /\ Ordered(a, b, messages) => Ordered(a, b, messages')
      /\ UNCHANGED <<steerQ, followQ, steered, followed>>
      /\ \/ Sending' = <<>>
         \/ \E u \in Users : u \in Fresh /\ Sending' = <<UserMsg(u)>>
  BY <1>0, RowsShape
<1>2. /\ steered \in Seq(Users) /\ followed \in Seq(Users)
      /\ \A u \in Users : UserMsg(u) \in Message /\ UserMsg(u).role = "user"
  BY <1>0, UserMsgType DEF TypeOK
<1>3. /\ \A i \in DOMAIN steered : steered[i] \in Users /\ steered[i] \notin Fresh
      /\ \A i \in DOMAIN followed : followed[i] \in Users /\ followed[i] \notin Fresh
  BY <1>2 DEF Fresh, ToSet
<1>4. ASSUME NEW a \in Users, NEW b \in Users, a \notin Fresh, b \notin Fresh, NEW q,
             Line(UserMsg(a), UserMsg(b), messages, Sending, pending, q)
      PROVE  Line(UserMsg(a), UserMsg(b), messages', Sending', pending', q)
  <2>1. UserMsg(a) \notin ToSet(Sending') /\ UserMsg(b) \notin ToSet(Sending')
    BY <1>1, <1>4, UserMsgInjective, ElementsNil DEF ToSet
  <2>2. Line(UserMsg(a), UserMsg(b), messages, Sending', <<>>, q)
    BY <1>1, <1>4, <2>1, LineOthers
  <2>. QED BY <1>1, <1>2, <2>2 DEF Line
<1>5. InLine(steered, steerQ)'
  BY <1>1, <1>3, <1>4 DEF FifoInv, InLine, UserMsg, UserMsgs
<1>6. InLine(followed, followQ)'
  BY <1>1, <1>3, <1>4 DEF FifoInv, InLine, UserMsg, UserMsgs
<1>7. /\ ToSet(steerQ') \subseteq ToSet(steered') /\ ToSet(followQ') \subseteq ToSet(followed')
      /\ ToSet(steered') \cap ToSet(followed') = {}
  BY <1>1 DEF FifoInv
<1>. QED BY <1>5, <1>6, <1>7 DEF FifoInv, ToSet

(* And what has been answered stays answered in its place.                  *)
LEMMA RowsKeepAnswers ==
    ASSUME MessageInv, CopyInv, AnswerInv, RowsStep
    PROVE  CopyInv' /\ AnswerInv'
<1>0. TypeOK /\ BatchInv /\ ReportInv
  BY DEF MessageInv, IInv
<1>1. /\ pc = "idle" /\ pc' \in {"idle", "prompts"} /\ batch = <<>> /\ batch' = batch /\ call' = call
      /\ Grows(messages, messages')
      /\ \A i \in DOMAIN messages' : i \notin DOMAIN messages => messages'[i].role = "row"
      /\ \/ context' = context
         \/ /\ context' \in Seq(Message) /\ Grows(messages', context')
            /\ \E u \in Users : \A i \in DOMAIN context' :
                  i \notin DOMAIN messages' => context'[i] = UserMsg(u)
  BY <1>0, RowsShape
<1>2. CopyInv'
  BY <1>1 DEF CopyInv, IsInjective
<1>3. Current = 0 /\ Current' = 0
  BY <1>1 DEF Current
<1>4. /\ \A i \in DOMAIN messages : i # 0 => Emits(call, messages, i)
      /\ \A i \in DOMAIN context : i # 0 => Copies(call, context, i)
  BY <1>1, <1>3 DEF AnswerInv, EmittedInv, CopiedInv
<1>5. \A i \in DOMAIN messages : i # 0 =>
         Emits(call', messages', i) /\ Copies(call', messages', i)
  BY <1>1, <1>4, StillSo DEF Grows
<1>6. \A i \in DOMAIN messages' : i # 0 =>
         Emits(call', messages', i) /\ Copies(call', messages', i)
  BY <1>1, <1>5 DEF Emits, Copies
<1>7. \A i \in DOMAIN context' : i # 0 => Copies(call', context', i)
  <2>1. CASE context' = context
    BY <1>1, <1>4, <2>1
  <2>2. ASSUME Grows(messages', context'), NEW u \in Users,
               \A i \in DOMAIN context' : i \notin DOMAIN messages' => context'[i] = UserMsg(u)
        PROVE  \A i \in DOMAIN context' : i # 0 => Copies(call', context', i)
    <3>1. \A i \in DOMAIN messages' : i # 0 => Copies(call', context', i)
      BY <1>6, <2>2, StillSo DEF Grows
    <3>. QED BY <2>2, <3>1 DEF Copies, UserMsg
  <2>. QED BY <1>1, <2>1, <2>2
<1>8. EmittedInv' /\ CopiedInv'
  BY <1>3, <1>6, <1>7, InvariantsNext
<1>9. OrderInv' /\ TailInv'
  BY <1>1, ElementsNil DEF OrderInv, TailInv, Batch
<1>. QED BY <1>2, <1>8, <1>9 DEF AnswerInv

-----------------------------------------------------------------------------
(* A step of the session is one of the agent, one that only appends rows,   *)
(* or none of the agent's concern.                                          *)
LEMMA SessionSteps ==
    ASSUME messages \in Seq(Message), deferred \in Seq(Rows), [SessionNext]_sessionVars
    PROVE  [Next]_vars \/ RowsStep
<1>1. ASSUME NEW u \in Users, SessionPrompt(u) PROVE RowsStep
  BY <1>1 DEF SessionPrompt, FlushRows, RowsStep
<1>2. CASE PromptRefused
  BY <1>2 DEF PromptRefused, FlushRows, RowsStep, loopVars, historyVars
<1>3. ASSUME NEW r \in Rows, BashEnds(r) PROVE [Next]_vars \/ RowsStep
  <2>1. CASE pc # "idle"
    BY <1>3, <2>1 DEF BashEnds, vars, agentVars
  <2>2. CASE pc = "idle"
    <3>1. messages' = Append(messages, Row(r))
      BY <1>3, <2>2 DEF BashEnds
    <3>2. RowMsgs(<<r>>) = <<Row(r)>> /\ <<r>> \in Seq(Rows)
      BY DEF RowMsgs
    <3>3. messages' = messages \o RowMsgs(<<r>>)
      <4>1. Row(r) \in Message
        BY RowsAreMessages
      <4>2. Append(messages, Row(r)) = messages \o <<Row(r)>>
        BY <4>1
      <4>. QED BY <3>1, <3>2, <4>2
    <3>. QED BY <1>3, <2>2, <3>2, <3>3 DEF BashEnds, RowsStep, loopVars, historyVars
  <2>. QED BY <2>1, <2>2
<1>4. CASE AgentStep \/ AgentFails \/ SessionAbort \/ ClearQueue
           \/ \E u \in Users : QueueSteer(u) \/ QueueFollowUp(u)
  BY <1>4 DEF AgentStep, AgentFails, SessionAbort, ClearQueue, QueueSteer, QueueFollowUp,
              Next, Callers
<1>5. CASE UNCHANGED vars
  BY <1>5
<1>6. \/ \E u \in Users : SessionPrompt(u)
      \/ PromptRefused
      \/ \E r \in Rows : BashEnds(r)
      \/ AgentStep \/ AgentFails \/ SessionAbort \/ ClearQueue
      \/ \E u \in Users : QueueSteer(u) \/ QueueFollowUp(u)
      \/ UNCHANGED vars
  BY DEF SessionNext, sessionVars, BashStart, BashRaises
<1>. QED BY <1>1, <1>2, <1>3, <1>4, <1>5, <1>6

(* What holds of the agent alone is kept by every step of a session.        *)
LEMMA LoopInductive ==
    LoopInv /\ deferred \in Seq(Rows) /\ [SessionNext]_sessionVars => LoopInv'
<1>. SUFFICES ASSUME LoopInv, deferred \in Seq(Rows), [SessionNext]_sessionVars
              PROVE  LoopInv'
  OBVIOUS
<1>0. MessageInv /\ FifoInv /\ CopyInv /\ AnswerInv
  BY DEF LoopInv
<1>1. CASE [Next]_vars
  <2>1. MessageInv' /\ CopyInv' /\ AnswerInv'
    BY <1>0, <1>1, MessageInductive, AnswerInductive
  <2>2. FifoInv'
    BY <1>0, <1>1, FifoInductive DEF MessageInv, IInv
  <2>. QED BY <2>1, <2>2 DEF LoopInv
<1>2. CASE RowsStep
  BY <1>0, <1>2, RowsKeepMessages, RowsKeepOrder, RowsKeepAnswers DEF LoopInv
<1>3. messages \in Seq(Message)
  BY <1>0 DEF MessageInv, IInv, TypeOK
<1>. QED BY <1>1, <1>2, <1>3, SessionSteps

-----------------------------------------------------------------------------
(* What an agent's step adds to the transcript: a message that a user sent, *)
(* or one of another kind, but no row.                                      *)
LEMMA Says ==
    ASSUME MessageInv, [Next]_vars
    PROVE  \/ messages' = messages
           \/ \E v \in Users : messages' = Append(messages, UserMsg(v))
           \/ \E m \in Message : m.role \notin {"user", "row"} /\ messages' = Append(messages, m)
<1>0. /\ TypeOK /\ PromptsInv /\ pending \in Seq(Message) /\ Failure \in Message
      /\ \A c \in BgCalls : Background(c) \in Message /\ Background(c).role = "background"
  BY DEF MessageInv, IInv, TypeOK, Failure, Background, Message, Roles, Calls
<1>1. CASE Quiet \/ RunFails \/ ClearQueues \/ ContinueRun \/ Collecting
           \/ \E u \in Users : Prompt(u) \/ Steer(u) \/ FollowUp(u)
  BY <1>0, <1>1 DEF Quiet, RunFails, ClearQueues, ContinueRun, StartRun, Collecting, CollectThen,
                    Prompt, Steer, FollowUp, Failure
<1>2. CASE EmitPrompt
  <2>1. /\ pc = "prompts" /\ Unsent \in Seq(Message) /\ Unsent # <<>>
        /\ messages' = Append(messages, Head(Unsent))
    BY <1>0, <1>2, EmitsPrompt
  <2>2. Head(Unsent) \in ToSet(Unsent)
    BY <2>1, ElementsTail
  <2>3. Head(Unsent) \in {UserMsg(u) : u \in Users}
    BY <1>0, <2>1, <2>2 DEF PromptsInv
  <2>. QED BY <2>1, <2>3
<1>3. CASE Inject
  <2>1. pending # <<>> /\ messages' = Append(messages, Head(pending))
    BY <1>3 DEF Inject
  <2>2. Head(pending) \in ToSet(pending)
    BY <1>0, <2>1, ElementsTail
  <2>3. Head(pending) \in {UserMsg(u) : u \in Users} \cup {Background(c) : c \in BgCalls}
    BY <1>0, <2>2 DEF PromptsInv
  <2>. QED BY <1>0, <2>1, <2>3
<1>. QED BY <1>0, <1>1, <1>2, <1>3, StepKinds

(* Where each recorded command has its row.                                 *)
RowAt(r) ==
    /\ Once(r, deferred) /\ Once(r, finished) /\ Once(Row(r), messages)
    /\ r \in ToSet(deferred) => Row(r) \notin ToSet(messages)
    /\ r \in ToSet(finished) <=> r \in ToSet(deferred) \/ Row(r) \in ToSet(messages)
    /\ r \in ToSet(finished) => command[r] = "ended"
RowsInv ==
    /\ deferred \in Seq(Rows) /\ finished \in Seq(Rows)
    /\ command \in [Rows -> {"new", "running", "ended"}]
    /\ \A r \in Rows : RowAt(r)

(* The rows of a sequence of commands.                                      *)
LEMMA RowMsgsOnce ==
    ASSUME NEW s \in Seq(Rows), NEW r \in Rows, Once(r, s)
    PROVE  /\ Once(Row(r), RowMsgs(s))
           /\ Row(r) \in ToSet(RowMsgs(s)) <=> r \in ToSet(s)
BY DEF Once, Row, RowMsgs, ToSet

(* The deferred rows go into the transcript.                                *)
LEMMA RowFlushed ==
    ASSUME messages \in Seq(Message), RowsInv, FlushRows, UNCHANGED <<command, finished>>
    PROVE  RowsInv'
<1>1. /\ deferred \in Seq(Rows) /\ messages' = messages \o RowMsgs(deferred) /\ deferred' = <<>>
  BY DEF RowsInv, FlushRows
<1>2. ASSUME NEW r \in Rows PROVE RowAt(r)'
  <2>1. RowAt(r)
    BY DEF RowsInv
  <2>2. /\ RowMsgs(deferred) \in Seq(Message) /\ Once(Row(r), RowMsgs(deferred))
        /\ Row(r) \in ToSet(RowMsgs(deferred)) <=> r \in ToSet(deferred)
    BY <1>1, <2>1, RowMsgsOnce, RowsAreMessages DEF RowAt
  <2>3. /\ ToSet(messages') = ToSet(messages) \cup ToSet(RowMsgs(deferred))
        /\ Once(Row(r), messages')
    BY <1>1, <2>1, <2>2, OnceConcat, ElementsConcat DEF RowAt
  <2>4. ToSet(deferred') = {} /\ Once(r, deferred')
    BY <1>1, ElementsNil DEF Once
  <2>. QED BY <2>1, <2>2, <2>3, <2>4 DEF RowAt, Once, Row
<1>. QED BY <1>1, <1>2, Nil DEF RowsInv

(* A command that ends has its row at once, or deferred.                    *)
LEMMA RowRecorded ==
    ASSUME messages \in Seq(Message), RowsInv, NEW q \in Rows, BashEnds(q)
    PROVE  RowsInv'
<1>1. /\ command[q] = "running" /\ command' = [command EXCEPT ![q] = "ended"]
      /\ finished' = Append(finished, q)
      /\ \/ messages' = Append(messages, Row(q)) /\ deferred' = deferred
         \/ deferred' = Append(deferred, q) /\ messages' = messages
  BY DEF BashEnds
<1>2. /\ deferred \in Seq(Rows) /\ finished \in Seq(Rows) /\ Row(q) \in Message
      /\ command \in [Rows -> {"new", "running", "ended"}]
      /\ \A r \in Rows : Row(r) = Row(q) => r = q
  BY RowsAreMessages DEF RowsInv
<1>3. q \notin ToSet(finished) /\ q \notin ToSet(deferred) /\ Row(q) \notin ToSet(messages)
  BY <1>1 DEF RowsInv, RowAt
<1>4. /\ ToSet(Append(finished, q)) = ToSet(finished) \cup {q}
      /\ ToSet(Append(deferred, q)) = ToSet(deferred) \cup {q}
      /\ ToSet(Append(messages, Row(q))) = ToSet(messages) \cup {Row(q)}
      /\ Append(finished, q) \in Seq(Rows) /\ Append(deferred, q) \in Seq(Rows)
  BY <1>2, ElementsAppend, Appended
<1>5. ASSUME NEW r \in Rows PROVE RowAt(r)'
  <2>1. RowAt(r)
    BY DEF RowsInv
  <2>2. /\ Once(r, Append(finished, q)) /\ Once(r, Append(deferred, q))
    BY <1>2, <1>3, <2>1, OnceAppend DEF RowAt
  <2>3. Once(Row(r), Append(messages, Row(q)))
    BY <1>2, <1>3, <2>1, OnceAppend DEF RowAt
  <2>4. Once(r, finished') /\ Once(r, deferred') /\ Once(Row(r), messages')
    BY <1>1, <2>1, <2>2, <2>3 DEF RowAt
  <2>5. r \in ToSet(finished') => command'[r] = "ended"
    BY <1>1, <1>2, <1>4, <2>1 DEF RowAt
  <2>6. /\ r \in ToSet(deferred') => Row(r) \notin ToSet(messages')
        /\ r \in ToSet(finished') <=> r \in ToSet(deferred') \/ Row(r) \in ToSet(messages')
    BY <1>1, <1>2, <1>3, <1>4, <2>1 DEF RowAt
  <2>7. Once(r, finished)' /\ Once(r, deferred)' /\ Once(Row(r), messages)'
    BY <2>4 DEF Once, Row
  <2>. QED BY <2>5, <2>6, <2>7 DEF RowAt, Row
<1>. QED BY <1>1, <1>2, <1>4, <1>5 DEF RowsInv

(* Every step of the session keeps the rows.                                *)
LEMMA RowsInductive ==
    LoopInv /\ RowsInv /\ [SessionNext]_sessionVars => RowsInv'
<1>. SUFFICES ASSUME LoopInv, RowsInv, [SessionNext]_sessionVars PROVE RowsInv'
  OBVIOUS
<1>0. MessageInv /\ messages \in Seq(Message)
  BY DEF LoopInv, MessageInv, IInv, TypeOK
<1>1. ASSUME NEW q \in Rows, BashEnds(q) PROVE RowsInv'
  BY <1>0, <1>1, RowRecorded
<1>2. CASE PromptRefused \/ \E u \in Users : SessionPrompt(u)
  <2>1. FlushRows /\ UNCHANGED <<command, finished>>
    BY <1>2 DEF PromptRefused, SessionPrompt
  <2>. QED BY <1>0, <2>1, RowFlushed
<1>3. CASE [Next]_vars /\ UNCHANGED <<deferred, finished>> /\ command' = command
  <2>1. ASSUME NEW r \in Rows
        PROVE  /\ Row(r) \in ToSet(messages') <=> Row(r) \in ToSet(messages)
               /\ Once(Row(r), messages) => Once(Row(r), messages')
    <3>1. \/ messages' = messages
          \/ \E m \in Message : Row(r) # m /\ messages' = Append(messages, m)
      BY <1>0, <1>3, Says, UserMsgType, RowsAreMessages
    <3>2. ASSUME NEW m \in Message, Row(r) # m, messages' = Append(messages, m)
          PROVE  /\ ToSet(messages') = ToSet(messages) \cup {m}
                 /\ Once(Row(r), messages) => Once(Row(r), messages')
      BY <1>0, <3>2, OnceAppend, ElementsAppend
    <3>. QED BY <3>1, <3>2
  <2>2. ASSUME NEW r \in Rows PROVE RowAt(r)'
    BY <1>3, <2>1 DEF RowsInv, RowAt, Once, Row
  <2>. QED BY <1>3, <2>2 DEF RowsInv
<1>4. ASSUME UNCHANGED <<deferred, finished, messages>>, NEW q \in Rows,
             BashStart(q) \/ BashRaises(q)
      PROVE  RowsInv'
  <2>1. /\ command[q] # "ended" /\ command' = [command EXCEPT ![q] = command'[q]]
        /\ command' \in [Rows -> {"new", "running", "ended"}]
    BY <1>4 DEF RowsInv, BashStart, BashRaises
  <2>2. ASSUME NEW r \in Rows PROVE RowAt(r)'
    BY <1>4, <2>1 DEF RowsInv, RowAt, Once, Row
  <2>. QED BY <1>4, <2>1, <2>2 DEF RowsInv
<1>5. \/ \E q \in Rows : BashEnds(q)
      \/ PromptRefused \/ \E u \in Users : SessionPrompt(u)
      \/ [Next]_vars /\ UNCHANGED <<deferred, finished>> /\ command' = command
      \/ /\ UNCHANGED <<deferred, finished, messages>>
         /\ \E q \in Rows : BashStart(q) \/ BashRaises(q)
  BY DEF SessionNext, sessionVars, bashVars, BashStart, BashRaises, AgentStep, AgentFails,
         SessionAbort, ClearQueue, QueueSteer, QueueFollowUp, Next, Callers, vars, agentVars
<1>. QED BY <1>1, <1>2, <1>3, <1>4, <1>5

(* What holds at first and is kept by every step of a session.              *)
LEMMA SessionHolds == SessionSpec => [](LoopInv /\ RowsInv)
<1>1. SessionInit => LoopInv /\ RowsInv
  <2>. SUFFICES ASSUME SessionInit PROVE LoopInv /\ RowsInv
    OBVIOUS
  <2>1. Init
    BY DEF SessionInit
  <2>2. LoopInv
    BY <2>1, MessageInit, FifoInit, AnswerInit DEF LoopInv
  <2>3. /\ messages = <<>> /\ deferred = <<>> /\ finished = <<>>
        /\ command = [r \in Rows |-> "new"]
    BY <2>1 DEF SessionInit, Init
  <2>4. ToSet(<<>>) = {} /\ \A m : Once(m, <<>>)
    BY ElementsNil DEF Once
  <2>. QED BY <2>2, <2>3, <2>4, Nil DEF RowsInv, RowAt
<1>2. LoopInv /\ RowsInv /\ [SessionNext]_sessionVars => LoopInv' /\ RowsInv'
  BY LoopInductive, RowsInductive DEF RowsInv
<1>. QED BY <1>1, <1>2, PTL DEF SessionSpec

\* All that is proved of the agent and its loop holds in a session as well, although rows
\* join the transcript between their runs: messages are in one place and in order, calls
\* are answered in their places, the loop's copy agrees with the transcript, pending calls
\* are exact and no background result is lost.
THEOREM SessionKeepsAgent ==
    SessionSpec => [](/\ TypeOK /\ EverythingOnce /\ QueuesAreFifo
                      /\ EveryCallAnsweredInPlace /\ TranscriptsAgree
                      /\ PendingCallsExact /\ NoBackgroundResultLost)
<1>1. LoopInv => /\ TypeOK /\ EverythingOnce /\ QueuesAreFifo
                 /\ EveryCallAnsweredInPlace /\ TranscriptsAgree
                 /\ PendingCallsExact /\ NoBackgroundResultLost
  BY TrackedOnce, LinesAreFifo, AnswersSay, CopySays, AllReported
     DEF LoopInv, MessageInv, IInv, BatchInv
<1>. QED BY <1>1, SessionHolds, PTL

\* Each command the user ran and the session recorded has exactly one row, in the transcript
\* or deferred, whichever prompts, refusals, runs and failures came between; and no row
\* comes between a call and its results.
THEOREM RowsRecorded == SessionSpec => []RowsRecordedOnce
<1>1. ASSUME RowsInv, NEW r \in Rows
      PROVE  Occurrences(Row(r), messages) + Occurrences(r, deferred) = Occurrences(r, finished)
  <2>1. RowAt(r)
    BY <1>1 DEF RowsInv
  <2>2. /\ Occurrences(Row(r), messages) = IF Row(r) \in ToSet(messages) THEN 1 ELSE 0
        /\ Occurrences(r, deferred) = IF r \in ToSet(deferred) THEN 1 ELSE 0
        /\ Occurrences(r, finished) = IF r \in ToSet(finished) THEN 1 ELSE 0
    BY <2>1, OccurrencesOnce DEF RowAt
  <2>. QED BY <2>1, <2>2 DEF RowAt
<1>2. LoopInv /\ RowsInv => RowsRecordedOnce
  BY <1>1, AnswersSay DEF LoopInv, RowsRecordedOnce
<1>. QED BY <1>2, SessionHolds, PTL

-----------------------------------------------------------------------------
(* The lists a UI shows.  Taking the first of equal texts away takes the    *)
(* text away when it is there once.                                         *)
LEMMA Slice ==
    ASSUME NEW S, NEW s \in Seq(S), NEW m \in 1..(Len(s) + 1), NEW n \in (m - 1)..Len(s)
    PROVE  /\ SubSeq(s, m, n) \in Seq(S) /\ Len(SubSeq(s, m, n)) = n - m + 1
           /\ \A i \in 1..(n - m + 1) : SubSeq(s, m, n)[i] = s[m + i - 1]
<1>1. Len(s) \in Nat /\ m \in Int /\ n \in Int /\ \A i \in m..n : s[i] \in S
  OBVIOUS
<1>2. /\ SubSeq(s, m, n) \in Seq(S)
      /\ Len(SubSeq(s, m, n)) = IF m <= n THEN n - m + 1 ELSE 0
      /\ \A i \in 1..(n - m + 1) : SubSeq(s, m, n)[i] = s[m + i - 1]
  BY <1>1, SubSeqProperties
<1>3. (IF m <= n THEN n - m + 1 ELSE 0) = n - m + 1
  BY <1>1
<1>. QED BY <1>2, <1>3

(* Removing the first removes the only one.                                 *)
LEMMA RemovesOnly ==
    ASSUME NEW S, NEW s \in Seq(S), NEW t, Once(t, s)
    PROVE  /\ RemoveFirst(s, t) \in Seq(S)
           /\ ToSet(RemoveFirst(s, t)) = ToSet(s) \ {t}
           /\ \A e : Once(e, s) => Once(e, RemoveFirst(s, t))
<1>0. DOMAIN s = 1..Len(s) /\ Len(s) \in Nat
  OBVIOUS
<1>1. CASE ~\E i \in 1..Len(s) : s[i] = t
  <2>1. RemoveFirst(s, t) = s /\ t \notin ToSet(s)
    BY <1>0, <1>1 DEF RemoveFirst, ToSet
  <2>. QED BY <2>1
<1>2. ASSUME NEW k \in 1..Len(s), s[k] = t
      PROVE  /\ RemoveFirst(s, t) \in Seq(S)
             /\ ToSet(RemoveFirst(s, t)) = ToSet(s) \ {t}
             /\ \A e : Once(e, s) => Once(e, RemoveFirst(s, t))
  <2>. DEFINE r == RemoveAt(s, k)
              x == SubSeq(s, 1, k - 1)
              y == SubSeq(s, k + 1, Len(s))
  <2>1. {i \in 1..Len(s) : s[i] = t} = {k}
    BY <1>0, <1>2 DEF Once
  <2>2. Min({k}) = k
    BY DEF Min
  <2>3. RemoveFirst(s, t) = r
    BY <1>2, <2>1, <2>2 DEF RemoveFirst, SelectInSeq
  <2>4. /\ x \in Seq(S) /\ Len(x) = k - 1 /\ \A i \in 1..(k - 1) : x[i] = s[i]
        /\ y \in Seq(S) /\ Len(y) = Len(s) - k /\ \A i \in 1..(Len(s) - k) : y[i] = s[k + i]
    <3>1. /\ 1 \in 1..(Len(s) + 1) /\ k - 1 \in (1 - 1)..Len(s)
          /\ k + 1 \in 1..(Len(s) + 1) /\ Len(s) \in ((k + 1) - 1)..Len(s)
          /\ k - 1 - 1 + 1 = k - 1 /\ Len(s) - (k + 1) + 1 = Len(s) - k
      BY <1>0
    <3>2. /\ x \in Seq(S) /\ Len(x) = k - 1 /\ \A i \in 1..(k - 1) : x[i] = s[1 + i - 1]
      BY <3>1, Slice
    <3>3. /\ y \in Seq(S) /\ Len(y) = Len(s) - (k + 1) + 1
          /\ \A i \in 1..(Len(s) - (k + 1) + 1) : y[i] = s[(k + 1) + i - 1]
      BY <3>1, Slice
    <3>4. /\ \A i \in 1..(k - 1) : 1 + i - 1 = i
          /\ \A i \in 1..(Len(s) - k) : (k + 1) + i - 1 = k + i
      BY <1>0
    <3>. QED BY <3>1, <3>2, <3>3, <3>4
  <2>5. r = x \o y
    BY DEF RemoveAt
  <2>. HIDE DEF x, y, r
  <2>6. /\ r \in Seq(S) /\ Len(r) = Len(s) - 1 /\ DOMAIN r = 1..(Len(s) - 1)
        /\ \A i \in 1..(Len(s) - 1) : r[i] = IF i < k THEN s[i] ELSE s[i + 1]
    <3>1. /\ Len(r) = Len(x) + Len(y) /\ r \in Seq(S)
          /\ \A i \in 1..(Len(x) + Len(y)) : r[i] = IF i <= Len(x) THEN x[i] ELSE y[i - Len(x)]
      BY <2>4, <2>5, ConcatProperties
    <3>2. Len(x) + Len(y) = Len(s) - 1
      BY <1>0, <2>4
    <3>3. ASSUME NEW i \in 1..(Len(s) - 1), i < k PROVE r[i] = s[i]
      <4>1. i \in 1..(Len(x) + Len(y)) /\ i <= Len(x) /\ i \in 1..(k - 1)
        BY <1>0, <2>4, <3>2, <3>3
      <4>2. r[i] = x[i]
        BY <3>1, <4>1
      <4>. QED BY <2>4, <4>1, <4>2
    <3>4. ASSUME NEW i \in 1..(Len(s) - 1), ~(i < k) PROVE r[i] = s[i + 1]
      <4>1. i \in 1..(Len(x) + Len(y)) /\ ~(i <= Len(x)) /\ Len(x) = k - 1
        BY <1>0, <2>4, <3>2, <3>4
      <4>2. r[i] = y[i - (k - 1)]
        BY <3>1, <4>1
      <4>3. i - (k - 1) \in 1..(Len(s) - k) /\ k + (i - (k - 1)) = i + 1
        BY <1>0, <3>4
      <4>4. y[i - (k - 1)] = s[k + (i - (k - 1))]
        BY <2>4, <4>3
      <4>. QED BY <4>2, <4>3, <4>4
    <3>5. DOMAIN r = 1..(Len(s) - 1) /\ r \in Seq(S) /\ Len(r) = Len(s) - 1
      BY <3>1, <3>2
    <3>6. ASSUME NEW i \in 1..(Len(s) - 1) PROVE r[i] = IF i < k THEN s[i] ELSE s[i + 1]
      BY <3>3, <3>4
    <3>. QED BY <3>5, <3>6
  <2>7. \A i \in 1..(Len(s) - 1) : (IF i < k THEN i ELSE i + 1) \in 1..Len(s) \ {k}
    BY <1>0
  <2>8. \A j \in 1..Len(s) \ {k} : (IF j < k THEN j ELSE j - 1) \in 1..(Len(s) - 1)
    BY <1>0
  <2>9. \A j \in 1..Len(s) \ {k} : r[IF j < k THEN j ELSE j - 1] = s[j]
    BY <1>0, <2>6, <2>8
  <2>10. ToSet(r) = ToSet(s) \ {t}
    <3>1. \A j \in 1..Len(s) \ {k} : s[j] # t
      BY <1>0, <1>2 DEF Once
    <3>2. \A v : v \in ToSet(r) <=> \E i \in 1..(Len(s) - 1) : r[i] = v
      BY <2>6 DEF ToSet
    <3>3. \A v : v \in ToSet(s) <=> \E j \in 1..Len(s) : s[j] = v
      BY <1>0 DEF ToSet
    <3>4. \A v : v \in ToSet(r) => v \in ToSet(s) \ {t}
      BY <2>6, <2>7, <3>1, <3>2, <3>3
    <3>5. \A v : v \in ToSet(s) \ {t} => v \in ToSet(r)
      BY <1>2, <2>8, <2>9, <3>2, <3>3
    <3>. QED BY <3>4, <3>5
  <2>11. ASSUME NEW e, Once(e, s) PROVE Once(e, r)
    <3>. SUFFICES ASSUME NEW i \in 1..(Len(s) - 1), NEW j \in 1..(Len(s) - 1), r[i] = e, r[j] = e
                  PROVE  i = j
      BY <2>6 DEF Once
    <3>. DEFINE p(n) == IF n < k THEN n ELSE n + 1
    <3>1. p(i) \in 1..Len(s) /\ p(j) \in 1..Len(s) /\ s[p(i)] = e /\ s[p(j)] = e
      BY <1>0, <2>6, <2>7
    <3>2. p(i) = p(j)
      BY <1>0, <2>11, <3>1 DEF Once
    <3>. QED BY <3>2
  <2>. QED BY <2>3, <2>6, <2>10, <2>11
<1>. QED BY <1>1, <1>2

(* Users who say different things are told apart by what they say.          *)
OwnTexts == \A u, v \in Users : Text[u] = Text[v] => u = v
Texts    == {Text[u] : u \in Users}

(* What the lists say of a message: only one that was queued and is not yet *)
(* heard is on them, and each that is queued.                               *)
ShownOf(u) ==
    /\ Once(Text[u], uiSteer) /\ Once(Text[u], uiFollow)
    /\ Text[u] \in ToSet(uiSteer)  => u \in ToSet(steered) /\ ~Heard(u)
    /\ Text[u] \in ToSet(uiFollow) => u \in ToSet(followed) /\ ~Heard(u)
    /\ Steering(u)  => Text[u] \in ToSet(uiSteer)
    /\ Following(u) => Text[u] \in ToSet(uiFollow)
UiInv ==
    /\ uiSteer \in Seq(Texts) /\ uiFollow \in Seq(Texts)
    /\ \A u \in Users : ShownOf(u)

(* A step that neither queues a message nor lets one be heard.              *)
LEMMA UiSame ==
    ASSUME UiInv, UNCHANGED <<uiSteer, uiFollow, steered, followed>>,
           ToSet(steerQ') \subseteq ToSet(steerQ), ToSet(followQ') \subseteq ToSet(followQ),
           \A u \in Users : UserMsg(u) \in ToSet(messages') => UserMsg(u) \in ToSet(messages)
    PROVE  UiInv'
<1>1. ASSUME NEW u \in Users PROVE ShownOf(u)'
  BY DEF UiInv, ShownOf, Once, Heard, Steering, Following, UserMsg
<1>. QED BY <1>1 DEF UiInv, Texts

(* A message that joins a queue joins the list.                             *)
LEMMA UiQueues ==
    ASSUME TypeOK, UserInv, OwnTexts, UiInv, NEW v \in Users, QueueSteer(v) \/ QueueFollowUp(v)
    PROVE  UiInv'
<1>0. /\ uiSteer \in Seq(Texts) /\ uiFollow \in Seq(Texts) /\ Text[v] \in Texts
      /\ \A u \in Users : ShownOf(u)
      /\ steerQ \in Seq(Users) /\ followQ \in Seq(Users)
      /\ steered \in Seq(Users) /\ followed \in Seq(Users)
  BY DEF UiInv, Texts, TypeOK
<1>1. v \in Fresh /\ messages' = messages
  BY DEF QueueSteer, QueueFollowUp, Steer, FollowUp
<1>2. /\ v \notin ToSet(steered) /\ v \notin ToSet(followed)
      /\ v \notin ToSet(steerQ) /\ v \notin ToSet(followQ) /\ ~Heard(v)
      /\ Text[v] \notin ToSet(uiSteer) /\ Text[v] \notin ToSet(uiFollow)
  BY <1>0, <1>1, FreshNowhere DEF ShownOf, Heard
<1>3. /\ Append(uiSteer, Text[v]) \in Seq(Texts) /\ Append(uiFollow, Text[v]) \in Seq(Texts)
      /\ ToSet(Append(uiSteer, Text[v])) = ToSet(uiSteer) \cup {Text[v]}
      /\ ToSet(Append(uiFollow, Text[v])) = ToSet(uiFollow) \cup {Text[v]}
  BY <1>0, ElementsAppend, Appended
<1>4. /\ ToSet(Append(steerQ, v)) = ToSet(steerQ) \cup {v}
      /\ ToSet(Append(followQ, v)) = ToSet(followQ) \cup {v}
      /\ ToSet(Append(steered, v)) = ToSet(steered) \cup {v}
      /\ ToSet(Append(followed, v)) = ToSet(followed) \cup {v}
  BY <1>0, ElementsAppend
<1>5. ASSUME NEW u \in Users
      PROVE  Once(Text[u], Append(uiSteer, Text[v])) /\ Once(Text[u], Append(uiFollow, Text[v]))
  BY <1>0, <1>2, OnceAppend DEF ShownOf
<1>6. ASSUME NEW u \in Users, Text[u] = Text[v] PROVE u = v
  BY <1>6 DEF OwnTexts
<1>7. CASE QueueSteer(v)
  <2>1. /\ uiSteer' = Append(uiSteer, Text[v]) /\ uiFollow' = uiFollow
        /\ steerQ' = Append(steerQ, v) /\ steered' = Append(steered, v)
        /\ followQ' = followQ /\ followed' = followed
    BY <1>7 DEF QueueSteer, Steer
  <2>2. ASSUME NEW u \in Users PROVE ShownOf(u)'
    <3>1. ShownOf(u) /\ Once(Text[u], uiSteer')
      BY <1>0, <1>5, <2>1
    <3>2. Once(Text[u], uiSteer)' /\ Once(Text[u], uiFollow)'
      BY <2>1, <3>1 DEF Once, ShownOf
    <3>3. /\ Text[u] \in ToSet(uiSteer') => u \in ToSet(steered') /\ ~Heard(u)
          /\ Text[u] \in ToSet(uiFollow') => u \in ToSet(followed') /\ ~Heard(u)
          /\ u \in ToSet(steerQ') => Text[u] \in ToSet(uiSteer')
          /\ u \in ToSet(followQ') => Text[u] \in ToSet(uiFollow')
      BY <1>2, <1>3, <1>4, <1>6, <2>1, <3>1 DEF ShownOf, Steering, Following
    <3>. QED BY <1>1, <3>2, <3>3 DEF ShownOf, Heard, Steering, Following, UserMsg
  <2>. QED BY <1>0, <1>3, <2>1, <2>2 DEF UiInv, Texts
<1>8. CASE QueueFollowUp(v)
  <2>1. /\ uiFollow' = Append(uiFollow, Text[v]) /\ uiSteer' = uiSteer
        /\ followQ' = Append(followQ, v) /\ followed' = Append(followed, v)
        /\ steerQ' = steerQ /\ steered' = steered
    BY <1>8 DEF QueueFollowUp, FollowUp
  <2>2. ASSUME NEW u \in Users PROVE ShownOf(u)'
    <3>1. ShownOf(u) /\ Once(Text[u], uiFollow')
      BY <1>0, <1>5, <2>1
    <3>2. Once(Text[u], uiSteer)' /\ Once(Text[u], uiFollow)'
      BY <2>1, <3>1 DEF Once, ShownOf
    <3>3. /\ Text[u] \in ToSet(uiSteer') => u \in ToSet(steered') /\ ~Heard(u)
          /\ Text[u] \in ToSet(uiFollow') => u \in ToSet(followed') /\ ~Heard(u)
          /\ u \in ToSet(steerQ') => Text[u] \in ToSet(uiSteer')
          /\ u \in ToSet(followQ') => Text[u] \in ToSet(uiFollow')
      BY <1>2, <1>3, <1>4, <1>6, <2>1, <3>1 DEF ShownOf, Steering, Following
    <3>. QED BY <1>1, <3>2, <3>3 DEF ShownOf, Heard, Steering, Following, UserMsg
  <2>. QED BY <1>0, <1>3, <2>1, <2>2 DEF UiInv, Texts
<1>. QED BY <1>7, <1>8

(* The message that is delivered leaves the list it is on, no other does.   *)
LEMMA UiDelivers ==
    ASSUME FifoInv, OwnTexts, UiInv, NEW v \in Users, Delivered(v),
           UNCHANGED <<steered, followed>>,
           ToSet(steerQ') \subseteq ToSet(steerQ), ToSet(followQ') \subseteq ToSet(followQ),
           v \notin ToSet(steerQ'), v \notin ToSet(followQ'),
           \A u \in Users : UserMsg(u) \in ToSet(messages') => u = v \/ UserMsg(u) \in ToSet(messages)
    PROVE  UiInv'
<1>. DEFINE t == Text[v]
<1>0. /\ uiSteer \in Seq(Texts) /\ uiFollow \in Seq(Texts)
      /\ \A u \in Users : ShownOf(u)
      /\ Once(t, uiSteer) /\ Once(t, uiFollow)
  BY DEF UiInv, ShownOf
<1>1. /\ RemoveFirst(uiSteer, t) \in Seq(Texts) /\ RemoveFirst(uiFollow, t) \in Seq(Texts)
      /\ ToSet(RemoveFirst(uiSteer, t)) = ToSet(uiSteer) \ {t}
      /\ ToSet(RemoveFirst(uiFollow, t)) = ToSet(uiFollow) \ {t}
      /\ \A e : Once(e, uiSteer) => Once(e, RemoveFirst(uiSteer, t))
      /\ \A e : Once(e, uiFollow) => Once(e, RemoveFirst(uiFollow, t))
  BY <1>0, RemovesOnly
<1>2. Contains(uiSteer, t) <=> t \in ToSet(uiSteer)
  <2>1. DOMAIN uiSteer = 1..Len(uiSteer)
    BY <1>0
  <2>. QED BY <2>1 DEF Contains, ToSet
<1>3. Contains(uiSteer, t) => t \notin ToSet(uiFollow)
  BY <1>0, <1>2 DEF ShownOf, FifoInv
<1>4. uiSteer' = RemoveFirst(uiSteer, t) /\ uiFollow' \in {uiFollow, RemoveFirst(uiFollow, t)}
  BY DEF Delivered
<1>5. /\ uiSteer' \in Seq(Texts) /\ uiFollow' \in Seq(Texts)
      /\ ToSet(uiSteer') = ToSet(uiSteer) \ {t} /\ ToSet(uiFollow') = ToSet(uiFollow) \ {t}
  <2>1. uiSteer' \in Seq(Texts) /\ ToSet(uiSteer') = ToSet(uiSteer) \ {t}
    BY <1>1, <1>4
  <2>2. CASE Contains(uiSteer, t)
    <3>1. uiFollow' = uiFollow
      BY <2>2 DEF Delivered
    <3>. QED BY <1>0, <1>3, <2>1, <2>2, <3>1
  <2>3. CASE ~Contains(uiSteer, t)
    <3>1. uiFollow' = RemoveFirst(uiFollow, t)
      BY <2>3 DEF Delivered
    <3>. QED BY <1>1, <2>1, <3>1
  <2>. QED BY <2>2, <2>3
<1>6. ASSUME NEW u \in Users PROVE ShownOf(u)'
  <2>1. ShownOf(u) /\ (Text[u] = t => u = v)
    BY <1>0 DEF OwnTexts
  <2>2. Once(Text[u], uiSteer') /\ Once(Text[u], uiFollow')
    BY <1>1, <1>4, <2>1 DEF ShownOf
  <2>3. Once(Text[u], uiSteer)' /\ Once(Text[u], uiFollow)'
    BY <2>2 DEF Once
  <2>4. /\ Text[u] \in ToSet(uiSteer') => u \in ToSet(steered') /\ UserMsg(u) \notin ToSet(messages')
        /\ Text[u] \in ToSet(uiFollow') => u \in ToSet(followed') /\ UserMsg(u) \notin ToSet(messages')
        /\ u \in ToSet(steerQ') => Text[u] \in ToSet(uiSteer')
        /\ u \in ToSet(followQ') => Text[u] \in ToSet(uiFollow')
    BY <1>5, <2>1 DEF ShownOf, Heard, Steering, Following
  <2>. QED BY <2>3, <2>4 DEF ShownOf, Heard, Steering, Following, UserMsg
<1>. QED BY <1>5, <1>6 DEF UiInv, Texts

(* A step of the agent that the session listens to.                         *)
LEMMA UiListens ==
    ASSUME LoopInv, OwnTexts, UiInv, AgentStep
    PROVE  UiInv'
<1>0. /\ MessageInv /\ FifoInv /\ MessageInv' /\ TypeOK /\ UserInv'
      /\ messages \in Seq(Message)
  <2>1. [Next]_vars
    BY DEF AgentStep, Next
  <2>2. MessageInv' /\ MessageInv /\ FifoInv
    BY <2>1, MessageInductive DEF LoopInv
  <2>. QED BY <2>2 DEF MessageInv, IInv, TypeOK
<1>1. [Next]_vars /\ Listener
  BY DEF AgentStep, Next
<1>2. UNCHANGED <<steered, followed>>
  BY DEF AgentStep, RunStep, TaskStep, EmitPrompt, FirstCollect, EndTurn, Woken, CollectThen,
         Inject, StreamStops, StreamDone, CallStep, StartCall, RejectCall, DetachCall,
         PrepareCall, FinishCall, AnswerCall, EndCall, EndBatch, FinishRun, TaskEnds,
         TaskSettles, historyVars
<1>3. ToSet(steerQ') \subseteq ToSet(steerQ) /\ ToSet(followQ') \subseteq ToSet(followQ)
  <2>1. ASSUME NEW v \in Users, Steer(v) \/ FollowUp(v) PROVE FALSE
    <3>1. /\ steered' = Append(steered, v) \/ followed' = Append(followed, v)
          /\ steered \in Seq(Users) /\ followed \in Seq(Users)
      BY <1>0, <2>1 DEF Steer, FollowUp, TypeOK
    <3>2. Append(steered, v) # steered /\ Append(followed, v) # followed
      <4>1. /\ Len(Append(steered, v)) = Len(steered) + 1 /\ Len(steered) \in Nat
            /\ Len(Append(followed, v)) = Len(followed) + 1 /\ Len(followed) \in Nat
        BY <3>1, Appended
      <4>2. Len(steered) + 1 # Len(steered) /\ Len(followed) + 1 # Len(followed)
        BY <4>1
      <4>. QED BY <4>1, <4>2
    <3>. QED BY <1>2, <3>1, <3>2
  <2>. QED BY <1>0, <1>1, <2>1, QueuesMove
<1>4. CASE messages' = messages
  <2>1. UNCHANGED uiVars
    BY <1>0, <1>1, <1>4 DEF Listener
  <2>. QED BY <1>2, <1>3, <1>4, <2>1, UiSame DEF uiVars
<1>5. ASSUME NEW m \in Message, messages' = Append(messages, m)
      PROVE  /\ Len(messages') > Len(messages) /\ Last(messages') = m
             /\ ToSet(messages') = ToSet(messages) \cup {m}
  <2>1. /\ Len(messages') = Len(messages) + 1 /\ Len(messages) \in Nat
        /\ messages'[Len(messages) + 1] = m
        /\ ToSet(messages') = ToSet(messages) \cup {m}
    BY <1>0, <1>5, Appended, ElementsAppend
  <2>2. Len(messages') > Len(messages) /\ messages'[Len(messages')] = m
    BY <2>1
  <2>. QED BY <2>1, <2>2 DEF Last
<1>6. ASSUME NEW m \in Message, m.role \notin {"user", "row"}, messages' = Append(messages, m)
      PROVE  UiInv'
  <2>1. UNCHANGED uiVars
    BY <1>1, <1>5, <1>6 DEF Listener
  <2>2. \A u \in Users : UserMsg(u) \in ToSet(messages') => UserMsg(u) \in ToSet(messages)
    BY <1>5, <1>6, UserMsgType
  <2>. QED BY <1>2, <1>3, <2>1, <2>2, UiSame DEF uiVars
<1>7. ASSUME NEW v \in Users, messages' = Append(messages, UserMsg(v)) PROVE UiInv'
  <2>1. /\ Len(messages') > Len(messages) /\ Last(messages') = UserMsg(v)
        /\ ToSet(messages') = ToSet(messages) \cup {UserMsg(v)}
        /\ UserMsg(v).role = "user" /\ UserMsg(v).id = v
    <3>1. UserMsg(v) \in Message /\ UserMsg(v).role = "user" /\ UserMsg(v).id = v
      BY UserMsgType DEF UserMsg
    <3>. QED BY <1>5, <1>7, <3>1
  <2>2. Delivered(v)
    BY <1>1, <2>1 DEF Listener
  <2>3. v \notin ToSet(steerQ') /\ v \notin ToSet(followQ')
    <3>1. Apart(v)'
      BY <1>0 DEF UserInv, Tracked
    <3>2. Heard(v)'
      BY <2>1 DEF Heard, UserMsg
    <3>. QED BY <3>1, <3>2 DEF Apart, Steering, Following
  <2>4. \A u \in Users : UserMsg(u) \in ToSet(messages') => u = v \/ UserMsg(u) \in ToSet(messages)
    BY <2>1, UserMsgInjective
  <2>. QED BY <1>0, <1>2, <1>3, <2>2, <2>3, <2>4, UiDelivers
<1>. QED BY <1>0, <1>1, <1>4, <1>6, <1>7, Says

(* While messages are injected there is one to inject.                      *)
InjectInv == pc = "inject" => pending # <<>>

LEMMA InjectInductive ==
    ASSUME InjectInv, [Next]_vars \/ RowsStep
    PROVE  InjectInv'
<1>1. CASE UNCHANGED <<pc, pending>> \/ pc' # "inject"
  BY <1>1 DEF InjectInv
<1>3. CASE Inject
  BY <1>3 DEF Inject, InjectInv
<1>4. CASE FirstCollect \/ EndTurn \/ Woken
  BY <1>4 DEF FirstCollect, EndTurn, Woken, CollectThen, InjectInv
<1>5. \/ UNCHANGED <<pc, pending>> \/ pc' # "inject"
      \/ FirstCollect \/ EndTurn \/ Woken \/ Inject
  BY DEF RowsStep, Next, Callers, RunStep, TaskStep, vars, agentVars, loopVars, bgVars,
         Prompt, Steer, FollowUp, ContinueRun, StartRun, ClearQueues, Abort, EmitPrompt,
         StreamStops, StreamDone, CallStep, StartCall, RejectCall, DetachCall, PrepareCall,
         FinishCall, AnswerCall, EndCall, EndBatch, RunFails, FinishRun, TaskEnds, TaskSettles
<1>. QED BY <1>1, <1>3, <1>4, <1>5

(* A run that fails, where a listener may have taken the text already.      *)
LEMMA UiFails ==
    ASSUME LoopInv, InjectInv, OwnTexts, UiInv, AgentFails
    PROVE  UiInv'
<1>0. /\ TypeOK /\ ReportInv /\ PromptsInv /\ UserInv /\ FifoInv
      /\ messages \in Seq(Message) /\ pending \in Seq(Message)
  BY DEF LoopInv, MessageInv, IInv, TypeOK
<1>1. /\ RunFails /\ UNCHANGED <<steerQ, followQ, steered, followed>>
      /\ \/ UNCHANGED <<uiSteer, uiFollow>>
         \/ /\ pc = "inject" /\ Head(pending).role = "user" /\ Delivered(Head(pending).id)
  BY DEF AgentFails, RunFails, uiVars
<1>2. \A u \in Users : UserMsg(u) \in ToSet(messages') => UserMsg(u) \in ToSet(messages)
  <2>1. Failure \in Message /\ \A u \in Users : UserMsg(u) # Failure
    BY MessageTypes DEF Failure, UserMsg
  <2>2. ToSet(Append(messages, Failure)) = ToSet(messages) \cup {Failure}
    BY <1>0, <2>1, ElementsAppend
  <2>. QED BY <1>1, <2>1, <2>2 DEF RunFails
<1>3. CASE UNCHANGED <<uiSteer, uiFollow>>
  BY <1>1, <1>2, <1>3, UiSame
<1>4. CASE pc = "inject" /\ Head(pending).role = "user" /\ Delivered(Head(pending).id)
  <2>1. pending # <<>> /\ Head(pending) \in ToSet(pending)
    BY <1>0, <1>4, ElementsTail DEF InjectInv
  <2>2. Head(pending) \in {UserMsg(u) : u \in Users} \cup {Background(c) : c \in BgCalls}
    BY <1>0, <2>1 DEF PromptsInv
  <2>3. PICK v \in Users : Head(pending) = UserMsg(v)
    BY <1>4, <2>2 DEF Background
  <2>4. Delivered(v)
    BY <1>4, <2>3 DEF UserMsg
  <2>5. v \notin ToSet(steerQ) /\ v \notin ToSet(followQ)
    <3>1. Apart(v) /\ Collected(v)
      BY <1>0, <2>1, <2>3 DEF UserInv, Tracked, Collected
    <3>. QED BY <3>1 DEF Apart, Steering, Following
  <2>. QED BY <1>0, <1>1, <1>2, <2>4, <2>5, UiDelivers
<1>. QED BY <1>1, <1>3, <1>4

(* Every step of the session keeps the lists.                               *)
LEMMA UiInductive ==
    ASSUME LoopInv, deferred \in Seq(Rows), InjectInv, OwnTexts, UiInv, [SessionNext]_sessionVars
    PROVE  UiInv'
<1>0. TypeOK /\ BatchInv /\ ReportInv /\ UserInv
  BY DEF LoopInv, MessageInv, IInv
<1>1. ASSUME RowsStep, UNCHANGED uiVars PROVE UiInv'
  <2>1. /\ \A m \in Message : m.role # "row" => (m \in ToSet(messages') <=> m \in ToSet(messages))
        /\ UNCHANGED <<steerQ, followQ, steered, followed>>
    BY <1>0, <1>1, RowsShape
  <2>. QED BY <1>1, <2>1, UserMsgType, UiSame DEF uiVars
<1>2. ASSUME UNCHANGED <<messages, steerQ, followQ, steered, followed>>, UNCHANGED uiVars
      PROVE  UiInv'
  BY <1>2, UiSame DEF uiVars
<1>3. CASE ClearQueue
  <2>1. /\ uiSteer' = <<>> /\ uiFollow' = <<>> /\ steerQ' = <<>> /\ followQ' = <<>>
    BY <1>3 DEF ClearQueue, ClearQueues, vars, agentVars
  <2>. QED BY <2>1, Nil, ElementsNil DEF UiInv, ShownOf, Once, Steering, Following, Texts
<1>4. CASE AgentStep
  BY <1>4, UiListens
<1>5. CASE AgentFails
  BY <1>5, UiFails
<1>6. ASSUME NEW u \in Users, QueueSteer(u) \/ QueueFollowUp(u) PROVE UiInv'
  BY <1>0, <1>6, UiQueues
<1>7. ASSUME NEW u \in Users, SessionPrompt(u) PROVE RowsStep /\ UNCHANGED uiVars
  BY <1>7 DEF SessionPrompt, FlushRows, RowsStep
<1>8. CASE PromptRefused
  <2>1. RowsStep
    BY <1>8 DEF PromptRefused, FlushRows, RowsStep, loopVars, historyVars
  <2>. QED BY <1>1, <1>8, <2>1 DEF PromptRefused
<1>9. ASSUME NEW r \in Rows, BashEnds(r) PROVE UiInv'
  <2>1. CASE messages' = messages
    BY <1>2, <1>9, <2>1 DEF BashEnds, historyVars
  <2>2. CASE messages' = Append(messages, Row(r))
    <3>1. ToSet(messages') = ToSet(messages) \cup {Row(r)}
      BY <1>0, <2>2, RowsAreMessages, ElementsAppend DEF TypeOK
    <3>2. \A u \in Users : UserMsg(u) # Row(r)
      BY DEF UserMsg, Row
    <3>. QED BY <1>9, <3>1, <3>2, UiSame DEF BashEnds, historyVars, uiVars
  <2>. QED BY <1>9, <2>1, <2>2 DEF BashEnds
<1>10. CASE SessionAbort \/ UNCHANGED sessionVars
            \/ \E r \in Rows : BashStart(r) \/ BashRaises(r)
  BY <1>2, <1>10 DEF SessionAbort, Abort, sessionVars, BashStart, BashRaises, vars, agentVars,
                     historyVars
<1>. QED BY <1>1, <1>3, <1>4, <1>5, <1>6, <1>7, <1>8, <1>9, <1>10 DEF SessionNext

\* The lists of queued texts that a UI shows are those of the queues, when no two messages
\* say the same: what waits in a queue is shown, and what has been delivered is not,
\* whatever was cleared, aborted, or failed half way through injecting.
THEOREM UiListsQueues ==
    ASSUME OwnTexts
    PROVE  SessionSpec => []UiShowsQueues
<1>1. SessionInit => InjectInv /\ UiInv
  BY Nil, ElementsNil DEF SessionInit, Init, InjectInv, UiInv, ShownOf, Once, Steering,
                          Following, Texts
<1>2. LoopInv /\ RowsInv /\ InjectInv /\ UiInv /\ [SessionNext]_sessionVars
         => InjectInv' /\ UiInv'
  <2>. SUFFICES ASSUME LoopInv, RowsInv, InjectInv, UiInv, [SessionNext]_sessionVars
                PROVE  InjectInv' /\ UiInv'
    OBVIOUS
  <2>1. deferred \in Seq(Rows) /\ messages \in Seq(Message)
    BY DEF RowsInv, LoopInv, MessageInv, IInv, TypeOK
  <2>. QED BY <2>1, SessionSteps, InjectInductive, UiInductive
<1>3. LoopInv /\ UiInv => UiShowsQueues
  <2>. SUFFICES ASSUME LoopInv, UiInv PROVE UiShowsQueues
    OBVIOUS
  <2>1. \A t : /\ Contains(uiSteer, t) <=> t \in ToSet(uiSteer)
               /\ Contains(uiFollow, t) <=> t \in ToSet(uiFollow)
    <3>1. DOMAIN uiSteer = 1..Len(uiSteer) /\ DOMAIN uiFollow = 1..Len(uiFollow)
      BY DEF UiInv
    <3>. QED BY <3>1 DEF Contains, ToSet
  <2>2. ToSet(steerQ) \subseteq Users /\ ToSet(followQ) \subseteq Users
    BY DEF LoopInv, MessageInv, IInv, TypeOK, ToSet
  <2>. QED BY <2>1, <2>2 DEF UiInv, ShownOf, UiShowsQueues, Shown, NothingDeliveredShown,
                             Heard, Steering, Following
<1>. QED BY <1>1, <1>2, <1>3, SessionHolds, PTL DEF SessionSpec

=============================================================================
