--------------------------- MODULE TranscriptProofs ---------------------------
(***************************************************************************)
(* Proofs about the order of the transcript: messages leave a queue in the *)
(* order in which they were given to it, and the copy of the transcript    *)
(* that the loop sends to the provider agrees with the agent's own; and    *)
(* the calls of an assistant message are answered right behind it.         *)
(***************************************************************************)
EXTENDS ConversationProofs

(* Wherever both occur in a sequence, the first comes before the second.    *)
Ordered(a, b, s) == \A k, l \in DOMAIN s : s[k] = a /\ s[l] = b => k < l

(* Of which only one occurs, or neither, is in any order.                   *)
LEMMA OrderedAbsent ==
    ASSUME NEW a, NEW b, NEW s, a \notin ToSet(s) \/ b \notin ToSet(s)
    PROVE  Ordered(a, b, s)
BY DEF Ordered, ToSet

(* What is appended comes last.                                             *)
LEMMA OrderedAppend ==
    ASSUME NEW S, NEW s \in Seq(S), NEW e \in S, NEW a, NEW b, a # b, Ordered(a, b, s),
           a = e => b \notin ToSet(s)
    PROVE  Ordered(a, b, Append(s, e))
<1>1. /\ Append(s, e) \in Seq(S) /\ Len(Append(s, e)) = Len(s) + 1 /\ Len(s) \in Nat
      /\ Append(s, e)[Len(s) + 1] = e
      /\ \A i \in 1..Len(s) : Append(s, e)[i] = s[i]
  BY AppendProperties
<1>2. DOMAIN Append(s, e) = 1..(Len(s) + 1) /\ DOMAIN s = 1..Len(s)
  BY <1>1
<1>3. \A i \in 1..Len(s) : s[i] \in ToSet(s)
  BY <1>2 DEF ToSet
<1>. SUFFICES ASSUME NEW k \in 1..(Len(s) + 1), NEW l \in 1..(Len(s) + 1),
                     Append(s, e)[k] = a, Append(s, e)[l] = b
              PROVE  k < l
  BY <1>2 DEF Ordered
<1>4. CASE k = Len(s) + 1
  <2>1. a = e /\ l \in 1..Len(s)
    BY <1>1, <1>4
  <2>2. b \in ToSet(s)
    BY <1>1, <1>3, <2>1
  <2>. QED BY <2>1, <2>2
<1>5. CASE k \in 1..Len(s) /\ l = Len(s) + 1
  BY <1>1, <1>5
<1>6. CASE k \in 1..Len(s) /\ l \in 1..Len(s)
  BY <1>1, <1>2, <1>6 DEF Ordered
<1>. QED BY <1>1, <1>4, <1>5, <1>6

(* Behind the head, nothing that belongs before it.                         *)
LEMMA OrderedTail ==
    ASSUME NEW S, NEW s \in Seq(S), s # <<>>, NEW a, NEW b, Ordered(a, b, s)
    PROVE  /\ Ordered(a, b, Tail(s))
           /\ b = Head(s) => a \notin ToSet(Tail(s))
<1>1. /\ Tail(s) \in Seq(S) /\ Len(Tail(s)) = Len(s) - 1 /\ Len(s) \in Nat \ {0}
      /\ \A i \in 1..Len(Tail(s)) : Tail(s)[i] = s[i + 1]
      /\ Head(s) = s[1]
  BY HeadTailProperties
<1>2. DOMAIN Tail(s) = 1..Len(Tail(s)) /\ DOMAIN s = 1..Len(s)
  BY <1>1
<1>3. ASSUME NEW k \in DOMAIN Tail(s), NEW l \in DOMAIN Tail(s), Tail(s)[k] = a, Tail(s)[l] = b
      PROVE  k < l
  <2>1. k + 1 \in DOMAIN s /\ l + 1 \in DOMAIN s /\ s[k + 1] = a /\ s[l + 1] = b
    BY <1>1, <1>2, <1>3
  <2>2. k + 1 < l + 1
    BY <2>1 DEF Ordered
  <2>. QED BY <1>1, <1>2, <2>2
<1>4. ASSUME b = Head(s), NEW k \in DOMAIN Tail(s), Tail(s)[k] = a PROVE FALSE
  <2>1. 1 \in DOMAIN s /\ k + 1 \in DOMAIN s /\ s[k + 1] = a /\ s[1] = b /\ ~(k + 1 < 1)
    BY <1>1, <1>2, <1>4
  <2>. QED BY <2>1 DEF Ordered
<1>. QED BY <1>3, <1>4 DEF Ordered, ToSet

(* A concatenation, when the second does not occur before the first.        *)
LEMMA OrderedConcat ==
    ASSUME NEW S, NEW s \in Seq(S), NEW t \in Seq(S), NEW a, NEW b,
           Ordered(a, b, s), Ordered(a, b, t), b \in ToSet(s) => a \notin ToSet(t)
    PROVE  Ordered(a, b, s \o t)
<1>1. /\ Len(s) \in Nat /\ Len(t) \in Nat /\ Len(s \o t) = Len(s) + Len(t)
      /\ \A i \in 1..Len(s) : (s \o t)[i] = s[i]
      /\ \A i \in (Len(s) + 1)..(Len(s) + Len(t)) : (s \o t)[i] = t[i - Len(s)]
      /\ DOMAIN (s \o t) = 1..(Len(s) + Len(t))
      /\ DOMAIN s = 1..Len(s) /\ DOMAIN t = 1..Len(t)
  BY ConcatProperties
<1>2. \A i \in 1..Len(s) : s[i] \in ToSet(s)
  BY <1>1 DEF ToSet
<1>3. \A i \in (Len(s) + 1)..(Len(s) + Len(t)) :
         i - Len(s) \in DOMAIN t /\ t[i - Len(s)] \in ToSet(t)
  BY <1>1 DEF ToSet
<1>. SUFFICES ASSUME NEW k \in 1..(Len(s) + Len(t)), NEW l \in 1..(Len(s) + Len(t)),
                     (s \o t)[k] = a, (s \o t)[l] = b
              PROVE  k < l
  BY <1>1 DEF Ordered
<1>4. CASE k <= Len(s) /\ l <= Len(s)
  BY <1>1, <1>4 DEF Ordered
<1>5. CASE k > Len(s) /\ l > Len(s)
  <2>1. k - Len(s) < l - Len(s)
    BY <1>1, <1>3, <1>5 DEF Ordered
  <2>. QED BY <1>1, <1>5, <2>1
<1>6. CASE k <= Len(s) /\ l > Len(s)
  BY <1>1, <1>6
<1>7. CASE l <= Len(s) /\ k > Len(s)
  BY <1>1, <1>2, <1>3, <1>7
<1>. QED BY <1>1, <1>4, <1>5, <1>6, <1>7

(* Messages come in the order of their ids.                                 *)
LEMMA OrderedUsers ==
    ASSUME NEW q \in Seq(Users), NEW a \in Users, NEW b \in Users
    PROVE  Ordered(UserMsg(a), UserMsg(b), UserMsgs(q)) <=> Ordered(a, b, q)
BY DEF Ordered, UserMsg, UserMsgs

(* The messages of a queue are those of what is drained and of what is kept. *)
LEMMA OrderedDrain ==
    ASSUME NEW q \in Seq(Users), NEW mode, NEW a \in Users, NEW b \in Users,
           Ordered(a, b, q)
    PROVE  /\ Ordered(a, b, Drained(q, mode)) /\ Ordered(a, b, Kept(q, mode))
           /\ b \in ToSet(Drained(q, mode)) => a \notin ToSet(Kept(q, mode))
           /\ ToSet(q) = ToSet(Drained(q, mode)) \cup ToSet(Kept(q, mode))
<1>1. CASE mode = "all" \/ q = <<>>
  <2>1. Drained(q, mode) = q /\ Kept(q, mode) = <<>>
    BY <1>1 DEF Drained, Kept
  <2>. QED BY <2>1, ElementsNil, OrderedAbsent
<1>2. CASE ~(mode = "all" \/ q = <<>>)
  <2>1. Drained(q, mode) = <<Head(q)>> /\ Kept(q, mode) = Tail(q)
    BY <1>2 DEF Drained, Kept
  <2>2. ToSet(<<Head(q)>>) = {Head(q)}
    BY DEF ToSet
  <2>3. ToSet(q) = {Head(q)} \cup ToSet(Tail(q))
    BY <1>2, ElementsTail
  <2>4. Ordered(a, b, Tail(q)) /\ (b = Head(q) => a \notin ToSet(Tail(q)))
    BY <1>2, OrderedTail
  <2>5. CASE a # b
    <3>1. Ordered(a, b, <<Head(q)>>)
      BY <2>2, <2>5, OrderedAbsent
    <3>. QED BY <2>1, <2>2, <2>3, <2>4, <3>1
  <2>6. CASE a = b
    <3>1. a \notin ToSet(q)
      BY <2>6 DEF Ordered, ToSet
    <3>2. Ordered(a, b, <<Head(q)>>)
      BY <2>2, <2>3, <3>1, OrderedAbsent
    <3>. QED BY <2>1, <2>2, <2>3, <2>4, <3>1, <3>2
  <2>. QED BY <2>5, <2>6
<1>. QED BY <1>1, <1>2

-----------------------------------------------------------------------------
(* Two messages on the way from a queue to the transcript m, over the       *)
(* prompts x or the messages about to be injected p: the second never gets  *)
(* ahead of the first.                                                      *)
Line(a, b, m, x, p, q) ==
    /\ Ordered(a, b, m) /\ Ordered(a, b, x) /\ Ordered(a, b, p) /\ Ordered(a, b, q)
    /\ b \in ToSet(m) => a \notin ToSet(x) /\ a \notin ToSet(p) /\ a \notin ToSet(q)
    /\ b \in ToSet(x) => a \notin ToSet(p) /\ a \notin ToSet(q)
    /\ b \in ToSet(p) => a \notin ToSet(q)

Sending == IF pc = "prompts" THEN Unsent ELSE <<>>

InLine(s, q) == \A i, j \in DOMAIN s : i < j =>
    /\ s[i] # s[j]
    /\ Line(UserMsg(s[i]), UserMsg(s[j]), messages, Sending, pending, UserMsgs(q))

FifoInv ==
    /\ ToSet(steerQ) \subseteq ToSet(steered) /\ ToSet(followQ) \subseteq ToSet(followed)
    /\ ToSet(steered) \cap ToSet(followed) = {}
    /\ InLine(steered, steerQ) /\ InLine(followed, followQ)

(* A queue's messages go on, in their order, as prompts or to be injected,  *)
(* behind others; what it keeps stays behind them.                          *)
LEMMA LinePasses ==
    ASSUME NEW a \in Users, NEW b \in Users, a # b, NEW m, NEW q \in Seq(Users), NEW mode,
           NEW g \in Seq(Message), UserMsg(a) \notin ToSet(g), UserMsg(b) \notin ToSet(g),
           Line(UserMsg(a), UserMsg(b), m, <<>>, <<>>, UserMsgs(q))
    PROVE  /\ Line(UserMsg(a), UserMsg(b), m, <<>>,
                   g \o UserMsgs(Drained(q, mode)), UserMsgs(Kept(q, mode)))
           /\ Line(UserMsg(a), UserMsg(b), m,
                   UserMsgs(Drained(q, mode)), <<>>, UserMsgs(Kept(q, mode)))
<1>. DEFINE D == UserMsgs(Drained(q, mode))
            K == UserMsgs(Kept(q, mode))
<1>0. Drained(q, mode) \in Seq(Users) /\ Kept(q, mode) \in Seq(Users)
  BY DrainType
<1>1. Ordered(a, b, q)
  BY OrderedUsers DEF Line
<1>2. /\ Ordered(a, b, Drained(q, mode)) /\ Ordered(a, b, Kept(q, mode))
      /\ b \in ToSet(Drained(q, mode)) => a \notin ToSet(Kept(q, mode))
      /\ ToSet(q) = ToSet(Drained(q, mode)) \cup ToSet(Kept(q, mode))
  BY <1>1, OrderedDrain
<1>3. \A u \in Users, r \in Seq(Users) : UserMsg(u) \in ToSet(UserMsgs(r)) <=> u \in ToSet(r)
  BY DEF UserMsg, UserMsgs, ToSet
<1>4. /\ Ordered(UserMsg(a), UserMsg(b), D) /\ Ordered(UserMsg(a), UserMsg(b), K)
      /\ UserMsg(b) \in ToSet(D) => UserMsg(a) \notin ToSet(K)
      /\ UserMsg(a) \in ToSet(D) \/ UserMsg(a) \in ToSet(K) => UserMsg(a) \in ToSet(UserMsgs(q))
  BY <1>0, <1>2, <1>3, OrderedUsers
<1>5. /\ D \in Seq(Message) /\ Ordered(UserMsg(a), UserMsg(b), g)
  BY <1>0, MessagesOf, OrderedAbsent
<1>6. /\ ToSet(g \o D) = ToSet(g) \cup ToSet(D)
      /\ Ordered(UserMsg(a), UserMsg(b), g \o D)
  BY <1>4, <1>5, OrderedConcat, ElementsConcat
<1>7. ToSet(<<>>) = {} /\ Ordered(UserMsg(a), UserMsg(b), <<>>)
  BY ElementsNil, OrderedAbsent
<1>. HIDE DEF D, K
<1>8. /\ Line(UserMsg(a), UserMsg(b), m, <<>>, g \o D, K)
      /\ Line(UserMsg(a), UserMsg(b), m, D, <<>>, K)
  BY <1>4, <1>6, <1>7 DEF Line
<1>. QED BY <1>8 DEF D, K

(* Messages of others come and go without notice; so may the end of a line. *)
LEMMA LineOthers ==
    ASSUME NEW a, NEW b, NEW m, NEW x, NEW p, NEW q, Line(a, b, m, x, p, q)
    PROVE  /\ Line(a, b, m, <<>>, <<>>, q) /\ Line(a, b, m, x, p, <<>>)
           /\ \A g : a \notin ToSet(g) /\ b \notin ToSet(g) =>
                       Line(a, b, m, g, <<>>, q) /\ Line(a, b, m, <<>>, g, q)
           /\ \A S : \A e \in S : m \in Seq(S) /\ a # b /\ a # e /\ b # e
                                   => Line(a, b, Append(m, e), x, p, q)
<1>1. ToSet(<<>>) = {} /\ \A g : a \notin ToSet(g) => Ordered(a, b, g)
  BY ElementsNil, OrderedAbsent
<1>2. ASSUME NEW S, NEW e \in S, m \in Seq(S), a # b, a # e, b # e
      PROVE  ToSet(Append(m, e)) = ToSet(m) \cup {e} /\ Ordered(a, b, Append(m, e))
  BY <1>2, OrderedAppend, ElementsAppend DEF Line
<1>. QED BY <1>1, <1>2 DEF Line

(* The head of the prompts, or of what is injected, enters the transcript.  *)
LEMMA LineHead ==
    ASSUME NEW a, NEW b, a # b, NEW m \in Seq(Message), NEW x \in Seq(Message), NEW p, NEW q,
           x # <<>>
    PROVE  /\ Line(a, b, m, x, p, q) => Line(a, b, Append(m, Head(x)), Tail(x), p, q)
           /\ Line(a, b, m, <<>>, x, q) => Line(a, b, Append(m, Head(x)), <<>>, Tail(x), q)
<1>1. Head(x) \in Message /\ ToSet(x) = {Head(x)} \cup ToSet(Tail(x))
  BY ElementsTail, HeadTailProperties
<1>2. ToSet(Append(m, Head(x))) = ToSet(m) \cup {Head(x)} /\ ToSet(<<>>) = {}
  BY <1>1, ElementsAppend, ElementsNil
<1>3. ASSUME Ordered(a, b, m), Ordered(a, b, x), b \in ToSet(m) => a \notin ToSet(x)
      PROVE  /\ Ordered(a, b, Append(m, Head(x))) /\ Ordered(a, b, Tail(x))
             /\ b = Head(x) => a \notin ToSet(Tail(x))
  <2>1. a = Head(x) => b \notin ToSet(m)
    BY <1>1, <1>3
  <2>. QED BY <1>1, <1>3, <2>1, OrderedAppend, OrderedTail
<1>. QED BY <1>1, <1>2, <1>3 DEF Line

(* Quiet steps and failures: the transcript gets nothing of the queue.      *)
LEMMA LineQuiet ==
    ASSUME TypeOK, NEW a \in Users, NEW b \in Users, a # b, NEW q, NEW r, r = q \/ r = <<>>,
           Quiet \/ RunFails \/ ClearQueues \/ (\E u \in Users : Steer(u) \/ FollowUp(u)),
           Line(UserMsg(a), UserMsg(b), messages, Sending, pending, q)
    PROVE  Line(UserMsg(a), UserMsg(b), messages', Sending', pending', r)
<1>. DEFINE A == UserMsg(a)
            B == UserMsg(b)
<1>1. messages \in Seq(Message) /\ Failure \in Message /\ A # B /\ A.role = "user" /\ B.role = "user"
      /\ Failure.role = "failure"
  BY MessageTypes DEF TypeOK, Failure, UserMsg
<1>2. /\ \/ Sending' = Sending /\ pending' = pending
         \/ Sending' = <<>> /\ pending' = <<>>
      /\ \/ messages' = messages
         \/ \E m \in Message : m.role # "user" /\ messages' = Append(messages, m)
  <2>1. CASE Quiet
    <3>1. Sending' = Sending /\ pending' = pending
      BY <2>1 DEF Quiet, Sending, Unsent
    <3>. QED BY <2>1, <3>1 DEF Quiet
  <2>2. CASE RunFails
    <3>1. pc' = "failed" /\ pending' = <<>>
      BY <2>2 DEF RunFails
    <3>2. messages' = messages \/ messages' = Append(messages, Failure)
      BY <2>2 DEF RunFails
    <3>. QED BY <1>1, <3>1, <3>2 DEF Sending
  <2>3. CASE ClearQueues \/ (\E u \in Users : Steer(u) \/ FollowUp(u))
    <3>1. UNCHANGED <<messages, pending, pc, context>>
      BY <2>3 DEF ClearQueues, Steer, FollowUp, loopVars
    <3>. QED BY <3>1 DEF Sending, Unsent
  <2>. QED BY <2>1, <2>2, <2>3
<1>. HIDE DEF A, B
<1>3. Line(A, B, messages, Sending, pending, r)
  BY LineOthers DEF A, B
<1>4. Line(A, B, messages, Sending', pending', r)
  BY <1>2, <1>3, LineOthers
<1>5. CASE messages' = messages
  BY <1>4, <1>5 DEF A, B
<1>6. ASSUME NEW m \in Message, m.role # "user", messages' = Append(messages, m)
      PROVE  Line(A, B, messages', Sending', pending', r)
  BY <1>1, <1>4, <1>6, LineOthers
<1>. QED BY <1>2, <1>5, <1>6 DEF A, B

(* A message that joins a queue is behind those that were in the line.      *)
LEMMA LineJoins ==
    ASSUME NEW a \in Users, NEW b \in Users, a # b, NEW v \in Users, v # a,
           NEW m, NEW x, NEW p, NEW q \in Seq(Users),
           \/ v # b /\ Line(UserMsg(a), UserMsg(b), m, x, p, UserMsgs(q))
           \/ /\ v = b /\ b \notin ToSet(q)
              /\ UserMsg(b) \notin ToSet(m) /\ UserMsg(b) \notin ToSet(x) /\ UserMsg(b) \notin ToSet(p)
    PROVE  Line(UserMsg(a), UserMsg(b), m, x, p, UserMsgs(Append(q, v)))
<1>1. Append(q, v) \in Seq(Users) /\ ToSet(Append(q, v)) = ToSet(q) \cup {v}
  BY ElementsAppend
<1>2. \A u \in Users, s \in Seq(Users) : UserMsg(u) \in ToSet(UserMsgs(s)) <=> u \in ToSet(s)
  BY DEF UserMsg, UserMsgs, ToSet
<1>3. Ordered(a, b, q)
  BY OrderedUsers, OrderedAbsent DEF Line
<1>4. Ordered(a, b, Append(q, v))
  BY <1>3, OrderedAppend
<1>5. Ordered(UserMsg(a), UserMsg(b), UserMsgs(Append(q, v)))
  BY <1>1, <1>4, OrderedUsers
<1>6. UserMsg(a) \in ToSet(UserMsgs(Append(q, v))) <=> UserMsg(a) \in ToSet(UserMsgs(q))
  BY <1>1, <1>2
<1>. QED BY <1>5, <1>6, OrderedAbsent DEF Line

(* A run starts with messages of one queue, or of none.                     *)
LEMMA LineStarts ==
    ASSUME TypeOK, ReportInv, pc = "idle",
           NEW a \in Users, NEW b \in Users, a # b, NEW q \in Seq(Users), NEW r, NEW mode,
           Line(UserMsg(a), UserMsg(b), messages, Sending, pending, UserMsgs(q)),
           NEW p \in Seq(Message), NEW skip, StartRun(p, skip),
           \/ r = q /\ UserMsg(a) \notin ToSet(p) /\ UserMsg(b) \notin ToSet(p)
           \/ r = Kept(q, mode) /\ p = UserMsgs(Drained(q, mode))
    PROVE  Line(UserMsg(a), UserMsg(b), messages', Sending', pending', UserMsgs(r))
<1>1. /\ Sending' = p /\ Sending = <<>> /\ pending = <<>> /\ pending' = <<>>
      /\ messages' = messages
  BY StartsPrompts DEF Sending, ReportInv
<1>2. Line(UserMsg(a), UserMsg(b), messages, <<>>, <<>>, UserMsgs(q))
  BY <1>1
<1>3. CASE r = q /\ UserMsg(a) \notin ToSet(p) /\ UserMsg(b) \notin ToSet(p)
  BY <1>1, <1>2, <1>3, LineOthers
<1>4. CASE r = Kept(q, mode) /\ p = UserMsgs(Drained(q, mode))
  <2>1. /\ <<>> \in Seq(Message) /\ UserMsg(a) \notin ToSet(<<>>) /\ UserMsg(b) \notin ToSet(<<>>)
    BY Nil, ElementsNil
  <2>2. Line(UserMsg(a), UserMsg(b), messages, UserMsgs(Drained(q, mode)), <<>>, UserMsgs(Kept(q, mode)))
    BY <1>2, <2>1, LinePasses
  <2>. QED BY <1>1, <1>4, <2>2
<1>. QED BY <1>3, <1>4

(* What is collected from a queue is behind the reports, and nothing of     *)
(* another queue moves in the line.                                         *)
LEMMA LineCollected ==
    ASSUME TypeOK, ReportInv, PromptsInv, Collecting,
           NEW a \in Users, NEW b \in Users, a # b, NEW q \in Seq(Users), NEW r, NEW mode,
           Line(UserMsg(a), UserMsg(b), messages, Sending, pending, UserMsgs(q)),
           NEW g \in Seq(Message), UserMsg(a) \notin ToSet(g), UserMsg(b) \notin ToSet(g),
           \/ r = q /\ pending' = g
           \/ r = Kept(q, mode) /\ pending' = g \o UserMsgs(Drained(q, mode))
    PROVE  Line(UserMsg(a), UserMsg(b), messages', Sending', pending', UserMsgs(r))
<1>1. pending = <<>> /\ Sending = <<>>
  BY PromptsSent DEF Collecting, ReportInv, Sending
<1>2. messages' = messages /\ Sending' = <<>>
  BY DEF Collecting, CollectThen, Sending
<1>3. Line(UserMsg(a), UserMsg(b), messages, <<>>, <<>>, UserMsgs(q))
  BY <1>1
<1>4. CASE r = q /\ pending' = g
  BY <1>2, <1>3, <1>4, LineOthers
<1>5. CASE r = Kept(q, mode) /\ pending' = g \o UserMsgs(Drained(q, mode))
  BY <1>2, <1>3, <1>5, LinePasses
<1>. QED BY <1>4, <1>5

(* The next prompt, or the next message to be injected, enters the          *)
(* transcript.                                                              *)
LEMMA LineEnters ==
    ASSUME TypeOK, ReportInv, PromptsInv, EmitPrompt \/ Inject,
           NEW a \in Users, NEW b \in Users, a # b, NEW q,
           Line(UserMsg(a), UserMsg(b), messages, Sending, pending, q)
    PROVE  Line(UserMsg(a), UserMsg(b), messages', Sending', pending', q)
<1>0. UserMsg(a) # UserMsg(b) /\ messages \in Seq(Message) /\ pending \in Seq(Message)
  BY UserMsgInjective DEF TypeOK
<1>1. CASE EmitPrompt
  <2>1. /\ pc = "prompts" /\ pc' = "prompts" /\ Unsent \in Seq(Message) /\ Unsent # <<>>
        /\ messages' = Append(messages, Head(Unsent)) /\ Unsent' = Tail(Unsent)
        /\ pending' = pending
    BY <1>1, EmitsPrompt
  <2>2. Sending = Unsent /\ Sending' = Tail(Unsent)
    BY <2>1 DEF Sending
  <2>. QED BY <1>0, <2>1, <2>2, LineHead
<1>2. CASE Inject
  <2>1. /\ pending # <<>> /\ pending' = Tail(pending)
        /\ messages' = Append(messages, Head(pending))
    BY <1>2 DEF Inject
  <2>2. Sending = <<>> /\ Sending' = <<>>
    BY <1>2 DEF Inject, Sending
  <2>. QED BY <1>0, <2>1, <2>2, LineHead
<1>. QED BY <1>1, <1>2

(* What is drained from another queue, and what is reported, is not in the   *)
(* line.                                                                    *)
LEMMA DrainedOthers ==
    ASSUME NEW q \in Seq(Users), NEW mode, NEW a \in Users, a \notin ToSet(q)
    PROVE  UserMsg(a) \notin ToSet(UserMsgs(Drained(q, mode)))
<1>1. Drained(q, mode) \in Seq(Users) /\ ToSet(Drained(q, mode)) \subseteq ToSet(q)
  <2>1. CASE mode = "all" \/ q = <<>>
    BY <2>1 DEF Drained
  <2>2. CASE ~(mode = "all" \/ q = <<>>)
    <3>1. ToSet(<<Head(q)>>) = {Head(q)}
      BY DEF ToSet
    <3>. QED BY <2>2, <3>1, ElementsTail, DrainType DEF Drained
  <2>. QED BY <2>1, <2>2
<1>. QED BY <1>1 DEF UserMsg, UserMsgs, ToSet

(* No step makes the second of two messages of the steering queue pass the   *)
(* first.                                                                   *)
LEMMA SteeringInLine ==
    ASSUME TypeOK, ReportInv, PromptsInv, [Next]_vars,
           NEW a \in Users, NEW b \in Users, a # b, a \notin Fresh, b \notin Fresh,
           a \notin ToSet(followQ), b \notin ToSet(followQ),
           Line(UserMsg(a), UserMsg(b), messages, Sending, pending, UserMsgs(steerQ))
    PROVE  Line(UserMsg(a), UserMsg(b), messages', Sending', pending', UserMsgs(steerQ'))
<1>. DEFINE A == UserMsg(a)
            B == UserMsg(b)
            S == UserMsgs(Drained(steerQ, SteeringMode))
            F == UserMsgs(Drained(followQ, FollowUpMode))
<1>0. /\ steerQ \in Seq(Users) /\ followQ \in Seq(Users) /\ results \in Seq(BgCalls)
      /\ S \in Seq(Message) /\ F \in Seq(Message) /\ <<>> \in Seq(Message)
      /\ A \notin ToSet(F) /\ B \notin ToSet(F) /\ ToSet(<<>>) = {}
      /\ Backgrounds(results) \in Seq(Message)
      /\ A \notin ToSet(Backgrounds(results)) /\ B \notin ToSet(Backgrounds(results))
  BY DrainType, MessagesOf, Nil, DrainedOthers, ElementsNil, KindsApart DEF TypeOK
<1>. HIDE DEF A, B, S, F
<1>1. CASE Quiet \/ RunFails \/ ClearQueues
  <2>1. UserMsgs(steerQ') = UserMsgs(steerQ) \/ UserMsgs(steerQ') = <<>>
    BY <1>1 DEF Quiet, RunFails, ClearQueues, UserMsgs
  <2>. QED BY <1>1, <2>1, LineQuiet
<1>2. ASSUME NEW v \in Users, Prompt(v) \/ Steer(v) \/ FollowUp(v)
      PROVE  Line(UserMsg(a), UserMsg(b), messages', Sending', pending', UserMsgs(steerQ'))
  <2>0. v # a /\ v # b
    BY <1>2 DEF Prompt, Steer, FollowUp
  <2>1. CASE Prompt(v)
    <3>1. <<UserMsg(v)>> \in Seq(Message) /\ A \notin ToSet(<<UserMsg(v)>>) /\ B \notin ToSet(<<UserMsg(v)>>)
      BY <2>0, UserMsgType, UserMsgInjective DEF A, B, ToSet
    <3>2. pc = "idle" /\ steerQ' = steerQ /\ StartRun(<<UserMsg(v)>>, FALSE)
      BY <2>1 DEF Prompt
    <3>. QED BY <1>0, <3>1, <3>2, LineStarts DEF A, B
  <2>2. CASE Steer(v)
    <3>1. Line(UserMsg(a), UserMsg(b), messages', Sending', pending', UserMsgs(steerQ))
      BY <2>2, LineQuiet
    <3>. QED BY <1>0, <2>0, <2>2, <3>1, LineJoins DEF Steer
  <2>3. CASE FollowUp(v)
    <3>1. steerQ' = steerQ
      BY <2>3 DEF FollowUp
    <3>. QED BY <2>3, <3>1, LineQuiet
  <2>. QED BY <1>2, <2>1, <2>2, <2>3
<1>3. CASE ContinueRun
  <2>1. /\ pc = "idle"
        /\ \/ steerQ' = steerQ /\ StartRun(<<>>, FALSE)
           \/ steerQ' = Kept(steerQ, SteeringMode) /\ StartRun(S, TRUE)
           \/ steerQ' = steerQ /\ StartRun(F, FALSE)
    BY <1>3 DEF ContinueRun, S, F
  <2>2. CASE steerQ' = steerQ /\ StartRun(<<>>, FALSE)
    BY <1>0, <2>1, <2>2, LineStarts
  <2>3. CASE steerQ' = Kept(steerQ, SteeringMode) /\ StartRun(S, TRUE)
    <3>1. S = UserMsgs(Drained(steerQ, SteeringMode))
      BY DEF S
    <3>. QED BY <1>0, <2>1, <2>3, <3>1, LineStarts
  <2>4. CASE steerQ' = steerQ /\ StartRun(F, FALSE)
    BY <1>0, <2>1, <2>4, LineStarts DEF A, B
  <2>. QED BY <2>1, <2>2, <2>3, <2>4
<1>4. CASE EmitPrompt \/ Inject
  <2>1. steerQ' = steerQ
    BY <1>4 DEF EmitPrompt, Inject
  <2>. QED BY <1>4, <2>1, LineEnters
<1>5. CASE Collecting
  <2>1. \/ steerQ' = steerQ /\ pending' = <<>>
        \/ steerQ' = steerQ /\ pending' = F
        \/ steerQ' = steerQ /\ pending' = Backgrounds(results)
        \/ steerQ' = Kept(steerQ, SteeringMode) /\ pending' = Backgrounds(results) \o S
    <3>. DEFINE polled == IF Poll THEN Drained(steerQ, SteeringMode) ELSE <<>>
                got == Backgrounds(results) \o UserMsgs(polled)
    <3>1. /\ steerQ' = IF Poll THEN Kept(steerQ, SteeringMode) ELSE steerQ
          /\ pending' = got \/ (got = <<>> /\ pending' \in {<<>>, F})
      BY <1>5 DEF Collecting, CollectThen, F
    <3>2. CASE ~Poll
      <4>1. UserMsgs(polled) = <<>>
        BY <3>2 DEF UserMsgs
      <4>2. got = Backgrounds(results)
        BY <1>0, <4>1, ConcatEmptySeq
      <4>. QED BY <3>1, <3>2, <4>2
    <3>3. CASE Poll /\ pending' = got
      <4>1. got = Backgrounds(results) \o S
        BY <3>3 DEF S
      <4>. QED BY <3>1, <3>3, <4>1
    <3>4. CASE Poll /\ got = <<>> /\ pending' \in {<<>>, F}
      <4>1. got = Backgrounds(results) \o S
        BY <3>4 DEF S
      <4>2. S = <<>>
        BY <1>0, <3>4, <4>1
      <4>3. steerQ = <<>>
        BY <1>0, <4>2 DEF S, UserMsgs, Drained
      <4>4. steerQ' = steerQ
        BY <3>1, <3>4, <4>3 DEF Kept
      <4>. QED BY <3>4, <4>4
    <3>. QED BY <3>1, <3>2, <3>3, <3>4
  <2>2. CASE steerQ' = steerQ /\ pending' = <<>>
    BY <1>0, <1>5, <2>2, LineCollected
  <2>3. CASE steerQ' = steerQ /\ pending' = F
    BY <1>0, <1>5, <2>3, LineCollected DEF A, B
  <2>4. CASE steerQ' = steerQ /\ pending' = Backgrounds(results)
    BY <1>0, <1>5, <2>4, LineCollected DEF A, B
  <2>5. CASE steerQ' = Kept(steerQ, SteeringMode) /\ pending' = Backgrounds(results) \o S
    BY <1>0, <1>5, <2>5, LineCollected DEF A, B, S
  <2>. QED BY <2>1, <2>2, <2>3, <2>4, <2>5
<1>. QED BY StepKinds, <1>1, <1>2, <1>3, <1>4, <1>5

(* The same of follow-ups.                                                  *)
LEMMA FollowUpsInLine ==
    ASSUME TypeOK, ReportInv, PromptsInv, [Next]_vars,
           NEW a \in Users, NEW b \in Users, a # b, a \notin Fresh, b \notin Fresh,
           a \notin ToSet(steerQ), b \notin ToSet(steerQ),
           Line(UserMsg(a), UserMsg(b), messages, Sending, pending, UserMsgs(followQ))
    PROVE  Line(UserMsg(a), UserMsg(b), messages', Sending', pending', UserMsgs(followQ'))
<1>. DEFINE A == UserMsg(a)
            B == UserMsg(b)
            S == UserMsgs(Drained(steerQ, SteeringMode))
            F == UserMsgs(Drained(followQ, FollowUpMode))
<1>0. /\ steerQ \in Seq(Users) /\ followQ \in Seq(Users) /\ results \in Seq(BgCalls)
      /\ S \in Seq(Message) /\ F \in Seq(Message) /\ <<>> \in Seq(Message)
      /\ A \notin ToSet(S) /\ B \notin ToSet(S) /\ ToSet(<<>>) = {}
      /\ Backgrounds(results) \in Seq(Message)
      /\ A \notin ToSet(Backgrounds(results)) /\ B \notin ToSet(Backgrounds(results))
  BY DrainType, MessagesOf, Nil, DrainedOthers, ElementsNil, KindsApart DEF TypeOK
<1>. HIDE DEF A, B, S, F
<1>1. CASE Quiet \/ RunFails \/ ClearQueues
  <2>1. UserMsgs(followQ') = UserMsgs(followQ) \/ UserMsgs(followQ') = <<>>
    BY <1>1 DEF Quiet, RunFails, ClearQueues, UserMsgs
  <2>. QED BY <1>1, <2>1, LineQuiet
<1>2. ASSUME NEW v \in Users, Prompt(v) \/ Steer(v) \/ FollowUp(v)
      PROVE  Line(UserMsg(a), UserMsg(b), messages', Sending', pending', UserMsgs(followQ'))
  <2>0. v # a /\ v # b
    BY <1>2 DEF Prompt, Steer, FollowUp
  <2>1. CASE Prompt(v)
    <3>1. <<UserMsg(v)>> \in Seq(Message) /\ A \notin ToSet(<<UserMsg(v)>>) /\ B \notin ToSet(<<UserMsg(v)>>)
      BY <2>0, UserMsgType, UserMsgInjective DEF A, B, ToSet
    <3>2. pc = "idle" /\ followQ' = followQ /\ StartRun(<<UserMsg(v)>>, FALSE)
      BY <2>1 DEF Prompt
    <3>. QED BY <1>0, <3>1, <3>2, LineStarts DEF A, B
  <2>2. CASE FollowUp(v)
    <3>1. Line(UserMsg(a), UserMsg(b), messages', Sending', pending', UserMsgs(followQ))
      BY <2>2, LineQuiet
    <3>. QED BY <1>0, <2>0, <2>2, <3>1, LineJoins DEF FollowUp
  <2>3. CASE Steer(v)
    <3>1. followQ' = followQ
      BY <2>3 DEF Steer
    <3>. QED BY <2>3, <3>1, LineQuiet
  <2>. QED BY <1>2, <2>1, <2>2, <2>3
<1>3. CASE ContinueRun
  <2>1. /\ pc = "idle"
        /\ \/ followQ' = followQ /\ StartRun(<<>>, FALSE)
           \/ followQ' = followQ /\ StartRun(S, TRUE)
           \/ followQ' = Kept(followQ, FollowUpMode) /\ StartRun(F, FALSE)
    BY <1>3 DEF ContinueRun, S, F
  <2>2. CASE followQ' = followQ /\ StartRun(<<>>, FALSE)
    BY <1>0, <2>1, <2>2, LineStarts
  <2>3. CASE followQ' = followQ /\ StartRun(S, TRUE)
    BY <1>0, <2>1, <2>3, LineStarts DEF A, B
  <2>4. CASE followQ' = Kept(followQ, FollowUpMode) /\ StartRun(F, FALSE)
    <3>1. F = UserMsgs(Drained(followQ, FollowUpMode))
      BY DEF F
    <3>. QED BY <1>0, <2>1, <2>4, <3>1, LineStarts
  <2>. QED BY <2>1, <2>2, <2>3, <2>4
<1>4. CASE EmitPrompt \/ Inject
  <2>1. followQ' = followQ
    BY <1>4 DEF EmitPrompt, Inject
  <2>. QED BY <1>4, <2>1, LineEnters
<1>5. CASE Collecting
  <2>. DEFINE polled == IF Poll THEN Drained(steerQ, SteeringMode) ELSE <<>>
              got == Backgrounds(results) \o UserMsgs(polled)
  <2>1. \/ followQ' = followQ /\ pending' = <<>>
        \/ followQ' = followQ /\ pending' = got
        \/ followQ' = Kept(followQ, FollowUpMode) /\ pending' = F
    BY <1>5 DEF Collecting, CollectThen, F
  <2>2. CASE followQ' = followQ /\ pending' = <<>>
    BY <1>0, <1>5, <2>2, LineCollected
  <2>3. CASE followQ' = followQ /\ pending' = got
    <3>1. UserMsgs(polled) = S \/ UserMsgs(polled) = <<>>
      BY DEF S, UserMsgs
    <3>2. UserMsgs(polled) \in Seq(Message) /\ A \notin ToSet(UserMsgs(polled)) /\ B \notin ToSet(UserMsgs(polled))
      BY <1>0, <3>1
    <3>3. got \in Seq(Message) /\ A \notin ToSet(got) /\ B \notin ToSet(got)
      BY <1>0, <3>2, ElementsConcat
    <3>. HIDE DEF got
    <3>. QED BY <1>0, <1>5, <2>3, <3>3, LineCollected DEF A, B
  <2>4. CASE followQ' = Kept(followQ, FollowUpMode) /\ pending' = F
    <3>1. <<>> \o F = F
      BY <1>0, ConcatEmptySeq
    <3>2. pending' = <<>> \o UserMsgs(Drained(followQ, FollowUpMode))
      BY <2>4, <3>1 DEF F
    <3>. QED BY <1>0, <1>5, <2>4, <3>2, LineCollected
  <2>. QED BY <2>1, <2>2, <2>3, <2>4
<1>. QED BY StepKinds, <1>1, <1>2, <1>3, <1>4, <1>5

(* How the queues and their histories move: steer and follow_up add at the  *)
(* end of both, nothing else adds to either.                                *)
LEMMA QueuesMove ==
    ASSUME TypeOK, [Next]_vars
    PROVE  \/ /\ UNCHANGED <<steered, followed>>
              /\ ToSet(steerQ') \subseteq ToSet(steerQ) /\ ToSet(followQ') \subseteq ToSet(followQ)
           \/ \E v \in Users : Steer(v) \/ FollowUp(v)
<1>0. /\ steerQ \in Seq(Users) /\ followQ \in Seq(Users) /\ ToSet(<<>>) = {}
  BY ElementsNil DEF TypeOK
<1>1. \A q \in Seq(Users) : \A mode : ToSet(Kept(q, mode)) \subseteq ToSet(q)
  BY <1>0, ElementsTail DEF Kept
<1>2. CASE Quiet \/ EmitPrompt \/ Inject \/ RunFails \/ ClearQueues
  BY <1>0, <1>2 DEF Quiet, EmitPrompt, Inject, RunFails, ClearQueues, historyVars
<1>3. ASSUME NEW u \in Users, Prompt(u)
      PROVE  UNCHANGED <<steered, followed, steerQ, followQ>>
  BY <1>3 DEF Prompt
<1>4. CASE ContinueRun
  <2>1. /\ steerQ' \in {steerQ, Kept(steerQ, SteeringMode)}
        /\ followQ' \in {followQ, Kept(followQ, FollowUpMode)}
        /\ UNCHANGED <<steered, followed>>
    BY <1>4 DEF ContinueRun, historyVars
  <2>. QED BY <1>0, <1>1, <2>1
<1>5. CASE Collecting
  <2>1. /\ steerQ' \in {steerQ, Kept(steerQ, SteeringMode)}
        /\ followQ' \in {followQ, Kept(followQ, FollowUpMode)}
        /\ UNCHANGED <<steered, followed>>
    BY <1>5 DEF Collecting, CollectThen, historyVars
  <2>. QED BY <1>0, <1>1, <2>1
<1>. QED BY StepKinds, <1>2, <1>3, <1>4, <1>5

(* A message that is accepted is in no place yet.                           *)
LEMMA FreshNowhere ==
    ASSUME UserInv, NEW v \in Fresh, v \in Users
    PROVE  /\ v \notin ToSet(steerQ) /\ v \notin ToSet(followQ)
           /\ v \notin ToSet(steered) /\ v \notin ToSet(followed)
           /\ UserMsg(v) \notin ToSet(messages) /\ UserMsg(v) \notin ToSet(pending)
           /\ UserMsg(v) \notin ToSet(Sending)
BY ElementsNil
   DEF Fresh, UserInv, Tracked, Accepted, Somewhere, Steering, Following, Collected,
       Prompting, Heard, Sending

(* A message at the end of a history is behind all the others.              *)
LEMMA InLineJoins ==
    ASSUME UserInv, NEW v \in Fresh, v \in Users, NEW s \in Seq(Users), NEW q \in Seq(Users),
           v \notin ToSet(s), v \notin ToSet(q),
           InLine(s, q), UNCHANGED <<messages, pending, pc, context>>
    PROVE  \A i, j \in DOMAIN Append(s, v) : i < j =>
             /\ Append(s, v)[i] # Append(s, v)[j]
             /\ Line(UserMsg(Append(s, v)[i]), UserMsg(Append(s, v)[j]),
                     messages', Sending', pending', UserMsgs(Append(q, v)))
<1>1. /\ Append(s, v) \in Seq(Users) /\ Len(Append(s, v)) = Len(s) + 1 /\ Len(s) \in Nat
      /\ Append(s, v)[Len(s) + 1] = v
      /\ \A i \in 1..Len(s) : Append(s, v)[i] = s[i] /\ s[i] \in Users
      /\ DOMAIN s = 1..Len(s)
  BY AppendProperties
<1>2. DOMAIN Append(s, v) = 1..(Len(s) + 1) /\ \A i \in 1..Len(s) : s[i] \in ToSet(s)
  BY <1>1 DEF ToSet
<1>3. messages' = messages /\ pending' = pending /\ Sending' = Sending
  BY DEF Sending, Unsent
<1>. SUFFICES ASSUME NEW i \in 1..(Len(s) + 1), NEW j \in 1..(Len(s) + 1), i < j
              PROVE  /\ Append(s, v)[i] # Append(s, v)[j]
                     /\ Line(UserMsg(Append(s, v)[i]), UserMsg(Append(s, v)[j]),
                             messages, Sending, pending, UserMsgs(Append(q, v)))
  BY <1>2, <1>3
<1>4. i \in 1..Len(s) /\ s[i] \in Users /\ Append(s, v)[i] = s[i] /\ v # s[i]
  BY <1>1, <1>2
<1>5. CASE j = Len(s) + 1
  <2>1. Append(s, v)[j] = v
    BY <1>1, <1>5
  <2>2. Line(UserMsg(s[i]), UserMsg(v), messages, Sending, pending, UserMsgs(Append(q, v)))
    BY <1>4, FreshNowhere, LineJoins
  <2>. QED BY <1>4, <2>1, <2>2
<1>6. CASE j # Len(s) + 1
  <2>1. j \in 1..Len(s) /\ s[j] \in Users /\ Append(s, v)[j] = s[j] /\ v # s[j]
    BY <1>1, <1>2, <1>6
  <2>2. s[i] # s[j] /\ Line(UserMsg(s[i]), UserMsg(s[j]), messages, Sending, pending, UserMsgs(q))
    BY <1>1, <1>4, <2>1 DEF InLine
  <2>3. Line(UserMsg(s[i]), UserMsg(s[j]), messages, Sending, pending, UserMsgs(Append(q, v)))
    BY <1>4, <2>1, <2>2, LineJoins
  <2>. QED BY <1>4, <2>1, <2>2, <2>3
<1>. QED BY <1>5, <1>6

(* Every step keeps the lines.                                              *)
LEMMA FifoInductive ==
    TypeOK /\ ReportInv /\ PromptsInv /\ UserInv /\ FifoInv /\ [Next]_vars => FifoInv'
<1>. SUFFICES ASSUME TypeOK, ReportInv, PromptsInv, UserInv, FifoInv, [Next]_vars PROVE FifoInv'
  OBVIOUS
<1>0. /\ steerQ \in Seq(Users) /\ followQ \in Seq(Users)
      /\ steered \in Seq(Users) /\ followed \in Seq(Users)
      /\ ToSet(steerQ) \subseteq ToSet(steered) /\ ToSet(followQ) \subseteq ToSet(followed)
      /\ ToSet(steered) \cap ToSet(followed) = {}
      /\ InLine(steered, steerQ) /\ InLine(followed, followQ)
  BY DEF TypeOK, FifoInv
<1>1. /\ \A i \in DOMAIN steered : steered[i] \in Users /\ steered[i] \in ToSet(steered)
      /\ \A i \in DOMAIN followed : followed[i] \in Users /\ followed[i] \in ToSet(followed)
  BY <1>0 DEF ToSet
<1>2. /\ \A u \in ToSet(steered) : u \notin Fresh /\ u \notin ToSet(followQ)
      /\ \A u \in ToSet(followed) : u \notin Fresh /\ u \notin ToSet(steerQ)
  BY <1>0 DEF Fresh
<1>3. ASSUME steered' = steered PROVE InLine(steered, steerQ)'
  <2>. SUFFICES ASSUME NEW i \in DOMAIN steered, NEW j \in DOMAIN steered, i < j
                PROVE  /\ steered[i] # steered[j]
                       /\ Line(UserMsg(steered[i]), UserMsg(steered[j]),
                               messages', Sending', pending', UserMsgs(steerQ'))
    BY <1>3 DEF InLine, UserMsg, UserMsgs
  <2>1. /\ steered[i] # steered[j]
        /\ Line(UserMsg(steered[i]), UserMsg(steered[j]), messages, Sending, pending, UserMsgs(steerQ))
    BY <1>0 DEF InLine
  <2>. QED BY <1>1, <1>2, <2>1, SteeringInLine
<1>4. ASSUME followed' = followed PROVE InLine(followed, followQ)'
  <2>. SUFFICES ASSUME NEW i \in DOMAIN followed, NEW j \in DOMAIN followed, i < j
                PROVE  /\ followed[i] # followed[j]
                       /\ Line(UserMsg(followed[i]), UserMsg(followed[j]),
                               messages', Sending', pending', UserMsgs(followQ'))
    BY <1>4 DEF InLine, UserMsg, UserMsgs
  <2>1. /\ followed[i] # followed[j]
        /\ Line(UserMsg(followed[i]), UserMsg(followed[j]), messages, Sending, pending, UserMsgs(followQ))
    BY <1>0 DEF InLine
  <2>. QED BY <1>1, <1>2, <2>1, FollowUpsInLine
<1>5. CASE /\ UNCHANGED <<steered, followed>>
           /\ ToSet(steerQ') \subseteq ToSet(steerQ) /\ ToSet(followQ') \subseteq ToSet(followQ)
  <2>1. /\ ToSet(steerQ') \subseteq ToSet(steered') /\ ToSet(followQ') \subseteq ToSet(followed')
        /\ ToSet(steered') \cap ToSet(followed') = {}
    BY <1>0, <1>5
  <2>. QED BY <1>3, <1>4, <1>5, <2>1 DEF FifoInv, ToSet
<1>6. ASSUME NEW v \in Users, Steer(v) PROVE FifoInv'
  <2>1. /\ v \in Fresh /\ steerQ' = Append(steerQ, v) /\ steered' = Append(steered, v)
        /\ UNCHANGED <<messages, pending, pc, context, followQ, followed>>
    BY <1>6 DEF Steer, loopVars
  <2>2. /\ ToSet(steerQ') = ToSet(steerQ) \cup {v} /\ ToSet(steered') = ToSet(steered) \cup {v}
        /\ v \notin ToSet(followed) /\ v \notin ToSet(steered) /\ v \notin ToSet(steerQ)
    BY <1>0, <2>1, FreshNowhere, ElementsAppend
  <2>3. \A i, j \in DOMAIN steered' : i < j =>
             /\ steered'[i] # steered'[j]
             /\ Line(UserMsg(steered'[i]), UserMsg(steered'[j]),
                     messages', Sending', pending', UserMsgs(steerQ'))
    BY <1>0, <2>1, <2>2, InLineJoins
  <2>4. InLine(steered, steerQ)'
    BY <2>3 DEF InLine, UserMsg, UserMsgs
  <2>5. /\ ToSet(steerQ') \subseteq ToSet(steered') /\ ToSet(followQ') \subseteq ToSet(followed')
        /\ ToSet(steered') \cap ToSet(followed') = {}
    BY <1>0, <2>1, <2>2
  <2>. QED BY <1>4, <2>1, <2>4, <2>5 DEF FifoInv, ToSet
<1>7. ASSUME NEW v \in Users, FollowUp(v) PROVE FifoInv'
  <2>1. /\ v \in Fresh /\ followQ' = Append(followQ, v) /\ followed' = Append(followed, v)
        /\ UNCHANGED <<messages, pending, pc, context, steerQ, steered>>
    BY <1>7 DEF FollowUp, loopVars
  <2>2. /\ ToSet(followQ') = ToSet(followQ) \cup {v} /\ ToSet(followed') = ToSet(followed) \cup {v}
        /\ v \notin ToSet(followed) /\ v \notin ToSet(steered) /\ v \notin ToSet(followQ)
    BY <1>0, <2>1, FreshNowhere, ElementsAppend
  <2>3. \A i, j \in DOMAIN followed' : i < j =>
             /\ followed'[i] # followed'[j]
             /\ Line(UserMsg(followed'[i]), UserMsg(followed'[j]),
                     messages', Sending', pending', UserMsgs(followQ'))
    BY <1>0, <2>1, <2>2, InLineJoins
  <2>4. InLine(followed, followQ)'
    BY <2>3 DEF InLine, UserMsg, UserMsgs
  <2>5. /\ ToSet(steerQ') \subseteq ToSet(steered') /\ ToSet(followQ') \subseteq ToSet(followed')
        /\ ToSet(steered') \cap ToSet(followed') = {}
    BY <1>0, <2>1, <2>2
  <2>. QED BY <1>3, <2>1, <2>4, <2>5 DEF FifoInv, ToSet
<1>. QED BY QueuesMove, <1>5, <1>6, <1>7

(* At first no line has formed.                                             *)
LEMMA FifoInit == Init => FifoInv
<1>. SUFFICES ASSUME Init PROVE FifoInv
  OBVIOUS
<1>1. steerQ = <<>> /\ followQ = <<>> /\ steered = <<>> /\ followed = <<>>
  BY DEF Init
<1>. QED BY <1>1, ElementsNil DEF FifoInv, InLine

(* Those who stand in line enter the transcript in order.                   *)
LEMMA LinesAreFifo == FifoInv => QueuesAreFifo
BY DEF FifoInv, InLine, Line, Ordered, QueuesAreFifo, InOrder

\* Messages given to steer(), and messages given to follow_up(), enter the transcript in the
\* order in which they were given, in either queue mode, across runs, continuations and
\* failures.
THEOREM FirstInFirstOut == Spec => []QueuesAreFifo
<1>1. Init => FifoInv
  BY FifoInit
<1>2. MessageInv /\ FifoInv /\ [Next]_vars => FifoInv'
  BY FifoInductive DEF MessageInv, IInv
<1>. QED BY <1>1, <1>2, LinesAreFifo, MessagesTracked, PTL DEF Spec

-----------------------------------------------------------------------------
(* The agent's transcript and the loop's copy of it.  While a batch executes *)
(* the transcript is ahead by the results that were emitted.                *)
Answered == {c \in Batch : call[c] = "answered"}

InStep ==
    /\ Len(messages) = Len(context) + Cardinality(Answered)
    /\ ToSet(messages) = ToSet(context) \cup {Result(c) : c \in Answered}
    /\ \A i \in DOMAIN context : context[i].role # "toolResult" => messages[i] = context[i]

CopyInv ==
    /\ pc \in {"inject", "stream", "wait", "turnEnd", "tools"} => InStep
    /\ IsInjective(batch)

(* The elements of a sequence are finitely many, and without repetition as  *)
(* many as it is long.                                                      *)
LEMMA ElementsFinite ==
    ASSUME NEW S, NEW s \in Seq(S)
    PROVE  /\ IsFiniteSet(ToSet(s))
           /\ IsInjective(s) => Cardinality(ToSet(s)) = Len(s)
<1>1. s \in [1..Len(s) -> ToSet(s)] /\ Len(s) \in Nat
  BY DEF ToSet
<1>2. s \in Surjection(1..Len(s), ToSet(s))
  BY <1>1 DEF Surjection, ToSet
<1>3. IsFiniteSet(1..Len(s)) /\ Cardinality(1..Len(s)) = Len(s)
  <2>1. 1 \in Int /\ Len(s) \in Int
    BY <1>1
  <2>2. /\ IsFiniteSet(1..Len(s))
        /\ Cardinality(1..Len(s)) = IF 1 > Len(s) THEN 0 ELSE Len(s) - 1 + 1
    BY <2>1, FS_Interval, Zenon
  <2>3. (IF 1 > Len(s) THEN 0 ELSE Len(s) - 1 + 1) = Len(s)
    BY <1>1
  <2>. QED BY <2>2, <2>3
<1>4. IsFiniteSet(ToSet(s))
  BY <1>2, <1>3, FS_Surjection
<1>5. ASSUME IsInjective(s) PROVE Cardinality(ToSet(s)) = Len(s)
  <2>1. s \in Bijection(1..Len(s), ToSet(s))
    BY <1>1, <1>2, <1>5 DEF Bijection, Injection
  <2>2. ExistsBijection(1..Len(s), ToSet(s))
    BY <2>1 DEF ExistsBijection
  <2>. QED BY <1>3, <2>2, FS_Bijection
<1>. QED BY <1>4, <1>5

(* The two parts of a concatenation.                                        *)
LEMMA ConcatParts ==
    ASSUME NEW S, NEW s \in Seq(S), NEW t \in Seq(S)
    PROVE  /\ DOMAIN (s \o t) = 1..(Len(s) + Len(t)) /\ DOMAIN s = 1..Len(s)
           /\ \A k \in 1..Len(s) : (s \o t)[k] = s[k]
           /\ \A k \in (Len(s) + 1)..(Len(s) + Len(t)) : (s \o t)[k] = t[k - Len(s)]
BY ConcatProperties

(* Without a batch nothing has been emitted ahead of the loop's copy.       *)
LEMMA NoneAnswered ==
    ASSUME batch = <<>>
    PROVE  Answered = {} /\ Cardinality(Answered) = 0
BY ElementsNil, FS_EmptySet DEF Answered, Batch

(* A message that both get keeps them in step.                              *)
LEMMA InStepBoth ==
    ASSUME TypeOK, InStep, batch = <<>>, NEW m \in Message,
           messages' = Append(messages, m), context' = Append(context, m), Answered' = {}
    PROVE  InStep'
<1>0. messages \in Seq(Message) /\ context \in Seq(Message)
  BY DEF TypeOK
<1>1. /\ Len(messages) = Len(context) /\ ToSet(messages) = ToSet(context)
      /\ \A i \in DOMAIN context : context[i].role # "toolResult" => messages[i] = context[i]
  BY <1>0, NoneAnswered DEF InStep
<1>2. /\ Len(messages') = Len(context') /\ ToSet(messages') = ToSet(context')
      /\ Len(messages') \in Nat
  <2>1. /\ Len(messages') = Len(messages) + 1 /\ Len(context') = Len(context) + 1
        /\ Len(messages) \in Nat
    BY <1>0, Appended
  <2>2. ToSet(messages') = ToSet(messages) \cup {m} /\ ToSet(context') = ToSet(context) \cup {m}
    BY <1>0, ElementsAppend
  <2>. QED BY <1>1, <2>1, <2>2
<1>3. \A i \in DOMAIN context' : context'[i].role # "toolResult" => messages'[i] = context'[i]
  <2>1. /\ DOMAIN context = 1..Len(context) /\ DOMAIN context' = 1..(Len(context) + 1)
        /\ Len(context) \in Nat
    BY <1>0, Appended
  <2>2. /\ \A i \in 1..Len(context) : context'[i] = context[i] /\ messages'[i] = messages[i]
        /\ context'[Len(context) + 1] = m /\ messages'[Len(context) + 1] = m
    BY <1>0, <1>1, Appended
  <2>. QED BY <1>1, <2>1, <2>2
<1>4. Cardinality(Answered') = 0 /\ {Result(c) : c \in Answered'} = {}
  BY FS_EmptySet
<1>. QED BY <1>2, <1>3, <1>4 DEF InStep, Result

(* A step that leaves transcript, copy and batch alone.                     *)
LEMMA InStepSame ==
    ASSUME InStep, UNCHANGED <<messages, context>>, Answered' = Answered
    PROVE  InStep'
BY DEF InStep, Result

(* An emitted result puts the transcript one further ahead.                 *)
LEMMA InStepCall ==
    ASSUME TypeOK, BatchInv, InStep, NEW c \in Calls, CallStep(c)
    PROVE  InStep'
<1>0. messages \in Seq(Message) /\ context \in Seq(Message) /\ Result(c) \in Message
      /\ call \in [Calls -> States] /\ Batch \subseteq Calls /\ IsFiniteSet(Batch)
  <2>1. batch \in Seq(Calls)
    BY DEF TypeOK
  <2>2. Batch \subseteq Calls
    BY <2>1 DEF Batch, ToSet
  <2>3. IsFiniteSet(Batch)
    BY <2>1, ElementsFinite DEF Batch
  <2>. QED BY <2>2, <2>3, MessageTypes DEF TypeOK
<1>1. /\ UNCHANGED <<batch, context>>
      /\ call' = [call EXCEPT ![c] = call'[c]] /\ call[c] # "answered"
      /\ \/ messages' = messages /\ call'[c] # "answered"
         \/ messages' = Append(messages, Result(c)) /\ call'[c] = "answered"
  BY <1>0 DEF CallStep, StartCall, RejectCall, DetachCall, PrepareCall, FinishCall,
         AnswerCall, EndCall, agentVars
<1>2. c \in Batch /\ Batch' = Batch
  <2>1. call[c] \in {"queued", "started", "prepared", "finalized"}
    BY DEF CallStep, StartCall, RejectCall, DetachCall, PrepareCall, FinishCall, AnswerCall
  <2>. QED BY <1>1, <2>1 DEF BatchInv, Batch
<1>3. \A d \in Calls : d # c => call'[d] = call[d]
  BY <1>0, <1>1
<1>4. CASE messages' = messages /\ call'[c] # "answered"
  <2>1. Answered' = Answered
    BY <1>0, <1>1, <1>2, <1>3, <1>4 DEF Answered
  <2>. QED BY <1>1, <1>4, <2>1, InStepSame
<1>5. CASE messages' = Append(messages, Result(c)) /\ call'[c] = "answered"
  <2>1. Answered' = Answered \cup {c} /\ c \notin Answered
    BY <1>0, <1>1, <1>2, <1>3, <1>5 DEF Answered
  <2>2. IsFiniteSet(Answered)
    BY <1>0, FS_Subset DEF Answered
  <2>3. Cardinality(Answered') = Cardinality(Answered) + 1 /\ Cardinality(Answered) \in Nat
    BY <2>1, <2>2, FS_AddElement, FS_CardinalityType
  <2>4. /\ Len(messages') = Len(messages) + 1 /\ ToSet(messages') = ToSet(messages) \cup {Result(c)}
        /\ \A i \in 1..Len(messages) : messages'[i] = messages[i]
    BY <1>0, <1>5, Appended, ElementsAppend
  <2>5. /\ Len(messages) = Len(context) + Cardinality(Answered)
        /\ ToSet(messages) = ToSet(context) \cup {Result(d) : d \in Answered}
        /\ \A i \in DOMAIN context : context[i].role # "toolResult" => messages[i] = context[i]
    BY DEF InStep
  <2>6. DOMAIN context = 1..Len(context) /\ Len(context) \in Nat
    BY <1>0
  <2>7. \A i \in DOMAIN context' : context'[i].role # "toolResult" => messages'[i] = context'[i]
    BY <1>1, <2>3, <2>4, <2>5, <2>6
  <2>8. Len(messages') = Len(context') + Cardinality(Answered')
    BY <1>1, <2>3, <2>4, <2>5, <2>6
  <2>9. ToSet(messages') = ToSet(context') \cup {Result(d) : d \in Answered'}
    BY <1>1, <2>1, <2>4, <2>5
  <2>. QED BY <2>7, <2>8, <2>9 DEF InStep, Result
<1>. QED BY <1>1, <1>4, <1>5

(* The end of a batch catches up.                                           *)
LEMMA InStepBatch ==
    ASSUME TypeOK, InStep, IsInjective(batch), EndBatch
    PROVE  InStep'
<1>0. /\ messages \in Seq(Message) /\ context \in Seq(Message) /\ batch \in Seq(Calls)
      /\ Results(batch) \in Seq(Message)
  BY MessagesOf DEF TypeOK
<1>1. /\ messages' = messages /\ context' = context \o Results(batch) /\ batch' = <<>>
      /\ Answered = Batch
  BY DEF EndBatch, agentVars, Answered
<1>2. Cardinality(Answered) = Len(batch) /\ Len(Results(batch)) = Len(batch) /\ Len(batch) \in Nat
  <2>1. Cardinality(Batch) = Len(batch)
    BY <1>0, ElementsFinite DEF Batch
  <2>2. DOMAIN Results(batch) = 1..Len(batch) /\ Len(batch) \in Nat
    BY <1>0 DEF Results
  <2>3. DOMAIN Results(batch) = 1..Len(Results(batch)) /\ Len(Results(batch)) \in Nat
    BY <1>0
  <2>. QED BY <1>1, <2>1, <2>2, <2>3
<1>3. ToSet(Results(batch)) = {Result(c) : c \in Batch}
  BY DEF Results, ToSet, Batch
<1>4. Answered' = {} /\ Cardinality(Answered') = 0 /\ {Result(c) : c \in Answered'} = {}
  BY <1>1, ElementsNil, FS_EmptySet DEF Answered, Batch
<1>5. /\ Len(context') = Len(context) + Len(batch)
      /\ ToSet(context') = ToSet(context) \cup {Result(c) : c \in Batch}
      /\ Len(context) \in Nat /\ Len(messages') \in Nat
  <2>1. ToSet(context') = ToSet(context) \cup ToSet(Results(batch))
    BY <1>0, <1>1, ElementsConcat
  <2>2. Len(context') = Len(context) + Len(Results(batch))
    BY <1>0, <1>1
  <2>3. Len(context) \in Nat /\ Len(messages') \in Nat
    BY <1>0, <1>1
  <2>. QED BY <1>2, <1>3, <2>1, <2>2, <2>3
<1>6. Len(messages') = Len(context') + Cardinality(Answered')
  BY <1>1, <1>2, <1>4, <1>5 DEF InStep
<1>7. ToSet(messages') = ToSet(context') \cup {Result(c) : c \in Answered'}
  BY <1>1, <1>4, <1>5 DEF InStep
<1>8. ASSUME NEW i \in DOMAIN context', context'[i].role # "toolResult"
      PROVE  messages'[i] = context'[i]
  <2>1. /\ DOMAIN context' = 1..(Len(context) + Len(batch)) /\ DOMAIN context = 1..Len(context)
        /\ \A k \in 1..Len(context) : context'[k] = context[k]
        /\ \A k \in (Len(context) + 1)..(Len(context) + Len(batch)) :
              context'[k] = Results(batch)[k - Len(context)]
    <3>. DEFINE r == Results(batch)
    <3>1. r \in Seq(Message) /\ Len(r) = Len(batch) /\ context' = context \o r
      BY <1>0, <1>1, <1>2
    <3>. HIDE DEF r
    <3>2. /\ DOMAIN (context \o r) = 1..(Len(context) + Len(r)) /\ DOMAIN context = 1..Len(context)
          /\ \A k \in 1..Len(context) : (context \o r)[k] = context[k]
          /\ \A k \in (Len(context) + 1)..(Len(context) + Len(r)) : (context \o r)[k] = r[k - Len(context)]
      BY <1>0, <3>1, ConcatParts
    <3>3. /\ DOMAIN context' = 1..(Len(context) + Len(batch))
          /\ \A k \in 1..Len(context) : context'[k] = context[k]
          /\ \A k \in (Len(context) + 1)..(Len(context) + Len(batch)) : context'[k] = r[k - Len(context)]
      BY <3>1, <3>2
    <3>. QED BY <3>2, <3>3 DEF r
  <2>2. CASE i \in 1..Len(context)
    BY <1>1, <1>8, <2>1, <2>2 DEF InStep
  <2>3. CASE i \notin 1..Len(context)
    <3>1. i - Len(context) \in 1..Len(batch) /\ context'[i] = Results(batch)[i - Len(context)]
      BY <1>2, <1>5, <1>8, <2>1, <2>3
    <3>2. DOMAIN batch = 1..Len(batch)
      BY <1>0
    <3>3. context'[i].role = "toolResult"
      BY <3>1, <3>2 DEF Results, Result
    <3>. QED BY <1>8, <3>3
  <2>. QED BY <2>2, <2>3
<1>. QED BY <1>6, <1>7, <1>8 DEF InStep, Result

(* Every step keeps transcript and copy in step.                            *)
LEMMA CopyInductive ==
    TypeOK /\ BatchInv /\ PromptsInv /\ CopyInv /\ [Next]_vars => CopyInv'
<1>. SUFFICES ASSUME TypeOK, BatchInv, PromptsInv, CopyInv, [Next]_vars PROVE CopyInv'
  OBVIOUS
<1>. DEFINE Within == {"inject", "stream", "wait", "turnEnd", "tools"}
<1>0. /\ pc \in Within => InStep
      /\ IsInjective(batch)
      /\ pc # "tools" => batch = <<>>
      /\ IsInjective(<<>>)
  BY DEF CopyInv, BatchInv, IsInjective
\* Steps that leave the batch, the transcript and its copy alone.
<1>1. ASSUME UNCHANGED <<messages, context, batch, call>>, pc' \in Within => pc \in Within
      PROVE  CopyInv'
  <2>1. Answered' = Answered
    BY <1>1 DEF Answered, Batch
  <2>2. pc' \in Within => InStep'
    BY <1>0, <1>1, <2>1, InStepSame
  <2>3. IsInjective(batch)'
    BY <1>0, <1>1 DEF IsInjective
  <2>. QED BY <2>2, <2>3 DEF CopyInv
\* Steps out of the run's body.
<1>2. ASSUME pc' \notin Within, batch' = batch \/ batch' = <<>>
      PROVE  CopyInv'
  BY <1>0, <1>2 DEF CopyInv, IsInjective
<1>3. ASSUME NEW u \in Users, Prompt(u) \/ Steer(u) \/ FollowUp(u) PROVE CopyInv'
  <2>1. CASE Prompt(u)
    BY <2>1, <1>2 DEF Prompt, StartRun
  <2>2. CASE Steer(u) \/ FollowUp(u)
    BY <2>2, <1>1 DEF Steer, FollowUp, loopVars
  <2>. QED BY <1>3, <2>1, <2>2
<1>4. CASE ContinueRun
  <2>1. pc' = "prompts" /\ batch' = batch
    BY <1>4 DEF ContinueRun, StartRun
  <2>. QED BY <2>1, <1>2
<1>5. CASE ClearQueues \/ Abort \/ TaskStep \/ UNCHANGED vars
  <2>1. UNCHANGED <<messages, context, batch, call, pc>>
    BY <1>5 DEF ClearQueues, Abort, TaskStep, TaskEnds, TaskSettles, vars, agentVars, loopVars
  <2>. QED BY <2>1, <1>1
<1>6. CASE EmitPrompt \/ StreamStops \/ RunFails \/ FinishRun
  BY <1>6, <1>2 DEF EmitPrompt, StreamStops, RunFails, FinishRun, loopVars
<1>7. CASE FirstCollect
  <2>1. /\ pc = "prompts" /\ UNCHANGED <<messages, context, batch, call>>
        /\ context = messages /\ batch = <<>>
    BY <1>0, <1>7, PromptsSent DEF FirstCollect, CollectThen
  <2>2. /\ Answered' = {} /\ Cardinality(Answered') = 0 /\ {Result(c) : c \in Answered'} = {}
    BY <2>1, ElementsNil, FS_EmptySet DEF Answered, Batch
  <2>3. messages' \in Seq(Message) /\ Len(messages') = Len(context') + Cardinality(Answered')
    BY <2>1, <2>2 DEF TypeOK
  <2>4. InStep'
    BY <2>1, <2>2, <2>3 DEF InStep, Result
  <2>. QED BY <1>0, <2>1, <2>4 DEF CopyInv, IsInjective
<1>8. CASE EndTurn \/ Woken
  <2>1. pc \in Within /\ UNCHANGED <<messages, context, batch, call>>
    BY <1>8 DEF EndTurn, Woken, CollectThen
  <2>. QED BY <2>1, <1>1
<1>9. CASE Inject
  <2>1. /\ pc = "inject" /\ batch = <<>> /\ UNCHANGED <<batch, call>>
        /\ messages' = Append(messages, Head(pending)) /\ context' = Append(context, Head(pending))
    BY <1>0, <1>9 DEF Inject
  <2>2. Head(pending) \in Message
    BY <1>9, HeadTailProperties DEF Inject, TypeOK
  <2>3. Answered' = {}
    BY <2>1, ElementsNil DEF Answered, Batch
  <2>4. InStep'
    BY <1>0, <2>1, <2>2, <2>3, InStepBoth
  <2>. QED BY <1>0, <2>1, <2>4 DEF CopyInv, IsInjective
<1>10. ASSUME NEW s \in Batches, StreamDone(s) PROVE CopyInv'
  <2>1. /\ pc = "stream" /\ batch = <<>> /\ batch' = s
        /\ messages' = Append(messages, Response(s)) /\ context' = Append(context, Response(s))
        /\ call' = [c \in Calls |-> IF c \in ToSet(s) THEN "queued" ELSE call[c]]
    BY <1>0, <1>10 DEF StreamDone
  <2>2. Response(s) \in Message /\ ToSet(s) \subseteq Calls /\ IsInjective(s)
    <3>1. s \in Seq(Calls)
      BY BatchType
    <3>. QED BY <3>1, MessageTypes DEF Batches, ToSet
  <2>3. Answered' = {}
    BY <2>1, <2>2 DEF Answered, Batch
  <2>4. InStep'
    BY <1>0, <2>1, <2>2, <2>3, InStepBoth
  <2>. QED BY <2>1, <2>2, <2>4 DEF CopyInv, IsInjective
<1>11. ASSUME NEW c \in Calls, CallStep(c) PROVE CopyInv'
  <2>1. pc = "tools" /\ batch' = batch
    BY <1>11 DEF CallStep, StartCall, RejectCall, DetachCall, PrepareCall, FinishCall,
                 AnswerCall, EndCall
  <2>2. InStep'
    BY <1>0, <1>11, <2>1, InStepCall
  <2>. QED BY <1>0, <2>1, <2>2 DEF CopyInv, IsInjective
<1>12. CASE EndBatch
  <2>1. pc = "tools" /\ batch' = <<>>
    BY <1>12 DEF EndBatch
  <2>2. InStep'
    BY <1>0, <1>12, <2>1, InStepBatch
  <2>. QED BY <1>0, <2>1, <2>2 DEF CopyInv, IsInjective
<1>. QED
  BY <1>3, <1>4, <1>5, <1>6, <1>7, <1>8, <1>9, <1>10, <1>11, <1>12
     DEF Next, Callers, RunStep

(* At a request no batch executes, so nothing is ahead.                     *)
LEMMA CopySays == MessageInv /\ CopyInv => TranscriptsAgree
<1>. SUFFICES ASSUME MessageInv, CopyInv, pc = "stream"
              PROVE  /\ Len(messages) = Len(context) /\ ToSet(messages) = ToSet(context)
                     /\ \A i \in DOMAIN context :
                           context[i].role # "toolResult" => messages[i] = context[i]
  BY DEF TranscriptsAgree
<1>1. InStep /\ batch = <<>> /\ context \in Seq(Message)
  BY DEF CopyInv, MessageInv, IInv, BatchInv, TypeOK
<1>. QED BY <1>1, NoneAnswered DEF InStep

\* At every request to a provider the loop's copy tells the conversation of the agent's
\* transcript: the same message at every position, tool results up to their order.
THEOREM CopyAgrees == Spec => []TranscriptsAgree
<1>1. Init => CopyInv
  BY DEF Init, CopyInv, IsInjective
<1>2. MessageInv /\ CopyInv /\ [Next]_vars => CopyInv'
  BY CopyInductive DEF MessageInv, IInv
<1>. QED BY <1>1, <1>2, CopySays, MessagesTracked, PTL DEF Spec

-----------------------------------------------------------------------------
(* Every call of an assistant message is answered in its place: the results *)
(* follow the message at once, in the order in which the loop handles the   *)
(* calls of a batch.                                                        *)
Ended   == {"answered", "dropped"}
Current == IF pc = "tools" THEN Len(context) ELSE 0

(* What is said of a message at i when its calls have fared as f tells: it  *)
(* has no call under way, and if no call was dropped, all have results.     *)
Over(f, m)     == \A c \in ToSet(m.calls) : f[c] \in Ended
Whole(f, m)    == \A c \in ToSet(m.calls) : f[c] = "answered"
Emits(f, s, i) == s[i].role = "assistant" =>
    Over(f, s[i]) /\ (Whole(f, s[i]) => AnswersEmitted(s, i))
Copies(f, s, i) == s[i].role = "assistant" =>
    Over(f, s[i]) /\ (Whole(f, s[i]) => AnswersEmitted(s, i) \/ AnswersInOrder(s, i))

EmittedInv == \A i \in DOMAIN messages : i # Current => Emits(call, messages, i)
CopiedInv  == pc # "failed" => \A i \in DOMAIN context : i # Current => Copies(call, context, i)

OrderInv == \A c, d \in Batch : Before(c, d) =>
    /\ call[d] # "queued" => Passed(c)
    /\ call[d] = "answered" => call[c] = "answered"

(* While a batch executes, the results it has so far end the transcript.    *)
Emitting == (Len(context) + 1)..Len(messages)
TailInv == pc = "tools" =>
    /\ context # <<>> /\ context[Len(context)] = Response(batch)
    /\ {messages[k] : k \in Emitting} = {Result(c) : c \in Answered}
    /\ \A k, l \in Emitting : k < l => Before(messages[k].id, messages[l].id)

AnswerInv == EmittedInv /\ CopiedInv /\ OrderInv /\ TailInv

-----------------------------------------------------------------------------
(* The calls of a message.                                                  *)
LEMMA CallsOf ==
    ASSUME NEW m \in Message
    PROVE  /\ m.calls \in Seq(Calls) /\ Len(m.calls) \in Nat
           /\ DOMAIN m.calls = 1..Len(m.calls) /\ ToSet(m.calls) \subseteq Calls
<1>1. m.calls \in Seq(Calls)
  BY DEF Message
<1>. QED BY <1>1 DEF ToSet

(* A transcript that is continued keeps what it said.                       *)
LEMMA StillAnswered ==
    ASSUME NEW s \in Seq(Message), NEW t \in Seq(Message), Len(s) <= Len(t),
           \A k \in DOMAIN s : t[k] = s[k],
           NEW i \in DOMAIN s
    PROVE  /\ AnswersEmitted(s, i) => AnswersEmitted(t, i)
           /\ AnswersInOrder(s, i) => AnswersInOrder(t, i)
<1>1. /\ DOMAIN s = 1..Len(s) /\ Len(s) \in Nat /\ Len(t) \in Nat /\ i \in 1..Len(s)
      /\ t[i] = s[i] /\ s[i] \in Message
  OBVIOUS
<1>2. Len(s[i].calls) \in Nat /\ DOMAIN s[i].calls = 1..Len(s[i].calls)
  BY <1>1, CallsOf
<1>3. ASSUME AnswersEmitted(s, i) PROVE AnswersEmitted(t, i)
  <2>. DEFINE next == (i + 1)..(i + Len(s[i].calls))
  <2>1. /\ i + Len(s[i].calls) <= Len(s)
        /\ {s[k] : k \in next} = {Result(c) : c \in ToSet(s[i].calls)}
        /\ \A k, l \in next : k < l => Earlier(s[k].id, s[l].id, s[i].calls)
    BY <1>3 DEF AnswersEmitted
  <2>2. \A k \in next : t[k] = s[k]
    BY <1>1, <1>2, <2>1
  <2>3. {t[k] : k \in next} = {s[k] : k \in next}
    BY <2>2
  <2>4. i + Len(t[i].calls) <= Len(t)
    BY <1>1, <1>2, <2>1
  <2>5. \A k, l \in next : k < l => Earlier(t[k].id, t[l].id, t[i].calls)
    BY <1>1, <2>1, <2>2
  <2>. QED BY <1>1, <2>1, <2>3, <2>4, <2>5 DEF AnswersEmitted
<1>4. ASSUME AnswersInOrder(s, i) PROVE AnswersInOrder(t, i)
  <2>1. /\ i + Len(s[i].calls) <= Len(s)
        /\ \A k \in DOMAIN s[i].calls : s[i + k] = Result(s[i].calls[k])
    BY <1>4 DEF AnswersInOrder
  <2>2. \A k \in DOMAIN s[i].calls : t[i + k] = s[i + k]
    BY <1>1, <1>2, <2>1
  <2>3. i + Len(t[i].calls) <= Len(t)
    BY <1>1, <1>2, <2>1
  <2>. QED BY <1>1, <2>1, <2>2, <2>3 DEF AnswersInOrder
<1>. QED BY <1>3, <1>4

(* So it does when calls that have ended stay as they are.                  *)
LEMMA StillSo ==
    ASSUME NEW s \in Seq(Message), NEW t \in Seq(Message), Len(s) <= Len(t),
           \A k \in DOMAIN s : t[k] = s[k],
           NEW i \in DOMAIN s, NEW f, NEW g,
           \A c \in Calls : f[c] \in Ended => g[c] = f[c]
    PROVE  /\ Emits(f, s, i) => Emits(g, t, i)
           /\ Copies(f, s, i) => Copies(g, t, i)
           /\ Emits(f, s, i) => Copies(g, t, i)
<1>0. t[i] = s[i] /\ s[i] \in Message
  OBVIOUS
<1>1. t[i] = s[i] /\ ToSet(s[i].calls) \subseteq Calls
  BY <1>0, CallsOf
<1>2. Over(f, s[i]) => Over(g, t[i]) /\ (Whole(g, t[i]) => Whole(f, s[i]))
  BY <1>1 DEF Over, Whole
<1>. QED BY <1>1, <1>2, StillAnswered DEF Emits, Copies

(* A message that calls nothing is answered.                                *)
LEMMA NothingCalled ==
    ASSUME NEW s \in Seq(Message), NEW i \in DOMAIN s, s[i].calls = <<>>, NEW f
    PROVE  Emits(f, s, i) /\ Copies(f, s, i)
<1>1. ToSet(s[i].calls) = {} /\ Len(s[i].calls) = 0 /\ i \in 1..Len(s) /\ Len(s) \in Nat
  BY ElementsNil
<1>2. AnswersEmitted(s, i)
  BY <1>1 DEF AnswersEmitted
<1>. QED BY <1>1, <1>2 DEF Emits, Copies, Over

(* What the invariants say of the next state.                               *)
LEMMA InvariantsNext ==
    /\ EmittedInv' <=> \A i \in DOMAIN messages' : i # Current' => Emits(call', messages', i)
    /\ CopiedInv'  <=> (pc' # "failed" =>
          \A i \in DOMAIN context' : i # Current' => Copies(call', context', i))
BY DEF EmittedInv, CopiedInv, Current, Emits, Copies, Over, Whole, AnswersEmitted,
       AnswersInOrder, Earlier, Result

(* A call step is of a call of the batch that has not ended.                *)
LEMMA CallShape ==
    ASSUME TypeOK, BatchInv, NEW c \in Calls, CallStep(c)
    PROVE  /\ pc = "tools" /\ c \in Batch /\ UNCHANGED <<pc, batch, context>>
           /\ call[c] \notin Ended \cup {"new"}
           /\ \A d \in Calls : d # c => call'[d] = call[d]
           /\ \/ messages' = messages /\ call'[c] # "answered"
              \/ messages' = Append(messages, Result(c)) /\ call'[c] = "answered"
<1>1. /\ pc = "tools" /\ UNCHANGED <<pc, batch, context>>
      /\ call[c] \in {"queued", "started", "prepared", "finalized"}
      /\ call' = [call EXCEPT ![c] = call'[c]]
      /\ \/ messages' = messages /\ call'[c] # "answered"
         \/ messages' = Append(messages, Result(c)) /\ call'[c] = "answered"
  BY DEF TypeOK, CallStep, StartCall, RejectCall, DetachCall, PrepareCall, FinishCall,
         AnswerCall, EndCall, agentVars
<1>. QED BY <1>1 DEF BatchInv, TypeOK, Ended

(* A call that has ended is not called again, and its end is final.         *)
LEMMA EndsAreFinal ==
    ASSUME TypeOK, BatchInv, [Next]_vars
    PROVE  \A c \in Calls : call[c] \in Ended => call'[c] = call[c]
<1>1. CASE \E s \in Batches : StreamDone(s)
  <2>1. PICK s \in Batches : StreamDone(s)
    BY <1>1
  <2>2. \A c \in ToSet(s) : call[c] = "new"
    BY <2>1 DEF StreamDone, ToSet
  <2>3. call' = [c \in Calls |-> IF c \in ToSet(s) THEN "queued" ELSE call[c]]
    BY <2>1 DEF StreamDone
  <2>. QED BY <2>2, <2>3 DEF Ended
<1>2. CASE \E c \in Calls : CallStep(c)
  BY <1>2, CallShape
<1>3. CASE RunFails
  BY <1>3 DEF RunFails, Ended
<1>4. CASE call' = call
  BY <1>4
<1>5. \/ \E s \in Batches : StreamDone(s)
      \/ \E c \in Calls : CallStep(c)
      \/ RunFails \/ call' = call
  BY DEF Next, Callers, RunStep, TaskStep, vars, agentVars, loopVars, bgVars, Prompt, Steer,
         FollowUp, ContinueRun, StartRun, ClearQueues, Abort, EmitPrompt, FirstCollect,
         EndTurn, Woken, CollectThen, Inject, StreamStops, EndBatch, FinishRun, TaskEnds,
         TaskSettles
<1>. QED BY <1>1, <1>2, <1>3, <1>4, <1>5

(* The transcript only grows.                                               *)
Grows(s, t) == /\ s \in Seq(Message) /\ t \in Seq(Message) /\ Len(s) <= Len(t)
               /\ \A k \in DOMAIN s : t[k] = s[k]

LEMMA GrowsAppend ==
    ASSUME NEW s \in Seq(Message), NEW m \in Message
    PROVE  /\ Grows(s, s) /\ Grows(s, Append(s, m))
           /\ DOMAIN Append(s, m) = DOMAIN s \cup {Len(s) + 1}
           /\ Append(s, m)[Len(s) + 1] = m
           /\ Len(s) + 1 \in DOMAIN Append(s, m)
<1>1. /\ Append(s, m) \in Seq(Message) /\ Len(Append(s, m)) = Len(s) + 1 /\ Len(s) \in Nat
      /\ Append(s, m)[Len(s) + 1] = m
      /\ \A i \in 1..Len(s) : Append(s, m)[i] = s[i]
  BY Appended
<1>2. DOMAIN Append(s, m) = 1..(Len(s) + 1) /\ DOMAIN s = 1..Len(s)
  BY <1>1
<1>. QED BY <1>1, <1>2 DEF Grows

(* What is left to show of a step: the batch that it ends, and the messages *)
(* that it adds.                                                            *)
LEMMA EmittedStep ==
    ASSUME TypeOK, BatchInv, EmittedInv, [Next]_vars, Grows(messages, messages'),
           \A i \in DOMAIN messages' :
              i # Current' /\ (i = Current \/ i \notin DOMAIN messages)
                 => Emits(call', messages', i)
    PROVE  EmittedInv'
<1>1. ASSUME NEW i \in DOMAIN messages', i # Current' PROVE Emits(call', messages', i)
  <2>1. CASE i \in DOMAIN messages /\ i # Current
    <3>1. Emits(call, messages, i)
      BY <2>1 DEF EmittedInv
    <3>2. \A c \in Calls : call[c] \in Ended => call'[c] = call[c]
      BY EndsAreFinal
    <3>. QED BY <2>1, <3>1, <3>2, StillSo DEF Grows
  <2>2. CASE ~(i \in DOMAIN messages /\ i # Current)
    BY <1>1, <2>2
  <2>. QED BY <2>1, <2>2
<1>. QED BY <1>1, InvariantsNext

(* The same of the loop's copy.                                             *)
LEMMA CopiedStep ==
    ASSUME TypeOK, BatchInv, CopiedInv, [Next]_vars, Grows(context, context'),
           pc = "failed" => pc' = "failed",
           \A i \in DOMAIN context' :
              i # Current' /\ (i = Current \/ i \notin DOMAIN context)
                 => Copies(call', context', i)
    PROVE  CopiedInv'
<1>1. ASSUME pc' # "failed", NEW i \in DOMAIN context', i # Current'
      PROVE  Copies(call', context', i)
  <2>1. CASE i \in DOMAIN context /\ i # Current
    <3>1. Copies(call, context, i)
      BY <1>1, <2>1 DEF CopiedInv
    <3>2. \A c \in Calls : call[c] \in Ended => call'[c] = call[c]
      BY EndsAreFinal
    <3>. QED BY <2>1, <3>1, <3>2, StillSo DEF Grows
  <2>2. CASE ~(i \in DOMAIN context /\ i # Current)
    BY <1>1, <2>2
  <2>. QED BY <2>1, <2>2
<1>. QED BY <1>1, InvariantsNext

(* When every call of the batch is answered, the results are in place.      *)
LEMMA BatchAnswered ==
    ASSUME TypeOK, CopyInv, TailInv, pc = "tools"
    PROVE  /\ Len(context) \in DOMAIN messages /\ Len(context) \in DOMAIN context
           /\ messages[Len(context)] = Response(batch)
           /\ context[Len(context)] = Response(batch)
           /\ Len(messages) = Len(context) + Cardinality(Answered)
           /\ Cardinality(Answered) \in Nat
           /\ Whole(call, Response(batch)) => AnswersEmitted(messages, Len(context))
<1>0. /\ messages \in Seq(Message) /\ context \in Seq(Message) /\ batch \in Seq(Calls)
      /\ InStep /\ IsInjective(batch)
      /\ context # <<>> /\ context[Len(context)] = Response(batch)
  BY DEF TypeOK, CopyInv, TailInv
<1>1. Len(context) \in DOMAIN context /\ Len(context) \in Nat \ {0} /\ Len(messages) \in Nat
  BY <1>0
<1>2. IsFiniteSet(Answered) /\ Cardinality(Answered) \in Nat
  <2>1. IsFiniteSet(Batch)
    BY <1>0, ElementsFinite DEF Batch
  <2>. QED BY <2>1, FS_Subset, FS_CardinalityType DEF Answered
<1>3. Len(messages) = Len(context) + Cardinality(Answered)
  BY <1>0 DEF InStep
<1>4. Len(context) \in DOMAIN messages
  BY <1>0, <1>1, <1>2, <1>3
<1>5. messages[Len(context)] = Response(batch)
  BY <1>0, <1>1 DEF InStep, Response
<1>6. ASSUME Whole(call, Response(batch)) PROVE AnswersEmitted(messages, Len(context))
  <2>1. Answered = Batch /\ Response(batch).calls = batch
    BY <1>6 DEF Whole, Response, Answered, Batch
  <2>2. Cardinality(Batch) = Len(batch)
    BY <1>0, ElementsFinite DEF Batch
  <2>3. Len(messages) = Len(context) + Len(batch)
    BY <1>3, <2>1, <2>2
  <2>4. Emitting = (Len(context) + 1)..(Len(context) + Len(batch))
    BY <2>3 DEF Emitting
  <2>5. {messages[k] : k \in Emitting} = {Result(c) : c \in ToSet(batch)}
    BY <2>1 DEF TailInv, Batch
  <2>6. \A k, l \in Emitting : k < l => Earlier(messages[k].id, messages[l].id, batch)
    BY DEF TailInv, Before
  <2>. QED BY <1>1, <1>5, <2>1, <2>3, <2>4, <2>5, <2>6 DEF AnswersEmitted
<1>. QED BY <1>0, <1>1, <1>2, <1>3, <1>4, <1>5, <1>6
-----------------------------------------------------------------------------
(* Most steps add nothing to the transcript, or a message that calls        *)
(* nothing.                                                                 *)
LEMMA EmittedQuiet ==
    ASSUME TypeOK, BatchInv, EmittedInv, [Next]_vars, Current' = Current,
           \/ messages' = messages
           \/ \E m \in Message : m.role # "assistant" /\ messages' = Append(messages, m)
    PROVE  EmittedInv'
<1>0. messages \in Seq(Message)
  BY DEF TypeOK
<1>1. CASE messages' = messages
  <2>1. Grows(messages, messages')
    BY <1>0, <1>1 DEF Grows
  <2>. QED BY <1>1, <2>1, EmittedStep
<1>2. ASSUME NEW m \in Message, m.role # "assistant", messages' = Append(messages, m)
      PROVE  EmittedInv'
  <2>1. /\ Grows(messages, messages') /\ messages'[Len(messages) + 1] = m
        /\ DOMAIN messages' = DOMAIN messages \cup {Len(messages) + 1}
    BY <1>0, <1>2, GrowsAppend
  <2>2. \A i \in DOMAIN messages' : i \notin DOMAIN messages => Emits(call', messages', i)
    BY <1>2, <2>1 DEF Emits
  <2>. QED BY <2>1, <2>2, EmittedStep
<1>. QED BY <1>1, <1>2

(* What is injected and what is sent as a prompt calls nothing.             *)
LEMMA InjectedRole ==
    ASSUME TypeOK, PromptsInv, Inject
    PROVE  Head(pending) \in Message /\ Head(pending).role # "assistant"
<1>1. pending \in Seq(Message) /\ pending # <<>>
  BY DEF TypeOK, Inject
<1>2. Head(pending) \in ToSet(pending) /\ Head(pending) \in Message
  BY <1>1, ElementsTail, HeadTailProperties
<1>. QED BY <1>2 DEF PromptsInv, UserMsg, Background

LEMMA SentRole ==
    ASSUME TypeOK, PromptsInv, EmitPrompt
    PROVE  \E m \in Message : m.role # "assistant" /\ messages' = Append(messages, m)
<1>1. /\ pc = "prompts" /\ Unsent \in Seq(Message) /\ Unsent # <<>>
      /\ messages' = Append(messages, Head(Unsent))
  BY EmitsPrompt
<1>2. Head(Unsent) \in ToSet(Unsent) /\ Head(Unsent) \in Message
  BY <1>1, ElementsTail, HeadTailProperties
<1>. QED BY <1>1, <1>2 DEF PromptsInv, UserMsg

(* A response opens a batch, or calls nothing.                              *)
LEMMA ResponseOpens ==
    ASSUME TypeOK, BatchInv, CopyInv, NEW s \in Batches, StreamDone(s)
    PROVE  /\ Response(s) \in Message /\ s \in Seq(Calls)
           /\ Len(messages) = Len(context) /\ Len(context) \in Nat
           /\ pc = "stream" /\ batch = <<>> /\ batch' = s
           /\ messages' = Append(messages, Response(s))
           /\ context' = Append(context, Response(s))
           /\ s # <<>> => pc' = "tools" /\ Current' = Len(context) + 1
           /\ s = <<>> => pc' = "turnEnd" /\ Current' = 0
           /\ Current = 0
<1>1. messages \in Seq(Message) /\ context \in Seq(Message) /\ s \in Seq(Calls)
  BY BatchType DEF TypeOK
<1>2. /\ pc = "stream" /\ batch = <<>> /\ batch' = s
      /\ messages' = Append(messages, Response(s)) /\ context' = Append(context, Response(s))
      /\ pc' = IF s = <<>> THEN "turnEnd" ELSE "tools"
  BY DEF StreamDone, BatchInv
<1>3. InStep
  BY <1>2 DEF CopyInv
<1>4. Len(messages) = Len(context) /\ Len(context) \in Nat
  BY <1>1, <1>2, <1>3, NoneAnswered DEF InStep
<1>5. Response(s) \in Message
  BY <1>1, MessageTypes
<1>6. Len(context') = Len(context) + 1
  BY <1>1, <1>2, <1>5, Appended
<1>. QED BY <1>1, <1>2, <1>4, <1>5, <1>6 DEF Current

(* Every step keeps the answers of the transcript in their places.          *)
LEMMA EmittedInductive ==
    TypeOK /\ BatchInv /\ PromptsInv /\ CopyInv /\ TailInv /\ EmittedInv /\ [Next]_vars
        => EmittedInv'
<1>. SUFFICES ASSUME TypeOK, BatchInv, PromptsInv, CopyInv, TailInv, EmittedInv, [Next]_vars
              PROVE  EmittedInv'
  OBVIOUS
<1>0. messages \in Seq(Message) /\ batch \in Seq(Calls)
  BY DEF TypeOK
<1>1. ASSUME messages' = messages, \/ UNCHANGED <<pc, context>>
                                   \/ pc # "tools" /\ pc' # "tools"
      PROVE  EmittedInv'
  BY <1>1, EmittedQuiet DEF Current
<1>2. CASE Callers \/ TaskStep \/ UNCHANGED vars
  <2>1. /\ messages' = messages
        /\ \/ UNCHANGED <<pc, context>>
           \/ pc # "tools" /\ pc' # "tools"
    BY <1>2 DEF Callers, TaskStep, vars, agentVars, loopVars, bgVars, Prompt, Steer, FollowUp,
           ContinueRun, StartRun, ClearQueues, Abort, TaskEnds, TaskSettles
  <2>. QED BY <2>1, <1>1
<1>3. CASE FirstCollect \/ EndTurn \/ Woken \/ FinishRun
  <2>1. messages' = messages /\ pc # "tools" /\ pc' # "tools"
    BY <1>3 DEF FirstCollect, EndTurn, Woken, CollectThen, FinishRun
  <2>. QED BY <2>1, <1>1
<1>4. CASE EmitPrompt
  <2>1. Current' = Current
    BY <1>4 DEF EmitPrompt, loopVars, Current
  <2>. QED BY <1>4, <2>1, SentRole, EmittedQuiet
<1>5. CASE Inject
  <2>1. Current' = Current /\ messages' = Append(messages, Head(pending))
    BY <1>5 DEF Inject, Current
  <2>. QED BY <1>5, <2>1, InjectedRole, EmittedQuiet
<1>6. CASE StreamStops
  <2>1. Current' = Current /\ messages' = Append(messages, Failure)
    BY <1>6 DEF StreamStops, Current
  <2>2. Failure \in Message /\ Failure.role # "assistant"
    BY MessageTypes DEF Failure
  <2>. QED BY <2>1, <2>2, EmittedQuiet
<1>7. CASE \E s \in Batches : StreamDone(s)
  <2>1. PICK s \in Batches : StreamDone(s)
    BY <1>7
  <2>2. /\ Response(s) \in Message /\ Len(messages) = Len(context) /\ Current = 0
        /\ messages' = Append(messages, Response(s))
        /\ s # <<>> => Current' = Len(context) + 1
    BY <2>1, ResponseOpens
  <2>3. /\ Grows(messages, messages') /\ messages'[Len(messages) + 1] = Response(s)
        /\ DOMAIN messages' = DOMAIN messages \cup {Len(messages) + 1}
        /\ messages' \in Seq(Message) /\ 0 \notin DOMAIN messages'
    <3>1. DOMAIN messages' = 1..Len(messages')
      BY <1>0, <2>2, GrowsAppend DEF Grows
    <3>. QED BY <1>0, <2>2, <3>1, GrowsAppend DEF Grows
  <2>4. ASSUME NEW i \in DOMAIN messages', i # Current', i = Current \/ i \notin DOMAIN messages
        PROVE  Emits(call', messages', i)
    <3>1. i = Len(messages) + 1 /\ s = <<>>
      BY <2>2, <2>3, <2>4
    <3>2. messages'[i].calls = <<>>
      BY <2>3, <3>1 DEF Response
    <3>. QED BY <2>3, <3>2, NothingCalled
  <2>. QED BY <2>3, <2>4, EmittedStep
<1>8. CASE \E c \in Calls : CallStep(c)
  <2>1. PICK c \in Calls : CallStep(c)
    BY <1>8
  <2>2. UNCHANGED <<pc, context>> /\ (messages' = messages \/ messages' = Append(messages, Result(c)))
    BY <2>1, CallShape
  <2>3. Current' = Current
    BY <2>2 DEF Current
  <2>4. Result(c) \in Message /\ Result(c).role # "assistant"
    BY MessageTypes DEF Result
  <2>. QED BY <2>2, <2>3, <2>4, EmittedQuiet
<1>9. CASE EndBatch
  <2>1. /\ messages' = messages /\ call' = call /\ pc = "tools" /\ pc' = "turnEnd"
        /\ \A c \in Batch : call[c] = "answered"
    BY <1>9 DEF EndBatch, agentVars
  <2>2. Whole(call, Response(batch)) /\ Over(call, Response(batch))
    BY <2>1 DEF Whole, Over, Ended, Response, Batch
  <2>3. Emits(call', messages', Current)
    BY <2>1, <2>2, BatchAnswered DEF Emits, Current
  <2>4. Grows(messages, messages')
    BY <1>0, <2>1 DEF Grows
  <2>. QED BY <2>1, <2>3, <2>4, EmittedStep
<1>10. CASE RunFails
  <2>1. /\ messages' = messages \/ messages' = Append(messages, Failure)
        /\ pc' = "failed"
        /\ call' = [c \in Calls |-> IF c \in Batch /\ call[c] # "answered"
                                    THEN "dropped" ELSE call[c]]
    BY <1>10 DEF RunFails
  <2>2. Failure \in Message /\ Failure.role # "assistant"
    BY MessageTypes DEF Failure
  <2>3. CASE pc # "tools"
    <3>1. Current' = Current
      BY <2>1, <2>3 DEF Current
    <3>. QED BY <2>1, <2>2, <3>1, EmittedQuiet
  <2>4. CASE pc = "tools"
    <3>1. Grows(messages, messages') /\ messages' \in Seq(Message)
      BY <1>0, <2>1, <2>2, GrowsAppend DEF Grows
    <3>2. \A i \in DOMAIN messages' : i \notin DOMAIN messages => Emits(call', messages', i)
      BY <1>0, <2>1, <2>2, GrowsAppend DEF Emits
    <3>3. /\ Current \in DOMAIN messages /\ messages[Current] = Response(batch)
          /\ Whole(call, Response(batch)) => AnswersEmitted(messages, Current)
      BY <2>4, BatchAnswered DEF Current
    <3>4. \A c \in Batch : c \in Calls
      BY <1>0 DEF Batch, ToSet
    <3>5. Over(call', Response(batch)) /\ (Whole(call', Response(batch)) => Whole(call, Response(batch)))
      BY <2>1, <3>4 DEF Over, Whole, Ended, Response, Batch
    <3>6. messages'[Current] = Response(batch)
      BY <3>1, <3>3 DEF Grows
    <3>7. AnswersEmitted(messages, Current) => AnswersEmitted(messages', Current)
      BY <3>1, <3>3, StillAnswered DEF Grows
    <3>8. Emits(call', messages', Current)
      BY <3>3, <3>5, <3>6, <3>7 DEF Emits
    <3>. QED BY <3>1, <3>2, <3>8, EmittedStep
  <2>. QED BY <2>3, <2>4
<1>. QED
  BY <1>2, <1>3, <1>4, <1>5, <1>6, <1>7, <1>8, <1>9, <1>10 DEF Next, RunStep
-----------------------------------------------------------------------------
(* A run starts from a copy of the transcript, and its prompts call nothing. *)
LEMMA CopiedStart ==
    ASSUME TypeOK, BatchInv, EmittedInv, [Next]_vars, pc = "idle",
           NEW p \in Seq(Message), NEW skip, StartRun(p, skip),
           ToSet(p) \subseteq {UserMsg(u) : u \in Users}
    PROVE  CopiedInv'
<1>0. /\ messages \in Seq(Message) /\ context' = messages \o p /\ Current = 0
  BY DEF TypeOK, StartRun, Current
<1>1. /\ Grows(messages, context') /\ DOMAIN messages = 1..Len(messages)
      /\ DOMAIN context' = 1..(Len(messages) + Len(p)) /\ Len(messages) \in Nat /\ Len(p) \in Nat
      /\ \A k \in (Len(messages) + 1)..(Len(messages) + Len(p)) : context'[k] = p[k - Len(messages)]
  <2>1. /\ context' \in Seq(Message) /\ Len(context') = Len(messages) + Len(p)
        /\ Len(messages) \in Nat /\ Len(p) \in Nat
    BY <1>0
  <2>2. /\ DOMAIN context' = 1..(Len(messages) + Len(p)) /\ DOMAIN messages = 1..Len(messages)
        /\ \A k \in 1..Len(messages) : context'[k] = messages[k]
        /\ \A k \in (Len(messages) + 1)..(Len(messages) + Len(p)) : context'[k] = p[k - Len(messages)]
    BY <1>0, ConcatParts
  <2>. QED BY <1>0, <2>1, <2>2 DEF Grows
<1>2. \A k \in DOMAIN p : p[k].role = "user"
  BY DEF ToSet, UserMsg
<1>3. ASSUME NEW i \in DOMAIN context' PROVE Copies(call', context', i)
  <2>1. CASE i \in DOMAIN messages
    <3>1. Emits(call, messages, i)
      BY <1>0, <1>1, <2>1 DEF EmittedInv
    <3>2. \A c \in Calls : call[c] \in Ended => call'[c] = call[c]
      BY EndsAreFinal
    <3>. QED BY <1>1, <2>1, <3>1, <3>2, StillSo DEF Grows
  <2>2. CASE i \notin DOMAIN messages
    <3>1. i - Len(messages) \in 1..Len(p) /\ context'[i] = p[i - Len(messages)]
      BY <1>1, <2>2
    <3>2. DOMAIN p = 1..Len(p)
      OBVIOUS
    <3>3. context'[i].role = "user"
      BY <1>2, <3>1, <3>2
    <3>. QED BY <3>3 DEF Copies
  <2>. QED BY <2>1, <2>2
<1>. QED BY <1>3, InvariantsNext

(* Most steps leave the copy alone, or add what calls nothing.              *)
LEMMA CopiedQuiet ==
    ASSUME TypeOK, BatchInv, CopiedInv, [Next]_vars, Current' = Current,
           pc = "failed" => pc' = "failed",
           \/ context' = context
           \/ \E m \in Message : m.role # "assistant" /\ context' = Append(context, m)
    PROVE  CopiedInv'
<1>0. context \in Seq(Message)
  BY DEF TypeOK
<1>1. CASE context' = context
  <2>1. Grows(context, context')
    BY <1>0, <1>1 DEF Grows
  <2>. QED BY <1>1, <2>1, CopiedStep
<1>2. ASSUME NEW m \in Message, m.role # "assistant", context' = Append(context, m)
      PROVE  CopiedInv'
  <2>1. /\ Grows(context, context') /\ context'[Len(context) + 1] = m
        /\ DOMAIN context' = DOMAIN context \cup {Len(context) + 1}
    BY <1>0, <1>2, GrowsAppend
  <2>2. \A i \in DOMAIN context' : i \notin DOMAIN context => Copies(call', context', i)
    BY <1>2, <2>1 DEF Copies
  <2>. QED BY <2>1, <2>2, CopiedStep
<1>. QED BY <1>1, <1>2

(* The end of a batch puts its results into the copy in the order of the    *)
(* calls.                                                                   *)
LEMMA CopiedBatch ==
    ASSUME TypeOK, BatchInv, CopyInv, TailInv, CopiedInv, [Next]_vars, EndBatch
    PROVE  CopiedInv'
<1>. DEFINE r == Results(batch)
<1>0. /\ context \in Seq(Message) /\ batch \in Seq(Calls) /\ r \in Seq(Message)
      /\ DOMAIN r = 1..Len(r) /\ DOMAIN batch = 1..Len(batch) /\ DOMAIN r = DOMAIN batch
      /\ Len(r) = Len(batch) /\ Len(batch) \in Nat
      /\ \A k \in DOMAIN batch : r[k] = Result(batch[k])
  <2>1. context \in Seq(Message) /\ batch \in Seq(Calls) /\ r \in Seq(Message)
    BY MessagesOf DEF TypeOK
  <2>2. /\ DOMAIN r = DOMAIN batch /\ \A k \in DOMAIN batch : r[k] = Result(batch[k])
    BY DEF Results
  <2>. QED BY <2>1, <2>2
<1>1. /\ pc = "tools" /\ pc' = "turnEnd" /\ call' = call /\ context' = context \o r
      /\ \A c \in Batch : call[c] = "answered"
  BY DEF EndBatch
<1>. HIDE DEF r
<1>2. /\ Grows(context, context') /\ DOMAIN context = 1..Len(context) /\ Len(context) \in Nat
      /\ DOMAIN context' = 1..(Len(context) + Len(r)) /\ Len(context') = Len(context) + Len(r)
      /\ \A k \in (Len(context) + 1)..(Len(context) + Len(r)) : context'[k] = r[k - Len(context)]
  <2>1. /\ context' \in Seq(Message) /\ Len(context') = Len(context) + Len(r)
        /\ Len(context) \in Nat /\ Len(r) \in Nat
    <3>1. context \in Seq(Message) /\ r \in Seq(Message) /\ context' = context \o r
      BY <1>0, <1>1
    <3>. QED BY <3>1, ConcatProperties
  <2>2. /\ DOMAIN context' = 1..(Len(context) + Len(r)) /\ DOMAIN context = 1..Len(context)
        /\ \A k \in 1..Len(context) : context'[k] = context[k]
        /\ \A k \in (Len(context) + 1)..(Len(context) + Len(r)) : context'[k] = r[k - Len(context)]
    BY <1>0, <1>1, ConcatParts
  <2>. QED BY <1>0, <2>1, <2>2 DEF Grows
<1>3. Current = Len(context) /\ Current \in DOMAIN context /\ context'[Current] = Response(batch)
  <2>1. Current = Len(context)
    BY <1>1 DEF Current
  <2>2. Current \in DOMAIN context /\ context[Current] = Response(batch)
    BY <1>1, <2>1, BatchAnswered
  <2>. QED BY <1>2, <2>1, <2>2 DEF Grows
<1>4. AnswersInOrder(context', Current)
  <2>1. Response(batch).calls = batch
    BY DEF Response
  <2>2. \A k \in DOMAIN batch : context'[Current + k] = Result(batch[k])
    <3>. SUFFICES ASSUME NEW k \in DOMAIN batch PROVE context'[Current + k] = Result(batch[k])
      OBVIOUS
    <3>1. /\ Current + k \in (Len(context) + 1)..(Len(context) + Len(r))
          /\ (Current + k) - Len(context) = k
      BY <1>0, <1>2, <1>3
    <3>. QED BY <1>0, <1>2, <3>1
  <2>3. Current + Len(batch) <= Len(context')
    BY <1>0, <1>2, <1>3
  <2>. QED BY <1>3, <2>1, <2>2, <2>3 DEF AnswersInOrder
<1>5. Copies(call', context', Current)
  BY <1>1, <1>3, <1>4 DEF Copies, Over, Ended, Response, Batch
<1>6. ASSUME NEW i \in DOMAIN context', i \notin DOMAIN context PROVE Copies(call', context', i)
  <2>1. i - Len(context) \in 1..Len(batch) /\ context'[i] = r[i - Len(context)]
    BY <1>0, <1>2, <1>6
  <2>2. context'[i].role = "toolResult"
    BY <1>0, <2>1 DEF Result
  <2>. QED BY <2>2 DEF Copies
<1>. QED BY <1>1, <1>2, <1>5, <1>6, CopiedStep

(* Every step keeps the answers of the copy in their places.                *)
LEMMA CopiedInductive ==
    TypeOK /\ BatchInv /\ PromptsInv /\ CopyInv /\ TailInv /\ EmittedInv /\ CopiedInv
        /\ [Next]_vars => CopiedInv'
<1>. SUFFICES ASSUME TypeOK, BatchInv, PromptsInv, CopyInv, TailInv, EmittedInv, CopiedInv,
                     [Next]_vars
              PROVE  CopiedInv'
  OBVIOUS
<1>0. context \in Seq(Message)
  BY DEF TypeOK
<1>1. ASSUME context' = context, \/ pc' = pc
                                 \/ pc \notin {"tools", "failed"} /\ pc' # "tools"
      PROVE  CopiedInv'
  <2>1. Current' = Current /\ (pc = "failed" => pc' = "failed")
    BY <1>1 DEF Current
  <2>. QED BY <1>1, <2>1, CopiedQuiet
<1>2. ASSUME NEW u \in Users, Prompt(u) PROVE CopiedInv'
  <2>1. pc = "idle" /\ StartRun(<<UserMsg(u)>>, FALSE)
    BY <1>2 DEF Prompt
  <2>2. <<UserMsg(u)>> \in Seq(Message) /\ ToSet(<<UserMsg(u)>>) \subseteq {UserMsg(v) : v \in Users}
    <3>1. UserMsg(u) \in Message
      BY UserMsgType
    <3>. QED BY <3>1 DEF ToSet
  <2>. QED BY <2>1, <2>2, CopiedStart
<1>3. CASE ContinueRun
  <2>1. pc = "idle"
    BY <1>3 DEF ContinueRun
  <2>. QED BY <1>3, <2>1, PromptsAreUsers, CopiedStart
<1>4. CASE (\E u \in Users : Steer(u) \/ FollowUp(u)) \/ ClearQueues \/ Abort \/ TaskStep
           \/ UNCHANGED vars
  <2>1. context' = context /\ pc' = pc
    BY <1>4 DEF TaskStep, vars, agentVars, loopVars, bgVars, Steer, FollowUp, ClearQueues,
           Abort, TaskEnds, TaskSettles
  <2>. QED BY <2>1, <1>1
<1>5. CASE EmitPrompt \/ FirstCollect \/ EndTurn \/ Woken
  <2>1. context' = context /\ pc \notin {"tools", "failed"} /\ pc' # "tools"
    BY <1>5 DEF EmitPrompt, loopVars, FirstCollect, EndTurn, Woken, CollectThen
  <2>. QED BY <2>1, <1>1
<1>6. CASE FinishRun
  <2>1. context' = <<>> /\ DOMAIN <<>> = {}
    BY <1>6 DEF FinishRun
  <2>. QED BY <2>1, InvariantsNext
<1>7. CASE RunFails
  <2>1. pc' = "failed"
    BY <1>7 DEF RunFails
  <2>. QED BY <2>1, InvariantsNext
<1>8. CASE Inject
  <2>1. Current' = Current /\ context' = Append(context, Head(pending)) /\ pc # "failed"
    BY <1>8 DEF Inject, Current
  <2>. QED BY <1>8, <2>1, InjectedRole, CopiedQuiet
<1>9. CASE StreamStops
  <2>1. Current' = Current /\ context' = Append(context, Failure) /\ pc # "failed"
    BY <1>9 DEF StreamStops, Current
  <2>2. Failure \in Message /\ Failure.role # "assistant"
    BY MessageTypes DEF Failure
  <2>. QED BY <2>1, <2>2, CopiedQuiet
<1>10. CASE \E s \in Batches : StreamDone(s)
  <2>1. PICK s \in Batches : StreamDone(s)
    BY <1>10
  <2>2. /\ Response(s) \in Message /\ Current = 0 /\ pc = "stream"
        /\ context' = Append(context, Response(s))
        /\ s # <<>> => Current' = Len(context) + 1
    BY <2>1, ResponseOpens
  <2>3. /\ Grows(context, context') /\ context'[Len(context) + 1] = Response(s)
        /\ DOMAIN context' = DOMAIN context \cup {Len(context) + 1}
        /\ context' \in Seq(Message) /\ 0 \notin DOMAIN context'
    <3>1. DOMAIN context' = 1..Len(context')
      BY <1>0, <2>2, GrowsAppend DEF Grows
    <3>. QED BY <1>0, <2>2, <3>1, GrowsAppend DEF Grows
  <2>4. ASSUME NEW i \in DOMAIN context', i # Current', i = Current \/ i \notin DOMAIN context
        PROVE  Copies(call', context', i)
    <3>1. i = Len(context) + 1 /\ s = <<>>
      BY <2>2, <2>3, <2>4
    <3>2. context'[i].calls = <<>>
      BY <2>3, <3>1 DEF Response
    <3>. QED BY <2>3, <3>2, NothingCalled
  <2>. QED BY <2>2, <2>3, <2>4, CopiedStep
<1>11. CASE \E c \in Calls : CallStep(c)
  <2>1. UNCHANGED <<pc, context>>
    BY <1>11, CallShape
  <2>. QED BY <2>1, <1>1
<1>12. CASE EndBatch
  BY <1>12, CopiedBatch
<1>. QED
  BY <1>2, <1>3, <1>4, <1>5, <1>6, <1>7, <1>8, <1>9, <1>10, <1>11, <1>12
     DEF Next, Callers, RunStep
-----------------------------------------------------------------------------
(* Of two calls of a batch one is handled before the other.                 *)
LEMMA BeforeTotal ==
    ASSUME TypeOK, NEW c \in Batch, NEW d \in Batch, c # d
    PROVE  Before(c, d) \/ Before(d, c)
<1>1. batch \in Seq(Calls) /\ DOMAIN batch = 1..Len(batch) /\ Len(batch) \in Nat
  BY DEF TypeOK
<1>2. PICK i \in DOMAIN batch, j \in DOMAIN batch : batch[i] = c /\ batch[j] = d
  BY DEF Batch, ToSet
<1>3. i < j \/ j < i
  BY <1>1, <1>2
<1>4. CASE c \in BgCalls <=> d \in BgCalls
  BY <1>2, <1>3, <1>4 DEF Before, Earlier
<1>5. CASE ~(c \in BgCalls <=> d \in BgCalls)
  BY <1>5 DEF Before, Earlier
<1>. QED BY <1>4, <1>5

(* Nothing but a background call comes before one.                          *)
LEMMA BackgroundsFirst ==
    ASSUME NEW c, NEW d, Before(c, d), d \in BgCalls
    PROVE  c \in BgCalls /\ c \notin FgCalls
BY CallsAssumption DEF Before, Earlier

(* A step of a call keeps the order of the batch: it starts when all before *)
(* it are passed, and is answered when all before it are answered.          *)
LEMMA OrderCall ==
    ASSUME TypeOK, BatchInv, OrderInv, NEW c \in Calls, CallStep(c)
    PROVE  OrderInv'
<1>0. /\ c \in Batch /\ batch' = batch /\ call[c] \notin Ended \cup {"new"}
      /\ \A d \in Calls : d # c => call'[d] = call[d]
      /\ call \in [Calls -> States] /\ Batch \subseteq Calls
  <2>1. batch \in Seq(Calls) /\ call \in [Calls -> States]
    BY DEF TypeOK
  <2>. QED BY <2>1, CallShape DEF Batch, ToSet
<1>1. /\ Batch' = Batch /\ (Parallel' <=> Parallel)
      /\ \A a, b : Before(a, b)' <=> Before(a, b)
  BY <1>0 DEF Batch, Parallel, Foreground, Before, Earlier
<1>2. \A a \in Batch : Passed(a) => Passed(a)'
  <2>. SUFFICES ASSUME NEW a \in Batch, Passed(a) PROVE Passed(a)'
    OBVIOUS
  <2>1. CASE a # c
    BY <1>0, <1>1, <2>1 DEF Passed
  <2>2. CASE a = c
    <3>1. c \in FgCalls /\ Parallel /\ call[c] \in {"prepared", "finalized"}
      BY <1>0, <2>2 DEF Passed, Ended
    <3>2. call'[c] \in {"finalized", "answered"}
      BY <1>0, <3>1 DEF CallStep, StartCall, RejectCall, DetachCall, PrepareCall, FinishCall,
             AnswerCall, EndCall
    <3>. QED BY <1>1, <2>2, <3>1, <3>2 DEF Passed
  <2>. QED BY <2>1, <2>2
<1>3. ASSUME NEW a \in Batch, Before(a, c), call[c] = "queued", call'[c] # "queued"
      PROVE  Passed(a)
  BY <1>3 DEF CallStep, StartCall, RejectCall, DetachCall, PrepareCall, FinishCall, AnswerCall
<1>4. ASSUME NEW a \in Batch, Before(a, c), call'[c] = "answered" PROVE call'[a] = "answered"
  <2>1. CASE a = c
    BY <1>4, <2>1
  <2>2. CASE a # c
    <3>1. call[c] # "queued"
      BY <1>0, <1>4 DEF CallStep, StartCall, RejectCall, DetachCall, PrepareCall, FinishCall,
             AnswerCall
    <3>2. Passed(a)
      BY <1>0, <1>4, <3>1 DEF OrderInv
    <3>3. CASE c \in BgCalls
      BY <1>0, <1>4, <2>2, <3>2, <3>3, BackgroundsFirst DEF Passed
    <3>4. CASE c \notin BgCalls /\ ~AnswerCall(c)
      <4>1. ~(c \in FgCalls /\ Parallel)
        BY <1>0, <1>4, <3>4 DEF CallStep, StartCall, RejectCall, DetachCall, PrepareCall,
               FinishCall, EndCall
      <4>2. ~Parallel
        BY <3>4, <4>1 DEF Calls
      <4>. QED BY <1>0, <2>2, <3>2, <4>2 DEF Passed
    <3>5. CASE c \notin BgCalls /\ AnswerCall(c)
      <4>1. a \in Foreground => call[a] = "answered"
        BY <1>4, <3>5 DEF AnswerCall
      <4>2. a \in FgCalls => a \in Foreground
        BY DEF Foreground
      <4>. QED BY <1>0, <2>2, <3>2, <4>1, <4>2 DEF Passed
    <3>. QED BY <3>3, <3>4, <3>5
  <2>. QED BY <2>1, <2>2
<1>5. ASSUME NEW a \in Batch, NEW b \in Batch, Before(a, b)
      PROVE  /\ call'[b] # "queued" => Passed(a)'
             /\ call'[b] = "answered" => call'[a] = "answered"
  <2>1. CASE b = c
    <3>1. call'[b] # "queued" => Passed(a)
      BY <1>3, <1>5, <2>1 DEF OrderInv
    <3>. QED BY <1>2, <1>4, <1>5, <2>1, <3>1
  <2>2. CASE b # c
    <3>1. call'[b] = call[b]
      BY <1>0, <2>2
    <3>2. call[b] # "queued" => Passed(a)
      BY <1>5 DEF OrderInv
    <3>3. call[b] = "answered" => call[a] = "answered" /\ a # c
      BY <1>0, <1>5 DEF OrderInv, Ended
    <3>. QED BY <1>0, <1>2, <3>1, <3>2, <3>3
  <2>. QED BY <2>1, <2>2
<1>. QED BY <1>1, <1>5 DEF OrderInv

(* Every step keeps the order of the batch.                                 *)
LEMMA OrderInductive ==
    TypeOK /\ BatchInv /\ OrderInv /\ [Next]_vars => OrderInv'
<1>. SUFFICES ASSUME TypeOK, BatchInv, OrderInv, [Next]_vars PROVE OrderInv'
  OBVIOUS
<1>1. CASE UNCHANGED <<batch, call>>
  BY <1>1 DEF OrderInv, Batch, Before, Earlier, Passed, Parallel, Foreground
<1>2. CASE EndBatch \/ RunFails
  <2>1. batch' = <<>>
    BY <1>2 DEF EndBatch, RunFails
  <2>2. Batch' = {}
    BY <2>1, ElementsNil DEF Batch
  <2>. QED BY <2>2 DEF OrderInv
<1>3. CASE \E s \in Batches : StreamDone(s)
  <2>1. PICK s \in Batches : StreamDone(s)
    BY <1>3
  <2>2. /\ batch' = s /\ ToSet(s) \subseteq Calls
        /\ call' = [c \in Calls |-> IF c \in ToSet(s) THEN "queued" ELSE call[c]]
    <3>1. s \in Seq(Calls)
      BY BatchType
    <3>. QED BY <2>1, <3>1 DEF StreamDone, ToSet
  <2>3. \A d \in Batch' : call'[d] = "queued"
    BY <2>2 DEF Batch
  <2>. QED BY <2>3 DEF OrderInv
<1>4. CASE \E c \in Calls : CallStep(c)
  BY <1>4, OrderCall
<1>5. \/ UNCHANGED <<batch, call>> \/ EndBatch \/ RunFails
      \/ \E s \in Batches : StreamDone(s)
      \/ \E c \in Calls : CallStep(c)
  BY DEF Next, Callers, RunStep, TaskStep, vars, agentVars, loopVars, bgVars, Prompt, Steer,
         FollowUp, ContinueRun, StartRun, ClearQueues, Abort, EmitPrompt, FirstCollect,
         EndTurn, Woken, CollectThen, Inject, StreamStops, FinishRun, TaskEnds, TaskSettles
<1>. QED BY <1>1, <1>2, <1>3, <1>4, <1>5

(* An answer joins the results of the batch after all that came before it.  *)
LEMMA TailCall ==
    ASSUME TypeOK, BatchInv, CopyInv, OrderInv, TailInv, NEW c \in Calls, CallStep(c)
    PROVE  TailInv'
<1>0. /\ pc = "tools" /\ c \in Batch /\ UNCHANGED <<pc, batch, context>>
      /\ call[c] \notin Ended \cup {"new"}
      /\ \A d \in Calls : d # c => call'[d] = call[d]
      /\ \/ messages' = messages /\ call'[c] # "answered"
         \/ messages' = Append(messages, Result(c)) /\ call'[c] = "answered"
  BY CallShape
<1>1. /\ messages \in Seq(Message) /\ Len(messages) \in Nat /\ Len(context) \in Nat
      /\ Len(messages) >= Len(context)
      /\ Batch \subseteq Calls /\ Batch' = Batch
      /\ \A a, b : Before(a, b)' <=> Before(a, b)
  <2>1. messages \in Seq(Message) /\ context \in Seq(Message) /\ batch \in Seq(Calls)
    BY DEF TypeOK
  <2>2. /\ Len(messages) = Len(context) + Cardinality(Answered)
        /\ Cardinality(Answered) \in Nat
    BY <1>0, BatchAnswered
  <2>3. Len(messages) \in Nat /\ Len(context) \in Nat
    BY <2>1
  <2>4. Len(messages) >= Len(context)
    BY <2>2, <2>3
  <2>5. Batch \subseteq Calls
    BY <2>1 DEF Batch, ToSet
  <2>6. Batch' = Batch /\ \A a, b : Before(a, b)' <=> Before(a, b)
    BY <1>0 DEF Batch, Before, Earlier
  <2>. QED BY <2>1, <2>3, <2>4, <2>5, <2>6
<1>2. /\ context # <<>> /\ context[Len(context)] = Response(batch)
      /\ {messages[k] : k \in Emitting} = {Result(d) : d \in Answered}
      /\ \A k, l \in Emitting : k < l => Before(messages[k].id, messages[l].id)
  BY <1>0 DEF TailInv
<1>3. context' # <<>> /\ context'[Len(context')] = Response(batch')
  BY <1>0, <1>2
<1>4. CASE messages' = messages /\ call'[c] # "answered"
  <2>1. Answered' = Answered /\ Emitting' = Emitting
    BY <1>0, <1>1, <1>4 DEF Answered, Emitting, Ended
  <2>. QED BY <1>1, <1>2, <1>3, <1>4, <2>1 DEF TailInv, Result
<1>5. CASE messages' = Append(messages, Result(c)) /\ call'[c] = "answered"
  <2>. DEFINE n == Len(messages) + 1
  <2>1. /\ Len(messages') = n /\ messages'[n] = Result(c)
        /\ \A k \in 1..Len(messages) : messages'[k] = messages[k]
    BY <1>1, <1>5, MessageTypes, Appended
  <2>2. Emitting' = Emitting \cup {n} /\ Emitting \subseteq 1..Len(messages)
    BY <1>0, <1>1, <2>1 DEF Emitting
  <2>3. Answered' = Answered \cup {c} /\ c \notin Answered
    BY <1>0, <1>1, <1>5 DEF Answered, Ended
  <2>4. {messages'[k] : k \in Emitting'} = {Result(d) : d \in Answered'}
    <3>1. {messages'[k] : k \in Emitting} = {messages[k] : k \in Emitting}
      BY <2>1, <2>2
    <3>2. {messages'[k] : k \in Emitting'} = {messages'[k] : k \in Emitting} \cup {Result(c)}
      BY <2>1, <2>2
    <3>. QED BY <1>2, <2>3, <3>1, <3>2
  <2>5. \A d \in Answered : Before(d, c)
    <3>. SUFFICES ASSUME NEW d \in Answered PROVE Before(d, c)
      OBVIOUS
    <3>1. d \in Batch /\ call[d] = "answered" /\ d # c /\ call[c] # "answered"
      BY <1>0, <2>3 DEF Answered, Ended
    <3>2. ~Before(c, d)
      BY <1>0, <3>1 DEF OrderInv
    <3>. QED BY <1>0, <3>1, <3>2, BeforeTotal
  <2>6. \A k \in Emitting : Before(messages[k].id, c)
    <3>. SUFFICES ASSUME NEW k \in Emitting PROVE Before(messages[k].id, c)
      OBVIOUS
    <3>1. PICK d \in Answered : messages[k] = Result(d)
      BY <1>2
    <3>. QED BY <2>5, <3>1 DEF Result
  <2>7. ASSUME NEW k \in Emitting', NEW l \in Emitting', k < l
        PROVE  Before(messages'[k].id, messages'[l].id)
    <3>1. k \in Emitting /\ messages'[k] = messages[k]
      BY <1>1, <2>1, <2>2, <2>7
    <3>2. CASE l = n
      <4>1. messages'[l].id = c
        BY <2>1, <3>2 DEF Result
      <4>. QED BY <2>6, <3>1, <4>1
    <3>3. CASE l # n
      <4>1. l \in Emitting /\ messages'[l] = messages[l]
        BY <2>1, <2>2, <2>7, <3>3
      <4>. QED BY <1>2, <2>7, <3>1, <4>1
    <3>. QED BY <3>2, <3>3
  <2>8. \A k, l \in Emitting' : k < l => Earlier(messages'[k].id, messages'[l].id, batch')
    BY <1>0, <2>7 DEF Before
  <2>. QED BY <1>3, <2>4, <2>8 DEF TailInv, Result, Before, Earlier
<1>. QED BY <1>0, <1>4, <1>5

(* Every step keeps the results of the batch at the end of the transcript.  *)
LEMMA TailInductive ==
    TypeOK /\ BatchInv /\ CopyInv /\ OrderInv /\ TailInv /\ [Next]_vars => TailInv'
<1>. SUFFICES ASSUME TypeOK, BatchInv, CopyInv, OrderInv, TailInv, [Next]_vars PROVE TailInv'
  OBVIOUS
<1>1. CASE UNCHANGED <<messages, context, batch, call, pc>>
  BY <1>1 DEF TailInv, Emitting, Answered, Batch, Before, Earlier, Result, Response
<1>2. CASE pc' # "tools"
  BY <1>2 DEF TailInv
<1>3. CASE \E c \in Calls : CallStep(c)
  BY <1>3, TailCall
<1>4. ASSUME NEW s \in Batches, StreamDone(s) PROVE TailInv'
  <2>1. /\ Response(s) \in Message /\ s \in Seq(Calls)
        /\ Len(messages) = Len(context) /\ Len(context) \in Nat /\ batch' = s
        /\ messages' = Append(messages, Response(s))
        /\ context' = Append(context, Response(s))
    BY <1>4, ResponseOpens
  <2>2. messages \in Seq(Message) /\ context \in Seq(Message)
    BY DEF TypeOK
  <2>3. /\ Len(messages') = Len(context') /\ Len(context') = Len(context) + 1
        /\ context'[Len(context')] = Response(batch') /\ context' \in Seq(Message)
    BY <2>1, <2>2, Appended
  <2>4. context' # <<>> /\ Emitting' = {}
    BY <2>1, <2>3 DEF Emitting
  <2>5. Answered' = {}
    <3>1. call' = [c \in Calls |-> IF c \in ToSet(s) THEN "queued" ELSE call[c]]
      BY <1>4 DEF StreamDone
    <3>2. ToSet(s) \subseteq Calls
      BY <2>1 DEF ToSet
    <3>. QED BY <2>1, <3>1, <3>2 DEF Answered, Batch
  <2>. QED BY <2>3, <2>4, <2>5 DEF TailInv, Response
<1>5. \/ UNCHANGED <<messages, context, batch, call, pc>> \/ pc' # "tools"
      \/ \E s \in Batches : StreamDone(s)
      \/ \E c \in Calls : CallStep(c)
  BY DEF Next, Callers, RunStep, TaskStep, vars, agentVars, loopVars, bgVars, Prompt, Steer,
         FollowUp, ContinueRun, StartRun, ClearQueues, Abort, EmitPrompt, FirstCollect,
         EndTurn, Woken, CollectThen, Inject, StreamStops, EndBatch, RunFails, FinishRun,
         TaskEnds, TaskSettles
<1>. QED BY <1>1, <1>2, <1>3, <1>4, <1>5

-----------------------------------------------------------------------------
(* The invariants hold at first, every step keeps them, and they say what   *)
(* the property says.                                                       *)
LEMMA AnswerInit == Init => CopyInv /\ AnswerInv
BY ElementsNil DEF Init, CopyInv, IsInjective, AnswerInv, EmittedInv, CopiedInv, OrderInv,
   TailInv, Batch

LEMMA AnswerInductive ==
    MessageInv /\ CopyInv /\ AnswerInv /\ [Next]_vars => CopyInv' /\ AnswerInv'
<1>. SUFFICES ASSUME MessageInv, CopyInv, AnswerInv, [Next]_vars PROVE CopyInv' /\ AnswerInv'
  OBVIOUS
<1>1. TypeOK /\ BatchInv /\ PromptsInv /\ EmittedInv /\ CopiedInv /\ OrderInv /\ TailInv
  BY DEF MessageInv, IInv, AnswerInv
<1>. QED BY <1>1, CopyInductive, EmittedInductive, CopiedInductive, OrderInductive,
            TailInductive DEF AnswerInv

LEMMA AnswersSay == MessageInv /\ AnswerInv => EveryCallAnsweredInPlace
<1>. SUFFICES ASSUME MessageInv, AnswerInv, pc = "stream"
              PROVE  /\ \A i \in DOMAIN messages :
                            Complete(messages[i]) => AnswersEmitted(messages, i)
                     /\ \A i \in DOMAIN context : Complete(context[i]) =>
                            AnswersEmitted(context, i) \/ AnswersInOrder(context, i)
  BY DEF EveryCallAnsweredInPlace
<1>1. messages \in Seq(Message) /\ context \in Seq(Message) /\ Current = 0
  BY DEF MessageInv, IInv, TypeOK, Current
<1>2. 0 \notin DOMAIN messages /\ 0 \notin DOMAIN context
  BY <1>1
<1>3. /\ \A i \in DOMAIN messages : Emits(call, messages, i)
      /\ \A i \in DOMAIN context : Copies(call, context, i)
  BY <1>1, <1>2 DEF AnswerInv, EmittedInv, CopiedInv
<1>. QED BY <1>3 DEF Emits, Copies, Whole, Complete

\* At every request to a provider an assistant message that calls tools is followed at
\* once by the results of its calls, in the transcript in the order in which the loop
\* handles them, in the loop's copy in that order or in the order of the calls.
THEOREM AnswersInPlace == Spec => []EveryCallAnsweredInPlace
BY AnswerInit, AnswerInductive, AnswersSay, MessagesTracked, PTL DEF Spec
=============================================================================
