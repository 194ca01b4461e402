----------------------------- MODULE ContextProofs -----------------------------
(***************************************************************************)
(* What a model is sent.  No replayed call is left without a result, for   *)
(* every transcript and every normalisation of ids; and of a transcript    *)
(* that a run may have left, calls and results are paired.                 *)
(*                                                                         *)
(* Wherever the history is cut, no result in the context has lost its      *)
(* call, and what leaves the context is in what the summary is made from:  *)
(* for every size of message, budget and length of the session.  There the *)
(* invariant is about the whole path: the entries between a result and     *)
(* the message it answers are results and changes, and no compaction keeps *)
(* a result without the message it answers.                                *)
(***************************************************************************)
EXTENDS ReplayTranscript, Compaction, WellFoundedInduction, TLAPS

-----------------------------------------------------------------------------
(* The replay.                                                               *)
ReplayTypeOK ==
    /\ transcript \in Seq(Message) /\ pos \in Nat \ {0}
    /\ transformed \in Seq(Message) /\ result \in Seq(Message)
    /\ pending \in Seq(CallIds)
    /\ phase \in {"first", "second", "insert", "done"}

\* The message at p makes a call `id`, which a result after it answers.
Makes(msgs, p, id) == /\ p \in DOMAIN msgs /\ msgs[p].role = "assistant"
                      /\ id \in Range(msgs[p].calls)
Answered(msgs, p, id) == \E q \in p + 1 .. Len(msgs) : IsResult(msgs[q], id)

\* A call without a result is still pending, and what is recorded as existing is
\* there for every call of that id, which InsertSynthetic relies on.
OpenIsPending == \A p, id : Makes(result, p, id) => Answered(result, p, id) \/ id \in Range(pending)
ExistingIsThere == \A p, id : Makes(result, p, id) /\ id \in existing => Answered(result, p, id)
DoneIsEmpty == phase = "done" => pending = <<>>

ReplayInv == ReplayTypeOK /\ OpenIsPending /\ ExistingIsThere /\ DoneIsEmpty

-----------------------------------------------------------------------------
\* A message in a sequence of them is one.
LEMMA MessageCalls ==
    ASSUME NEW m \in Message, m.role = "assistant"
    PROVE  m.calls \in Seq(CallIds)
  BY DEF Message

\* Rewriting a message for the model leaves it a message.
LEMMA TransformedIsMessage ==
    ASSUME NEW m \in Message, m.role = "assistant"
    PROVE  ForModel(m) \in Message
<1>1. /\ m \in [role : {"assistant"}, own : BOOLEAN, failed : BOOLEAN,
                blocks : SUBSET BlockTypes, calls : Seq(CallIds)]
  BY DEF Message
<1>2. Rewritten(m.blocks, m.own) \in SUBSET BlockTypes
  BY <1>1 DEF Rewritten, BlockTypes
<1>3. [i \in DOMAIN m.calls |-> Normalized[m.calls[i]]] \in Seq(CallIds)
  BY <1>1, ReplayAssumption
<1>4. QED
  BY <1>1, <1>2, <1>3 DEF ForModel, Message

\* A sequence holds its head and what its tail holds.
LEMMA HeadAndTail ==
    ASSUME NEW s \in Seq(CallIds), s # <<>>
    PROVE  Head(s) \in CallIds /\ Tail(s) \in Seq(CallIds) /\ Range(s) = {Head(s)} \cup Range(Tail(s))
<1>1. Head(s) \in CallIds /\ Tail(s) \in Seq(CallIds) /\ 1 \in DOMAIN s /\ Head(s) = s[1]
  OBVIOUS
<1>2. \A i \in DOMAIN Tail(s) : i + 1 \in DOMAIN s /\ Tail(s)[i] = s[i + 1]
  OBVIOUS
<1>3. \A i \in DOMAIN s : i = 1 \/ (i - 1 \in DOMAIN Tail(s) /\ Tail(s)[i - 1] = s[i])
  OBVIOUS
<1>4. \A x \in Range(s) : x = Head(s) \/ x \in Range(Tail(s))
  BY <1>1, <1>3 DEF Range
<1>5. \A x \in Range(Tail(s)) : x \in Range(s)
  BY <1>2 DEF Range
<1>6. QED
  BY <1>1, <1>4, <1>5 DEF Range

\* Appending a message takes no answer away, and adds no call unless it is an
\* assistant's.
LEMMA AppendKeeps ==
    ASSUME NEW msgs \in Seq(Message), NEW m \in Message
    PROVE  /\ \A p, id : p \in DOMAIN msgs /\ Answered(msgs, p, id) => Answered(Append(msgs, m), p, id)
           /\ \A p, id : Makes(Append(msgs, m), p, id) =>
                 \/ Makes(msgs, p, id)
                 \/ p = Len(msgs) + 1 /\ m.role = "assistant" /\ id \in Range(m.calls)
           /\ \A p \in DOMAIN msgs, id \in CallIds :
                 IsResult(m, id) => Answered(Append(msgs, m), p, id)
<1>1. ASSUME NEW p, NEW id, p \in DOMAIN msgs, Answered(msgs, p, id)
      PROVE  Answered(Append(msgs, m), p, id)
  BY <1>1 DEF Answered
<1>2. ASSUME NEW p, NEW id, Makes(Append(msgs, m), p, id)
      PROVE  \/ Makes(msgs, p, id)
             \/ p = Len(msgs) + 1 /\ m.role = "assistant" /\ id \in Range(m.calls)
  BY <1>2 DEF Makes
<1>3. ASSUME NEW p \in DOMAIN msgs, NEW id \in CallIds, IsResult(m, id)
      PROVE  Answered(Append(msgs, m), p, id)
  <2>1. Len(msgs) + 1 \in p + 1 .. Len(Append(msgs, m)) /\ Append(msgs, m)[Len(msgs) + 1] = m
    OBVIOUS
  <2>2. QED
    BY <1>3, <2>1 DEF Answered
<1>4. QED
  BY <1>1, <1>2, <1>3

-----------------------------------------------------------------------------
\* The invariant holds at first and after every step.
LEMMA ReplayInvInit == ReplayInit => ReplayInv
  BY ReplayAssumption DEF ReplayInit, ReplayInv, ReplayTypeOK, OpenIsPending,
         ExistingIsThere, DoneIsEmpty, Makes

LEMMA ReplayInvNext ==
    ASSUME ReplayInv, [ReplayNext]_replayVars
    PROVE  ReplayInv'
<1> USE DEF ReplayInv
<1>1. CASE Transform
  <2>1. transcript[pos] \in Message /\ pos + 1 \in Nat \ {0}
    BY <1>1 DEF Transform, ReplayTypeOK
  <2>2. transformed' \in Seq(Message)
    <3> DEFINE m == transcript[pos]
    <3>1. CASE m.role = "assistant"
      <4>1. transformed' = Append(transformed, ForModel(m))
        BY <1>1, <3>1 DEF Transform
      <4>2. QED
        BY <2>1, <3>1, <4>1, TransformedIsMessage DEF ReplayTypeOK
    <3>2. CASE m.role = "toolResult"
      <4>1. m.id \in CallIds
        BY <2>1, <3>2 DEF Message
      <4>2. ToolResult(Normalized[m.id]) \in Message
        BY <4>1, ReplayAssumption DEF Message, ToolResult
      <4>3. transformed' = Append(transformed, IF m.id \in idMap THEN ToolResult(Normalized[m.id])
                                               ELSE m)
        BY <1>1, <3>2 DEF Transform
      <4>4. QED
        BY <2>1, <4>2, <4>3 DEF ReplayTypeOK
    <3>3. CASE m.role = "user"
      <4>1. transformed' = Append(transformed, m)
        BY <1>1, <3>3 DEF Transform
      <4>2. QED
        BY <2>1, <4>1 DEF ReplayTypeOK
    <3>4. QED
      BY <2>1, <3>1, <3>2, <3>3 DEF Message
  <2>3. QED
    BY <1>1, <2>1, <2>2
       DEF Transform, ReplayTypeOK, OpenIsPending, ExistingIsThere, DoneIsEmpty
<1>2. CASE EndFirstPass \/ BeginInsert \/ Finish
  BY <1>2 DEF EndFirstPass, BeginInsert, Finish, ReplayTypeOK, OpenIsPending,
              ExistingIsThere, DoneIsEmpty
<1>3. CASE InsertSynthetic
  <2> DEFINE id0 == Head(pending)
  <2>1. /\ id0 \in CallIds /\ pending' = Tail(pending) /\ pending' \in Seq(CallIds)
        /\ Range(pending) = {id0} \cup Range(pending')
    BY <1>3, HeadAndTail DEF InsertSynthetic, ReplayTypeOK
  <2>2. CASE id0 \in existing
    BY <1>3, <2>1, <2>2 DEF InsertSynthetic, ReplayTypeOK, OpenIsPending, ExistingIsThere,
                            DoneIsEmpty
  <2>3. CASE id0 \notin existing
    <3> DEFINE m == ToolResult(id0)
    <3>1. m \in Message /\ IsResult(m, id0) /\ m.role # "assistant"
      BY <2>1 DEF Message, ToolResult, IsResult
    <3>2. result' = Append(result, m)
      BY <1>3, <2>3 DEF InsertSynthetic
    <3>3. \A p, id : Makes(result', p, id) => Makes(result, p, id) /\ p \in DOMAIN result
      BY <3>1, <3>2, AppendKeeps DEF ReplayTypeOK, Makes
    <3>4. \A p, id : p \in DOMAIN result /\ (Answered(result, p, id) \/ id = id0)
                       => Answered(result', p, id)
      BY <2>1, <3>1, <3>2, AppendKeeps DEF ReplayTypeOK
    <3>5. OpenIsPending' /\ ExistingIsThere'
      BY <1>3, <2>1, <3>3, <3>4 DEF InsertSynthetic, OpenIsPending, ExistingIsThere
    <3>6. QED
      BY <1>3, <2>1, <3>1, <3>2, <3>5 DEF InsertSynthetic, ReplayTypeOK, DoneIsEmpty
  <2>4. QED
    BY <2>2, <2>3
<1>4. CASE EndInsert
  BY <1>4 DEF EndInsert, ReplayTypeOK, OpenIsPending, ExistingIsThere, DoneIsEmpty
<1>5. CASE TakeAssistant
  <2> DEFINE m == transformed[pos]
  <2>1. m \in Message /\ m.role = "assistant" /\ pos + 1 \in Nat \ {0}
    BY <1>5 DEF TakeAssistant, More, ReplayTypeOK
  <2>2. CASE m.failed
    BY <1>5, <2>1, <2>2 DEF TakeAssistant, ReplayTypeOK, OpenIsPending, ExistingIsThere,
                            DoneIsEmpty
  <2>3. CASE ~m.failed
    <3>1. m.calls \in Seq(CallIds)
      BY <2>1, MessageCalls
    <3>2. /\ result' = Append(result, m) /\ pending' = m.calls
          /\ existing' = IF m.calls # <<>> THEN {} ELSE existing
          /\ pending = <<>> /\ phase = "second" /\ phase' = "second"
      BY <1>5, <2>3 DEF TakeAssistant
    <3>3. \A p, id : Makes(result', p, id) =>
             \/ Makes(result, p, id) /\ p \in DOMAIN result
             \/ id \in Range(m.calls)
      BY <2>1, <3>2, AppendKeeps DEF ReplayTypeOK, Makes
    <3>4. \A p, id : p \in DOMAIN result /\ Answered(result, p, id) => Answered(result', p, id)
      BY <2>1, <3>2, AppendKeeps DEF ReplayTypeOK
    <3>5. Range(pending) = {}
      BY <3>2 DEF Range
    <3>6. OpenIsPending'
      BY <3>2, <3>3, <3>4, <3>5 DEF OpenIsPending
    <3>7. m.calls = <<>> => Range(m.calls) = {}
      BY DEF Range
    <3>8. ExistingIsThere'
      BY <3>2, <3>3, <3>4, <3>7 DEF ExistingIsThere
    <3>9. QED
      BY <1>5, <2>1, <3>1, <3>2, <3>6, <3>8 DEF TakeAssistant, ReplayTypeOK, DoneIsEmpty
  <2>4. QED
    BY <2>2, <2>3
<1>6. CASE TakeResult \/ TakeUser
  <2> DEFINE m == transformed[pos]
  <2>1. /\ m \in Message /\ m.role # "assistant" /\ pos + 1 \in Nat \ {0}
        /\ result' = Append(result, m) /\ pending' = pending /\ phase' = "second"
        /\ existing' = existing \/ (m.role = "toolResult" /\ existing' = existing \cup {m.id})
    BY <1>6 DEF TakeResult, TakeUser, More, ReplayTypeOK
  <2>2. \A p, id : Makes(result', p, id) => Makes(result, p, id) /\ p \in DOMAIN result
    BY <2>1, AppendKeeps DEF ReplayTypeOK, Makes
  <2>3. \A p, id : p \in DOMAIN result /\ Answered(result, p, id) => Answered(result', p, id)
    BY <2>1, AppendKeeps DEF ReplayTypeOK
  <2>4. m.role = "toolResult" => \A p \in DOMAIN result : Answered(result', p, m.id)
    <3>1. m.role = "toolResult" => m.id \in CallIds /\ IsResult(m, m.id)
      BY <2>1 DEF Message, IsResult
    <3>2. QED
      BY <2>1, <3>1, AppendKeeps DEF ReplayTypeOK
  <2>5. OpenIsPending' /\ ExistingIsThere'
    BY <2>1, <2>2, <2>3, <2>4 DEF OpenIsPending, ExistingIsThere
  <2>6. QED
    BY <1>6, <2>1, <2>5 DEF TakeResult, TakeUser, ReplayTypeOK, DoneIsEmpty
<1>7. CASE UNCHANGED replayVars
  BY <1>7 DEF replayVars, ReplayTypeOK, OpenIsPending, ExistingIsThere, DoneIsEmpty
<1>8. QED
  BY <1>1, <1>2, <1>3, <1>4, <1>5, <1>6, <1>7 DEF ReplayNext

\* No call that is replayed is left without a result (transform_messages).
THEOREM ReplayAnswersCalls == ReplaySpec => []CallsAnswered
<1>1. ReplayInv => CallsAnswered
  <2>1. ReplayInv /\ phase = "done" => Range(pending) = {}
    BY DEF ReplayInv, DoneIsEmpty, Range
  <2>2. QED
    BY <2>1 DEF ReplayInv, CallsAnswered, OpenIsPending, Makes, Answered
<1>2. QED
  BY <1>1, ReplayInvInit, ReplayInvNext, PTL DEF ReplaySpec

-----------------------------------------------------------------------------
(* Transcripts that runs have left.                                         *)
OfRuns == \A t \in Transcripts : LeftByRun(t) /\ KeptApart(t)

(* What the first pass has made of each message: a result goes the way of   *)
(* its call, because no other message makes a call of that id.              *)
Passed(i) ==
    /\ transformed[i].role = transcript[i].role
    /\ transcript[i].role = "assistant" => transformed[i] = ForModel(transcript[i])
    /\ transcript[i].role = "toolResult" =>
          \A p \in 1..(i - 1) : Follows(transcript, p, i) =>
             transformed[i].id = IF transcript[p].own THEN transcript[i].id
                                 ELSE Normalized[transcript[i].id]
Foreign(id) == \E k \in 1..(pos - 1) : /\ transcript[k].role = "assistant" /\ ~transcript[k].own
                                       /\ id \in Range(transcript[k].calls)
PassedInv ==
    /\ transcript \in Transcripts
    /\ \A i \in DOMAIN transformed : Passed(i)
    /\ Len(transformed) = IF phase = "first" THEN pos - 1 ELSE Len(transcript)
    /\ phase = "first" => /\ pos <= Len(transcript) + 1
                          /\ \A id : id \in idMap <=> Foreign(id)
                          /\ result = <<>> /\ pending = <<>>

(* The second pass: the message whose calls are pending is the last but for *)
(* its results, and those that have one are in `existing`; what was taken   *)
(* since that message is what follows it in `transformed`.                  *)
Current(p) ==
    /\ result[p].role = "assistant" /\ ~result[p].failed
    /\ Range(pending) \subseteq Range(result[p].calls)
    /\ \A r \in p + 1 .. Len(result) :
          /\ result[r].role = "toolResult"
          /\ result[r].id \in Range(pending) => result[r].id \in existing
Settled(p) == \A id \in Range(result[p].calls) :
    \/ \E q \in Following(p) : IsResult(result[q], id)
    \/ id \in Range(pending) /\ \A r \in p + 1 .. Len(result) : result[r].role = "toolResult"
ResultNext == More /\ transformed[pos].role = "toolResult"
Taken(p) == LET made == Len(result) - (pos - 1 - p)
            IN  /\ made \in DOMAIN result
                /\ \A k \in 0..(pos - 1 - p) : result[made + k] = transformed[p + k]
PairedInv ==
    /\ Placed(result) /\ IsInjective(pending)
    /\ \A p \in DOMAIN result : result[p].role = "assistant" => Settled(p)
    /\ pending # <<>> => \E p \in DOMAIN result : Current(p)
    /\ phase = "insert" => ~ResultNext
    /\ phase = "second" /\ ResultNext =>
          \A p \in 1..(pos - 1) :
             Follows(transformed, p, pos) /\ ~transformed[p].failed => Taken(p)

-----------------------------------------------------------------------------
\* A result follows one message.
LEMMA OneMaker ==
    ASSUME NEW t, NEW q \in Nat, NEW p \in 1..(q - 1), NEW o \in 1..(q - 1),
           Follows(t, p, q), Follows(t, o, q)
    PROVE  p = o
<1>1. p < o => o \in p + 1 .. q
  OBVIOUS
<1>2. o < p => p \in o + 1 .. q
  OBVIOUS
<1>. QED BY <1>1, <1>2 DEF Follows

\* Rewriting a message for the model keeps its calls apart.
LEMMA ForModelCalls ==
    ASSUME NEW m \in Message, m.role = "assistant"
    PROVE  /\ ForModel(m).role = "assistant" /\ ForModel(m).failed = m.failed
           /\ ForModel(m).calls = IF m.own THEN m.calls
                                  ELSE [i \in DOMAIN m.calls |-> Normalized[m.calls[i]]]
  BY DEF Message, ForModel

\* The first pass makes of every message what Passed says.
LEMMA PassedTransform ==
    ASSUME OfRuns, ReplayTypeOK, PassedInv, Transform
    PROVE  PassedInv'
<1>. DEFINE m == transcript[pos]
<1>1. /\ pos \in DOMAIN transcript /\ m \in Message /\ LeftByRun(transcript)
      /\ phase = "first" /\ phase' = "first" /\ pos' = pos + 1 /\ pos \in Nat \ {0}
      /\ UNCHANGED <<transcript, result, pending>>
      /\ transcript \in Seq(Message) /\ transformed \in Seq(Message) /\ Len(transformed) = pos - 1
  BY DEF Transform, PassedInv, ReplayTypeOK, OfRuns
<1>2. \A id : id \in idMap <=> Foreign(id)
  BY <1>1 DEF PassedInv
<1>3. \/ m.role = "user" \/ m.role = "assistant" \/ m.role = "toolResult"
  BY <1>1 DEF Message
<1>4. PICK x : /\ transformed' = Append(transformed, x)
               /\ m.role = "assistant" => /\ x = ForModel(m)
                                          /\ idMap' = IF m.own THEN idMap ELSE idMap \cup Range(m.calls)
               /\ m.role = "toolResult" => /\ x = IF m.id \in idMap THEN ToolResult(Normalized[m.id])
                                                  ELSE m
                                           /\ idMap' = idMap
               /\ m.role = "user" => x = m /\ idMap' = idMap
  BY <1>3 DEF Transform
<1>5. /\ Len(transformed') = pos /\ transformed'[pos] = x /\ DOMAIN transformed' = 1..pos
      /\ \A i \in 1..(pos - 1) : transformed'[i] = transformed[i] /\ i \in DOMAIN transformed
  BY <1>1, <1>4
<1>6. \A id : id \in idMap' <=> Foreign(id)'
  <2>. SUFFICES ASSUME NEW id PROVE id \in idMap' <=> Foreign(id)'
    OBVIOUS
  <2>1. Foreign(id)' <=> \/ Foreign(id)
                         \/ m.role = "assistant" /\ ~m.own /\ id \in Range(m.calls)
    BY <1>1 DEF Foreign
  <2>. QED BY <1>2, <1>3, <1>4, <2>1
<1>7. ASSUME NEW i \in 1..(pos - 1) PROVE Passed(i)'
  BY <1>1, <1>5, <1>7 DEF PassedInv, Passed
<1>8. ASSUME NEW n, n = pos PROVE Passed(n)'
  <2>. transformed'[n] = x /\ transcript'[n] = m
    BY <1>1, <1>5, <1>8
  <2>1. CASE m.role = "assistant"
    BY <1>1, <1>4, <2>1, ForModelCalls DEF Passed
  <2>2. CASE m.role = "user"
    BY <1>1, <1>4, <2>2 DEF Passed
  <2>3. CASE m.role = "toolResult"
    <3>1. PICK o \in 1..(pos - 1) : Follows(transcript, o, pos) /\ m.id \in Range(transcript[o].calls)
      BY <1>1, <2>3 DEF LeftByRun, Placed
    <3>2. /\ o \in DOMAIN transcript /\ transcript[o].role = "assistant" /\ m.id \in CallIds
          /\ \A k \in 1..(pos - 1) : k \in DOMAIN transcript
      BY <1>1, <2>3, <3>1 DEF Follows, Message
    <3>3. ASSUME transcript[o].own, m.id \in idMap
          PROVE  FALSE
      <4>1. PICK k \in 1..(pos - 1) : /\ transcript[k].role = "assistant" /\ ~transcript[k].own
                                      /\ m.id \in Range(transcript[k].calls)
        BY <1>2, <3>3 DEF Foreign
      <4>2. k # o /\ Range(transcript[k].calls) \cap Range(transcript[o].calls) = {}
        BY <1>1, <3>2, <3>3, <4>1 DEF LeftByRun
      <4>. QED BY <3>1, <4>1, <4>2
    <3>4. ~transcript[o].own => m.id \in idMap
      BY <1>2, <3>1, <3>2 DEF Foreign
    <3>5. x.role = "toolResult" /\ x.id = IF transcript[o].own THEN m.id ELSE Normalized[m.id]
      BY <1>4, <2>3, <3>3, <3>4 DEF ToolResult
    <3>6. \A p \in 1..(pos - 1) : Follows(transcript, p, pos) => p = o
      BY <1>1, <3>1, OneMaker
    <3>. QED BY <1>1, <1>8, <2>3, <3>5, <3>6 DEF Passed, Follows
  <2>. QED BY <1>3, <2>1, <2>2, <2>3
<1>9. \A i \in DOMAIN transformed' : Passed(i)'
  <2>1. \A i \in DOMAIN transformed' : i \in 1..(pos - 1) \/ i = pos
    BY <1>1, <1>5
  <2>. QED BY <1>7, <1>8, <2>1
<1>. QED BY <1>1, <1>5, <1>6, <1>9 DEF PassedInv

\* So calls and results are in their places after the first pass as they were before.
LEMMA TransformedPlaced ==
    ASSUME OfRuns, ReplayTypeOK, PassedInv, phase # "first"
    PROVE  Placed(transformed)
<1>1. /\ LeftByRun(transcript) /\ Placed(transcript) /\ KeptApart(transcript)
      /\ transcript \in Seq(Message) /\ DOMAIN transformed = DOMAIN transcript
      /\ DOMAIN transcript = 1..Len(transcript) /\ Len(transcript) \in Nat
      /\ \A i \in DOMAIN transcript : Passed(i)
  <2>1. transcript \in Seq(Message) /\ transformed \in Seq(Message)
    BY DEF ReplayTypeOK
  <2>2. Len(transformed) = Len(transcript) /\ \A i \in DOMAIN transformed : Passed(i)
    BY DEF PassedInv
  <2>3. DOMAIN transformed = DOMAIN transcript
    BY <2>1, <2>2
  <2>4. LeftByRun(transcript) /\ KeptApart(transcript)
    BY DEF OfRuns, PassedInv
  <2>5. Placed(transcript)
    BY <2>4 DEF LeftByRun
  <2>6. DOMAIN transcript = 1..Len(transcript) /\ Len(transcript) \in Nat
    BY <2>1
  <2>. QED BY <2>1, <2>2, <2>3, <2>4, <2>5, <2>6
<1>2. ASSUME NEW p \in DOMAIN transcript, transcript[p].role = "assistant"
      PROVE  /\ transformed[p].role = "assistant" /\ transformed[p].failed = transcript[p].failed
             /\ transcript[p].own => transformed[p].calls = transcript[p].calls
             /\ ~transcript[p].own => transformed[p].calls
                    = [i \in DOMAIN transcript[p].calls |-> Normalized[transcript[p].calls[i]]]
  BY <1>1, <1>2, ForModelCalls DEF Passed
<1>3. ASSUME NEW p \in DOMAIN transcript, transcript[p].role = "assistant"
      PROVE  IsInjective(transformed[p].calls)
  <2>1. IsInjective(transcript[p].calls)
    BY <1>1, <1>3 DEF Placed
  <2>2. \A c, d \in Range(transcript[p].calls) : Normalized[c] = Normalized[d] => c = d
    BY <1>1, <1>3 DEF KeptApart
  <2>3. CASE transcript[p].own
    BY <1>2, <1>3, <2>1, <2>3
  <2>4. CASE ~transcript[p].own
    <3>. DEFINE calls == transcript[p].calls
    <3>1. \A i, j \in DOMAIN calls : Normalized[calls[i]] = Normalized[calls[j]] => i = j
      <4>1. \A i \in DOMAIN calls : calls[i] \in Range(calls)
        BY DEF Range
      <4>. QED BY <2>1, <2>2, <4>1 DEF IsInjective
    <3>2. transformed[p].calls = [i \in DOMAIN calls |-> Normalized[calls[i]]]
      BY <1>2, <1>3, <2>4
    <3>. QED BY <3>1, <3>2 DEF IsInjective
  <2>. QED BY <2>3, <2>4
<1>4. ASSUME NEW q \in DOMAIN transcript, transcript[q].role = "toolResult"
      PROVE  \E p \in 1..(q - 1) : /\ Follows(transformed, p, q) /\ ~transformed[p].failed
                                   /\ transformed[q].id \in Range(transformed[p].calls)
                                   /\ \A r \in p + 1 .. q - 1 : transformed[r].id # transformed[q].id
  <2>1. PICK p \in 1..(q - 1) :
               /\ Follows(transcript, p, q) /\ ~transcript[p].failed
               /\ transcript[q].id \in Range(transcript[p].calls)
               /\ \A r \in p + 1 .. q - 1 : transcript[r].id # transcript[q].id
    BY <1>1, <1>4 DEF Placed
  <2>2. p \in DOMAIN transcript /\ transcript[p].role = "assistant"
    BY <1>1, <2>1 DEF Follows
  <2>3. ASSUME NEW r \in p + 1 .. q
        PROVE  /\ r \in DOMAIN transcript /\ transcript[r].role = "toolResult"
               /\ Follows(transcript, p, r) /\ p \in 1..(r - 1)
               /\ transcript[r].id \in Range(transcript[p].calls)
               /\ transformed[r].role = "toolResult"
               /\ transformed[r].id = IF transcript[p].own THEN transcript[r].id
                                      ELSE Normalized[transcript[r].id]
    <3>1. /\ r \in DOMAIN transcript /\ transcript[r].role = "toolResult"
          /\ Follows(transcript, p, r) /\ p \in 1..(r - 1) /\ r \in Nat
      BY <1>1, <2>1, <2>2 DEF Follows
    <3>2. PICK o \in 1..(r - 1) : Follows(transcript, o, r) /\ transcript[r].id \in Range(transcript[o].calls)
      BY <1>1, <3>1 DEF Placed
    <3>3. o = p
      BY <3>1, <3>2, OneMaker
    <3>. QED BY <1>1, <3>1, <3>2, <3>3 DEF Passed
  <2>4. q \in p + 1 .. q
    BY <1>1, <2>1
  <2>5. Follows(transformed, p, q) /\ ~transformed[p].failed
    BY <1>2, <2>1, <2>2, <2>3 DEF Follows
  <2>6. transformed[q].id \in Range(transformed[p].calls)
    <3>. DEFINE calls == transcript[p].calls
    <3>1. PICK i \in DOMAIN calls : transcript[q].id = calls[i]
      BY <2>1 DEF Range
    <3>2. CASE transcript[p].own
      BY <1>2, <2>1, <2>2, <2>3, <2>4, <3>2
    <3>3. CASE ~transcript[p].own
      <4>1. transformed[p].calls = [k \in DOMAIN calls |-> Normalized[calls[k]]]
        BY <1>2, <2>2, <3>3
      <4>2. transformed[q].id = Normalized[calls[i]]
        BY <2>3, <2>4, <3>1, <3>3
      <4>. QED BY <3>1, <4>1, <4>2 DEF Range
    <3>. QED BY <3>2, <3>3
  <2>7. \A r \in p + 1 .. q - 1 : transformed[r].id # transformed[q].id
    <3>. SUFFICES ASSUME NEW r \in p + 1 .. q - 1 PROVE transformed[r].id # transformed[q].id
      OBVIOUS
    <3>1. r \in p + 1 .. q /\ transcript[r].id # transcript[q].id
      BY <1>1, <2>1
    <3>. QED BY <1>1, <2>2, <2>3, <2>4, <3>1 DEF KeptApart
  <2>. QED BY <2>5, <2>6, <2>7
<1>. QED BY <1>1, <1>3, <1>4 DEF Placed, Passed


-----------------------------------------------------------------------------
\* What a result needs to be in its place at the end of a transcript.
Fits(s, m) == \E p \in DOMAIN s :
    /\ s[p].role = "assistant" /\ ~s[p].failed /\ m.id \in Range(s[p].calls)
    /\ \A r \in p + 1 .. Len(s) : s[r].role = "toolResult" /\ s[r].id # m.id

LEMMA PlacedAppend ==
    ASSUME NEW s \in Seq(Message), NEW m \in Message, Placed(s),
           m.role = "assistant" => IsInjective(m.calls),
           m.role = "toolResult" => Fits(s, m)
    PROVE  Placed(Append(s, m))
<1>. DEFINE t == Append(s, m)
<1>1. /\ t \in Seq(Message) /\ Len(t) = Len(s) + 1 /\ Len(s) \in Nat /\ t[Len(t)] = m
      /\ DOMAIN s = 1..Len(s) /\ DOMAIN t = 1..Len(t)
      /\ \A i \in DOMAIN s : t[i] = s[i]
  OBVIOUS
<1>. HIDE DEF t
<1>2. ASSUME NEW p \in DOMAIN t, t[p].role = "assistant" PROVE IsInjective(t[p].calls)
  BY <1>1, <1>2 DEF Placed
<1>3. ASSUME NEW q \in DOMAIN t, t[q].role = "toolResult"
      PROVE  \E p \in 1..(q - 1) : /\ Follows(t, p, q) /\ ~t[p].failed
                                   /\ t[q].id \in Range(t[p].calls)
                                   /\ \A r \in p + 1 .. q - 1 : t[r].id # t[q].id
  <2>1. CASE q \in DOMAIN s
    <3>1. PICK p \in 1..(q - 1) : /\ Follows(s, p, q) /\ ~s[p].failed
                                  /\ s[q].id \in Range(s[p].calls)
                                  /\ \A r \in p + 1 .. q - 1 : s[r].id # s[q].id
      BY <1>1, <1>3, <2>1 DEF Placed
    <3>2. /\ p \in DOMAIN s /\ \A r \in p + 1 .. q : r \in DOMAIN s
          /\ \A r \in p + 1 .. q - 1 : r \in DOMAIN s
      BY <1>1, <2>1
    <3>3. t[p] = s[p] /\ t[q] = s[q]
      BY <1>1, <2>1, <3>2
    <3>4. Follows(t, p, q)
      BY <1>1, <3>1, <3>2, <3>3 DEF Follows
    <3>5. \A r \in p + 1 .. q - 1 : t[r].id # t[q].id
      BY <1>1, <3>1, <3>2, <3>3
    <3>6. ~t[p].failed /\ t[q].id \in Range(t[p].calls)
      BY <3>1, <3>3
    <3>. QED BY <3>1, <3>4, <3>5, <3>6
  <2>2. CASE q = Len(t)
    <3>1. PICK p \in DOMAIN s :
             /\ s[p].role = "assistant" /\ ~s[p].failed /\ m.id \in Range(s[p].calls)
             /\ \A r \in p + 1 .. Len(s) : s[r].role = "toolResult" /\ s[r].id # m.id
      BY <1>1, <1>3, <2>2 DEF Fits
    <3>2. p \in 1..(q - 1) /\ \A r \in p + 1 .. q - 1 : r \in p + 1 .. Len(s) /\ r \in DOMAIN s
      BY <1>1, <2>2
    <3>3. \A r \in p + 1 .. q : r \in p + 1 .. q - 1 \/ r = q
      BY <1>1, <2>2, <3>2
    <3>4. t[p] = s[p] /\ t[q] = m /\ \A r \in p + 1 .. q - 1 : t[r] = s[r]
      BY <1>1, <2>2, <3>1, <3>2
    <3>5. Follows(t, p, q)
      BY <1>3, <2>2, <3>1, <3>2, <3>3, <3>4 DEF Follows
    <3>6. \A r \in p + 1 .. q - 1 : t[r].id # t[q].id
      BY <3>1, <3>2, <3>4
    <3>7. ~t[p].failed /\ t[q].id \in Range(t[p].calls)
      BY <3>1, <3>4
    <3>. QED BY <3>2, <3>5, <3>6, <3>7
  <2>. QED BY <1>1, <1>3, <2>1, <2>2
<1>. QED BY <1>2, <1>3 DEF Placed, t

\* Appending a message takes nothing from behind another, and a result comes behind
\* what is followed by results alone.
LEMMA FollowingKept ==
    ASSUME NEW m \in Message, result \in Seq(Message), result' = Append(result, m),
           NEW p \in DOMAIN result
    PROVE  \A q \in Following(p) : q \in Following(p)' /\ result'[q] = result[q]
<1>1. /\ Len(result') = Len(result) + 1 /\ Len(result) \in Nat /\ p \in 1..Len(result)
      /\ \A i \in 1..Len(result) : result'[i] = result[i]
  OBVIOUS
<1>. SUFFICES ASSUME NEW q \in Following(p)
     PROVE  q \in Following(p)' /\ result'[q] = result[q]
  OBVIOUS
<1>2. q \in p + 1 .. Len(result) /\ \A r \in p + 1 .. q : result[r].role = "toolResult"
  BY DEF Following
<1>3. \A r \in p + 1 .. q : result'[r].role = "toolResult"
  BY <1>1, <1>2
<1>. QED BY <1>1, <1>2, <1>3 DEF Following

LEMMA FollowingGrows ==
    ASSUME NEW m \in Message, result \in Seq(Message), result' = Append(result, m),
           NEW p \in DOMAIN result, m.role = "toolResult",
           \A r \in p + 1 .. Len(result) : result[r].role = "toolResult"
    PROVE  /\ Len(result) + 1 \in Following(p)' /\ result'[Len(result) + 1] = m
           /\ \A r \in p + 1 .. Len(result') : result'[r].role = "toolResult"
<1>1. /\ Len(result') = Len(result) + 1 /\ Len(result) \in Nat /\ p \in 1..Len(result)
      /\ result'[Len(result) + 1] = m
      /\ \A i \in 1..Len(result) : result'[i] = result[i]
  OBVIOUS
<1>2. \A r \in p + 1 .. Len(result) + 1 : result'[r].role = "toolResult"
  BY <1>1
<1>. QED BY <1>1, <1>2 DEF Following

\* So a result settles what it answers, and leaves settled what was.
LEMMA SettledByResult ==
    ASSUME NEW m \in Message, result \in Seq(Message), result' = Append(result, m),
           m.role = "toolResult",
           Range(pending) \subseteq Range(pending') \cup {m.id},
           NEW p \in DOMAIN result, Settled(p)
    PROVE  Settled(p)'
<1>. SUFFICES ASSUME NEW id \in Range(result[p].calls)
     PROVE  \/ \E q \in Following(p)' : IsResult(result'[q], id)
            \/ /\ id \in Range(pending')
               /\ \A r \in p + 1 .. Len(result') : result'[r].role = "toolResult"
  <2>1. result'[p] = result[p]
    OBVIOUS
  <2>. QED BY <2>1 DEF Settled
<1>1. CASE \E q \in Following(p) : IsResult(result[q], id)
  BY <1>1, FollowingKept
<1>2. CASE id \in Range(pending) /\ \A r \in p + 1 .. Len(result) : result[r].role = "toolResult"
  <2>1. /\ Len(result) + 1 \in Following(p)' /\ result'[Len(result) + 1] = m
        /\ \A r \in p + 1 .. Len(result') : result'[r].role = "toolResult"
    BY <1>2, FollowingGrows
  <2>. QED BY <1>2, <2>1 DEF IsResult
<1>. QED BY <1>1, <1>2 DEF Settled

-----------------------------------------------------------------------------
\* The actions of the second pass keep calls and results paired.
LEMMA TailOfInjective ==
    ASSUME NEW s \in Seq(CallIds), s # <<>>, IsInjective(s)
    PROVE  IsInjective(Tail(s)) /\ Head(s) \notin Range(Tail(s))
<1>1. /\ DOMAIN Tail(s) = 1..(Len(s) - 1) /\ Len(s) \in Nat \ {0} /\ Head(s) = s[1]
      /\ DOMAIN s = 1..Len(s) /\ \A i \in DOMAIN Tail(s) : Tail(s)[i] = s[i + 1]
  OBVIOUS
<1>2. \A i, j \in 1..(Len(s) - 1) : s[i + 1] = s[j + 1] => i = j
  BY <1>1 DEF IsInjective
<1>3. \A i \in 1..(Len(s) - 1) : s[i + 1] # s[1]
  BY <1>1 DEF IsInjective
<1>. QED BY <1>1, <1>2, <1>3 DEF IsInjective, Range

\* What is pending is answered once, because what has a result is in `existing`.
LEMMA PairedInsert ==
    ASSUME ReplayInv, PairedInv, InsertSynthetic
    PROVE  PairedInv'
<1>. DEFINE c == Head(pending)
<1>1. /\ c \in CallIds /\ pending' = Tail(pending) /\ pending' \in Seq(CallIds)
      /\ Range(pending) = {c} \cup Range(pending') /\ pending # <<>>
      /\ IsInjective(pending') /\ c \notin Range(pending')
      /\ phase = "insert" /\ phase' = "insert"
      /\ UNCHANGED <<pos, transformed, existing>>
      /\ result \in Seq(Message)
  BY HeadAndTail, TailOfInjective DEF ReplayInv, ReplayTypeOK, PairedInv, InsertSynthetic
<1>2. ~ResultNext'
  BY <1>1 DEF PairedInv, ResultNext, More
<1>3. PICK o \in DOMAIN result : Current(o)
  BY <1>1 DEF PairedInv
<1>4. CASE c \in existing
  <2>1. result' = result
    BY <1>4 DEF InsertSynthetic
  <2>2. Current(o)'
    BY <1>1, <1>3, <2>1 DEF Current
  <2>3. ASSUME NEW p \in DOMAIN result, result[p].role = "assistant"
        PROVE  Settled(p)'
    <3>1. c \in Range(result[p].calls) /\ (\A r \in p + 1 .. Len(result) : result[r].role = "toolResult")
            => \E q \in Following(p) : IsResult(result[q], c)
      <4>. SUFFICES ASSUME c \in Range(result[p].calls),
                           \A r \in p + 1 .. Len(result) : result[r].role = "toolResult"
           PROVE  \E q \in Following(p) : IsResult(result[q], c)
        OBVIOUS
      <4>1. PICK q \in p + 1 .. Len(result) : IsResult(result[q], c)
        BY <1>4, <2>3 DEF ReplayInv, ExistingIsThere, Makes, Answered
      <4>2. q \in Following(p)
        BY <1>1, <4>1 DEF Following
      <4>. QED BY <4>1, <4>2
    <3>2. Following(p)' = Following(p)
      BY <2>1 DEF Following
    <3>3. Settled(p)
      BY <2>3 DEF PairedInv
    <3>. QED BY <1>1, <2>1, <3>1, <3>2, <3>3 DEF Settled
  <2>. QED BY <1>1, <1>2, <2>1, <2>2, <2>3 DEF PairedInv
<1>5. CASE c \notin existing
  <2>. DEFINE m == ToolResult(c)
  <2>1. m \in Message /\ m.role = "toolResult" /\ m.id = c /\ IsResult(m, c)
    BY <1>1 DEF Message, ToolResult, IsResult
  <2>2. result' = Append(result, m)
    BY <1>5 DEF InsertSynthetic
  <2>. HIDE DEF m
  <2>3. Fits(result, m)
    BY <1>1, <1>3, <1>5, <2>1 DEF Current, Fits
  <2>4. Placed(result')
    BY <1>1, <2>1, <2>2, <2>3, PlacedAppend DEF PairedInv
  <2>5. /\ DOMAIN result' = 1..(Len(result) + 1) /\ Len(result') = Len(result) + 1
        /\ Len(result) \in Nat /\ DOMAIN result = 1..Len(result)
        /\ \A i \in DOMAIN result : result'[i] = result[i]
        /\ result'[Len(result) + 1] = m
    BY <1>1, <2>1, <2>2
  <2>6. Current(o)'
    <3>1. \A r \in o + 1 .. Len(result') : r \in o + 1 .. Len(result) \/ r = Len(result) + 1
      BY <2>5
    <3>2. \A r \in o + 1 .. Len(result) : r \in DOMAIN result
      BY <2>5
    <3>. QED BY <1>1, <1>3, <2>1, <2>5, <3>1, <3>2 DEF Current
  <2>7. ASSUME NEW p \in DOMAIN result', result'[p].role = "assistant"
        PROVE  Settled(p)'
    <3>1. p \in DOMAIN result /\ result[p].role = "assistant"
      BY <2>1, <2>5, <2>7
    <3>2. Settled(p)
      BY <3>1 DEF PairedInv
    <3>3. m \in Message /\ result \in Seq(Message) /\ Range(pending) \subseteq Range(pending') \cup {m.id}
      BY <1>1, <2>1
    <3>. QED BY <2>1, <2>2, <3>1, <3>2, <3>3, SettledByResult
  <2>. QED BY <1>1, <1>2, <1>3, <2>4, <2>5, <2>6, <2>7 DEF PairedInv
<1>. QED BY <1>4, <1>5

\* A result that is taken belongs to the last message that is not one.
LEMMA PairedResult ==
    ASSUME ReplayInv, PairedInv, TakeResult, Placed(transformed)
    PROVE  PairedInv'
<1>. DEFINE m == transformed[pos]
<1>1. /\ m \in Message /\ m.role = "toolResult" /\ result' = Append(result, m)
      /\ pending' = pending /\ existing' = existing \cup {m.id}
      /\ transformed' = transformed /\ pos' = pos + 1 /\ phase = "second" /\ phase' = "second"
      /\ result \in Seq(Message) /\ pos \in DOMAIN transformed /\ pos \in Nat \ {0}
      /\ transformed \in Seq(Message)
  BY DEF ReplayInv, ReplayTypeOK, TakeResult, More
<1>2. PICK o \in 1..(pos - 1) : /\ Follows(transformed, o, pos) /\ ~transformed[o].failed
                                /\ m.id \in Range(transformed[o].calls)
                                /\ \A r \in o + 1 .. pos - 1 : transformed[r].id # m.id
  BY <1>1 DEF Placed
<1>3. Taken(o)
  BY <1>1, <1>2 DEF PairedInv, ResultNext, More, TakeResult
<1>4. PICK n \in DOMAIN result :
         /\ n = Len(result) - (pos - 1 - o)
         /\ \A k \in 0..(pos - 1 - o) : result[n + k] = transformed[o + k]
  BY <1>3 DEF Taken
<1>. HIDE DEF m
<1>5. /\ DOMAIN result' = 1..(Len(result) + 1) /\ Len(result') = Len(result) + 1
      /\ Len(result) \in Nat /\ DOMAIN result = 1..Len(result)
      /\ \A i \in DOMAIN result : result'[i] = result[i]
      /\ result'[Len(result) + 1] = m
  BY <1>1
<1>0. /\ n \in Int /\ o \in Int /\ pos \in Int /\ Len(result) \in Int
      /\ n = Len(result) - (pos - 1 - o) /\ 1 <= n /\ 1 <= o /\ o <= pos - 1
  BY <1>1, <1>4, <1>5
<1>6. result[n] = transformed[o] /\ transformed[o].role = "assistant"
  <2>1. 0 \in 0..(pos - 1 - o) /\ n + 0 = n /\ o + 0 = o
    BY <1>1, <1>4, <1>5
  <2>. QED BY <1>2, <1>4, <2>1 DEF Follows
<1>7. \A r \in n + 1 .. Len(result) : result[r].role = "toolResult" /\ result[r].id # m.id
  <2>. SUFFICES ASSUME NEW r \in n + 1 .. Len(result)
       PROVE  result[r].role = "toolResult" /\ result[r].id # m.id
    OBVIOUS
  <2>. DEFINE k == r - n
  <2>1. /\ k \in 0..(pos - 1 - o) /\ n + k = r
        /\ o + k \in o + 1 .. pos /\ o + k \in o + 1 .. pos - 1
    BY <1>0
  <2>2. result[r] = transformed[o + k]
    BY <1>4, <2>1
  <2>. QED BY <1>2, <2>1, <2>2 DEF Follows
<1>8. Placed(result')
  <2>1. Fits(result, m)
    BY <1>2, <1>4, <1>6, <1>7 DEF Fits
  <2>. QED BY <1>1, <2>1, PlacedAppend DEF PairedInv
<1>9. ASSUME NEW p \in DOMAIN result', result'[p].role = "assistant"
      PROVE  Settled(p)'
  <2>1. p \in DOMAIN result /\ result[p].role = "assistant"
    BY <1>1, <1>5, <1>9
  <2>2. Settled(p)
    BY <2>1 DEF PairedInv
  <2>3. m \in Message /\ m.role = "toolResult" /\ result \in Seq(Message) /\ result' = Append(result, m)
    BY <1>1
  <2>4. Range(pending) \subseteq Range(pending') \cup {m.id}
    BY <1>1
  <2>. QED BY <2>1, <2>2, <2>3, <2>4, SettledByResult
<1>10. ASSUME NEW p \in DOMAIN result, Current(p)
       PROVE  Current(p)'
  <2>1. \A r \in p + 1 .. Len(result') :
           (r \in p + 1 .. Len(result) /\ r \in DOMAIN result) \/ r = Len(result) + 1
    BY <1>5
  <2>. QED BY <1>1, <1>5, <1>10, <2>1 DEF Current
<1>11. ASSUME ResultNext', NEW p \in 1..(pos' - 1), Follows(transformed, p, pos'), ~transformed[p].failed
       PROVE  Taken(p)'
  <2>1. p \in 1..(pos - 1) /\ Follows(transformed, p, pos)
    <3>1. p # pos
      BY <1>1, <1>11 DEF Follows, m
    <3>2. p \in 1..(pos - 1)
      BY <1>1, <1>11, <3>1
    <3>. QED BY <1>1, <1>11, <3>2 DEF Follows
  <2>2. p = o
    BY <1>1, <1>2, <2>1, OneMaker
  <2>3. /\ n = Len(result') - (pos' - 1 - o) /\ n \in 1..(Len(result) + 1)
        /\ \A k \in 0..(pos' - 1 - o) : k \in 0..(pos - 1 - o) \/ k = pos - o
        /\ n + (pos - o) = Len(result) + 1 /\ o + (pos - o) = pos
        /\ \A k \in 0..(pos - 1 - o) : n + k \in 1..Len(result)
    <3>. pos' = pos + 1 /\ Len(result') = Len(result) + 1
      BY <1>1, <1>5
    <3>. QED BY <1>0
  <2>4. \A k \in 0..(pos' - 1 - o) : result'[n + k] = transformed[o + k]
    BY <1>4, <1>5, <2>3 DEF m
  <2>5. n \in DOMAIN result' /\ n = Len(result') - (pos' - 1 - p)
    BY <1>5, <2>2, <2>3
  <2>6. \A k \in 0..(pos' - 1 - p) : result'[n + k] = transformed'[p + k]
    BY <1>1, <2>2, <2>4
  <2>. QED BY <2>5, <2>6 DEF Taken
<1>12. pending' # <<>> => \E p \in DOMAIN result' : Current(p)'
  <2>1. \A p \in DOMAIN result : p \in DOMAIN result'
    BY <1>5
  <2>. QED BY <1>1, <1>10, <2>1 DEF PairedInv
<1>13. \A p \in 1..(pos' - 1) :
          ResultNext' /\ Follows(transformed', p, pos') /\ ~transformed'[p].failed => Taken(p)'
  BY <1>1, <1>11
<1>. QED BY <1>1, <1>8, <1>9, <1>12, <1>13 DEF PairedInv

\* A message of another kind is taken when nothing is pending.
LEMMA PairedOther ==
    ASSUME ReplayInv, PairedInv, TakeAssistant \/ TakeUser, Placed(transformed)
    PROVE  PairedInv'
<1>. DEFINE m == transformed[pos]
<1>1. /\ m \in Message /\ m.role \in {"assistant", "user"} /\ pending = <<>> /\ Range(pending) = {}
      /\ transformed' = transformed /\ pos' = pos + 1 /\ phase = "second" /\ phase' = "second"
      /\ result \in Seq(Message) /\ pos \in DOMAIN transformed /\ pos \in Nat \ {0}
      /\ m.role = "assistant" => IsInjective(m.calls) /\ m.calls \in Seq(CallIds)
      /\ TakeAssistant => m.role = "assistant"
  BY MessageCalls DEF ReplayInv, ReplayTypeOK, TakeAssistant, TakeUser, More, Placed, Range
<1>2. /\ pending' \in Seq(CallIds) /\ IsInjective(pending')
      /\ \/ result' = result /\ pending' = pending /\ (m.role = "assistant" => m.failed)
         \/ /\ result' = Append(result, m)
            /\ \/ m.role = "user" /\ pending' = pending
               \/ m.role = "assistant" /\ pending' = m.calls /\ ~m.failed
  BY <1>1 DEF TakeAssistant, TakeUser, ReplayInv, ReplayTypeOK, PairedInv
<1>. HIDE DEF m
<1>3. Placed(result')
  BY <1>1, <1>2, PlacedAppend DEF PairedInv
<1>4. /\ Len(result) \in Nat /\ DOMAIN result = 1..Len(result)
      /\ result' = Append(result, m) =>
            /\ Len(result') = Len(result) + 1 /\ DOMAIN result' = 1..(Len(result) + 1)
            /\ result'[Len(result) + 1] = m
            /\ \A i \in DOMAIN result : result'[i] = result[i]
  BY <1>1
<1>5. ASSUME NEW p \in DOMAIN result, result[p].role = "assistant"
      PROVE  Settled(p)' /\ result'[p] = result[p]
  <2>1. Settled(p)
    BY <1>5 DEF PairedInv
  <2>2. \A id \in Range(result[p].calls) : \E q \in Following(p) : IsResult(result[q], id)
    BY <1>1, <2>1 DEF Settled
  <2>3. CASE result' = result
    BY <2>2, <2>3 DEF Settled, Following
  <2>4. CASE result' = Append(result, m)
    <3>1. m \in Message /\ result \in Seq(Message)
      BY <1>1
    <3>2. \A q \in Following(p) : q \in Following(p)' /\ result'[q] = result[q]
      BY <1>5, <2>4, <3>1, FollowingKept
    <3>3. result'[p] = result[p]
      BY <1>4, <1>5, <2>4
    <3>. QED BY <2>2, <3>2, <3>3 DEF Settled
  <2>. QED BY <1>2, <2>3, <2>4
<1>6. ASSUME NEW p, p = Len(result) + 1, result' = Append(result, m), m.role = "assistant"
      PROVE  Settled(p)' /\ Current(p)'
  <2>1. /\ result'[p] = m /\ p + 1 .. Len(result') = {} /\ pending' = m.calls /\ ~m.failed
    <3>1. p + 1 .. Len(result') = {}
      BY <1>4, <1>6
    <3>2. pending' = m.calls /\ ~m.failed
      <4>1. Len(result') = Len(result) + 1 /\ Len(result) \in Nat
        BY <1>4, <1>6
      <4>2. result' # result
        BY <4>1
      <4>. QED BY <1>2, <1>6, <4>2
    <3>. QED BY <1>4, <1>6, <3>1, <3>2
  <2>. QED BY <1>6, <2>1 DEF Settled, Current
<1>7. \A p \in DOMAIN result' : result'[p].role = "assistant" => Settled(p)'
  <2>1. \A p \in DOMAIN result' : p \in DOMAIN result \/ (p = Len(result) + 1 /\ result' = Append(result, m))
    BY <1>2, <1>4
  <2>2. \A p \in DOMAIN result : result'[p] = result[p]
    BY <1>2, <1>4
  <2>. QED BY <1>4, <1>5, <1>6, <2>1, <2>2
<1>8. pending' # <<>> => \E p \in DOMAIN result' : Current(p)'
  <2>1. pending' # <<>> => result' = Append(result, m) /\ m.role = "assistant"
    BY <1>1, <1>2
  <2>2. result' = Append(result, m) => Len(result) + 1 \in DOMAIN result'
    BY <1>4
  <2>. QED BY <1>6, <2>1, <2>2
<1>9. ASSUME NEW p \in 1..(pos' - 1), Follows(transformed', p, pos'), ~transformed'[p].failed
      PROVE  Taken(p)'
  <2>1. p = pos
    <3>1. p < pos => pos \in p + 1 .. pos'
      BY <1>1
    <3>2. m.role # "toolResult"
      BY <1>1
    <3>. QED BY <1>1, <1>9, <3>1, <3>2 DEF Follows, m
  <2>2. m.role = "assistant" /\ ~m.failed
    BY <1>1, <1>9, <2>1 DEF Follows, m
  <2>3. result' = Append(result, m)
    BY <1>2, <2>2
  <2>4. /\ Len(result') - (pos' - 1 - p) = Len(result) + 1 /\ 0..(pos' - 1 - p) = {0}
        /\ Len(result) + 1 \in DOMAIN result' /\ Len(result) + 1 + 0 = Len(result) + 1 /\ p + 0 = pos
    BY <1>1, <1>4, <2>1, <2>3
  <2>. QED BY <1>1, <1>4, <2>1, <2>3, <2>4 DEF Taken, m
<1>. QED BY <1>1, <1>2, <1>3, <1>7, <1>8, <1>9 DEF PairedInv

\* Where a pass or the insertion of results begins or ends no message is touched.
LEMMA PairedQuiet ==
    ASSUME ReplayInv, PassedInv, PairedInv,
           EndFirstPass \/ BeginInsert \/ EndInsert \/ Finish \/ UNCHANGED replayVars
    PROVE  PairedInv'
<1>1. UNCHANGED <<result, transformed, pending>>
  BY DEF EndFirstPass, BeginInsert, EndInsert, Finish, replayVars
<1>2. \A p : Settled(p)' <=> Settled(p)
  BY <1>1 DEF Settled, Following
<1>3. existing' = existing \/ pending = <<>>
  BY DEF EndFirstPass, BeginInsert, EndInsert, Finish, replayVars
<1>4. existing' = existing => \A p : Current(p)' <=> Current(p)
  BY <1>1 DEF Current
<1>5. Placed(result)' /\ IsInjective(pending)' /\ (\A p \in DOMAIN result' : result'[p].role = "assistant" => Settled(p)')
  BY <1>1, <1>2 DEF PairedInv
<1>6. pending' # <<>> => \E p \in DOMAIN result' : Current(p)'
  BY <1>1, <1>3, <1>4 DEF PairedInv
<1>7. CASE EndFirstPass
  <2>1. pos' = 1 /\ phase' = "second" /\ 1..(pos' - 1) = {}
    BY <1>7 DEF EndFirstPass
  <2>. QED BY <1>5, <1>6, <2>1 DEF PairedInv
<1>8. CASE BeginInsert
  <2>1. phase' = "insert" /\ ~ResultNext'
    BY <1>8 DEF BeginInsert, ResultNext, More
  <2>. QED BY <1>5, <1>6, <2>1 DEF PairedInv
<1>9. CASE EndInsert
  <2>1. phase' = "second" /\ ~ResultNext'
    BY <1>9 DEF EndInsert, ResultNext, More, PairedInv
  <2>. QED BY <1>5, <1>6, <2>1 DEF PairedInv
<1>10. CASE Finish
  <2>1. phase' = "done"
    BY <1>10 DEF Finish
  <2>. QED BY <1>5, <1>6, <2>1 DEF PairedInv
<1>11. CASE UNCHANGED replayVars
  BY <1>1, <1>5, <1>6, <1>11 DEF PairedInv, replayVars, ResultNext, More, Taken
<1>. QED BY <1>7, <1>8, <1>9, <1>10, <1>11


PairedAll == ReplayInv /\ PassedInv /\ PairedInv

LEMMA PairedInit == ReplayInit => PassedInv /\ PairedInv
<1>. SUFFICES ASSUME ReplayInit PROVE PassedInv /\ PairedInv
  OBVIOUS
<1>1. /\ DOMAIN <<>> = {} /\ Len(<<>>) = 0 /\ \A k : k \notin 1..0
  OBVIOUS
<1>2. PassedInv
  BY <1>1, ReplayAssumption DEF ReplayInit, PassedInv, Foreign
<1>. QED BY <1>1, <1>2 DEF ReplayInit, PairedInv, Placed, IsInjective

LEMMA PairedNext ==
    ASSUME OfRuns, PairedAll, [ReplayNext]_replayVars
    PROVE  PairedAll'
<1>. USE DEF PairedAll
<1>1. ReplayInv'
  BY ReplayInvNext
<1>2. ReplayTypeOK
  BY DEF ReplayInv
<1>3. PassedInv'
  <2>1. CASE EndFirstPass \/ BeginInsert \/ InsertSynthetic \/ EndInsert \/ TakeAssistant
             \/ TakeResult \/ TakeUser \/ Finish
    <3>1. /\ UNCHANGED <<transcript, transformed>> /\ phase' # "first"
          /\ phase = "first" => pos > Len(transcript)
          /\ pos \in Nat /\ Len(transcript) \in Nat
      BY <1>2, <2>1 DEF EndFirstPass, BeginInsert, InsertSynthetic, EndInsert, TakeAssistant,
                        TakeResult, TakeUser, Finish, ReplayTypeOK
    <3>2. \A i : Passed(i)' <=> Passed(i)
      BY <3>1 DEF Passed
    <3>3. Len(transformed) = Len(transcript)
      BY <3>1 DEF PassedInv
    <3>. QED BY <3>1, <3>2, <3>3 DEF PassedInv
  <2>2. CASE UNCHANGED replayVars
    BY <2>2 DEF PassedInv, Passed, Foreign, replayVars
  <2>. QED BY <1>2, <2>1, <2>2, PassedTransform DEF ReplayNext
<1>4. PairedInv'
  <2>1. CASE Transform
    <3>1. UNCHANGED <<result, pending, existing>> /\ phase' = "first"
      BY <2>1 DEF Transform
    <3>2. result = <<>> /\ pending = <<>>
      BY <2>1 DEF Transform, PassedInv
    <3>. QED BY <3>1, <3>2 DEF PairedInv
  <2>2. CASE InsertSynthetic
    BY <2>2, PairedInsert
  <2>3. CASE TakeResult \/ TakeAssistant \/ TakeUser
    <3>1. phase # "first"
      BY <2>3 DEF TakeResult, TakeAssistant, TakeUser
    <3>. QED BY <1>2, <2>3, <3>1, TransformedPlaced, PairedResult, PairedOther
  <2>. QED BY <2>1, <2>2, <2>3, PairedQuiet DEF ReplayNext
<1>. QED BY <1>1, <1>3, <1>4

\* Of transcripts that runs have left, cut anywhere, where normalized ids keep a message's
\* calls apart: each call that is replayed is answered once, right after the message that
\* makes it, and no result is replayed without its call (transform_messages).
THEOREM ReplayPairs ==
    ASSUME OfRuns
    PROVE  ReplaySpec => []Paired
<1>1. ReplayInit => PairedAll
  BY ReplayInvInit, PairedInit DEF PairedAll
<1>2. PairedAll /\ [ReplayNext]_replayVars => PairedAll'
  BY PairedNext
<1>3. PairedAll => Paired
  <2>. SUFFICES ASSUME PairedAll, phase = "done" PROVE Paired
    BY DEF Paired
  <2>1. /\ Placed(result) /\ Range(pending) = {} /\ result \in Seq(Message)
        /\ DOMAIN result = 1..Len(result) /\ Len(result) \in Nat
    BY DEF PairedAll, PairedInv, ReplayInv, ReplayTypeOK, DoneIsEmpty, Range
  <2>2. ASSUME NEW p \in DOMAIN result, NEW q \in Following(p), result[p].role = "assistant"
        PROVE  p \in 1..(q - 1) /\ q \in DOMAIN result /\ Follows(result, p, q)
    BY <2>1, <2>2 DEF Following, Follows
  <2>3. ASSUME NEW p \in DOMAIN result, result[p].role = "assistant",
               NEW q \in Following(p), NEW r \in Following(p), r < q
        PROVE  result[r].id # result[q].id
    <3>1. q \in Nat /\ r \in p + 1 .. q - 1 /\ result[q].role = "toolResult"
      BY <2>1, <2>3 DEF Following
    <3>2. PICK o \in 1..(q - 1) : /\ Follows(result, o, q)
                                  /\ \A k \in o + 1 .. q - 1 : result[k].id # result[q].id
      BY <2>1, <2>2, <2>3, <3>1 DEF Placed
    <3>3. o = p
      BY <2>2, <2>3, <3>1, <3>2, OneMaker
    <3>. QED BY <3>1, <3>2, <3>3
  <2>4. ASSUME NEW p \in DOMAIN result, result[p].role = "assistant",
               NEW id \in Range(result[p].calls)
        PROVE  \E q \in Following(p) : /\ IsResult(result[q], id)
                                       /\ \A r \in Following(p) \ {q} : ~IsResult(result[r], id)
    <3>1. PICK q \in Following(p) : IsResult(result[q], id)
      BY <2>1, <2>4 DEF PairedAll, PairedInv, Settled
    <3>2. ASSUME NEW r \in Following(p) \ {q}, IsResult(result[r], id)
          PROVE  FALSE
      <4>1. q \in Nat /\ r \in Nat /\ (r < q \/ q < r)
        BY <2>1, <3>2 DEF Following
      <4>. QED BY <2>3, <2>4, <3>1, <3>2, <4>1 DEF IsResult
    <3>. QED BY <3>1, <3>2
  <2>5. ASSUME NEW q \in DOMAIN result, result[q].role = "toolResult"
        PROVE  \E p \in 1..(q - 1) : /\ result[p].role = "assistant" /\ q \in Following(p)
                                     /\ result[q].id \in Range(result[p].calls)
    <3>1. PICK p \in 1..(q - 1) : Follows(result, p, q) /\ result[q].id \in Range(result[p].calls)
      BY <2>1, <2>5 DEF Placed
    <3>2. q \in Following(p)
      BY <2>1, <3>1 DEF Following, Follows
    <3>. QED BY <3>1, <3>2 DEF Follows
  <2>. QED BY <2>4, <2>5 DEF Paired
<1>. QED BY <1>1, <1>2, <1>3, PTL DEF ReplaySpec

-----------------------------------------------------------------------------
(* The context of a session.                                                *)
Entries == [kind : Kinds, size : Nat, of : Nat, first : Nat, covers : SUBSET Int]
InBatch(e) == e.kind \in {"result", "change"}

ResultsFollow(p) ==
    \A i \in DOMAIN p : p[i].kind = "result" =>
        /\ p[i].of \in 1..(i - 1) /\ p[p[i].of].kind = "assistant"
        /\ \A k \in (p[i].of + 1)..(i - 1) : InBatch(p[k])
\* From f on the path holds no result without its message.
Whole(p, f) == \A k \in DOMAIN p : k >= f /\ p[k].kind = "result" => p[k].of >= f
CutsAreClean(p) ==
    \A i \in DOMAIN p : p[i].kind = "compaction" =>
        p[i].first \in 1..(i - 1) /\ Whole(p, p[i].first)
Owing ==
    /\ owed \in Nat
    /\ owed > 0 => \E n \in DOMAIN path :
          path[n].kind = "assistant" /\ \A k \in (n + 1)..Len(path) : InBatch(path[k])

CompactionInv == path \in Seq(Entries) /\ ResultsFollow(path) /\ CutsAreClean(path) /\ Owing

-----------------------------------------------------------------------------
(* The smallest and the greatest of a set of naturals.                       *)
Less == {ss \in Nat \X Nat : ss[1] < ss[2]}

LEMMA LessWellFounded == IsWellFoundedOn(Less, Nat)
  BY NatLessThanWellFounded, Zenon DEF OpToRel, Less

\* Every set of naturals with a member has a smallest one.
LEMMA SmallestExists ==
    ASSUME NEW S \in SUBSET Nat, S # {}
    PROVE  /\ Min(S) \in S
           /\ \A y \in S : Min(S) <= y
<1>1. PICK x \in S : \A y \in S : ~(<<y, x>> \in Less)
  BY WFMin, LessWellFounded, Zenon
<1>2. ASSUME NEW y \in S PROVE x =< y
  <2>1. <<y, x>> \in Nat \X Nat /\ <<y, x>>[1] = y /\ <<y, x>>[2] = x
    OBVIOUS
  <2>2. ~(y < x)
    BY <1>1, <2>1, Zenon DEF Less
  <2> QED BY <2>2
<1> QED BY <1>2 DEF Min

\* Every set of naturals below a bound has a greatest one.
LEMMA GreatestExists ==
    ASSUME NEW n \in Nat, NEW S \in SUBSET (1..n), S # {}
    PROVE  /\ Max(S) \in S
           /\ \A y \in S : Max(S) >= y
<1> DEFINE T == {m \in Nat : \E x \in S : m = n - x}
<1>1. T \in SUBSET Nat
  OBVIOUS
<1>2. PICK z \in S : TRUE
  OBVIOUS
<1>3. n - z \in T
  OBVIOUS
<1>4. Min(T) \in T /\ \A y \in T : Min(T) <= y
  <2> HIDE DEF T
  <2> QED BY <1>1, <1>3, SmallestExists
<1>5. PICK x \in S : Min(T) = n - x
  BY <1>4
<1>6. ASSUME NEW y \in S PROVE x >= y
  <2>1. n - y \in T
    OBVIOUS
  <2>2. Min(T) <= n - y
    BY <1>4, <2>1
  <2> QED BY <1>5, <2>2
<1> QED BY <1>6 DEF Max

-----------------------------------------------------------------------------
(* Where the context begins and where it is cut.                             *)
\* The places an entry names are numbers.
LEMMA EntryPlaces == ASSUME NEW p \in Seq(Entries) PROVE \A k \in DOMAIN p : p[k].of \in Nat
<1>1. \A e \in Entries : e.of \in Nat
  BY DEF Entries
<1>2. \A k \in DOMAIN p : p[k] \in Entries
  OBVIOUS
<1> QED BY <1>1, <1>2

\* The context begins on the path, and not between a message and its results.
LEMMA BoundaryIsClean ==
    ASSUME NEW p \in Seq(Entries), ResultsFollow(p), CutsAreClean(p), p # <<>>
    PROVE  Boundary(p) \in 1..Len(p) /\ Whole(p, Boundary(p))
<1>1. CASE Compactions(p) = {}
  BY <1>1 DEF Boundary, ResultsFollow, Whole
<1>2. CASE Compactions(p) # {}
  <2>1. Compactions(p) \in SUBSET (1..Len(p)) /\ Len(p) \in Nat
    BY DEF Compactions
  <2>2. Max(Compactions(p)) \in Compactions(p)
    BY <1>2, <2>1, GreatestExists
  <2> QED BY <1>2, <2>2 DEF Boundary, Compactions, CutsAreClean
<1> QED BY <1>1, <1>2

\* The cut is between the boundary and the end, and does not part a result from its
\* message.
LEMMA CutIsClean ==
    ASSUME NEW p \in Seq(Entries), ResultsFollow(p), CutsAreClean(p), p # <<>>
    PROVE  FirstKept(p) \in Boundary(p)..Len(p) /\ Whole(p, FirstKept(p))
<1>0. Boundary(p) \in 1..Len(p) /\ Whole(p, Boundary(p))
  BY BoundaryIsClean
<1>1. CASE CutPoints(p) = {}
  BY <1>0, <1>1 DEF FirstKept
<1>2. CASE CutPoints(p) # {}
  <2>1. Budgeted(p) \in CutPoints(p)
    <3> DEFINE full == {i \in Boundary(p)..Len(p) :
                          HasMessage(p[i]) /\ TokensFrom(p, i) >= KeepRecent}
               after == {c \in CutPoints(p) : full # {} /\ c >= Max(full)}
               candidates == IF after = {} THEN CutPoints(p) ELSE after
    <3>1. candidates \in SUBSET CutPoints(p) /\ candidates # {}
      <4> HIDE DEF full
      <4> QED BY <1>2
    <3>2. Budgeted(p) = Min(candidates)
      BY DEF Budgeted
    <3>3. CutPoints(p) \in SUBSET Nat
      BY <1>0 DEF CutPoints
    <3> HIDE DEF candidates
    <3> QED BY <3>1, <3>2, <3>3, SmallestExists
  <2> DEFINE back == {j \in Boundary(p)..Budgeted(p) :
                         \A k \in j..(Budgeted(p) - 1) :
                            ~HasMessage(p[k]) /\ p[k].kind # "compaction"}
  <2>2. Budgeted(p) \in Boundary(p)..Len(p) /\ CutPoint(p[Budgeted(p)])
    BY <2>1 DEF CutPoints
  <2>3. Budgeted(p) \in back /\ back \in SUBSET Nat
    BY <1>0, <2>2
  <2>4. FirstKept(p) = Min(back)
    BY <1>2 DEF FirstKept
  <2>5. FirstKept(p) \in back
    <3> HIDE DEF back
    <3> QED BY <2>3, <2>4, SmallestExists
  <2>6. PICK b, f \in 1..Len(p) :
           /\ b = Budgeted(p) /\ f = FirstKept(p) /\ f <= b
           /\ CutPoint(p[b]) /\ \A k \in f..(b - 1) : ~HasMessage(p[k])
    BY <1>0, <2>2, <2>5
  <2>7. ASSUME NEW k \in DOMAIN p, k >= f, p[k].kind = "result", p[k].of < f PROVE FALSE
    <3>1. k > b
      BY <2>6, <2>7 DEF HasMessage, CutPoint
    <3>2. PICK m \in 1..(k - 1) : m = p[k].of /\ \A j \in (m + 1)..(k - 1) : InBatch(p[j])
      BY <2>7 DEF ResultsFollow
    <3>3. b \in (m + 1)..(k - 1)
      BY <2>6, <2>7, <3>1, <3>2
    <3> QED BY <2>6, <3>2, <3>3 DEF InBatch, CutPoint
  <2>8. \A k \in DOMAIN p : p[k].of \in Nat
    BY EntryPlaces
  <2>9. Whole(p, f)
    BY <2>6, <2>7, <2>8 DEF Whole
  <2> QED BY <1>0, <2>2, <2>5, <2>6, <2>9
<1> QED BY <1>1, <1>2

\* A turn starts at a place of the path, or nowhere.
LEMMA TurnStartIsPlace ==
    ASSUME NEW p \in Seq(Entries), Boundary(p) \in 1..Len(p),
           FirstKept(p) \in Boundary(p)..Len(p)
    PROVE  TurnStart(p) \in Nat
<1> DEFINE starts == {i \in Boundary(p)..FirstKept(p) : StartsTurn(p[i])}
<1>1. starts \in SUBSET (1..Len(p)) /\ Len(p) \in Nat
  OBVIOUS
<1>2. CASE TurnStart(p) # 0
  <2>1. starts # {} /\ TurnStart(p) = Max(starts)
    BY <1>2 DEF TurnStart
  <2>2. PICK m \in starts : m = Max(starts)
    BY <1>1, <2>1, GreatestExists
  <2>3. m \in Nat
    OBVIOUS
  <2> QED BY <2>1, <2>2, <2>3
<1> QED BY <1>2

\* What a summary stands for are places on the path.
LEMMA SummaryIsOfPath ==
    ASSUME NEW p \in Seq(Entries)
    PROVE  SummaryCovers(p) \in SUBSET Int
<1>1. Compactions(p) \in SUBSET (1..Len(p)) /\ Len(p) \in Nat
  BY DEF Compactions
<1>2. Covered(p) \in SUBSET Int
  <2>1. CASE Compactions(p) # {}
    <3>1. Max(Compactions(p)) \in Compactions(p)
      BY <1>1, <2>1, GreatestExists
    <3>2. p[Max(Compactions(p))] \in Entries
      BY <1>1, <3>1
    <3> QED BY <2>1, <3>2 DEF Covered, Entries
  <2> QED BY <2>1 DEF Covered
<1>3. \A from, to : Told(p, from, to) \in SUBSET Int
  BY DEF Told
<1> QED BY <1>2, <1>3, Zenon DEF SummaryCovers

-----------------------------------------------------------------------------
(* The invariant.                                                            *)
\* Results and cuts of a path stay as they are when an entry joins it.
LEMMA LongerPath ==
    ASSUME NEW p \in Seq(Entries), ResultsFollow(p), CutsAreClean(p), NEW e \in Entries,
           e.kind = "result" =>
              /\ e.of \in 1..Len(p) /\ p[e.of].kind = "assistant"
              /\ \A k \in (e.of + 1)..Len(p) : InBatch(p[k]),
           e.kind = "compaction" => e.first \in 1..Len(p) /\ Whole(p, e.first)
    PROVE  /\ Append(p, e) \in Seq(Entries)
           /\ ResultsFollow(Append(p, e)) /\ CutsAreClean(Append(p, e))
<1> DEFINE q == Append(p, e)
           n == Len(p)
<1>1. /\ q \in Seq(Entries) /\ n \in Nat /\ DOMAIN p = 1..n /\ DOMAIN q = 1..(n + 1)
      /\ q[n + 1] = e /\ (\A i \in 1..n : q[i] = p[i])
  OBVIOUS
<1> HIDE DEF q, n
<1>2. ASSUME NEW i \in 1..(n + 1), q[i].kind = "result"
      PROVE  /\ q[i].of \in 1..(i - 1) /\ q[q[i].of].kind = "assistant"
             /\ \A k \in (q[i].of + 1)..(i - 1) : InBatch(q[k])
  <2>1. PICK m : m = q[i].of
    OBVIOUS
  <2>2. /\ m \in 1..(i - 1) /\ p[m].kind = "assistant"
        /\ \A k \in (m + 1)..(i - 1) : InBatch(p[k])
    <3>1. CASE i = n + 1
      BY <1>1, <1>2, <2>1, <3>1 DEF n
    <3>2. CASE i \in 1..n
      BY <1>1, <1>2, <2>1, <3>2 DEF ResultsFollow
    <3> QED BY <1>1, <3>1, <3>2
  <2>3. m \in 1..n /\ \A k \in (m + 1)..(i - 1) : k \in 1..n
    BY <1>1, <2>2
  <2>4. q[m] = p[m] /\ \A k \in (m + 1)..(i - 1) : q[k] = p[k]
    BY <1>1, <2>3
  <2> QED BY <2>1, <2>2, <2>4
<1>3. ASSUME NEW c \in 1..(n + 1), q[c].kind = "compaction"
      PROVE  q[c].first \in 1..(c - 1) /\ Whole(q, q[c].first)
  <2>1. PICK f : f = q[c].first
    OBVIOUS
  <2>2. f \in 1..(c - 1) /\ Whole(p, f)
    <3>1. CASE c = n + 1
      BY <1>1, <1>3, <2>1, <3>1 DEF n
    <3>2. CASE c \in 1..n
      BY <1>1, <1>3, <2>1, <3>2 DEF CutsAreClean
    <3> QED BY <1>1, <3>1, <3>2
  <2>3. ASSUME NEW k \in 1..(n + 1), k >= f, q[k].kind = "result" PROVE q[k].of >= f
    <3>1. CASE k \in 1..n
      BY <1>1, <2>2, <2>3, <3>1 DEF Whole
    <3>2. CASE k = n + 1
      <4>1. /\ q[k] = e /\ e.of \in 1..n /\ p[e.of].kind = "assistant"
            /\ \A j \in (e.of + 1)..n : InBatch(p[j])
        BY <1>1, <2>3, <3>2 DEF n
      <4>2. c \in 1..n /\ q[c] = p[c]
        BY <1>1, <1>3, <2>3, <3>2
      <4>3. ~InBatch(p[c]) /\ p[c].kind # "assistant"
        BY <1>3, <4>2 DEF InBatch
      <4>4. c < e.of
        BY <1>1, <4>1, <4>2, <4>3
      <4> QED BY <2>2, <4>1, <4>2, <4>4
    <3> QED BY <1>1, <3>1, <3>2
  <2>4. Whole(q, f)
    BY <1>1, <2>3 DEF Whole
  <2> QED BY <2>1, <2>2, <2>4
<1> QED BY <1>1, <1>2, <1>3 DEF q, ResultsFollow, CutsAreClean

\* An entry that is no result and no compaction can follow any path.
LEMMA PlainEntryFollows ==
    ASSUME NEW p \in Seq(Entries), ResultsFollow(p), CutsAreClean(p),
           NEW e \in Entries, e.kind \notin {"result", "compaction"}
    PROVE  /\ Append(p, e) \in Seq(Entries)
           /\ ResultsFollow(Append(p, e)) /\ CutsAreClean(Append(p, e))
  BY LongerPath

\* The beginning of a path is as good as the path.
LEMMA BeginningIsClean ==
    ASSUME NEW p \in Seq(Entries), ResultsFollow(p), CutsAreClean(p), NEW n \in 0..Len(p)
    PROVE  /\ SubSeq(p, 1, n) \in Seq(Entries)
           /\ ResultsFollow(SubSeq(p, 1, n)) /\ CutsAreClean(SubSeq(p, 1, n))
<1> DEFINE q == SubSeq(p, 1, n)
<1>1. q \in Seq(Entries) /\ DOMAIN q = 1..n /\ \A i \in 1..n : q[i] = p[i] /\ i \in DOMAIN p
  OBVIOUS
<1> HIDE DEF q
<1>2. ResultsFollow(q)
  BY <1>1 DEF ResultsFollow
<1>3. CutsAreClean(q)
  BY <1>1 DEF CutsAreClean, Whole
<1> QED BY <1>1, <1>2, <1>3 DEF q

\* The entries the actions write are entries.
LEMMA EntriesAreEntries ==
    /\ \A kind \in Kinds, size \in Sizes \cup {0} : Entry(kind, size) \in Entries
    /\ \A n \in Nat, size \in Sizes :
          /\ Of(n, size) \in Entries
          /\ Of(n, size).kind = "result" /\ Of(n, size).of = n
<1>1. \A kind \in Kinds, size \in Nat : Entry(kind, size) \in Entries
  BY DEF Entry, Entries
<1>2. "result" \in Kinds
  BY DEF Kinds
<1>3. ASSUME NEW n \in Nat, NEW size \in Sizes
      PROVE  /\ Of(n, size) \in Entries
             /\ Of(n, size).kind = "result" /\ Of(n, size).of = n
  BY <1>2, SizesAssumption DEF Of, Entry, Entries
<1> QED BY <1>1, <1>3, SizesAssumption

\* Every step keeps the invariant.
LEMMA CompactionInvariant == CompactionSpec => []CompactionInv
<1>1. CompactionInit => CompactionInv
  BY DEF CompactionInit, CompactionInv, ResultsFollow, CutsAreClean, Owing
<1>2. ASSUME CompactionInv, [CompactionNext]_compactionVars PROVE CompactionInv'
  <2> USE <1>2 DEF CompactionInv
  <2>1. CASE UserMessage
    <3>1. PICK size \in Sizes : path' = Append(path, Entry("user", size))
      BY <2>1 DEF UserMessage, Saved
    <3> QED BY <2>1, <3>1, PlainEntryFollows, EntriesAreEntries
            DEF UserMessage, Entry, Kinds, Owing
  <2>2. CASE AssistantMessage
    <3>1. PICK size \in Sizes : path' = Append(path, Entry("assistant", size))
      BY <2>2 DEF AssistantMessage, Saved
    <3>2. Entry("assistant", size) \in Entries /\ Entry("assistant", size).kind = "assistant"
      BY EntriesAreEntries DEF Entry, Kinds
    <3>3. path' \in Seq(Entries) /\ ResultsFollow(path') /\ CutsAreClean(path')
      BY <3>1, <3>2, PlainEntryFollows
    <3>4. path'[Len(path')].kind = "assistant" /\ Len(path') \in DOMAIN path'
      BY <3>1, <3>2
    <3>5. owed' \in Nat
      BY <2>2, BudgetAssumption DEF AssistantMessage
    <3> QED BY <3>3, <3>4, <3>5 DEF Owing
  <2>3. CASE ResultMessage
    <3>1. PICK n \in DOMAIN path :
             path[n].kind = "assistant" /\ \A k \in (n + 1)..Len(path) : InBatch(path[k])
      BY <2>3 DEF ResultMessage, Owing
    <3> DEFINE said == {i \in DOMAIN path : path[i].kind = "assistant"}
    <3>2. Max(said) = n
      <4>1. said \in SUBSET (1..Len(path)) /\ n \in said /\ Len(path) \in Nat
        BY <3>1
      <4>2. Max(said) \in said /\ Max(said) >= n
        <5> HIDE DEF said
        <5> QED BY <4>1, GreatestExists
      <4> QED BY <3>1, <4>1, <4>2 DEF InBatch
    <3>3. PICK size \in Sizes : path' = Append(path, Of(n, size))
      BY <2>3, <3>2 DEF ResultMessage, Saved
    <3>4. Of(n, size) \in Entries /\ Of(n, size).kind = "result" /\ Of(n, size).of = n
      BY <3>1, EntriesAreEntries
    <3>5. path' \in Seq(Entries) /\ ResultsFollow(path') /\ CutsAreClean(path')
      BY <3>1, <3>3, <3>4, LongerPath
    <3>6. /\ Len(path') = Len(path) + 1 /\ InBatch(path'[Len(path) + 1])
          /\ \A k \in DOMAIN path : path'[k] = path[k] /\ k \in DOMAIN path'
      BY <3>3, <3>4 DEF InBatch
    <3>7. path'[n].kind = "assistant" /\ \A k \in (n + 1)..Len(path') : InBatch(path'[k])
      BY <3>1, <3>6
    <3>8. owed' \in Nat
      BY <2>3 DEF ResultMessage, Owing
    <3> QED BY <3>1, <3>5, <3>6, <3>7, <3>8 DEF Owing
  <2>4. CASE RunStops
    BY <2>4 DEF RunStops, Owing
  <2>5. CASE OtherMessage
    <3>1. PICK e \in {Entry("bash", size) : size \in Sizes} \cup {Entry("noted", 0)} :
             path' = Append(path, e)
      BY <2>5 DEF OtherMessage, Saved
    <3>2. e \in Entries /\ e.kind \in {"bash", "noted"}
      BY <3>1, EntriesAreEntries DEF Entry, Kinds
    <3> QED BY <2>5, <3>1, <3>2, PlainEntryFollows DEF OtherMessage, Owing
  <2>6. CASE ChangeEntry
    <3>1. Entry("change", 0) \in Entries /\ Entry("change", 0).kind = "change"
      BY EntriesAreEntries DEF Entry, Kinds
    <3>2. path' = Append(path, Entry("change", 0)) /\ owed' = owed
      BY <2>6 DEF ChangeEntry, Saved
    <3>3. path' \in Seq(Entries) /\ ResultsFollow(path') /\ CutsAreClean(path')
      BY <3>1, <3>2, PlainEntryFollows
    <3>4. /\ Len(path') = Len(path) + 1 /\ InBatch(path'[Len(path) + 1])
          /\ \A k \in DOMAIN path : path'[k] = path[k] /\ k \in DOMAIN path'
      BY <3>1, <3>2 DEF InBatch
    <3>5. ASSUME owed' > 0
          PROVE  \E n \in DOMAIN path' :
                    path'[n].kind = "assistant" /\ \A k \in (n + 1)..Len(path') : InBatch(path'[k])
      <4>1. PICK n \in DOMAIN path :
               path[n].kind = "assistant" /\ \A k \in (n + 1)..Len(path) : InBatch(path[k])
        BY <3>2, <3>5 DEF Owing
      <4>2. path'[n].kind = "assistant" /\ \A k \in (n + 1)..Len(path') : InBatch(path'[k])
        BY <3>4, <4>1
      <4> QED BY <3>4, <4>2
    <3> QED BY <3>2, <3>3, <3>5 DEF Owing
  <2>7. CASE MoveTo
    <3>1. PICK n \in 0..Len(path) :
             path' \in {SubSeq(path, 1, n), Append(SubSeq(path, 1, n), Entry("noted", 0))}
      BY <2>7 DEF MoveTo
    <3>2. /\ SubSeq(path, 1, n) \in Seq(Entries)
          /\ ResultsFollow(SubSeq(path, 1, n)) /\ CutsAreClean(SubSeq(path, 1, n))
      BY BeginningIsClean
    <3>3. Entry("noted", 0) \in Entries /\ Entry("noted", 0).kind = "noted"
      BY EntriesAreEntries DEF Entry, Kinds
    <3>4. path' \in Seq(Entries) /\ ResultsFollow(path') /\ CutsAreClean(path')
      BY <3>1, <3>2, <3>3, PlainEntryFollows
    <3> QED BY <2>7, <3>4 DEF MoveTo, Owing
  <2>8. CASE Compact
    <3> DEFINE e == Summary(FirstKept(path), SummaryCovers(path))
    <3>1. path' = Append(path, e) /\ path # <<>> /\ owed' = owed /\ owed = 0
      BY <2>8 DEF Compact, Saved
    <3>2. FirstKept(path) \in 1..Len(path) /\ Whole(path, FirstKept(path))
      BY <3>1, CutIsClean, BoundaryIsClean
    <3>3. SummaryCovers(path) \in SUBSET Int
      BY SummaryIsOfPath
    <3>4. e \in Entries /\ e.kind = "compaction" /\ e.first = FirstKept(path)
      BY <3>2, <3>3 DEF Summary, Entries, Kinds
    <3> HIDE DEF e
    <3>5. path' \in Seq(Entries) /\ ResultsFollow(path') /\ CutsAreClean(path')
      BY <3>1, <3>2, <3>4, LongerPath
    <3> QED BY <3>1, <3>5 DEF Owing
  <2>9. CASE UNCHANGED compactionVars
    BY <2>9 DEF compactionVars, Owing
  <2> QED
    BY <2>1, <2>2, <2>3, <2>4, <2>5, <2>6, <2>7, <2>8, <2>9 DEF CompactionNext
<1> QED BY <1>1, <1>2, PTL DEF CompactionSpec

-----------------------------------------------------------------------------
\* No compaction, however long the session and wherever its budget cuts it, leaves a
\* result in the context without the message whose call it answers.
THEOREM ResultsKeepCalls == CompactionSpec => []ResultsHaveCalls
<1>1. CompactionInv => ResultsHaveCalls
  <2> SUFFICES ASSUME CompactionInv, NEW i \in InContext(path), path[i].kind = "result"
               PROVE  path[i].of \in InContext(path)
    BY DEF ResultsHaveCalls
  <2>1. path \in Seq(Entries) /\ ResultsFollow(path) /\ CutsAreClean(path) /\ path # <<>>
    <3>1. path \in Seq(Entries) /\ ResultsFollow(path) /\ CutsAreClean(path)
      BY DEF CompactionInv
    <3>2. CASE path = <<>>
      <4>1. Compactions(path) = {}
        BY <3>2 DEF Compactions
      <4> QED BY <3>2, <4>1 DEF InContext, Boundary
    <3> QED BY <3>1, <3>2
  <2>2. Boundary(path) \in 1..Len(path) /\ Whole(path, Boundary(path))
    BY <2>1, BoundaryIsClean
  <2>3. i \in Boundary(path)..Len(path)
    BY DEF InContext
  <2>4. path[i].of \in 1..(i - 1) /\ path[path[i].of].kind = "assistant"
    BY <2>1, <2>2, <2>3 DEF ResultsFollow
  <2>5. path[i].of >= Boundary(path)
    BY <2>2, <2>3 DEF Whole
  <2> QED BY <2>2, <2>3, <2>4, <2>5 DEF InContext, HasMessage
<1> QED BY <1>1, CompactionInvariant, PTL

\* What a compaction takes out of the context, its summary is made from.
THEOREM LeavingKeepsSummary == CompactionSpec => LeavingIsSummarized
<1>1. ASSUME CompactionInv, Compact, NEW i \in InContext(path), path[i].kind # "result"
      PROVE  i \in InContext(path') \cup Covered(path')
  <2>1. /\ path \in Seq(Entries) /\ ResultsFollow(path) /\ CutsAreClean(path) /\ path # <<>>
        /\ path' = Append(path, Summary(FirstKept(path), SummaryCovers(path)))
    BY <1>1 DEF CompactionInv, Compact, Saved
  <2>2. Boundary(path) \in 1..Len(path) /\ FirstKept(path) \in Boundary(path)..Len(path)
    BY <2>1, BoundaryIsClean, CutIsClean
  <2> DEFINE n == Len(path) + 1
             e == Summary(FirstKept(path), SummaryCovers(path))
  <2>3. /\ Len(path') = n /\ path'[n] = e /\ \A k \in 1..Len(path) : path'[k] = path[k]
        /\ DOMAIN path' = 1..n /\ n \in Nat
    <3> HIDE DEF e
    <3> QED BY <2>1 DEF e
  <2>4. Max(Compactions(path')) = n /\ n \in Compactions(path')
    <3>1. n \in Compactions(path') /\ Compactions(path') \in SUBSET (1..n)
      BY <2>3 DEF Compactions, Summary
    <3>2. Max(Compactions(path')) \in 1..n /\ Max(Compactions(path')) >= n
      BY <2>3, <3>1, GreatestExists
    <3> QED BY <2>3, <3>1, <3>2
  <2>5. Boundary(path') = FirstKept(path) /\ Covered(path') = SummaryCovers(path)
    BY <2>3, <2>4 DEF Boundary, Covered, Summary
  <2>6. /\ i \in Boundary(path)..Len(path)
        /\ path[i].kind \in {"user", "assistant", "bash", "noted"}
    BY <1>1 DEF InContext, HasMessage
  <2>7. CASE i >= FirstKept(path)
    BY <2>2, <2>3, <2>5, <2>6, <2>7 DEF InContext, HasMessage
  <2>8. CASE i < FirstKept(path)
    <3> DEFINE t == TurnStart(path)
               history == Told(path, Boundary(path), HistoryEnd(path))
               prefix == IF t = 0 THEN {} ELSE Told(path, t, FirstKept(path) - 1)
    <3>1. t \in Nat
      BY <2>1, <2>2, TurnStartIsPlace
    <3>2. i \in history \cup prefix
      BY <2>2, <2>6, <2>8, <3>1 DEF Told, HistoryEnd
    <3>3. history \cup prefix \subseteq SummaryCovers(path) \/ history = {}
      BY DEF SummaryCovers
    <3>4. prefix \subseteq SummaryCovers(path)
      BY DEF SummaryCovers
    <3> QED BY <2>5, <3>2, <3>3, <3>4
  <2> QED BY <2>2, <2>6, <2>7, <2>8
<1>2. CompactionInv /\ [CompactionNext]_compactionVars =>
        [Compact => \A i \in InContext(path) :
            \/ path[i].kind = "result"
            \/ i \in InContext(path') \cup Covered(path')]_compactionVars
  BY <1>1
<1> QED BY <1>2, CompactionInvariant, PTL DEF CompactionSpec, LeavingIsSummarized
================================================================================
