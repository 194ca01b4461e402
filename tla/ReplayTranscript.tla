--------------------------- MODULE ReplayTranscript ---------------------------
(***************************************************************************)
(* What a provider is sent of a transcript (packages/ai/provider-common,   *)
(* transform_messages.py).  The session may have been interrupted in the   *)
(* middle of a turn, cut by a branch, or begun with another model, and a   *)
(* provider refuses a call without a result, a result without a call, and  *)
(* thinking or ids that another provider made.                             *)
(*                                                                         *)
(* The first pass rewrites each message for the model, the second puts a   *)
(* result in for every call that has none.  Images are left out; of the    *)
(* other blocks of a message a set of types is kept, apart from its calls. *)
(***************************************************************************)
EXTENDS Naturals, Sequences, SequencesExt

CONSTANTS
    Transcripts,    \* the transcripts that may be replayed
    CallIds,        \* tool call ids, before and after normalize_tool_call_id
    Normalized      \* normalize_tool_call_id, a function on CallIds

\* A message of an assistant: `own` says that the model that is asked made it, and
\* `failed` that it ended in an error or was aborted.
BlockTypes == {"text", "thinking", "signed", "redacted", "blank"}
Message == [role : {"user"}]
           \cup [role : {"assistant"}, own : BOOLEAN, failed : BOOLEAN,
                 blocks : SUBSET BlockTypes, calls : Seq(CallIds)]
           \cup [role : {"toolResult"}, id : CallIds]
ToolResult(id) == [role |-> "toolResult", id |-> id]

ASSUME ReplayAssumption ==
    /\ Normalized \in [CallIds -> CallIds]
    /\ \A t \in Transcripts : t \in Seq(Message)

VARIABLES
    transcript, \* the messages given
    phase,      \* "first" and "second" pass, "insert" and "finish" (synthetic results), "done"
    pos,        \* the message the pass is at
    idMap,      \* tool_call_id_map: Normalized, on the ids it has been set for
    transformed,
    result,
    pending,    \* pending_tool_calls, their ids
    existing    \* existing_tool_result_ids

replayVars == <<transcript, phase, pos, idMap, transformed, result, pending, existing>>

ReplayInit ==
    /\ transcript \in Transcripts
    /\ phase = "first" /\ pos = 1 /\ idMap = {} /\ transformed = <<>>
    /\ result = <<>> /\ pending = <<>> /\ existing = {}

-----------------------------------------------------------------------------
(* First pass                                                               *)
\* Another model gets no redacted thinking, and what else was thought as text.
Rewritten(blocks, own) ==
    IF own THEN blocks \ {"blank"}
    ELSE {IF b \in {"signed", "thinking"} THEN "text" ELSE b : b \in blocks \ {"redacted", "blank"}}
ForModel(msg) ==
    [msg EXCEPT !.blocks = Rewritten(@, msg.own),
                !.calls  = IF msg.own THEN @ ELSE [i \in DOMAIN @ |-> Normalized[@[i]]]]
Transform ==
    /\ phase = "first" /\ pos <= Len(transcript)
    /\ LET msg == transcript[pos]
       IN  CASE msg.role = "assistant" ->
                  /\ transformed' = Append(transformed, ForModel(msg))
                  /\ idMap' = IF msg.own THEN idMap ELSE idMap \cup Range(msg.calls)
             [] msg.role = "toolResult" ->
                  /\ transformed' = Append(transformed,
                        IF msg.id \in idMap THEN ToolResult(Normalized[msg.id]) ELSE msg)
                  /\ UNCHANGED idMap
             [] OTHER -> transformed' = Append(transformed, msg) /\ UNCHANGED idMap
    /\ pos' = pos + 1
    /\ UNCHANGED <<transcript, phase, result, pending, existing>>
EndFirstPass ==
    /\ phase = "first" /\ pos > Len(transcript)
    /\ phase' = "second" /\ pos' = 1
    /\ UNCHANGED <<transcript, idMap, transformed, result, pending, existing>>

-----------------------------------------------------------------------------
(* Second pass.  insert_synthetic_tool_results runs before a user's and an  *)
(* assistant's message, and at the end.                                     *)
More == pos <= Len(transformed)
BeginInsert ==
    /\ phase = "second" /\ pending # <<>>
    /\ More => transformed[pos].role \in {"user", "assistant"}
    /\ phase' = "insert"
    /\ UNCHANGED <<transcript, pos, idMap, transformed, result, pending, existing>>
InsertForgetting ==     \* mutant: a call that has a result keeps the others from theirs
    /\ phase = "insert" /\ pending # <<>>
    /\ result' = IF Head(pending) \in existing THEN result
                 ELSE Append(result, ToolResult(Head(pending)))
    /\ pending' = IF Head(pending) \in existing THEN <<>> ELSE Tail(pending)
    /\ UNCHANGED <<transcript, phase, pos, idMap, transformed, existing>>
InsertTwice ==          \* mutant: a result is put in for every call
    /\ phase = "insert" /\ pending # <<>>
    /\ result' = Append(result, ToolResult(Head(pending)))
    /\ pending' = Tail(pending)
    /\ UNCHANGED <<transcript, phase, pos, idMap, transformed, existing>>
InsertSynthetic ==
    /\ phase = "insert" /\ pending # <<>>
    /\ result' = IF Head(pending) \in existing THEN result
                 ELSE Append(result, ToolResult(Head(pending)))
    /\ pending' = Tail(pending)
    /\ UNCHANGED <<transcript, phase, pos, idMap, transformed, existing>>
EndInsert ==
    /\ phase = "insert" /\ pending = <<>>
    /\ phase' = "second" /\ existing' = {}
    /\ UNCHANGED <<transcript, pos, idMap, transformed, result, pending>>

\* A failed message is not replayed.
TakeAssistant ==
    /\ phase = "second" /\ More /\ pending = <<>>
    /\ LET msg == transformed[pos]
       IN  /\ msg.role = "assistant"
           /\ IF msg.failed THEN UNCHANGED <<result, pending, existing>>
              ELSE /\ result' = Append(result, msg)
                   /\ pending' = msg.calls
                   /\ existing' = IF pending' # <<>> THEN {} ELSE existing
    /\ pos' = pos + 1
    /\ UNCHANGED <<transcript, phase, idMap, transformed>>
TakeResult ==
    /\ phase = "second" /\ More
    /\ transformed[pos].role = "toolResult"
    /\ existing' = existing \cup {transformed[pos].id}
    /\ result' = Append(result, transformed[pos])
    /\ pos' = pos + 1
    /\ UNCHANGED <<transcript, phase, idMap, transformed, pending>>
TakeUser ==
    /\ phase = "second" /\ More /\ pending = <<>>
    /\ transformed[pos].role = "user"
    /\ result' = Append(result, transformed[pos])
    /\ pos' = pos + 1
    /\ UNCHANGED <<transcript, phase, idMap, transformed, pending, existing>>
Finish ==
    /\ phase = "second" /\ ~More /\ pending = <<>>
    /\ phase' = "done"
    /\ UNCHANGED <<transcript, pos, idMap, transformed, result, pending, existing>>

ReplayNext == \/ Transform \/ EndFirstPass \/ BeginInsert \/ InsertSynthetic \/ EndInsert
              \/ TakeAssistant \/ TakeResult \/ TakeUser \/ Finish
ReplaySpec == ReplayInit /\ [][ReplayNext]_replayVars

-----------------------------------------------------------------------------
(* Properties                                                               *)
IsResult(msg, id) == msg.role = "toolResult" /\ msg.id = id
\* The results that follow the message at p, up to the next other message.
Following(p) == {q \in p + 1 .. Len(result) :
                    \A r \in p + 1 .. q : result[r].role = "toolResult"}

\* Whatever the transcript, no call that is replayed is left without a result.
CallsAnswered == phase = "done" =>
    \A p \in DOMAIN result : result[p].role = "assistant" =>
       \A id \in Range(result[p].calls) :
          \E q \in p + 1 .. Len(result) : IsResult(result[q], id)

\* What a run may leave, cut anywhere: a result follows the message that makes its call,
\* which did not fail, with nothing but other results between; and a call has its own id.
Follows(t, p, q) == t[p].role = "assistant" /\ \A r \in p + 1 .. q : t[r].role = "toolResult"
Placed(t) ==
    /\ \A p \in DOMAIN t : t[p].role = "assistant" => IsInjective(t[p].calls)
    /\ \A q \in DOMAIN t : t[q].role = "toolResult" =>
          \E p \in 1..(q - 1) : /\ Follows(t, p, q) /\ ~t[p].failed
                               /\ t[q].id \in Range(t[p].calls)
                               /\ \A r \in p + 1 .. q - 1 : t[r].id # t[q].id
LeftByRun(t) ==
    /\ Placed(t)
    /\ \A p, q \in DOMAIN t : t[p].role = "assistant" /\ t[q].role = "assistant" /\ p # q =>
          Range(t[p].calls) \cap Range(t[q].calls) = {}
\* The calls of a message are told apart by their normalized ids.
KeptApart(t) == \A p \in DOMAIN t : t[p].role = "assistant" =>
    \A c, d \in Range(t[p].calls) : Normalized[c] = Normalized[d] => c = d

\* Of a transcript that a run may have left, cut anywhere, each call is answered
\* once, right after the message that makes it, and no result is without its call.
Paired == phase = "done" =>
    /\ \A p \in DOMAIN result : result[p].role = "assistant" =>
          \A id \in Range(result[p].calls) :
             \E q \in Following(p) : /\ IsResult(result[q], id)
                                     /\ \A r \in Following(p) \ {q} : ~IsResult(result[r], id)
    /\ \A q \in DOMAIN result : result[q].role = "toolResult" =>
          \E p \in 1..(q - 1) : /\ result[p].role = "assistant" /\ q \in Following(p)
                                /\ result[q].id \in Range(result[p].calls)
=============================================================================
