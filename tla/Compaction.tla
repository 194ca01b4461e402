------------------------------ MODULE Compaction ------------------------------
(***************************************************************************)
(* A session of the agent package (packages/agent/session, session.py) and *)
(* its compaction (packages/agent/compaction, compaction.py): the path of  *)
(* the session from its root to its leaf, what of it the next request's    *)
(* context shows (build_session_context, in packages/agent/harness), and   *)
(* which messages the latest summary stands for.  An entry is known by its *)
(* place on the path.                                                      *)
(*                                                                         *)
(* A message entry has a size in tokens; a result names the assistant      *)
(* message it answers.  "change" is an entry without a message, a change   *)
(* of model or thinking level, a label; "noted" is a branch summary or a   *)
(* custom message entry, which a context shows and which has no size.  The *)
(* leaf moves back along the path; a branch that was left is not returned  *)
(* to.                                                                     *)
(*                                                                         *)
(* The session takes whatever its caller appends.  The caller here is one  *)
(* that appends messages, objects with a role, as the agent's message_end  *)
(* events give them, that puts the rows of commands off while results are  *)
(* to come, and that moves the leaf and compacts between runs only.        *)
(***************************************************************************)
EXTENDS Naturals, Sequences, SequencesExt, FiniteSetsExt

CONSTANTS
    KeepRecent,     \* keep_recent_tokens
    Sizes,          \* the sizes of messages
    MaxCalls,       \* bound: the tool calls of one assistant message
    MaxEntries      \* bound: the entries of a path

ASSUME SizesAssumption == Sizes \subseteq Nat
ASSUME BudgetAssumption == KeepRecent \in Nat /\ MaxCalls \in Nat

VARIABLES
    path,           \* get_branch(): the entries from the root to the leaf
    owed            \* the caller's: results of the last assistant message still to come

compactionVars == <<path, owed>>

Kinds == {"user", "assistant", "result", "bash", "change", "noted", "compaction"}
HasMessage(e) == e.kind \in {"user", "assistant", "result", "bash"}

Entry(kind, size) == [kind |-> kind, size |-> size, of |-> 0, first |-> 0, covers |-> {}]
Of(n, size) == [Entry("result", size) EXCEPT !.of = n]
Summary(first, covers) ==
    [kind |-> "compaction", size |-> 0, of |-> 0, first |-> first, covers |-> covers]

-----------------------------------------------------------------------------
(* The context, build_session_context.                                       *)
Compactions(p) == {i \in DOMAIN p : p[i].kind = "compaction"}
\* The last compaction counts; before it only what it keeps.
Boundary(p) == IF Compactions(p) = {} THEN 1 ELSE p[Max(Compactions(p))].first
Covered(p) == IF Compactions(p) = {} THEN {} ELSE p[Max(Compactions(p))].covers
InContext(p) == {i \in Boundary(p)..Len(p) : HasMessage(p[i]) \/ p[i].kind = "noted"}

-----------------------------------------------------------------------------
(* The cut, find_cut_point.                                                  *)
\* mutant of CutPoint: a result is as good as any message.
AnyMessage(e) == HasMessage(e) \/ e.kind = "noted"
CutPoint(e) == e.kind \in {"user", "assistant", "bash", "noted"}
StartsTurn(e) == e.kind \in {"user", "bash", "noted"}

CutPoints(p) == {i \in Boundary(p)..Len(p) : CutPoint(p[i])}
\* The tokens of the messages from i on.
TokensFrom(p, i) ==
    FoldLeft(LAMBDA sum, e : IF HasMessage(e) THEN sum + e.size ELSE sum, 0, SubSeq(p, i, Len(p)))
\* The first cut point at or after the newest message that makes the rest enough.
Budgeted(p) ==
    LET full == {i \in Boundary(p)..Len(p) : HasMessage(p[i]) /\ TokensFrom(p, i) >= KeepRecent}
        after == {c \in CutPoints(p) : full # {} /\ c >= Max(full)}
    IN  Min(IF after = {} THEN CutPoints(p) ELSE after)
\* The entries without a message before the cut stay with it.
FirstKept(p) ==
    IF CutPoints(p) = {} THEN Boundary(p)
    ELSE Min({j \in Boundary(p)..Budgeted(p) :
                 \A k \in j..(Budgeted(p) - 1) : ~HasMessage(p[k]) /\ p[k].kind # "compaction"})
\* Where the turn of the cut starts; 0 when the cut is its start or there is none.
TurnStart(p) ==
    LET starts == {i \in Boundary(p)..FirstKept(p) : StartsTurn(p[i])}
    IN  IF CutPoints(p) = {} \/ p[FirstKept(p)].kind = "user" \/ starts = {}
        THEN 0 ELSE Max(starts)

\* get_message_from_entry: what the model that writes the summary is shown.
Told(p, from, to) ==
    {i \in from..to : p[i].kind \in {"user", "assistant", "bash", "noted"}}
\* mutant of HistoryEnd: the last message of the history is not told.
HistoryEndEarly(p) == (IF TurnStart(p) # 0 THEN TurnStart(p) ELSE FirstKept(p)) - 2
HistoryEnd(p) == (IF TurnStart(p) # 0 THEN TurnStart(p) ELSE FirstKept(p)) - 1
\* compact(): the summary of the history takes in the previous one, when there is a
\* history; the summary of the beginning of a turn does not.
SummaryCovers(p) ==
    LET history == Told(p, Boundary(p), HistoryEnd(p))
        prefix == IF TurnStart(p) = 0 THEN {} ELSE Told(p, TurnStart(p), FirstKept(p) - 1)
    IN  IF prefix = {} THEN history \cup Covered(p)
        ELSE prefix \cup (IF history = {} THEN {} ELSE history \cup Covered(p))

-----------------------------------------------------------------------------
CompactionInit == path = <<>> /\ owed = 0

Saved(e) == Len(path) < MaxEntries /\ path' = Append(path, e)

\* append_message, of what the run's messages are in turn.
UserMessage ==
    /\ owed = 0 /\ \E size \in Sizes : Saved(Entry("user", size))
    /\ UNCHANGED owed
AssistantMessage ==
    /\ owed = 0 /\ \E size \in Sizes : Saved(Entry("assistant", size))
    /\ owed' \in 0..MaxCalls
ResultMessage ==
    /\ owed > 0
    /\ \E size \in Sizes :
          Saved(Of(Max({i \in DOMAIN path : path[i].kind = "assistant"}), size))
    /\ owed' = owed - 1
\* The run fails, or is aborted: what it owes will not come.
RunStops == owed > 0 /\ owed' = 0 /\ UNCHANGED path
\* The row of a command, and append_custom_message_entry.
OtherMessage ==
    /\ owed = 0
    /\ Saved(Entry("noted", 0)) \/ \E size \in Sizes : Saved(Entry("bash", size))
    /\ UNCHANGED owed
\* append_model_change, append_thinking_level_change, append_label: at any time.
ChangeEntry == Saved(Entry("change", 0)) /\ UNCHANGED owed
\* move_to an entry of the path or before the first, with a summary of what is left
\* behind or not.
MoveTo ==
    /\ owed = 0 /\ UNCHANGED owed
    /\ \E n \in 0..(Len(path) - 1) :
          path' \in {SubSeq(path, 1, n), Append(SubSeq(path, 1, n), Entry("noted", 0))}
\* prepare_compaction, which refuses an empty path and one that was just compacted,
\* compact and append_compaction; when the model fails nothing is appended.
Compact ==
    /\ owed = 0 /\ path # <<>> /\ Last(path).kind # "compaction"
    /\ Saved(Summary(FirstKept(path), SummaryCovers(path)))
    /\ UNCHANGED owed

CompactionNext ==
    \/ UserMessage \/ AssistantMessage \/ ResultMessage \/ RunStops \/ OtherMessage
    \/ ChangeEntry \/ MoveTo \/ Compact

CompactionSpec == CompactionInit /\ [][CompactionNext]_compactionVars

-----------------------------------------------------------------------------
\* Wherever the history is cut, a result in the context comes with the message whose
\* call it answers (find_valid_cut_points).
ResultsHaveCalls ==
    \A i \in InContext(path) : path[i].kind = "result" => path[i].of \in InContext(path)
\* What a compaction takes out of the context its summary stands for; results are told
\* by what the model said of them (prepare_compaction and compact).
LeavingIsSummarized ==
    [][Compact =>
        \A i \in InContext(path) :
            \/ path[i].kind = "result"
            \/ i \in InContext(path') \cup Covered(path')]_compactionVars
\* Nothing that was said on the path is forgotten: it is in the context, or the latest
\* summary stands for it (compact's previous_summary).
NothingForgotten ==
    \A i \in DOMAIN path :
        path[i].kind \in {"user", "assistant", "bash", "noted"}
            => i \in InContext(path) \cup Covered(path)
=============================================================================
