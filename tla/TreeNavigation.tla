---------------------------- MODULE TreeNavigation ----------------------------
(***************************************************************************)
(* Moving about in the tree of one session (code/session,                  *)
(* tree_navigation.py): /tree takes the leaf of the session store to       *)
(* another entry and gives the agent the messages on the branch it ends.   *)
(* The branch that is left may be summarised, under the new leaf; before   *)
(* that the model's credentials are awaited, and the session goes on       *)
(* meanwhile: the agent appends its messages, and another navigation may   *)
(* run from its start to its end.  A run of the agent sends the model a    *)
(* copy of its transcript, which a navigation does not reach.              *)
(***************************************************************************)
EXTENDS SessionStore

CONSTANT MaxSummaries   \* bound on the navigations that await credentials at once

VARIABLES
  context,     \* the ids of the agent's messages
  sends,       \* the copy the run in progress sends to the model, or None
  left,        \* history: a navigation has left the branch of the run in progress
  summaries    \* navigations that await credentials, each with what it has collected

navigationVars == <<storeVars, context, sends, left, summaries>>

Messages(es, i) ==
  LET path == Unlabelled(Branch(es, i)) IN [k \in 1..Len(path) |-> path[k].id]

(***************************************************************************)
(* _collect_entries_for_summary.  get_branch answers root first, so the    *)
(* first entry of the target's branch that is on the old one too is their  *)
(* common root, not the entry at which they part.                          *)
(***************************************************************************)
Collected(target) ==
  LET old == Branch(entries, leaf)
      new == Branch(entries, target)
      shared == SelectInSeq(new, LAMBDA e : e \in Range(old))
      stop == IF shared = 0 THEN Len(old) + 1 ELSE SelectInSeq(old, LAMBDA e : e = new[shared])
  IN Known(SubSeq(old, 1, stop - 1))

\* the leaf a navigation ends at: before a user message, whose text goes to the editor
NewLeaf(target) ==
  IF Lookup(entries, target).kind = "user" THEN Lookup(entries, target).parent ELSE target

\* mutant of Switch: the agent is given the messages of every branch
SwitchAll(new, appended) ==
  /\ entries' = entries \o appended
  /\ leaf' = IF appended = <<>> THEN new ELSE Last(appended).id
  /\ issued' = issued + Len(appended)
  /\ disk' = IF appended = <<>> \/ ~flushed THEN disk
             ELSE PutFile(disk, sessionFile, Added(Content(sessionFile), appended))
  /\ context' = [k \in 1..Len(Unlabelled(entries')) |-> Unlabelled(entries')[k].id]
  /\ left' = (sends # None)
  /\ UNCHANGED <<named, kills, running, sessionFile, flushed, sends>>

\* branch, reset_leaf or branch_with_summary, append_label_change, set_agent_messages.  A
\* session that is not flushed holds no answer, and nothing appended here is one.
Switch(new, appended) ==
  /\ entries' = entries \o appended
  /\ leaf' = IF appended = <<>> THEN new ELSE Last(appended).id
  /\ issued' = issued + Len(appended)
  /\ disk' = IF appended = <<>> \/ ~flushed THEN disk
             ELSE PutFile(disk, sessionFile, Added(Content(sessionFile), appended))
  /\ context' = Messages(entries', leaf')
  /\ left' = (sends # None)
  /\ UNCHANGED <<named, kills, running, sessionFile, flushed, sends>>

SummaryUnder(new) == New("other", new, None, FALSE)
\* the label goes on the summary if there is one, on the target otherwise
LabelOn(i, parent, id) ==
  [id |-> id, parent |-> parent, kind |-> "label", target |-> i, set |-> TRUE]

NavigationInit ==
  /\ StoreInit
  /\ context = <<>> /\ sends = None /\ left = FALSE /\ summaries = {}

\* a run begins with a snapshot of the agent's transcript
RunBegins ==
  /\ sends = None /\ sends' = context
  /\ UNCHANGED <<storeVars, context, left, summaries>>

RunEnds ==
  /\ sends # None /\ sends' = None /\ left' = FALSE
  /\ UNCHANGED <<storeVars, context, summaries>>

\* a message of the run ends: it is in the run's copy, in the agent's transcript, then in
\* the session; without a run, only the row of a shell command is added
MessageEnds ==
  /\ AddMessage
  /\ sends # None \/ Last(entries').kind = "other"
  /\ sends' = IF sends = None THEN None ELSE Append(sends, leaf')
  /\ context' = Append(context, leaf')
  /\ UNCHANGED <<left, summaries>>

\* navigate_tree with nothing to summarise, or not asked to: one step of the event loop
NavigateTree(target, label) ==
  /\ running /\ target \in Known(entries) /\ target # leaf
  /\ label => CanIssue
  /\ Switch(NewLeaf(target),
            IF label THEN <<LabelOn(target, NewLeaf(target), issued + 1)>> ELSE <<>>)
  /\ UNCHANGED summaries

\* navigate_tree up to its await
AskSummary(target, label) ==
  /\ running /\ target \in Known(entries) /\ target # leaf
  /\ Cardinality(summaries) < MaxSummaries
  /\ \E covered \in {Collected(target)} :
        /\ covered # {}
        /\ summaries' = summaries \union
              {[target |-> target, label |-> label, covers |-> covered]}
  /\ UNCHANGED <<storeVars, context, sends, left>>

\* ... and after it: the leaf is moved from wherever it is by now
Summarise(s) ==
  /\ s \in summaries
  /\ issued + 2 <= MaxIds
  /\ LET new == NewLeaf(s.target)
         summary == SummaryUnder(new)
     IN Switch(new, IF s.label THEN <<summary, LabelOn(summary.id, summary.id, issued + 2)>>
                    ELSE <<summary>>)
  /\ summaries' = summaries \ {s}

\* the credentials cannot be had: navigate_tree raises before it has moved anything
SummaryFails(s) ==
  s \in summaries /\ summaries' = summaries \ {s} /\ UNCHANGED <<storeVars, context, sends, left>>

NavigationNext ==
  \/ RunBegins \/ RunEnds \/ MessageEnds
  \/ \E target \in Ids, label \in BOOLEAN :
        NavigateTree(target, label) \/ AskSummary(target, label)
  \/ \E s \in summaries : Summarise(s) \/ SummaryFails(s)

NavigationSpec == NavigationInit /\ [][NavigationNext]_navigationVars
-----------------------------------------------------------------------------
\* The agent's transcript is the messages on the branch that ends at the leaf, whichever
\* way the leaf came there: what a run starts from is what a reopened session would
\* restore.  Navigations that overlap, or overlap a run, do not part the two.  A run in
\* progress sends the same, except from a navigation (/tree is accepted during a run) to
\* its end: set_agent_messages does not reach the run's copy, which goes on along the
\* branch that was left while its messages are saved on the one chosen.
ContextIsBranch ==
  /\ context = Messages(entries, leaf)
  /\ sends \in {None, context} \/ left
=============================================================================
