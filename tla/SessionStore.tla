---------------------------- MODULE SessionStore ----------------------------
(***************************************************************************)
(* The session store: SessionManager (code/session/manager.py) and the     *)
(* operations the session runtime builds from it (code/session/runtime.py).*)
(* A session is a tree of entries kept twice, as a list in memory and as a *)
(* file of JSON lines that is only appended to.  Nothing is written until  *)
(* an assistant has answered; then the whole list is, and one line for     *)
(* each later entry.  The process may be killed between two operations or  *)
(* in the middle of a write, and a session opened again is what the lines  *)
(* still parse to.                                                         *)
(*                                                                         *)
(* An entry keeps its id, its parent and what the properties tell apart of *)
(* its type.  Ids are random in the code and fresh numbers here.  Entries  *)
(* other than messages and labels (model, thinking level, compaction,      *)
(* custom, name, branch summary) are of kind "other".                      *)
(***************************************************************************)
EXTENDS Naturals, Sequences, FiniteSets, SequencesExt

CONSTANTS AppendedKinds,    \* the kinds of entry append_message and its like are called for
          MaxIds,           \* bound on the entry ids ever issued
          MaxFiles,         \* bound on the session files ever named
          MaxKills,         \* bound on the kills
          None

ASSUME StoreAssumption ==
  /\ AppendedKinds \subseteq {"user", "assistant", "other"}
  /\ MaxIds \in Nat /\ MaxFiles \in Nat /\ None \notin Nat

VARIABLES
  disk,      \* the files that exist: their lines, and whether the last lacks its newline
  named,     \* how many file names were handed out
  issued,    \* how many entry ids were
  kills,     \* how many times the process was killed
  running,   \* the process is up
  sessionFile,  \* _session_file
  entries,   \* _file_entries after the header
  leaf,      \* _leaf_id
  flushed    \* _flushed

storeVars == <<disk, named, issued, kills, running, sessionFile, entries, leaf, flushed>>

Ids == 1..MaxIds
Files == 1..MaxFiles
SessionEntry ==
  [id : Ids, parent : Ids \union {None}, kind : {"user", "assistant", "other", "label"},
   target : Ids \union {None}, set : BOOLEAN]
Header == [kind |-> "session"]
Junk == [kind |-> "malformed"]

(***************************************************************************)
(* Reading a list of entries.                                              *)
(***************************************************************************)
\* A sequence without the members of a set.
Without(s, dropped) ==
  LET kept[n \in 0..Len(s)] ==
        IF n = 0 THEN <<>>
        ELSE IF s[n] \in dropped THEN kept[n - 1] ELSE Append(kept[n - 1], s[n])
  IN kept[Len(s)]

Known(es) == {e.id : e \in Range(es)}
Lookup(es, i) == es[SelectLastInSeq(es, LAMBDA e : e.id = i)]
ParentOf(es, i) == LET p == Lookup(es, i).parent IN IF p \in Known(es) THEN p ELSE None

\* n steps from i towards its root
Up(es, i) ==
  LET up[n \in 0..MaxIds] ==
        IF n = 0 THEN i ELSE IF up[n - 1] = None THEN None ELSE ParentOf(es, up[n - 1])
  IN up
Ends(es, i) == \E n \in 0..MaxIds : Up(es, i)[n] = None

\* get_branch: the entries from the root to i
Branch(es, i) ==
  IF i = None \/ i \notin Known(es) THEN <<>>
  ELSE LET up == Up(es, i)
           depth == CHOOSE n \in 0..MaxIds :
                      up[n] = None /\ \A m \in 0..(n - 1) : up[m] # None
       IN [k \in 1..depth |-> Lookup(es, up[depth - k])]

Unlabelled(es) == Without(es, {e \in Range(es) : e.kind = "label"})
HasAssistant(es) == \E e \in Range(es) : e.kind = "assistant"

\* _labels_by_id: the entries whose last label change sets a label
Labelled(es) ==
  {i \in Ids : LET k == SelectLastInSeq(es, LAMBDA e : e.kind = "label" /\ e.target = i)
               IN k # 0 /\ es[k].set}

(***************************************************************************)
(* Files.  Appending to a file whose last line was cut runs the first new  *)
(* line into it, and neither parses afterwards.                            *)
(***************************************************************************)
File(lines, cut) == [lines |-> lines, cut |-> cut]
NoLines == File(<<>>, FALSE)
Content(f) == IF f \in DOMAIN disk THEN disk[f] ELSE NoLines

Added(old, new) ==
  IF old.cut THEN File(Front(old.lines) \o <<Junk>> \o Tail(new), FALSE)
  ELSE File(old.lines \o new, FALSE)

\* What a kill in the middle of writing new after old can leave: nothing of it, some whole
\* lines, or some and then a line cut before its newline.  A header is shorter than the
\* buffer the writer fills before anything reaches the file, so it is never what is cut.
Torn(old, new) ==
  LET cuts == {k \in 1..Len(new) : new[k] # Header}
  IN {old} \union
     {Added(old, SubSeq(new, 1, k)) : k \in 1..(Len(new) - 1)} \union
     {File(Added(old, SubSeq(new, 1, k)).lines, TRUE) : k \in cuts} \union
     {File(Added(old, Append(SubSeq(new, 1, k - 1), Junk)).lines, TRUE) : k \in cuts}

\* _load_entries_from_file: the lines that parse, if they start with a header
Parsed(content) == Without(content.lines, {Junk})
Valid(content) == Parsed(content) # <<>> /\ Head(Parsed(content)) = Header
Load(content) ==
  IF Valid(content) THEN Without(Parsed(content), {Header}) ELSE <<>>
Damaged(content) == content.cut \/ Junk \in Range(content.lines)

PutFile(d, f, content) == [g \in DOMAIN d \union {f} |-> IF g = f THEN content ELSE d[g]]

(***************************************************************************)
(* The manager's state after it opens a file, or starts one.               *)
(***************************************************************************)
LastId(es) == IF es = <<>> THEN None ELSE Last(es).id

\* _new_session with the given path: nothing is written yet
Blank(f) ==
  /\ running' = TRUE /\ sessionFile' = f
  /\ entries' = <<>> /\ leaf' = None /\ flushed' = FALSE

\* _set_session_file over the files d: the indexed file, a header written over one
\* that does not parse, or a session that has a path and no file
OpenIn(d, f) ==
  IF f \notin DOMAIN d THEN Blank(f) /\ disk' = d
  ELSE /\ running' = TRUE
       /\ sessionFile' = f
       /\ entries' = Load(d[f])
       /\ leaf' = LastId(Load(d[f]))
       /\ flushed' = TRUE
       /\ disk' = IF Valid(d[f]) THEN d ELSE PutFile(d, f, File(<<Header>>, FALSE))

Start(f) == f = named + 1 /\ f \in Files /\ named' = f /\ Blank(f)

StoreInit ==
  /\ disk = <<>> /\ named = 1 /\ issued = 0 /\ kills = 0
  /\ running = TRUE /\ sessionFile = 1 /\ entries = <<>> /\ leaf = None /\ flushed = FALSE

(***************************************************************************)
(* Appending.  Persisted is what _persist_entry adds to the file.            *)
(***************************************************************************)
\* mutant of Persisted: the first flush writes the answer and not what came before it
PersistedAlone(e) ==
  IF ~HasAssistant(Append(entries, e)) THEN <<>>
  ELSE IF flushed THEN <<e>> ELSE <<Header, e>>

Persisted(e) ==
  IF ~HasAssistant(Append(entries, e)) THEN <<>>
  ELSE IF flushed THEN <<e>> ELSE <<Header>> \o Append(entries, e)

\* mutant of Persist: the file is opened for writing, not for appending
PersistOver(e) ==
  /\ flushed' = HasAssistant(Append(entries, e))
  /\ disk' = IF Persisted(e) = <<>> THEN disk
             ELSE PutFile(disk, sessionFile, File(Persisted(e), FALSE))

Persist(e) ==
  /\ flushed' = HasAssistant(Append(entries, e))
  /\ disk' = IF Persisted(e) = <<>> THEN disk
             ELSE PutFile(disk, sessionFile, Added(Content(sessionFile), Persisted(e)))

\* _append_entry: into the list, the leaf moves, the file follows
AppendEntry(e) ==
  /\ entries' = Append(entries, e)
  /\ leaf' = e.id
  /\ Persist(e)
  /\ issued' = e.id
  /\ UNCHANGED <<named, kills, running, sessionFile>>

\* mutant of New: the leaf is moved before the entry reads it
NewMoved(kind, parent, target, set) ==
  [id |-> issued + 1, parent |-> issued + 1, kind |-> kind, target |-> target, set |-> set]

New(kind, parent, target, set) ==
  [id |-> issued + 1, parent |-> parent, kind |-> kind, target |-> target, set |-> set]

\* append_message, append_*_change, append_custom_*, append_session_info, append_compaction
MessageEntry == {New(k, leaf, None, FALSE) : k \in AppendedKinds}

\* append_label_change: sets a label on any known entry, or clears one (of the calls that
\* clear, those on an entry without a label are left out: they append an inert entry)
LabelEntry ==
  {New("label", leaf, t, TRUE) : t \in Known(entries)} \union
  {New("label", leaf, t, FALSE) : t \in Labelled(entries)}

\* branch_with_summary: under any known entry, or a new root
SummaryEntry == {New("other", p, None, FALSE) : p \in Known(entries) \union {None}}

CanIssue == running /\ issued < MaxIds

AddMessage == CanIssue /\ \E e \in MessageEntry : AppendEntry(e)
AddLabel == CanIssue /\ \E e \in LabelEntry : AppendEntry(e)
BranchWithSummary == CanIssue /\ \E e \in SummaryEntry : AppendEntry(e)

\* branch
MoveLeaf(i) ==
  /\ running /\ i \in Known(entries) /\ i # leaf
  /\ leaf' = i
  /\ UNCHANGED <<disk, named, issued, kills, running, sessionFile, entries, flushed>>

ResetLeaf ==
  /\ running /\ leaf # None
  /\ leaf' = None
  /\ UNCHANGED <<disk, named, issued, kills, running, sessionFile, entries, flushed>>

(***************************************************************************)
(* Switching sessions.                                                     *)
(***************************************************************************)
\* runtime.new_session
NewSession ==
  /\ running
  /\ \E f \in Files : Start(f)
  /\ UNCHANGED <<disk, issued, kills>>

\* runtime.switch_session, or --session and --continue after a kill
Open(f) ==
  /\ f \in 1..named /\ (running => f # sessionFile)
  /\ OpenIn(disk, f)
  /\ UNCHANGED <<named, issued, kills>>

\* create_branched_session over the reloaded source: the branch without its labels, and
\* new label entries chained at its end for the labels that are set on it
Relabel(es, targets) ==
  LET last == LastId(es)
      order == SetToSeq(targets)
  IN [k \in 1..Len(order) |->
        [id |-> issued + k, parent |-> IF k = 1 THEN last ELSE issued + k - 1,
         kind |-> "label", target |-> order[k], set |-> TRUE]]

\* mutant of Branched: labels that were cleared again are copied too
BranchedEveryLabel(source, i) ==
  LET path == Unlabelled(Branch(source, i))
  IN path \o Relabel(path, {e.target : e \in {x \in Range(source) : x.kind = "label"}}
                             \intersect Known(path))

Branched(source, i) ==
  LET path == Unlabelled(Branch(source, i))
  IN path \o Relabel(path, Labelled(source) \intersect Known(path))

\* where runtime.fork may cut: at the leaf (/clone), before a user message (/fork)
ForkTargets ==
  ({leaf} \union {e.parent : e \in {x \in Range(entries) : x.kind = "user"}}) \ {None}

\* the file the branch goes to: a rewrite, unless nothing has been answered on it
ForkWrites(copy) == IF HasAssistant(copy) THEN <<Header>> \o copy ELSE <<>>

CanFork(i) ==
  /\ running /\ named < MaxFiles /\ i \in ForkTargets
  /\ sessionFile \in DOMAIN disk
  /\ LET source == Load(disk[sessionFile])
     IN i \in Known(source) /\ issued + Cardinality(Labelled(source)) <= MaxIds

\* runtime.fork of a persisted session: reopen the source, copy, open the copy
Fork(i) ==
  /\ CanFork(i)
  /\ LET copy == Branched(Load(disk[sessionFile]), i)
         f == named + 1
         d == IF ForkWrites(copy) = <<>> THEN disk
              ELSE PutFile(disk, f, File(ForkWrites(copy), FALSE))
     IN /\ OpenIn(d, f)
        /\ named' = f
        /\ issued' = issued + Cardinality({e \in Range(copy) : e.kind = "label"})
        /\ kills' = kills

(***************************************************************************)
(* The process is killed, between operations or while it writes.           *)
(***************************************************************************)
Down ==
  /\ kills < MaxKills /\ kills' = kills + 1
  /\ running' = FALSE
  /\ sessionFile' = None /\ entries' = <<>> /\ leaf' = None /\ flushed' = FALSE

CrashIdle == running /\ Down /\ UNCHANGED <<disk, named, issued>>

CrashAppending ==
  /\ CanIssue
  /\ \E e \in MessageEntry \union LabelEntry \union SummaryEntry :
        /\ Persisted(e) # <<>>
        /\ \E content \in Torn(Content(sessionFile), Persisted(e)) :
              disk' = PutFile(disk, sessionFile, content)
        /\ issued' = e.id
  /\ Down
  /\ UNCHANGED named

CrashForking ==
  /\ \E i \in ForkTargets :
        /\ CanFork(i)
        /\ LET copy == Branched(Load(disk[sessionFile]), i)
           IN /\ ForkWrites(copy) # <<>>
              /\ \E content \in Torn(NoLines, ForkWrites(copy)) :
                    disk' = PutFile(disk, named + 1, content)
              /\ issued' = issued + Cardinality({e \in Range(copy) : e.kind = "label"})
  /\ named' = named + 1
  /\ Down

\* a new session instead of an old one
StartAgain == ~running /\ (\E f \in Files : Start(f)) /\ UNCHANGED <<disk, issued, kills>>

StoreNext ==
  \/ AddMessage \/ AddLabel \/ BranchWithSummary
  \/ \E i \in Ids : MoveLeaf(i)
  \/ ResetLeaf
  \/ \E i \in Ids : Fork(i)
  \/ NewSession
  \/ \E f \in Files : Open(f)
  \/ CrashIdle \/ CrashAppending \/ CrashForking \/ StartAgain

StoreSpec == StoreInit /\ [][StoreNext]_storeVars
-----------------------------------------------------------------------------
(***************************************************************************)
(* Properties.                                                             *)
(***************************************************************************)
\* Once an assistant has answered in a session, its file holds exactly the entries its
\* memory does: _persist_entry defers the first flush and loses nothing by it, through
\* branches, forks, restarts and a flush repeated after a restart.  A file that a kill
\* left with a cut or malformed line is excepted.
SavedOnceAnswered ==
  running /\ HasAssistant(entries) =>
    /\ sessionFile \in DOMAIN disk
    /\ Damaged(disk[sessionFile]) \/ Range(Load(disk[sessionFile])) = Range(entries)

\* Walking from any entry towards the root ends: get_branch and build_session_context
\* loop until they meet an entry without a known parent, and would not return otherwise.
WalksEnd == \A e \in Range(entries) : Ends(entries, e.id)

\* An entry a session file yields when it is opened is one it yields ever after: no
\* append, flush, fork, reopening or kill takes away what was saved, in the session's own
\* file or another's.  The one exception is a last line that a kill left without its newline.
Kept(content) == IF content.cut THEN File(Front(content.lines), FALSE) ELSE content
SavedStaysSaved ==
  [][disk' # disk => \A f \in DOMAIN disk :
        f \in DOMAIN disk' /\ Range(Load(Kept(disk[f]))) \subseteq Range(Load(disk'[f]))]_storeVars

\* A fork whose branch holds an answer carries every entry of the branch that is not a
\* label, in order, and exactly the labels that are set on them.
Carried ==
  \A i \in Ids :
    named' # named /\ Fork(i) /\ HasAssistant(Branch(entries, i)) /\ ~Damaged(disk[sessionFile]) =>
      /\ Unlabelled(entries') = Unlabelled(Branch(entries, i))
      /\ Labelled(entries') = Labelled(entries) \intersect Known(Unlabelled(entries'))
ForkCarriesEntries == [][Carried]_storeVars

\* runtime.fork: "Copy the branch up to ``entry_id`` into a new session and switch to it."
\* The branch that ends at the new session's leaf, labels aside, is the branch that was
\* copied.  Refuted: a branch nothing was answered on is never written, and the session
\* opened on its path is empty; an entry below a label names it as its parent, the copy
\* leaves the label out, and the walk from the leaf stops there.
ForkCopiesBranch ==
  [][\A i \in Ids :
        Fork(i) => Unlabelled(Branch(entries', leaf')) = Unlabelled(Branch(entries, i))]_storeVars
=============================================================================
