------------------------------- MODULE Editor -------------------------------
(***************************************************************************)
(* The multi-line editor (packages/tui/components, editor.py) with its     *)
(* kill ring and undo stack (packages/tui/editing) and what the            *)
(* interactive mode does with a submitted text: editing, wrapped lines,    *)
(* vertical movement with a sticky column, large pastes that a marker      *)
(* stands for, history.                                                    *)
(*                                                                         *)
(* The lines are one sequence of characters with NL between them, and the  *)
(* cursor is the number of characters before it.  A marker, "[paste #1     *)
(* +12 lines]", is two characters: the bracket and the rest, its tail.     *)
(* Tail and Long carry, beside the code's id, the number of the paste they *)
(* stand for, which only the properties look at.  The terminal is at least *)
(* as wide as a marker.  A jump is one step with the key it waits for.     *)
(***************************************************************************)
EXTENDS Integers, Sequences, SequencesExt, FiniteSetsExt, Functions

CONSTANTS
    Widths,         \* columns the terminal may have
    Starts,         \* what is written first: texts that end each in the next
    Past,           \* the history, and
    Killed,         \* the kill ring, of the messages before; their pastes have serial 0
    Drafts,         \* texts that are pasted as they are, or put in front of the text
    Kinds,          \* kinds of character that are typed
    MaxText,        \* bound: the length of the text
    MaxEdits        \* bound: changes of the text

ASSUME WidthsAssumption == Widths \subseteq Nat

VARIABLES
    draft, cursor,       \* _state; the cursor is Astray at a column before its line
    width,              \* _last_width
    preferred,          \* _preferred_visual_col
    snapped,            \* _snapped_from_cursor_col
    pastes,             \* _pastes: the paste behind each id; _paste_counter is its length
    ring,               \* _kill_ring
    lastAction,         \* _last_action
    undoStack,
    history, browsing,  \* _history; _history_index + 1, 0 for none
    edits,
    before,     \* history: the text before the run of kills, or the yank, just made
    aim,        \* history: the column where the present run of vertical moves began
    serial,     \* history: large pastes so far
    since,      \* history: those of earlier messages
    loose       \* history: a jump has gone into a marker

columnVars == <<preferred, snapped, aim>>
markerVars == <<pastes, serial, since>>
killVars == <<ring, lastAction, before>>
editorVars == <<draft, cursor, width, columnVars, markerVars, killVars, undoStack, history,
                browsing, edits, loose>>

NoColumn == -1
Astray == -1
Lost == -2      \* of aim: the column a vertical move starts from may be from before an edit

Char(kind) == [kind |-> kind, id |-> 0, serial |-> 0]
Space == Char("space")
Backslash == Char("backslash")
Open == Char("open")
NL == Char("newline")
MarkerTail(id, n) == [kind |-> "tail", id |-> id, serial |-> n]
Long(n) == [kind |-> "long", id |-> 0, serial |-> n]
TypedKinds == {"word", "space", "backslash", "open"}
Chars == [kind : TypedKinds \cup {"newline", "tail", "long"}, id : Nat, serial : Nat]
Texts == Seq(Chars)

ASSUME KindsAssumption == Kinds \subseteq TypedKinds
ASSUME TextsAssumption ==
    /\ Starts \subseteq Seq(Texts) \ {<<>>} /\ Drafts \subseteq Texts
    /\ Past \in Seq(Texts) /\ Killed \in Seq(Texts)

\* The markers in what is written first are whole and stand for pastes of its own, and no
\* other text has a paste of the message that is being written.
Tails(t) == {i \in DOMAIN t : t[i].kind = "tail"}
ASSUME PastesAssumption ==
    /\ \A t \in Range(Past) \cup Range(Killed) \cup Drafts : \A i \in Tails(t) : t[i].serial = 0
    /\ \A start \in Starts : \A n \in DOMAIN start : \A i \in Tails(start[n]) :
          /\ i > 1 /\ start[n][i - 1] = Open
          /\ {start[n][i].id, start[n][i].serial} \subseteq 1..Cardinality(Tails(Last(start)))

Class(c) == CASE c.kind = "space" -> "space"
              [] c.kind \in {"backslash", "open"} -> "punctuation"
              [] OTHER -> "word"

EditorInit ==
    /\ \E start \in Starts :
          /\ draft = Last(start)
          /\ undoStack = [n \in 1..(Len(start) - 1) |->
                             [text |-> start[n], cursor |-> Len(start[n])]]
    /\ cursor = Len(draft) /\ width \in Widths /\ preferred = NoColumn /\ snapped = NoColumn
    /\ serial = Cardinality(Tails(draft)) /\ since = 0
    /\ pastes = [id \in 1..serial |-> id]
    /\ ring = Killed /\ lastAction = "none" /\ before = <<>>
    /\ history = Past /\ browsing = 0
    /\ edits = 0 /\ aim = NoColumn /\ loose = FALSE

-----------------------------------------------------------------------------
(* Lines and segments.                                                       *)
\* The places where the lines of the text begin, and those of the line that holds place c.
LineStarts == {0} \cup {i \in DOMAIN draft : draft[i] = NL}
LineAt(c) == Max({l \in LineStarts : l <= c})
LineTo(c) == Min({Len(draft)} \cup {l - 1 : l \in {k \in LineStarts : k > c}})
LineStart == LineAt(cursor)
LineEnd == LineTo(cursor)

\* A marker is one segment if its id is known.
MarkerAt(i) ==
    /\ {i, i + 1} \subseteq DOMAIN draft
    /\ draft[i] = Open /\ draft[i + 1].kind = "tail" /\ draft[i + 1].id \in DOMAIN pastes
\* The length of the segment before, and after, the cursor.
Back == IF MarkerAt(cursor - 1) THEN 2 ELSE 1
Ahead == IF MarkerAt(cursor + 1) THEN 2 ELSE 1

-----------------------------------------------------------------------------
(* Wrapped lines, word_wrap_line and _build_visual_line_map.                 *)
\* One more segment, at place i and g wide: the breaks so far, the width since the last
\* of them and the last place to break at, with the width before it.
Wrap(s, i, g, end) ==
    LET over == s.width + g > width
        back == over /\ s.chance # NoColumn /\ s.width - s.chanceWidth + g <= width
        force == over /\ ~back /\ Last(s.breaks) < i
        used == g + (IF back THEN s.width - s.chanceWidth ELSE IF force THEN 0 ELSE s.width)
        next == i + g
        opens == draft[next] = Space /\ next < end /\ draft[next + 1] # Space
    IN  [breaks |-> IF back THEN Append(s.breaks, s.chance)
                    ELSE IF force THEN Append(s.breaks, i) ELSE s.breaks,
         width |-> used,
         chance |-> IF opens THEN next ELSE IF over THEN NoColumn ELSE s.chance,
         chanceWidth |-> IF opens THEN used ELSE s.chanceWidth]
\* A segment or, after its bracket, nothing is at place i of the line that ends at place end.
Segment(s, i, end) ==
    IF MarkerAt(i) THEN s ELSE Wrap(s, i, IF MarkerAt(i + 1) THEN 2 ELSE 1, end)
Unbroken(l) == [breaks |-> <<l>>, width |-> 0, chance |-> NoColumn, chanceWidth |-> 0]
Breaks(l) ==
    LET end == LineTo(l)
        wrap[n \in 0..(end - l)] ==
            IF n = 0 THEN Unbroken(l) ELSE Segment(wrap[n - 1], l + n - 1, end)
    IN  IF end - l <= width THEN <<l>> ELSE wrap[end - l].breaks
\* The visual lines of the line that begins at place l, and those of all lines.
Wrapped(l) ==
    LET breaks == Breaks(l)
        last(n) == n = Len(breaks)
    IN  [n \in DOMAIN breaks |->
            [line |-> l, start |-> breaks[n], last |-> last(n),
             length |-> (IF last(n) THEN LineTo(l) ELSE breaks[n + 1]) - breaks[n]]]
VisualLines ==
    LET lines[n \in 0..Len(draft)] ==
            IF n = 0 THEN Wrapped(0)
            ELSE lines[n - 1] \o (IF n \in LineStarts THEN Wrapped(n) ELSE <<>>)
    IN  lines[Len(draft)]

\* _find_visual_line_at: where column col of line l is.
FindLine(lines, l, col) ==
    LET offset(n) == l + col - lines[n].start
        holds == {n \in DOMAIN lines :
                     /\ lines[n].line = l /\ offset(n) >= 0
                     /\ \/ offset(n) < lines[n].length
                        \/ lines[n].last /\ offset(n) = lines[n].length}
    IN  IF holds = {} THEN Len(lines) ELSE Min(holds)
CurrentLine(lines) == FindLine(lines, LineStart, cursor - LineStart)
\* The last column the cursor takes on a visual line.
Furthest(l) == IF l.last \/ l.length = 0 THEN l.length ELSE l.length - 1

-----------------------------------------------------------------------------
(* Edits.                                                                    *)
\* _set_cursor_col.
Place(c) == cursor' = c /\ preferred' = NoColumn /\ snapped' = NoColumn /\ aim' = NoColumn
\* The column is left as it is, though the text or the lines change under it.
Unresolved == aim' = IF preferred = NoColumn /\ snapped = NoColumn THEN NoColumn ELSE Lost
Stay == UNCHANGED <<cursor, preferred, snapped>> /\ Unresolved

Here == [text |-> draft, cursor |-> cursor]
Snapshot == undoStack' = Append(undoStack, Here)
Spliced(c, more) == SubSeq(draft, 1, c) \o more \o SubSeq(draft, c + 1, Len(draft))
Without(from, to) == SubSeq(draft, 1, from) \o SubSeq(draft, to + 1, Len(draft))
\* A change of the text by n characters at most, after which no history is browsed.
Edit(n) ==
    /\ cursor # Astray /\ edits < MaxEdits /\ Len(draft) + n <= MaxText
    /\ edits' = edits + 1 /\ browsing' = 0
    /\ UNCHANGED <<width, history, loose>>
\* The last action is one that nothing is joined to.
Forgets == lastAction' = "none" /\ UNCHANGED <<ring, before>>

\* mutant of Coalesces: a space belongs to the word before it.
CoalescesSpace(c) == lastAction = "word"
Coalesces(c) == lastAction = "word" /\ c # Space
\* _insert_character.
Type(c) ==
    /\ Edit(1) /\ draft' = Spliced(cursor, <<c>>) /\ Place(cursor + 1)
    /\ IF Coalesces(c) THEN UNCHANGED undoStack ELSE Snapshot
    /\ lastAction' = "word" /\ UNCHANGED <<markerVars, ring, before>>
\* insert_text_at_cursor, _handle_paste and _add_new_line.
Insert(more) ==
    /\ Edit(Len(more)) /\ draft' = Spliced(cursor, more) /\ Place(cursor + Len(more))
    /\ Snapshot /\ Forgets
Paste(more) == Insert(more) /\ UNCHANGED markerVars
\* A paste of more than ten lines or a thousand characters.
PasteLong ==
    /\ Insert(<<Open, MarkerTail(Len(pastes) + 1, serial + 1)>>)
    /\ pastes' = Append(pastes, serial + 1) /\ serial' = serial + 1 /\ UNCHANGED since
\* A backslash in front of Enter: _handle_backspace, then _add_new_line.
BreakLine ==
    /\ Edit(0) /\ cursor > 0 /\ draft[cursor] = Backslash
    /\ draft' = [draft EXCEPT ![cursor] = NL] /\ Place(cursor)
    /\ undoStack' = undoStack \o <<Here, [text |-> Without(cursor - 1, cursor),
                                          cursor |-> cursor - 1]>>
    /\ Forgets /\ UNCHANGED markerVars
\* _apply_selected_completion, and the only completion of a Tab: here one character more.
ApplyCompletion(c) ==
    /\ cursor # Astray /\ edits < MaxEdits /\ Len(draft) < MaxText
    /\ draft' = Spliced(cursor, <<c>>) /\ Place(cursor + 1) /\ edits' = edits + 1
    /\ Snapshot /\ Forgets /\ UNCHANGED <<width, markerVars, history, browsing, loose>>

\* _handle_backspace.
Backspace ==
    /\ Edit(0) /\ cursor > 0
    /\ draft' = Without(cursor - Back, cursor) /\ Place(cursor - Back)
    /\ Snapshot /\ Forgets /\ UNCHANGED markerVars
\* _handle_forward_delete, which leaves the column as it is.
Delete ==
    /\ Edit(0) /\ cursor < Len(draft)
    /\ draft' = Without(cursor, cursor + Ahead) /\ Stay
    /\ Snapshot /\ Forgets /\ UNCHANGED markerVars

\* With nothing to take, an edit or an undo ends the browsing all the same.
NothingToTake ==
    /\ cursor # Astray /\ browsing' = 0
    /\ \/ cursor \in {0, Len(draft)} /\ Forgets
       \/ (cursor \in {0, Len(draft)} \/ undoStack = <<>>) /\ UNCHANGED killVars
    /\ UNCHANGED <<draft, cursor, width, columnVars, markerVars, undoStack, history, edits,
                   loose>>

-----------------------------------------------------------------------------
(* The kill ring.                                                            *)
\* mutant of Merged: a kill forward is put in front too.
MergedInFront(killed, prepend) == killed \o Last(ring)
Merged(killed, prepend) == IF prepend THEN killed \o Last(ring) ELSE Last(ring) \o killed
\* What is after place `from` and up to `to` is killed: KillRing.push.
Kill(from, to, prepend) ==
    LET killed == SubSeq(draft, from + 1, to)
        joins == lastAction = "kill"
    IN  /\ Edit(0) /\ draft' = Without(from, to) /\ Snapshot
        /\ ring' = IF joins THEN Append(Front(ring), Merged(killed, prepend))
                   ELSE Append(ring, killed)
        /\ before' = IF joins THEN before ELSE draft
        /\ lastAction' = "kill" /\ UNCHANGED markerVars

\* A run of segments of one class that are no markers, after place `from` up to `to`.
OneRun(from, to) ==
    /\ \A i, j \in (from + 1)..to : Class(draft[i]) = Class(draft[j])
    /\ \A i \in from..(to - 1) : ~MarkerAt(i)
\* Where _move_word_backwards and _move_word_forwards go.
WordBack ==
    LET stop == Min({i \in LineStart..cursor : \A j \in (i + 1)..cursor : draft[j] = Space})
    IN  IF cursor = LineStart THEN cursor - 1
        ELSE IF stop = LineStart THEN stop
        ELSE IF MarkerAt(stop - 1) THEN stop - 2
        ELSE Min({i \in LineStart..(stop - 1) : OneRun(i, stop)})
WordAhead ==
    LET stop == Max({i \in cursor..LineEnd : \A j \in (cursor + 1)..i : draft[j] = Space})
        run(to) == /\ \A i \in (stop + 1)..to : Class(draft[i]) = Class(draft[stop + 1])
                   /\ \A i \in (stop + 1)..to : ~MarkerAt(i)
    IN  IF cursor = LineEnd THEN cursor + 1
        ELSE IF stop = LineEnd THEN stop
        ELSE IF MarkerAt(stop + 1) THEN stop + 2
        ELSE Max({i \in (stop + 1)..LineEnd : run(i)})

KillBack ==
    /\ cursor > 0
    /\ \E from \in {WordBack, IF cursor > LineStart THEN LineStart ELSE cursor - 1} :
          Kill(from, cursor, TRUE) /\ Place(from)
KillLineAhead ==
    /\ cursor # Astray /\ cursor < Len(draft)
    /\ Kill(cursor, IF cursor < LineEnd THEN LineEnd ELSE cursor + 1, FALSE) /\ Stay
KillWordAhead ==
    /\ cursor # Astray /\ cursor < Len(draft)
    /\ Kill(cursor, WordAhead, FALSE)
    /\ IF cursor < LineEnd THEN Place(cursor) ELSE Stay

Yank ==
    /\ ring # <<>> /\ Edit(Len(Last(ring)))
    /\ draft' = Spliced(cursor, Last(ring)) /\ Place(cursor + Len(Last(ring)))
    /\ Snapshot /\ lastAction' = "yank" /\ before' = draft /\ UNCHANGED <<ring, markerVars>>
Rotated == <<Last(ring)>> \o Front(ring)
\* What the last yank put there gives way to the entry before it.
YankPop ==
    /\ lastAction = "yank" /\ Len(ring) > 1
    /\ LET from == cursor - Len(Last(ring))
           next == Last(Front(ring))
       IN  /\ Edit(Len(next))
           /\ draft' = SubSeq(draft, 1, from) \o next \o SubSeq(draft, cursor + 1, Len(draft))
           /\ Place(from + Len(next))
    /\ ring' = Rotated /\ Snapshot /\ UNCHANGED <<lastAction, before, markerVars>>

-----------------------------------------------------------------------------
(* Undo, history and submission.                                             *)
Undo ==
    /\ undoStack # <<>> /\ cursor # Astray
    /\ draft' = Last(undoStack).text /\ cursor' = Last(undoStack).cursor
    /\ undoStack' = Front(undoStack) /\ preferred' = NoColumn /\ browsing' = 0
    /\ aim' = IF snapped = NoColumn /\ cursor' # Astray THEN NoColumn ELSE Lost
    /\ Forgets /\ UNCHANGED <<snapped, width, markerVars, history, edits, loose>>
\* set_text.
SetText(t) ==
    /\ edits < MaxEdits /\ Len(t) <= MaxText /\ edits' = edits + 1
    /\ draft' = t /\ Place(Len(t)) /\ browsing' = 0
    /\ IF t # draft THEN Snapshot ELSE UNCHANGED undoStack
    /\ Forgets /\ UNCHANGED <<width, markerVars, history, loose>>
Stripped(t) ==
    LET kept == {i \in DOMAIN t : t[i] \notin {Space, NL}}
    IN  IF kept = {} THEN <<>> ELSE SubSeq(t, Min(kept), Max(kept))
\* Queued messages that an abort gives back, in front of what was being written.
GiveBack(queued) ==
    SetText(IF Stripped(draft) = <<>> THEN queued ELSE queued \o <<NL, NL>> \o draft)

\* _navigate_history, which stops at either end.
Browse(n) ==
    /\ edits < MaxEdits
    /\ IF n \in 0..Len(history)
       THEN /\ browsing' = n /\ draft' = IF n = 0 THEN <<>> ELSE history[n]
            /\ Place(Len(draft'))
            /\ IF browsing = 0 THEN Snapshot /\ edits' = edits + 1
                                ELSE UNCHANGED <<undoStack, edits>>
       ELSE UNCHANGED <<draft, cursor, columnVars, undoStack, browsing, edits>>
    /\ Forgets /\ UNCHANGED <<width, markerVars, history, loose>>

\* _expand_paste_markers.
Expanded ==
    FlattenSeq([i \in DOMAIN draft |->
        IF MarkerAt(i) THEN <<>>
        ELSE IF MarkerAt(i - 1) THEN <<Long(pastes[draft[i].id])>> ELSE <<draft[i]>>])
\* _submit_value and, for a prompt, handle_submit; the column is left as it is.
Submit ==
    LET sent == Stripped(Expanded)
    IN  /\ cursor # Astray /\ ~(cursor > 0 /\ draft[cursor] = Backslash)
        /\ edits < MaxEdits /\ edits' = edits + 1
        /\ history' = IF sent = <<>> \/ (history # <<>> /\ history[1] = sent) THEN history
                      ELSE <<sent>> \o history
        /\ draft' = <<>> /\ cursor' = 0 /\ UNCHANGED <<preferred, snapped>> /\ Unresolved
        /\ pastes' = <<>> /\ since' = serial
        /\ undoStack' = <<>> /\ browsing' = 0
        /\ Forgets /\ UNCHANGED <<width, serial, loose>>

-----------------------------------------------------------------------------
(* Moves.                                                                    *)
Moved == Forgets /\ UNCHANGED <<draft, width, markerVars, undoStack, history, browsing, edits>>
Go(c) == c \in 0..Len(draft) /\ Place(c) /\ UNCHANGED loose /\ Moved
Step ==
    /\ cursor # Astray
    /\ Go(cursor - Back) \/ Go(cursor + Ahead) \/ Go(WordBack) \/ Go(WordAhead)
          \/ Go(LineStart) \/ Go(LineEnd)
\* A step to the right of all text, which fixes the column for vertical moves.
StepAtEnd ==
    LET lines == VisualLines
    IN  /\ cursor = Len(draft)
        /\ preferred' = cursor - lines[CurrentLine(lines)].start
        /\ aim' = IF snapped = NoColumn THEN NoColumn ELSE Lost
        /\ Moved /\ UNCHANGED <<cursor, snapped, loose>>
\* _jump_to_char: to the next, or the last, character of a kind.
Jump(kind) ==
    LET at == {p \in 0..(Len(draft) - 1) : draft[p + 1].kind = kind}
        next == {p \in at : p > cursor}
        previous == {p \in at : p < cursor \/ (p = cursor /\ p = LineStart)}
    IN  /\ cursor # Astray
        /\ \E p \in (IF next = {} THEN {} ELSE {Min(next)})
                        \cup (IF previous = {} THEN {} ELSE {Max(previous)}) :
              Place(p) /\ loose' = (loose \/ MarkerAt(p))
        /\ Moved

\* mutant of Column: a move up or down starts from the place a marker drew the cursor to.
ColumnAtMarker(lines) == cursor - lines[CurrentLine(lines)].start
\* The column a vertical move starts from.
Column(lines) ==
    IF snapped = NoColumn THEN cursor - lines[CurrentLine(lines)].start
    ELSE LET held == lines[FindLine(lines, LineStart, snapped)]
         IN  snapped - (held.start - held.line)
\* _move_to_visual_line and _compute_vertical_move_column.
Vertical(lines, target) ==
    LET goal == lines[target]
        column == Column(lines)
        middle == column < Furthest(lines[CurrentLine(lines)])
        short == Furthest(goal) < column
        fresh == preferred = NoColumn \/ middle
        clamped == IF fresh THEN short ELSE short \/ Furthest(goal) < preferred
        found == goal.start + (IF clamped THEN Furthest(goal)
                               ELSE IF fresh THEN column ELSE preferred)
    IN  /\ preferred' = IF clamped THEN (IF fresh THEN column ELSE preferred) ELSE NoColumn
        /\ \E place \in {Min({found, LineTo(goal.line)})} :
              /\ cursor' = IF place < goal.line THEN Astray
                           ELSE IF MarkerAt(place) THEN place - 1 ELSE place
              /\ snapped' = IF place >= goal.line /\ (MarkerAt(place) \/ MarkerAt(place + 1))
                            THEN place - goal.line ELSE NoColumn
        /\ aim' = IF aim = NoColumn THEN column ELSE aim
        /\ UNCHANGED loose /\ Moved
Page == 5
UpOrDown ==
    LET lines == VisualLines
        n == CurrentLine(lines)
    IN  /\ cursor # Astray
        /\ \/ IF draft = <<>> \/ (browsing > 0 /\ n = 1) THEN Browse(browsing + 1)
              ELSE IF n = 1 THEN Go(LineStart) ELSE Vertical(lines, n - 1)
           \/ IF browsing > 0 /\ n = Len(lines) THEN Browse(browsing - 1)
              ELSE IF n = Len(lines) THEN Go(LineEnd) ELSE Vertical(lines, n + 1)
           \/ Vertical(lines, Max({1, n - Page}))
           \/ Vertical(lines, Min({Len(lines), n + Page}))
\* A frame of another width.
Resize ==
    /\ cursor # Astray /\ width' \in Widths \ {width} /\ Unresolved
    /\ UNCHANGED <<draft, cursor, preferred, snapped, markerVars, killVars, undoStack, history,
                   browsing, edits, loose>>

EditorNext ==
    \/ \E kind \in Kinds : Type(Char(kind)) \/ ApplyCompletion(Char(kind))
    \/ Paste(<<NL>>)
    \/ \E d \in Drafts : Paste(d) \/ GiveBack(d)
    \/ PasteLong \/ BreakLine \/ SetText(<<>>)
    \/ Backspace \/ Delete \/ NothingToTake \/ KillBack \/ KillLineAhead \/ KillWordAhead
    \/ Yank \/ YankPop \/ Undo \/ Submit
    \/ Step \/ StepAtEnd \/ \E kind \in {"word", "space", "tail"} : Jump(kind)
    \/ UpOrDown \/ Resize

EditorSpec == EditorInit /\ [][EditorNext]_editorVars

-----------------------------------------------------------------------------
\* Put back where it was taken from, what a run of kills took restores the text before it;
\* and after a yank, or any number of yank-pops, the text is the one before the yank with
\* one entry of the ring in it.  (Whatever moves the cursor or changes the text must end
\* the run, or a kill is joined, and a yank replaced, at the wrong place.)
RingRestores ==
    /\ lastAction = "kill" => Spliced(cursor, Last(ring)) = before
    /\ lastAction = "yank" =>
          LET from == cursor - Len(Last(ring))
          IN  /\ SubSeq(draft, from + 1, cursor) = Last(ring)
              /\ Without(from, cursor) = before

\* No text is replaced that an undo does not bring back, other than one taken from the
\* history; and an undo after typing takes one word with the space before it.
Undoable ==
    /\ draft' # draft /\ ~Undo /\ ~Submit /\ browsing = 0 =>
          \/ Here \in Range(undoStack')
          \/ lastAction = "word" /\ lastAction' = "word" /\ IsPrefix(undoStack, undoStack')
    /\ Undo /\ lastAction = "word" =>
          LET typed == SubSeq(draft, cursor' + 1, cursor)
          IN  /\ Without(cursor', cursor) = draft'
              /\ \A i \in 2..Len(typed) : typed[i] # Space
EditsCanBeUndone == [][Undoable]_editorVars

\* The cursor is in the text and in no marker of the message being written, and while it
\* goes up and down it keeps the column it started from, as far as the lines are long
\* enough.  Excepted are a jump to a character of a marker, a vertical move whose column is
\* from before an edit, which may leave the line on its left, and an undo that brings such a
\* cursor back.
CursorInPlace ==
    /\ cursor = Astray => aim = Lost
    /\ cursor # Astray /\ MarkerAt(cursor) /\ draft[cursor + 1].serial > since => loose
    /\ aim >= 0 =>
          LET lines == VisualLines
              place == IF snapped = NoColumn THEN cursor ELSE LineStart + snapped
              line == lines[FindLine(lines, LineStart, place - LineStart)]
          IN  place - line.start = Min({aim, Furthest(line)})
=============================================================================
