------------------------------- MODULE Renderer -------------------------------
(***************************************************************************)
(* The differential renderer of the terminal UI (packages/tui/render): the *)
(* root flattens its children into one list of lines, patching the list of *)
(* the last frame where it can, and a frame writes to the terminal only    *)
(* what changed, by relative cursor moves.  Nothing is ever read back: the *)
(* renderer is right as long as its idea of the screen (previous lines,    *)
(* viewport top, row of the hardware cursor) agrees with the screen.       *)
(*                                                                         *)
(* A frame is one action: it runs without a suspension point.  Rows count  *)
(* from 0, as in the code; columns are left out, except that a change of   *)
(* the width is seen.  Images and Termux are left out.                     *)
(***************************************************************************)
EXTENDS Integers, Sequences, SequencesExt

CONSTANTS
    Bodies,       \* what a child of the root may render: sequences of lines
    Editors,      \* what the child that holds the focus may render
    MaxChildren,  \* bound: children before the editor
    Widths, Heights,  \* sizes of the terminal
    OverlayRows,  \* rows an overlay may be anchored to
    OverlayText, ShellText,
    None

VARIABLES
    \* the component tree
    children,     \* Container.children: what each renders; the editor is the last
    overlay,      \* _overlay_stack, cut down to one entry
    \* the terminal
    width, height,
    term,         \* the rows on the screen and the row of its cursor
    \* TUI
    previousLines, previousWidth, previousHeight,
    flatCache,    \* _flat_cache: the width and the children's lines
    flatLines,    \* _flat_lines
    lastCursor,   \* _last_cursor_pos: the row
    hasCursor,    \* _has_cursor_pos
    hardwareRow,  \* _hardware_cursor_row
    viewportTop,  \* _previous_viewport_top
    maxLines,     \* _max_lines_rendered
    clearOnShrink,
    sunk          \* history: the cursor was sent below the last row, where it stops

treeVars   == <<children, overlay>>
bookVars   == <<previousLines, previousWidth, previousHeight, flatCache, flatLines,
                lastCursor, hasCursor, hardwareRow, viewportTop, maxLines>>
rendererVars == <<treeVars, width, height, term, bookVars, clearOnShrink, sunk>>

\* A line is its text and whether it carries CURSOR_MARKER, which takes no room.
Line(t)   == [text |-> t, marker |-> FALSE]
Marked(t) == [text |-> t, marker |-> TRUE]
Blank     == Line("")
At(lines, row) == IF row < Len(lines) THEN lines[row + 1] ELSE Blank

Larger(a, b)  == IF a > b THEN a ELSE b
Smaller(a, b) == IF a < b THEN a ELSE b
Lowest(S)  == CHOOSE x \in S : \A y \in S : x <= y
Highest(S) == CHOOSE x \in S : \A y \in S : x >= y

-----------------------------------------------------------------------------
(* The terminal: cursor moves stop at the edges, a line feed on the last row *)
(* scrolls.                                                                  *)
Down(t, n)  == [t EXCEPT !.cursor = Smaller(@ + n, Len(t.rows) - 1)]
Up(t, n)    == [t EXCEPT !.cursor = Larger(@ - n, 0)]
Move(t, n)  == IF n >= 0 THEN Down(t, n) ELSE Up(t, -n)
LineFeed(t) == IF t.cursor < Len(t.rows) - 1 THEN Down(t, 1)
               ELSE [t EXCEPT !.rows = Append(Tail(@), "")]
Put(t, text) == [t EXCEPT !.rows[t.cursor + 1] = text]
Cleared(h)  == [rows |-> [i \in 1..h |-> ""], cursor |-> 0]

LineFeeds(t, n) == FoldLeft(LAMBDA s, i : LineFeed(s), t, [i \in 1..n |-> i])
\* Lines `from` to `to`, separated by line feeds.
WriteRows(t, lines, from, to) ==
    FoldLeft(LAMBDA s, i : Put(IF i = 1 THEN s ELSE LineFeed(s), At(lines, from + i - 1).text),
             t, [i \in 1..(to - from + 1) |-> i])
\* n rows cleared, each after a line feed, and back.
ClearBelow(t, n) ==
    Up(FoldLeft(LAMBDA s, i : Put(LineFeed(s), ""), t, [i \in 1..n |-> i]), n)
\* The same with cursor moves, which do not scroll.
ClearDown(t, n) ==
    Up(FoldLeft(LAMBDA s, i : Put(IF i = 1 THEN s ELSE Down(s, 1), ""),
                Down(t, 1), [i \in 1..n |-> i]), n)

-----------------------------------------------------------------------------
(* TUI.render: the children's lines in one list, with the rows that changed. *)
Flat(lists) == FlattenSeq(lists)
Offset(lists, i) == Len(Flat(SubSeq(lists, 1, i - 1)))

CacheUsable == /\ overlay = None
               /\ flatCache # None
               /\ flatCache.width = width
               /\ Len(flatCache.refs) = Len(children)

CommonPrefixWhole(r, old) == Smaller(Len(r), Len(old))  \* mutant: only lengths compared
CommonPrefix(r, old) ==
    Highest({p \in 0..Smaller(Len(r), Len(old)) : \A k \in 1..p : r[k] = old[k]})

\* One child's turn: a child of the same length is patched row by row, any other
\* is spliced in behind the lines it kept.  A cached cursor row below a splice
\* shifts with it; one that was overwritten has to be looked for again.
PatchChild(acc, i) ==
    LET r == children[i]
        old == flatCache.refs[i]
        off == Offset(flatCache.refs, i) + acc.delta
        changed == {k \in 1..Len(r) : r[k] # old[k]}
        p == CommonPrefix(r, old)
        below == acc.cursor # None /\ acc.cursor >= off + Len(old)
        inside == acc.cursor # None /\ ~below /\ acc.cursor >= off + p
    IN
    IF r = old THEN acc
    ELSE IF Len(r) = Len(old) THEN
        [acc EXCEPT
            !.flat = [j \in DOMAIN @ |-> IF j - off \in changed THEN r[j - off] ELSE @[j]],
            !.dirty = @ \cup {off + k - 1 : k \in changed},
            !.lost = @ \/ \E k \in changed : acc.cursor = off + k - 1 \/ r[k].marker]
    ELSE
        [acc EXCEPT
            !.flat = SubSeq(@, 1, off + p) \o SubSeq(r, p + 1, Len(r))
                     \o SubSeq(@, off + Len(old) + 1, Len(@)),
            !.dirty = @ \cup {off + p},
            !.spliced = TRUE,
            !.cursor = IF below THEN @ + Len(r) - Len(old) ELSE @,
            !.lost = @ \/ inside \/ \E k \in (p + 1)..Len(r) : r[k].marker,
            !.delta = @ + Len(r) - Len(old)]
Patched == FoldLeft(PatchChild,
                    [flat |-> flatLines, dirty |-> {}, delta |-> 0, spliced |-> FALSE,
                     cursor |-> lastCursor, lost |-> FALSE],
                    [i \in 1..Len(children) |-> i])

\* What render() returns: the lines, how they relate to the last frame ("full"
\* if unknown), the dirty rows, the cached cursor row and whether it was lost.
Rendered ==
    IF CacheUsable
    THEN LET p == Patched
             high == IF p.spliced THEN Larger(Len(flatLines), Len(p.flat)) - 1
                                  ELSE Highest(p.dirty)
         IN [lines |-> p.flat, cursor |-> p.cursor, lost |-> p.lost,
             patch |-> IF p.dirty = {} THEN "none" ELSE "rows",
             dirty |-> IF p.dirty = {} THEN {} ELSE {Lowest(p.dirty), high}]
    ELSE [lines |-> Flat(children), cursor |-> lastCursor, lost |-> FALSE,
          patch |-> "full", dirty |-> {}]

\* _composite_overlays: the lines padded to the height of the terminal, and the
\* overlay's line over the one it is anchored to, counted from the viewport.
Composited(lines) ==
    LET row  == Smaller(overlay.row, height - 1)
        need == Highest({Len(lines), height, IF overlay.hidden THEN 0 ELSE row + 1})
        index == need - height + row
    IN [j \in 1..need |-> IF ~overlay.hidden /\ j = index + 1 THEN Line(OverlayText)
                          ELSE At(lines, j - 1)]

\* _extract_cursor_position: the lowest marker in the viewport.
MarkerRows(lines) == {row \in Larger(0, Len(lines) - height)..(Len(lines) - 1) :
                        At(lines, row).marker}
Found(lines) == IF MarkerRows(lines) = {} THEN None ELSE Highest(MarkerRows(lines))
Stripped(lines, row) == IF row = None THEN lines
                        ELSE [lines EXCEPT ![row + 1].marker = FALSE]

-----------------------------------------------------------------------------
(* The part of a frame that precedes the writing: the lines to show, without *)
(* the marker, and the cursor's row.                                         *)
CachedCursor(r) ==
    /\ r.patch # "full" /\ hasCursor
    /\ (r.cursor # None /\ ~r.lost) \/ r.patch = "none"
Frame0 ==
    LET r == Rendered
        lines == IF overlay = None THEN r.lines ELSE Composited(r.lines)
        cursor == IF CachedCursor(r) THEN r.cursor ELSE Found(lines)
    IN [lines |-> IF CachedCursor(r) THEN lines ELSE Stripped(lines, cursor),
        cursor |-> cursor, patch |-> r.patch, dirty |-> r.dirty]

\* The rows that differ from the last frame's, and how many lines that had.
PreviousCount(f) == IF f.patch = "full" THEN Len(previousLines)
                    ELSE IF f.patch = "none" THEN Len(f.lines) ELSE Len(flatLines)
Differing(f) ==
    IF f.patch # "full" THEN f.dirty
    ELSE {row \in 0..(Larger(Len(f.lines), Len(previousLines)) - 1) :
            At(f.lines, row) # At(previousLines, row)}
Appended(f) == Len(f.lines) > PreviousCount(f)
\* When no row differs, what was appended is blank and begins there.
FirstChanged(f) == IF Differing(f) = {} THEN PreviousCount(f) ELSE Lowest(Differing(f))
LastChanged(f)  == IF Appended(f) THEN Len(f.lines) - 1 ELSE Highest(Differing(f))
Unchanged(f)    == Differing(f) = {} /\ ~Appended(f)

\* _position_hardware_cursor: what becomes of the terminal and the tracked row.
Placed(t, row, f) ==
    IF f.cursor = None THEN [term |-> t, row |-> row]
    ELSE LET target == Larger(0, Smaller(f.cursor, Len(f.lines) - 1))
         IN [term |-> Move(t, target - row), row |-> target]

\* The bookkeeping of a frame that wrote `t` and left the cursor at `row`.
Commit(f, t, row, top, max) ==
    LET placed == Placed(t, row, f) IN
    /\ term' = placed.term /\ hardwareRow' = placed.row
    /\ viewportTop' = top /\ maxLines' = max
    /\ previousLines' = f.lines
    /\ previousWidth' = width /\ previousHeight' = height

FullRender(f, clear) ==
    /\ sunk' = (sunk /\ ~clear)
    /\ LET t == WriteRows(IF clear THEN Cleared(height) ELSE term, f.lines, 0, Len(f.lines) - 1)
       IN Commit(f, t, Larger(0, Len(f.lines) - 1), Larger(height, Len(f.lines)) - height,
                 IF clear THEN Len(f.lines) ELSE Larger(maxLines, Len(f.lines)))

WidthChanged  == previousWidth # 0 /\ previousWidth # width
HeightChanged == previousHeight # 0 /\ previousHeight # height
\* Not reached with a changed height, which redraws everything.
First(f) == previousLines = <<>> /\ ~WidthChanged /\ ~HeightChanged
Redraw(f) ==
    \/ WidthChanged \/ HeightChanged
    \/ clearOnShrink /\ Len(f.lines) < maxLines /\ overlay = None

\* Only lines at the end went: they are cleared, nothing is written.
OnlyDeleted(f) == ~Unchanged(f) /\ FirstChanged(f) >= Len(f.lines)
ClearDeleted(f) ==
    LET target == Larger(0, Len(f.lines) - 1)
        extra == PreviousCount(f) - Len(f.lines)
    IN IF target < viewportTop \/ extra > height THEN FullRender(f, TRUE)
       ELSE /\ Commit(f, ClearDown(Move(term, target - hardwareRow), extra), target,
                      viewportTop, maxLines)
            /\ UNCHANGED sunk

\* The changed rows are rewritten and what is left over below is cleared.  A row
\* below the screen is scrolled to first; lines that were appended are reached
\* from the last line by a line feed.
WriteChanged(f) ==
    LET first == FirstChanged(f)
        count == PreviousCount(f)
        appending == Appended(f) /\ first = count /\ first > 0
        target == IF appending THEN first - 1 ELSE first
        bottom == viewportTop + height - 1
        onScreen == Larger(0, Smaller(height - 1, hardwareRow - viewportTop))
        scroll == Larger(0, target - bottom)
        reached == IF scroll > 0
                   THEN LineFeeds(Down(term, height - 1 - onScreen), scroll)
                   ELSE Move(term, target - hardwareRow)
        last == Smaller(LastChanged(f), Len(f.lines) - 1)
        written == WriteRows(IF appending THEN LineFeed(reached) ELSE reached,
                             f.lines, first, last)
        end == IF count > Len(f.lines) THEN Len(f.lines) - 1 ELSE last
    IN IF first < viewportTop THEN FullRender(f, TRUE)
       ELSE /\ Commit(f, ClearBelow(Down(written, end - last), Larger(0, count - Len(f.lines))),
                      end, Larger(viewportTop + scroll, end - height + 1),
                      Larger(maxLines, Len(f.lines)))
            /\ sunk' = (sunk \/ (scroll = 0 /\ term.cursor + target - hardwareRow >= height))

\* Nothing to write; the cursor may have moved.
MoveCursor(f) ==
    /\ term' = Placed(term, hardwareRow, f).term
    /\ hardwareRow' = Placed(term, hardwareRow, f).row
    /\ previousHeight' = height
    /\ UNCHANGED <<viewportTop, maxLines, previousLines, previousWidth, sunk>>

\* _do_render.
Frame ==
    /\ UNCHANGED <<treeVars, width, height, clearOnShrink>>
    /\ flatCache' = IF overlay = None THEN [width |-> width, refs |-> children] ELSE None
    /\ hasCursor' = TRUE
    /\ \E f \in {Frame0} :
          /\ flatLines' = IF overlay = None THEN f.lines ELSE <<>>
          /\ lastCursor' = f.cursor
          /\ \/ First(f) /\ FullRender(f, FALSE)
             \/ ~First(f) /\ Redraw(f) /\ FullRender(f, TRUE)
             \/ ~First(f) /\ ~Redraw(f) /\ Unchanged(f) /\ MoveCursor(f)
             \/ ~First(f) /\ ~Redraw(f) /\ OnlyDeleted(f) /\ ClearDeleted(f)
             \/ ~First(f) /\ ~Redraw(f) /\ ~Unchanged(f) /\ ~OnlyDeleted(f) /\ WriteChanged(f)

-----------------------------------------------------------------------------
(* What happens between frames.                                             *)
Rerender(i, lines) ==
    /\ lines # children[i]
    /\ children' = [children EXCEPT ![i] = lines]
    /\ UNCHANGED <<overlay, width, height, term, bookVars, clearOnShrink, sunk>>

AddChild(lines) ==
    /\ Len(children) <= MaxChildren
    /\ children' = <<lines>> \o children
    /\ UNCHANGED <<overlay, width, height, term, bookVars, clearOnShrink, sunk>>

RemoveChild ==
    /\ Len(children) > 1
    /\ children' = Tail(children)
    /\ UNCHANGED <<overlay, width, height, term, bookVars, clearOnShrink, sunk>>

ShowOverlay(row) ==
    /\ overlay = None
    /\ overlay' = [row |-> row, hidden |-> FALSE]
    /\ UNCHANGED <<children, width, height, term, bookVars, clearOnShrink, sunk>>

SetHidden ==
    /\ overlay # None
    /\ overlay' = [overlay EXCEPT !.hidden = ~@]
    /\ UNCHANGED <<children, width, height, term, bookVars, clearOnShrink, sunk>>

HideOverlay ==
    /\ overlay # None
    /\ overlay' = None
    /\ UNCHANGED <<children, width, height, term, bookVars, clearOnShrink, sunk>>

\* What a terminal makes of its rows when it is resized is its own affair.  (A
\* size that changes and changes back before a frame would go unnoticed; the
\* model lets a frame see every size.)
Resize(w, h) ==
    /\ <<w, h>> # <<width, height>>
    /\ previousWidth = width /\ previousHeight = height
    /\ width' = w /\ height' = h
    /\ term' = [rows |-> [i \in 1..h |-> ShellText], cursor |-> h - 1]
    /\ UNCHANGED <<treeVars, bookVars, clearOnShrink, sunk>>

\* request_render(force=True): the next frame redraws everything.
Force ==
    /\ previousWidth # -1
    /\ previousLines' = <<>> /\ previousWidth' = -1 /\ previousHeight' = -1
    /\ hardwareRow' = 0 /\ maxLines' = 0 /\ viewportTop' = 0
    /\ UNCHANGED <<treeVars, width, height, term, flatCache, flatLines, lastCursor,
                   hasCursor, clearOnShrink, sunk>>

RendererInit ==
    /\ children \in {<<e>> : e \in Editors}
    /\ overlay = None
    /\ width \in Widths /\ height \in Heights
    \* the program starts below what the shell has written
    /\ \E row \in 0..(height - 1) :
          term = [rows |-> [i \in 1..height |-> IF i <= row THEN ShellText ELSE ""],
                  cursor |-> row]
    /\ previousLines = <<>> /\ previousWidth = 0 /\ previousHeight = 0
    /\ flatCache = None /\ flatLines = <<>> /\ lastCursor = None /\ hasCursor = FALSE
    /\ hardwareRow = 0 /\ viewportTop = 0 /\ maxLines = 0
    /\ clearOnShrink \in BOOLEAN /\ sunk = FALSE

RendererNext ==
    \/ Frame
    \/ \E i \in 1..(Len(children) - 1), b \in Bodies : Rerender(i, b)
    \/ \E e \in Editors : Rerender(Len(children), e)
    \/ (\E b \in Bodies : AddChild(b)) \/ RemoveChild
    \/ (\E row \in OverlayRows : ShowOverlay(row)) \/ SetHidden \/ HideOverlay
    \/ \E w \in Widths, h \in Heights : Resize(w, h)
    \/ Force

RendererSpec == RendererInit /\ [][RendererNext]_rendererVars

-----------------------------------------------------------------------------
(* Properties                                                               *)
Shown == IF overlay = None THEN Flat(children) ELSE Composited(Flat(children))

\* Where the first line of the content is on the screen: negative once it has
\* been scrolled away.
Origin == term.cursor - hardwareRow

\* Each row of the screen shows the line of the content that belongs there, the last
\* line of the content is on it, and below it everything is blank.
ScreenShows == \A lines \in {Shown} :
    /\ Origin + Len(lines) - 1 \in 0..(height - 1)
    /\ \A r \in 0..(height - 1) :
          r >= Origin => term.rows[r + 1] = At(lines, r - Origin).text
\* The terminal's cursor is on the row of the marker that the focused component left.
CursorPlaced == \A row \in {Found(Shown)} : row # None => Origin + row = term.cursor
\* The row the renderer takes for the top of the screen is the top, but for the rows
\* above the content that the shell still owns.
ViewportTracked == viewportTop = Larger(0, -Origin)

\* After every frame, however it was put on the screen (patched, spliced, cleared,
\* scrolled, redrawn after a resize, or drawn below what the shell had written), the
\* terminal shows the content, its cursor is where the marker is, and what the next
\* frame will count its rows from is where the terminal's screen begins.  The exception,
\* until a frame clears the screen: an overlay lower than the content is reached by a
\* cursor move, which ends at the bottom where the content began below the top, so the
\* padding that should give the overlay its place on the screen does not
\* (_composite_overlays, and the move of _do_render).
EveryFrameShowsContent ==
    [][Frame /\ ~sunk' => ScreenShows' /\ CursorPlaced' /\ ViewportTracked']_rendererVars
=============================================================================
