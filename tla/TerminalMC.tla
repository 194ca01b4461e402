----------------------------- MODULE TerminalMC -----------------------------
(***************************************************************************)
(* What the user sees and types, and a command of the user: the parts      *)
(* that share no state with one another, side by side, on small instances. *)
(* A behaviour runs one of them, `part`, and the others rest.              *)
(***************************************************************************)
EXTENDS Overlays, FooterBranch, Completion, StdinBuffer, ShellOutput, Editor, TLC

CONSTANTS
    o1, o2, o3                          \* overlays

VARIABLES
    part,
    \* Renderer
    children, overlay, columns, height, term, previousLines, previousWidth, previousHeight,
    flatCache, flatLines, lastCursor, hasCursor, hardwareRow, viewportTop, maxLines,
    clearOnShrink, sunk,
    \* RenderLoop
    stale, requested, timer, ready, asleep, offLoop, stopped, frame

-----------------------------------------------------------------------------
(* The instances.                                                           *)
Text(t) == [text |-> t, marker |-> FALSE]
Cursor(t) == [text |-> t, marker |-> TRUE]
Screen == INSTANCE Renderer WITH
    Bodies <- {<<Text("b"), Text("")>>, <<Text("a"), Text("a"), Text("b")>>},
    Editors <- {<<Cursor("e")>>, <<Cursor("e"), Text("f")>>, <<Text("e")>>},
    MaxChildren <- 1, Widths <- {1}, Heights <- {2, 3}, OverlayRows <- {2},
    OverlayText <- "o", ShellText <- "$", width <- columns

Frames == INSTANCE RenderLoop WITH MaxReady <- 3

\* Two of these, one after the other.
Gestures == {<<CharA>>, <<ESC>>, <<ESC, Bracket>>, <<ESC, Bracket, CharA>>,
             <<ESC, Bracket, KittyA>>, <<ESC, Bracket, PasteOn, Pasted, ESC, Bracket, PasteOff>>}
MCInputs == {i \in {a \o b : a, b \in Gestures} : Len(i) <= 8}

\* A small screen, with markers of pastes that wrap; and a wide one where text is killed
\* and yanked, with a marker from an earlier message in the kill ring.
Key(kind) == [kind |-> kind, id |-> 0, serial |-> 0]
Marker(n) == <<Key("open"), [kind |-> "tail", id |-> 1, serial |-> n]>>
Word == <<Key("word")>>
Moves == INSTANCE Editor WITH
    Widths <- {2, 3}, Past <- <<Word>>, Killed <- <<>>, Drafts <- {Word}, Kinds <- {"word"},
    Starts <- {<<<<>>, Word>>, <<Word \o Marker(1)>>, <<<<>>, Word \o <<Key("backslash")>>>>,
               <<Word \o Marker(1) \o <<Key("newline")>> \o Word \o Word \o Word \o Word \o Word>>},
    MaxText <- 9, MaxEdits <- 1
MCStarts == {<<<<>>, Word>>}
MCPast == <<>>
MCKilled == <<Marker(0)>>

\* No path, the name of a command, one with an argument, an @, and an @ with a letter after.
MCOffered == (FALSE :> ("path" :> 0 @@ "slash" :> 2 @@ "slash x" :> 0 @@ "at" :> 1 @@ "at x" :> 0))
             @@ (TRUE :> ("path" :> 1 @@ "slash" :> 0 @@ "slash x" :> 2 @@ "at" :> 1 @@ "at x" :> 2))

MCOutputs == {[out |-> <<<<"x", "lead">>, <<"cont", "x", "bad">>, <<"x">>>>, err |-> <<>>],
              [out |-> <<<<"x", "x">>>>, err |-> <<>>],
              [out |-> <<<<"x">>>>, err |-> <<<<"x", "x">>>>]}

-----------------------------------------------------------------------------
PartsInit ==
    /\ part \in {"screen", "frames", "input", "focus", "footer", "moves", "kills", "menu", "shell"}
    /\ IF part = "screen" THEN Screen!RendererInit ELSE
          /\ children = None /\ overlay = None /\ columns = None /\ height = None /\ term = None
          /\ previousLines = None /\ previousWidth = None /\ previousHeight = None
          /\ flatCache = None /\ flatLines = None /\ lastCursor = None /\ hasCursor = None
          /\ hardwareRow = None /\ viewportTop = None /\ maxLines = None
          /\ clearOnShrink = None /\ sunk = None
    /\ IF part = "frames" THEN Frames!RenderLoopInit ELSE
          /\ stale = {} /\ requested = FALSE /\ timer = FALSE /\ ready = <<>>
          /\ asleep = TRUE /\ offLoop = FALSE /\ stopped = TRUE /\ frame = 0
    /\ IF part = "input" THEN StdinInit ELSE
          /\ sent = <<>> /\ unread = <<>> /\ buffer = <<>> /\ pasteMode = FALSE
          /\ pasteBuffer = <<>> /\ kittyPending = None /\ readTimer = FALSE
          /\ reader = Reading /\ flusher = [t \in Timers |-> Waiting] /\ out = <<>>
          /\ tornMark = FALSE /\ raced = FALSE
    /\ IF part = "focus" THEN OverlaysInit ELSE
          /\ stack = <<>> /\ preFocus = Base /\ concealed = {} /\ tooLarge = {}
          /\ focused = Base /\ outOfOrder = FALSE
    /\ IF part = "footer" THEN FooterInit ELSE
          /\ head = Unset /\ repo = Unset /\ moving = TRUE /\ cached = Unset
          /\ watcher = Unset /\ retry = FALSE /\ refreshTimer = FALSE /\ fired = 0
          /\ refresh = Idle /\ again = FALSE /\ repaint = FALSE /\ shown = Unset
          /\ overtaken = FALSE /\ count = Unset
    /\ IF part = "moves" THEN Moves!EditorInit ELSE IF part = "kills" THEN EditorInit ELSE
          /\ draft = None /\ cursor = Astray /\ width = None /\ preferred = None
          /\ snapped = None /\ pastes = None /\ ring = None /\ lastAction = None
          /\ undoStack = <<>> /\ history = None /\ browsing = None /\ edits = None
          /\ before = None /\ aim = Lost /\ serial = None /\ since = None /\ loose = None
    /\ IF part = "menu" THEN CompletionInit ELSE
          /\ at = NoPlace /\ menu = Closed /\ debounce = NoTimer /\ tasks = <<>>
          /\ strayed = FALSE /\ asked = NoPlace
    /\ IF part = "shell" THEN ShellInit ELSE
          /\ unwritten = Nothing /\ pipe = Nothing /\ holders = {} /\ aborting = FALSE
          /\ exec = Nothing /\ poller = FALSE /\ pump = [s \in Streams |-> Nothing]
          /\ held = Nothing /\ text = Nothing /\ rest = Nothing /\ sink = Nothing /\ posted = <<>>
          /\ painted = Nothing /\ stdioDone = Nothing /\ outcome = Nothing /\ taken = Nothing
          /\ allRead = Nothing

screen == <<children, overlay, columns, height, term, previousLines, previousWidth,
            previousHeight, flatCache, flatLines, lastCursor, hasCursor, hardwareRow,
            viewportTop, maxLines, clearOnShrink, sunk>>
frames == <<stale, requested, timer, ready, asleep, offLoop, stopped, frame>>
partVars == <<part, screen, frames, stdinVars, overlayVars, footerVars, editorVars,
              completionVars, shellVars>>

PartsNext ==
    /\ part' = part
    /\ \/ /\ part = "screen" /\ Screen!RendererNext
          /\ UNCHANGED <<editorVars, frames, stdinVars, overlayVars, footerVars,
                         completionVars, shellVars>>
       \/ /\ part = "frames" /\ Frames!RenderLoopNext
          /\ UNCHANGED <<editorVars, screen, stdinVars, overlayVars, footerVars,
                         completionVars, shellVars>>
       \/ /\ part = "input" /\ StdinNext
          /\ UNCHANGED <<editorVars, screen, frames, overlayVars, footerVars,
                         completionVars, shellVars>>
       \/ /\ part = "focus" /\ OverlaysNext
          /\ UNCHANGED <<editorVars, screen, frames, stdinVars, footerVars, completionVars, shellVars>>
       \/ /\ part = "footer" /\ FooterNext
          /\ UNCHANGED <<editorVars, screen, frames, stdinVars, overlayVars,
                         completionVars, shellVars>>
       \/ /\ \/ part = "moves" /\ Moves!EditorNext
             \/ part = "kills" /\ EditorNext
          /\ UNCHANGED <<screen, frames, stdinVars, overlayVars, footerVars,
                         completionVars, shellVars>>
       \/ /\ part = "menu" /\ CompletionNext
          /\ UNCHANGED <<editorVars, screen, frames, stdinVars, overlayVars, footerVars, shellVars>>
       \/ /\ part = "shell" /\ ShellNext
          /\ UNCHANGED <<editorVars, screen, frames, stdinVars, overlayVars, footerVars,
                         completionVars>>

PartsSpec ==
    /\ PartsInit /\ [][PartsNext]_partVars
    /\ Frames!RenderLoopFairness /\ ShellFairness

-----------------------------------------------------------------------------
(* The parts' properties.  Those of the modules extended, InputAccounted,  *)
(* RestHasTimer, FocusOnStack, ShownBranchSettles, MenuSettles,            *)
(* NothingDropped, CommandReturns, RingRestores, EditsCanBeUndone and      *)
(* CursorInPlace, are checked as they are stated there.                    *)
\* After every frame, however it was written, the terminal shows the content with the
\* cursor on the row of the marker, and the renderer knows where the screen begins.
EveryFrameShowsContent ==
    [][part = "screen" /\ Screen!Frame /\ ~sunk'
          => Screen!ScreenShows' /\ Screen!CursorPlaced' /\ Screen!ViewportTracked']_partVars
\* Every change of the content is painted some time; every resize is, unless the loop
\* sleeps for good.
ContentPainted == Frames!ContentPainted /\ (part = "frames" => Frames!ResizePainted)
=============================================================================
