------------------------------- MODULE Overlays -------------------------------
(***************************************************************************)
(* The stack of overlays and the focus (packages/tui/render, _render.py):  *)
(* an overlay remembers what had the focus when it was shown, and hands it *)
(* back when it goes.  The holders of a handle may hide, conceal or focus  *)
(* any overlay in any order, and a resize may make one invisible; the next *)
(* key is then sent elsewhere.                                             *)
(***************************************************************************)
EXTENDS Naturals, Sequences, SequencesExt

CONSTANTS
    Overlays,       \* the components that may be shown, each at most once at a time
    NonCapturing,   \* those shown with options.non_capturing
    Sized,          \* those shown with options.visible
    Base            \* the component that has the focus without an overlay

ASSUME OverlaysAssumption == Base \notin Overlays

VARIABLES
    stack,      \* _overlay_stack, the components
    preFocus,   \* _OverlayEntry.pre_focus
    concealed,  \* those with _OverlayEntry.hidden
    tooLarge,   \* those options.visible refuses at the size of the terminal
    focused,    \* _focused_component
    outOfOrder  \* history: an overlay went while one shown after it stayed

overlayVars == <<stack, preFocus, concealed, tooLarge, focused, outOfOrder>>

OverlaysInit ==
    /\ stack = <<>> /\ preFocus = [o \in Overlays |-> Base] /\ concealed = {}
    /\ tooLarge = {} /\ focused = Base /\ outOfOrder = FALSE

Shown(o)   == Contains(stack, o)
Visible(o) == o \notin concealed \cup tooLarge

\* _topmost_visible_overlay of a stack, or what is to have the focus without one.
TopOr(overlays, otherwise) ==
    LET top == SelectLastInSeq(overlays, LAMBDA o : o \notin NonCapturing /\ Visible(o))
    IN  IF top = 0 THEN otherwise ELSE overlays[top]

-----------------------------------------------------------------------------
ShowOverlay(o) ==
    /\ ~Shown(o)
    /\ stack' = Append(stack, o)
    /\ preFocus' = [preFocus EXCEPT ![o] = focused]
    /\ concealed' = concealed \ {o}
    /\ focused' = IF o \notin NonCapturing \cup tooLarge THEN o ELSE focused
    /\ UNCHANGED <<tooLarge, outOfOrder>>

HideTooLate(o) ==       \* mutant: the topmost overlay is looked for before this one is gone
    /\ Shown(o)
    /\ stack' = RemoveFirst(stack, o)
    /\ focused' = IF focused = o THEN TopOr(stack, preFocus[o]) ELSE focused
    /\ outOfOrder' = (outOfOrder \/ Last(stack) # o)
    /\ UNCHANGED <<preFocus, concealed, tooLarge>>
\* The handle's hide(), of any overlay, and hide_overlay(), of the topmost.
Hide(o) ==
    /\ Shown(o)
    /\ stack' = RemoveFirst(stack, o)
    /\ focused' = IF focused = o THEN TopOr(stack', preFocus[o]) ELSE focused
    /\ outOfOrder' = (outOfOrder \/ Last(stack) # o)
    /\ UNCHANGED <<preFocus, concealed, tooLarge>>

\* A handle is not used after its hide(); the code would take a concealed one back.
SetHidden(o) ==
    /\ Shown(o)
    /\ IF o \in concealed
       THEN /\ concealed' = concealed \ {o}
            /\ focused' = IF o \notin NonCapturing \cup tooLarge THEN o ELSE focused
       ELSE /\ concealed' = concealed \cup {o}
            /\ focused' = IF focused = o
                          THEN TopOr(RemoveFirst(stack, o), preFocus[o])
                          ELSE focused
    /\ UNCHANGED <<stack, preFocus, tooLarge, outOfOrder>>

Focus(o) ==
    /\ Shown(o) /\ Visible(o)
    /\ focused' = o
    /\ UNCHANGED <<stack, preFocus, concealed, tooLarge, outOfOrder>>

Unfocus(o) ==
    /\ focused = o
    /\ LET top == TopOr(stack, o)
       IN  focused' = IF top # o THEN top ELSE preFocus[o]
    /\ UNCHANGED <<stack, preFocus, concealed, tooLarge, outOfOrder>>

ResizeTerminal(o) ==
    /\ o \in Sized
    /\ tooLarge' = IF o \in tooLarge THEN tooLarge \ {o} ELSE tooLarge \cup {o}
    /\ UNCHANGED <<stack, preFocus, concealed, focused, outOfOrder>>

\* _handle_input: an overlay that has the focus but is not visible gives it up first.
HandleInput ==
    /\ focused' = IF Shown(focused) /\ ~Visible(focused)
                  THEN TopOr(stack, preFocus[focused]) ELSE focused
    /\ UNCHANGED <<stack, preFocus, concealed, tooLarge, outOfOrder>>

OverlaysNext == HandleInput \/ \E o \in Overlays :
    ShowOverlay(o) \/ Hide(o) \/ SetHidden(o) \/ Focus(o) \/ Unfocus(o) \/ ResizeTerminal(o)
OverlaysSpec == OverlaysInit /\ [][OverlaysNext]_overlayVars

-----------------------------------------------------------------------------
(* Properties                                                               *)
\* Keys never go to a component that is no longer on the stack, as long as overlays
\* go in the order opposite to their coming, and once all are gone the base has
\* them again; concealing, focusing and resizing may come in between in any order.
\* (An overlay that goes from under another one remains that one's preFocus.)
FocusOnStack == focused = Base \/ Shown(focused) \/ outOfOrder
=============================================================================
