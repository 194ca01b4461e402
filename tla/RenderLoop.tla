------------------------------ MODULE RenderLoop ------------------------------
(***************************************************************************)
(* When a frame is painted (packages/tui/render, _render.py, and the       *)
(* resize handler of packages/tui/terminal).  Whoever changes what is on   *)
(* the screen asks for a frame; requests are coalesced over 16 ms by a     *)
(* callback and a timer of the event loop, a key is painted at once, and a *)
(* forced request bypasses the timer.                                      *)
(*                                                                         *)
(* The event loop is asyncio's: its ready queue is first in first out, and *)
(* with an empty queue it sleeps until a timer is due, input arrives or    *)
(* another thread wakes it.  A signal handler runs on the same thread, but *)
(* what it puts on the queue does not end the sleep.                       *)
(***************************************************************************)
EXTENDS Naturals, Sequences, SequencesExt

CONSTANT MaxReady       \* bound: callbacks on the loop's queue when another is asked for

VARIABLES
    stale,      \* what the screen does not show yet: "content", "size"
    requested,  \* _render_requested
    timer,      \* _render_timer is set
    ready,      \* the loop's queue: _schedule_render, _render_forced, and fire when due
    asleep,     \* the loop waits in select()
    offLoop,    \* a key that the time out of the input buffer delivers is being handled
    stopped,    \* _stopped
    frame       \* history: the number of frames painted, modulo 2

loopVars == <<stale, requested, timer, ready, asleep, offLoop, stopped, frame>>

\* After start(): the first frame has been asked for.
RenderLoopInit ==
    /\ stale = {"content", "size"} /\ requested = TRUE /\ timer = FALSE
    /\ ready = <<"schedule">> /\ asleep = FALSE /\ offLoop = FALSE /\ stopped = FALSE /\ frame = 0

-----------------------------------------------------------------------------
(* Asking                                                                   *)
\* Cancelling the timer also takes a fire() that is due off the queue.
Cancelled(callbacks) == SelectSeq(callbacks, LAMBDA c : c # "fire")
RequestRender ==
    /\ requested' = TRUE
    /\ ready' = IF requested THEN ready ELSE Append(ready, "schedule")

\* A callback of the application changes something: an event of the session, a
\* spinner, a finished completion.
ContentChanges ==
    /\ ~asleep /\ Len(ready) < MaxReady
    /\ stale' = stale \cup {"content"}
    /\ RequestRender
    /\ UNCHANGED <<timer, asleep, offLoop, stopped, frame>>
ForceRender ==
    /\ ~asleep /\ Len(ready) < MaxReady
    /\ stale' = stale \cup {"content"}
    /\ timer' = FALSE /\ requested' = TRUE
    /\ ready' = Append(Cancelled(ready), "forced")
    /\ UNCHANGED <<asleep, offLoop, stopped, frame>>
\* on_sigwinch, between any two instructions or in the loop's sleep.
Resize ==
    /\ ~stopped /\ Len(ready) < MaxReady
    /\ stale' = stale \cup {"size"}
    /\ RequestRender
    /\ UNCHANGED <<timer, asleep, offLoop, stopped, frame>>

-----------------------------------------------------------------------------
(* Painting.  A component may ask for the next frame while it renders, which *)
(* counts: requested is reset before.                                        *)
PaintLate(more) ==      \* mutant: requested is reset after the frame
    /\ stale' = IF more THEN {"content"} ELSE {}
    /\ requested' = FALSE /\ frame' = 1 - frame
Paint(more) ==
    /\ stale' = IF more THEN {"content"} ELSE {}
    /\ requested' = more /\ frame' = 1 - frame
Skip == UNCHANGED <<stale, requested, frame>>

RunScheduled ==         \* _schedule_render
    /\ ~asleep /\ ready # <<>> /\ Head(ready) = "schedule"
    /\ ready' = Tail(ready)
    /\ timer' = (timer \/ (~stopped /\ requested))
    /\ UNCHANGED <<stale, requested, asleep, offLoop, stopped, frame>>
RunForced ==            \* _render_forced
    /\ ~asleep /\ ready # <<>> /\ Head(ready) = "forced"
    /\ IF stopped \/ ~requested THEN Skip /\ ready' = Tail(ready)
       ELSE \E more \in BOOLEAN :
               /\ Paint(more)
               /\ ready' = IF more THEN Append(Tail(ready), "schedule") ELSE Tail(ready)
    /\ UNCHANGED <<timer, asleep, offLoop, stopped>>
TimerDue ==             \* the loop puts fire() on its queue, and does not sleep on
    /\ timer /\ ~Contains(ready, "fire")
    /\ ready' = Append(ready, "fire") /\ asleep' = FALSE
    /\ UNCHANGED <<stale, requested, timer, offLoop, stopped, frame>>
RunFire ==              \* fire(), which sets the timer again for a request made meanwhile
    /\ ~asleep /\ ready # <<>> /\ Head(ready) = "fire"
    /\ IF stopped \/ ~requested THEN Skip /\ timer' = FALSE /\ ready' = Tail(ready)
       ELSE \E more \in BOOLEAN :
               /\ Paint(more)
               /\ timer' = requested'
               /\ ready' = IF more THEN Append(Tail(ready), "schedule") ELSE Tail(ready)
    /\ UNCHANGED <<asleep, offLoop, stopped>>

\* _handle_input: a key changes something, asks for a frame and has it at once.
KeyPressed ==
    /\ ~stopped /\ Len(ready) < MaxReady /\ asleep' = FALSE
    /\ ready' = Cancelled(IF requested THEN ready ELSE Append(ready, "schedule"))
    /\ Paint(FALSE) /\ timer' = FALSE
    /\ UNCHANGED <<offLoop, stopped>>
\* The same on the thread of the input buffer's timer, where _soon finds no loop.
OffLoopKey ==
    /\ ~stopped /\ ~offLoop
    /\ offLoop' = TRUE
    /\ stale' = stale \cup {"content"} /\ requested' = TRUE
    /\ UNCHANGED <<timer, ready, asleep, stopped, frame>>
OffLoopPaint ==         \* _expedite_render
    /\ offLoop /\ offLoop' = FALSE
    /\ IF stopped \/ ~requested THEN Skip /\ UNCHANGED <<timer, ready>>
       ELSE Paint(FALSE) /\ timer' = FALSE /\ ready' = Cancelled(ready)
    /\ UNCHANGED <<asleep, stopped>>

Stop ==
    /\ ~asleep /\ ~stopped
    /\ stopped' = TRUE /\ timer' = FALSE /\ ready' = Cancelled(ready)
    /\ UNCHANGED <<stale, requested, asleep, offLoop, frame>>

-----------------------------------------------------------------------------
(* The loop                                                                 *)
Sleep == /\ ~asleep /\ ready = <<>> /\ asleep' = TRUE
         /\ UNCHANGED <<stale, requested, timer, ready, offLoop, stopped, frame>>
Wake  == /\ asleep /\ asleep' = FALSE       \* input, or another thread
         /\ UNCHANGED <<stale, requested, timer, ready, offLoop, stopped, frame>>

RenderLoopNext ==
    \/ ContentChanges \/ ForceRender \/ Resize \/ RunScheduled \/ RunForced \/ TimerDue \/ RunFire
    \/ KeyPressed \/ OffLoopKey \/ OffLoopPaint \/ Stop \/ Sleep \/ Wake

\* The loop runs what is on its queue, its timers are due some time, and the
\* thread goes on; nothing says that anyone presses a key.
RenderLoopFairness == /\ WF_loopVars(RunScheduled) /\ WF_loopVars(RunForced)
                      /\ WF_loopVars(TimerDue) /\ WF_loopVars(RunFire)
                      /\ WF_loopVars(OffLoopPaint)
RenderLoopSpec == RenderLoopInit /\ [][RenderLoopNext]_loopVars /\ RenderLoopFairness

-----------------------------------------------------------------------------
(* Properties                                                               *)
\* A frame follows every change, whatever is coalesced, forced, expedited or asked
\* for from within a frame.
ContentPainted == \A n \in {0, 1} :
    ("content" \in stale /\ frame = n) ~> (frame # n \/ stopped)

\* A resize is painted too, if the loop is awake again and again: nothing that the
\* signal handler does ends its sleep, so the next key or the next timer has to.
ResizePainted == []<>~asleep => \A n \in {0, 1} :
    ("size" \in stale /\ frame = n) ~> (frame # n \/ stopped)
=============================================================================
