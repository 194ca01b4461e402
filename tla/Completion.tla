----------------------------- MODULE Completion -----------------------------
(***************************************************************************)
(* The editor's completion menu (packages/tui/components, editor.py): the  *)
(* requests for suggestions that typing makes, their debounce, the chain   *)
(* of tasks that carries them out, and what becomes of an answer when the  *)
(* text has moved on.                                                      *)
(*                                                                         *)
(* The text with its cursor is one of a few Spots; two of them are         *)
(* different texts.  All of this runs on one event loop: a task goes on at *)
(* its await only, and only the newest task can have a controller, since   *)
(* each waits for the one before (so request ids, which the code compares  *)
(* too, never differ when the controller is not aborted).                  *)
(***************************************************************************)
EXTENDS Naturals, Sequences, SequencesExt

CONSTANTS
    Spots,
    Slash, Symbol,      \* those in a slash command, and behind an @ or #
    Barred,             \* those where files are not completed, ~should_trigger_file_completion:
                        \* behind a / and, but for blanks at its end, one word
    Offered,            \* a function: how many suggestions there are, by force and place
    NoPlace,
    MaxTasks            \* bound: tasks that wait for one another

VARIABLES
    at,         \* the text and the cursor
    menu,       \* the place it is for and if it was forced; NoPlace when closed
    debounce,   \* _autocomplete_debounce_timer: its request, or none
    tasks,      \* _autocomplete_request_task and those it waits for, the oldest first
    strayed,    \* history: the text has changed under the menu, and nothing was asked
    asked       \* history: the place of a request, until the text changes or it is revoked

completionVars == <<at, menu, debounce, tasks, strayed, asked>>

Closed == [place |-> NoPlace, force |-> FALSE]
NoTimer == <<>>
\* live: its token is _autocomplete_start_token; asking: it waits for the provider, which
\* was asked at `place`.
Task(force, tab) == [force |-> force, tab |-> tab, live |-> TRUE, asking |-> FALSE,
                     aborted |-> FALSE, place |-> NoPlace]

CompletionInit ==
    /\ at \in Spots \ (Slash \cup Symbol) /\ menu = Closed /\ debounce = NoTimer /\ tasks = <<>>
    /\ strayed = FALSE /\ asked = NoPlace

-----------------------------------------------------------------------------
\* mutant of Revoked: the task that is at the provider is not aborted.
RevokedUnheard(ts) == [n \in DOMAIN ts |-> [ts[n] EXCEPT !.live = FALSE]]
\* _cancel_autocomplete_request, as it leaves the tasks.
Revoked(ts) == [n \in DOMAIN ts |-> [ts[n] EXCEPT !.live = FALSE, !.aborted = ts[n].asking]]
\* _cancel_autocomplete.
Cancel(ts) ==
    /\ tasks' = Revoked(ts) /\ debounce' = NoTimer /\ menu' = Closed
    /\ strayed' = FALSE /\ asked' = NoPlace
\* _request_autocomplete, at a place the editor has just come to.
Request(place, force, tab) ==
    /\ IF ~force /\ ~tab /\ place \in Symbol
       THEN debounce' = <<Task(force, tab)>> /\ tasks' = Revoked(tasks)
       ELSE debounce' = NoTimer /\ tasks' = Append(Revoked(tasks), Task(force, tab))
    /\ asked' = place /\ UNCHANGED <<menu, strayed>>
\* The text changes, or does not, and nothing is asked or revoked.
Unasked(place) ==
    /\ strayed' = (strayed \/ (menu # Closed /\ place # at))
    /\ asked' = IF place = at THEN asked ELSE NoPlace
    /\ UNCHANGED <<menu, debounce, tasks>>

\* A character typed or deleted: the menu is updated, but that a forced one is left as it
\* is where files are not completed; without one a request is made where the text and the
\* character ask for it.
Edited(place) ==
    /\ Len(tasks) < MaxTasks /\ at' = place
    /\ \/ menu # Closed /\ (menu.force => place \notin Barred) /\ Request(place, menu.force, FALSE)
       \/ menu # Closed /\ menu.force /\ place \in Barred /\ Unasked(place)
       \/ menu = Closed /\ place \in Slash \cup Symbol /\ Request(place, FALSE, FALSE)
       \/ menu = Closed /\ Unasked(place)
\* Kills, yanks, undo, moves and the history know nothing of the menu.
Strayed(place) == place # at /\ at' = place /\ Unasked(place)
\* A paste, a new line, set_text, a submission, or Escape at a menu.
Left(place) == at' = place /\ Cancel(tasks)
\* Tab; and Enter at a menu.  The completion that is applied leads to some place.
Tab ==
    \/ menu # Closed /\ at' \in Spots /\ Cancel(tasks)
    \/ /\ menu = Closed /\ Len(tasks) < MaxTasks /\ UNCHANGED at
       /\ \/ at \in Slash \cap Barred /\ Request(at, FALSE, TRUE)
          \/ at \notin Barred /\ Request(at, TRUE, TRUE)
          \/ at \in Barred /\ Unasked(at)      \* not the name of a command any more, or not yet

\* The debounce timer.
Fire ==
    /\ debounce # NoTimer /\ tasks' = Append(tasks, debounce[1]) /\ debounce' = NoTimer
    /\ UNCHANGED <<at, menu, strayed, asked>>
\* The oldest task begins: it asks, unless it was revoked meanwhile.
Begin ==
    /\ tasks # <<>> /\ ~tasks[1].asking
    /\ tasks' = IF tasks[1].live
                THEN [tasks EXCEPT ![1].asking = TRUE, ![1].place = at]
                ELSE Tail(tasks)
    /\ UNCHANGED <<at, menu, debounce, strayed, asked>>
\* mutant of Current: an answer is used wherever the cursor is.
CurrentAnywhere(task) == ~task.aborted
\* _is_autocomplete_request_current.
Current(task) == ~task.aborted /\ task.place = at
\* The provider answers the oldest task.
Answer ==
    /\ tasks # <<>> /\ tasks[1].asking
    /\ LET task == tasks[1]
           offers == Offered[task.force][task.place]
       IN  \/ /\ ~Current(task) /\ tasks' = Tail(tasks)
              /\ UNCHANGED <<at, menu, debounce, strayed, asked>>
           \/ /\ Current(task) /\ offers = 0
              /\ Cancel(Tail(tasks)) /\ UNCHANGED at
           \/ /\ Current(task) /\ offers = 1 /\ task.force /\ task.tab
              /\ at' \in Spots /\ tasks' = Tail(tasks) /\ asked' = NoPlace
              /\ UNCHANGED <<menu, debounce, strayed>>
           \/ /\ Current(task) /\ offers > 0 /\ ~(offers = 1 /\ task.force /\ task.tab)
              /\ menu' = [place |-> task.place, force |-> task.force]
              /\ tasks' = Tail(tasks) /\ strayed' = FALSE /\ asked' = NoPlace
              /\ UNCHANGED <<at, debounce>>

CompletionNext ==
    \/ \E place \in Spots : Edited(place) \/ Strayed(place) \/ Left(place)
    \/ Tab \/ Fire \/ Begin \/ Answer
CompletionSpec == CompletionInit /\ [][CompletionNext]_completionVars

-----------------------------------------------------------------------------
\* Once no request is under way, an open menu is for the text at the cursor, and a
\* completion that was asked for has been answered, unless it was revoked or the text has
\* moved on since.  Excepted is text that changed under an open menu without a request: kills,
\* yanks, undo and moves leave the menu of the old text open, and so does a deletion under a
\* menu of files that leaves a / and one word (_request_autocomplete returns before it
\* cancels anything).
MenuSettles ==
    debounce = NoTimer /\ tasks = <<>> =>
        /\ menu = Closed \/ strayed \/ menu.place = at
        /\ asked = NoPlace
=============================================================================
