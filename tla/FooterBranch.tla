----------------------------- MODULE FooterBranch -----------------------------
(***************************************************************************)
(* The git branch in the footer (packages/code/interactive,                *)
(* footer_data_provider.py and fs_watch.py): it is cached, because the     *)
(* footer asks for it in every frame, and a watcher thread that polls the  *)
(* directory of HEAD has it read again, after a debounce, on the thread of *)
(* a timer.  The application moves the provider to another directory when  *)
(* it replaces the session.                                                *)
(*                                                                         *)
(* The provider's lock covers single steps only, so an action here is one  *)
(* locked section or one access to the file system.                        *)
(***************************************************************************)
EXTENDS Naturals

CONSTANTS
    Repos,        \* directories the session may run in, each a repository
    Branches,     \* what HEAD may name
    MaxCheckouts, MaxMoves, MaxFailures,  \* bounds on what happens outside
    Unset

ASSUME FooterAssumption == Unset \notin Branches

VARIABLES
    head,       \* HEAD of each repository: the branch it names and its time stamp
    repo,       \* _git_paths
    moving,     \* set_cwd has dropped its watchers and not set up new ones
    cached,     \* _cached_branch, or Unset while _branch_cached is unset
    watcher,    \* the watcher thread: the repository and what it saw last
    retry,      \* _git_watcher_retry_timer is set
    refreshTimer,   \* _refresh_timer is set
    fired,      \* threads of timers that went off and have not begun to refresh
    refresh,    \* the refresh in flight: how far it is, and what it has read
    again,      \* _refresh_pending
    repaint,    \* a frame has been asked for
    shown,      \* what the last frame showed
    overtaken,  \* history: a move overtook a reading, or the watcher was blind for a time
    count       \* history: checkouts, moves and failures so far

threadVars == <<refreshTimer, fired, refresh, again>>
viewVars   == <<repaint, shown>>
footerVars == <<head, repo, moving, cached, watcher, retry, threadVars, viewVars,
                overtaken, count>>

Idle == [at |-> "idle", repo |-> Unset, value |-> Unset]
Watching(r) == [repo |-> r, seen |-> head[r]]
InFlight == refresh.at # "idle"
Counted(what, max) == /\ count[what] < max
                      /\ count' = [count EXCEPT ![what] = @ + 1]

FooterInit ==
    /\ head \in [Repos -> [branch : Branches, stamp : {0}]] /\ repo \in Repos
    /\ moving = FALSE /\ cached = Unset /\ watcher = [repo |-> repo, seen |-> head[repo]]
    /\ retry = FALSE
    /\ refreshTimer = FALSE /\ fired = 0 /\ refresh = Idle /\ again = FALSE
    /\ repaint = TRUE /\ shown = Unset /\ overtaken = FALSE
    /\ count = [checkout |-> 0, move |-> 0, failure |-> 0]

-----------------------------------------------------------------------------
(* Outside: git, and the file system failing the watcher.                   *)
Checkout(r, b) ==
    /\ b # head[r].branch /\ Counted("checkout", MaxCheckouts)
    /\ head' = [head EXCEPT ![r] = [branch |-> b, stamp |-> @.stamp + 1]]
    /\ UNCHANGED <<repo, moving, cached, watcher, retry, threadVars, viewVars, overtaken>>

-----------------------------------------------------------------------------
(* Watching.  _schedule_refresh: one timer at a time, and none while a      *)
(* refresh is in flight, which is told to go again.                         *)
ScheduleIdle ==         \* mutant: a change seen during a refresh is dropped
    /\ refreshTimer' = (refreshTimer \/ ~InFlight)
    /\ UNCHANGED <<fired, refresh, again>>
Schedule ==
    /\ refreshTimer' = (refreshTimer \/ ~InFlight)
    /\ again' = (again \/ (~refreshTimer /\ InFlight))
    /\ UNCHANGED <<fired, refresh>>

\* PathWatcher._run: a sample that differs from the last.
Sample ==
    /\ watcher # Unset /\ watcher.seen # head[watcher.repo]
    /\ watcher' = Watching(watcher.repo)
    /\ Schedule
    /\ UNCHANGED <<head, repo, moving, cached, retry, viewVars, overtaken, count>>

\* The directory cannot be read: _handle_git_watcher_error sets a timer.
WatchFails ==
    /\ watcher # Unset /\ Counted("failure", MaxFailures)
    /\ watcher' = Unset /\ retry' = TRUE
    /\ UNCHANGED <<head, repo, moving, cached, threadVars, viewVars, overtaken>>

\* _on_git_watcher_retry: watching starts over from what HEAD says now.
Retry ==
    /\ retry /\ ~moving
    /\ retry' = FALSE /\ watcher' = Watching(repo) /\ overtaken' = TRUE
    /\ UNCHANGED <<head, repo, moving, cached, threadVars, viewVars, count>>

-----------------------------------------------------------------------------
(* Refreshing, on the timer's thread.                                       *)
TimerFires ==
    /\ refreshTimer
    /\ refreshTimer' = FALSE /\ fired' = fired + 1
    /\ UNCHANGED <<head, repo, moving, cached, watcher, retry, refresh, again, viewVars,
                   overtaken, count>>

BeginRefresh ==
    /\ fired > 0
    /\ fired' = fired - 1
    /\ IF InFlight THEN again' = TRUE /\ UNCHANGED refresh
       ELSE refresh' = [Idle EXCEPT !.at = "begun"] /\ UNCHANGED again
    /\ UNCHANGED <<head, repo, moving, cached, watcher, retry, refreshTimer, viewVars,
                   overtaken, count>>

\* _resolve_git_branch_off_thread takes the paths and reads HEAD, unlocked.
TakePaths ==
    /\ refresh.at = "begun"
    /\ refresh' = [refresh EXCEPT !.at = "paths", !.repo = repo]
    /\ UNCHANGED <<head, repo, moving, cached, watcher, retry, refreshTimer, fired, again,
                   viewVars, overtaken, count>>
ReadHead ==
    /\ refresh.at = "paths"
    /\ refresh' = [refresh EXCEPT !.at = "read", !.value = head[refresh.repo].branch]
    /\ UNCHANGED <<head, repo, moving, cached, watcher, retry, refreshTimer, fired, again,
                   viewVars, overtaken, count>>

\* A branch that changed is announced; the loop then asks for a frame.
Store ==
    /\ refresh.at = "read"
    /\ cached' = refresh.value
    /\ refresh' = [refresh EXCEPT
          !.at = IF cached # Unset /\ cached # refresh.value THEN "notify" ELSE "ending"]
    /\ overtaken' = (moving \/ (overtaken /\ refresh.value # head[repo].branch))
    /\ UNCHANGED <<head, repo, moving, watcher, retry, refreshTimer, fired, again, viewVars,
                   count>>
NotifyBranchChange ==
    /\ refresh.at = "notify"
    /\ repaint' = TRUE
    /\ refresh' = [refresh EXCEPT !.at = "ending"]
    /\ UNCHANGED <<head, repo, moving, cached, watcher, retry, refreshTimer, fired, again, shown,
                   overtaken, count>>

\* The finally clause: a change seen meanwhile starts another round.
EndRefresh ==
    /\ refresh.at = "ending"
    /\ refresh' = Idle /\ again' = FALSE
    /\ refreshTimer' = (refreshTimer \/ again)
    /\ UNCHANGED <<head, repo, moving, cached, watcher, retry, fired, viewVars, overtaken,
                   count>>

-----------------------------------------------------------------------------
(* The application's thread.                                                *)
\* A frame: get_git_branch reads HEAD itself while nothing is cached.
Paint ==
    /\ repaint /\ ~moving
    /\ cached' = IF cached = Unset THEN head[repo].branch ELSE cached
    /\ shown' = cached'
    /\ repaint' = FALSE
    /\ UNCHANGED <<head, repo, moving, watcher, retry, threadVars, overtaken, count>>

\* set_cwd, the locked part; then the watchers are set up and the change announced.
LeaveDirectory(r) ==
    /\ ~moving /\ r # repo /\ Counted("move", MaxMoves)
    /\ moving' = TRUE
    /\ refreshTimer' = FALSE /\ watcher' = Unset /\ retry' = FALSE
    /\ cached' = Unset /\ repo' = r
    /\ overtaken' = (InFlight \/ overtaken)
    /\ UNCHANGED <<head, fired, refresh, again, viewVars>>
EnterDirectory ==
    /\ moving
    /\ moving' = FALSE /\ watcher' = Watching(repo) /\ retry' = FALSE
    /\ repaint' = TRUE
    /\ overtaken' = (InFlight \/ overtaken)
    /\ UNCHANGED <<head, repo, cached, threadVars, shown, count>>

-----------------------------------------------------------------------------
Provider == \/ Sample \/ Retry \/ TimerFires \/ BeginRefresh \/ TakePaths \/ ReadHead
            \/ Store \/ NotifyBranchChange \/ EndRefresh \/ Paint \/ EnterDirectory
FooterNext == \/ Provider \/ WatchFails
              \/ \E r \in Repos : LeaveDirectory(r) \/ \E b \in Branches : Checkout(r, b)
FooterSpec == FooterInit /\ [][FooterNext]_footerVars

-----------------------------------------------------------------------------
(* Properties                                                               *)
FooterTypeOK ==
    /\ head \in [Repos -> [branch : Branches, stamp : Nat]] /\ repo \in Repos
    /\ cached \in Branches \cup {Unset} /\ shown \in Branches \cup {Unset}
    /\ fired \in Nat
    /\ refresh.at \in {"idle", "begun", "paths", "read", "notify", "ending"}
    /\ watcher # Unset => watcher.repo \in Repos /\ watcher.seen.branch \in Branches

\* Nothing is on its way any more that would have the branch read or painted.
Settled == /\ ~moving /\ ~retry /\ ~refreshTimer /\ fired = 0 /\ ~InFlight /\ ~repaint
           /\ watcher # Unset /\ watcher.seen = head[repo]

\* Once everything has settled, the footer shows the branch HEAD names, whatever
\* checkouts fell into the debounce or between a reading of HEAD and its storing;
\* the exceptions are the two below.
ShownBranchSettles == (Settled /\ ~overtaken) => shown = head[repo].branch
=============================================================================
