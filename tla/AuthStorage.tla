----------------------------- MODULE AuthStorage -----------------------------
(***************************************************************************)
(* The credential store (code/config/auth_storage.py): processes that      *)
(* share one auth.json and take a directory as its lock.  The file holds   *)
(* an OAuth token, whose refresh token the provider accepts once, and an   *)
(* API key.  A process has a main thread of control (set, remove, reload), *)
(* which blocks its event loop, and a task that refreshes an expired token *)
(* and yields while it waits for the lock and for the provider.            *)
(*                                                                         *)
(* A token is the number of the refresh that issued it, 0 for none.  The   *)
(* file exists from the start: constructing a store creates it.  Retries   *)
(* are not counted: an attempt that finds the lock taken may be the last.  *)
(***************************************************************************)
EXTENDS Naturals, FiniteSets

CONSTANTS Procs,
          Keys,       \* API keys a user may store
          MaxTokens,  \* bound on the tokens the provider issues
          MaxOps,     \* bound on the operations one process starts
          MaxKills,   \* bound on the processes killed
          Overrun,    \* whether a live holder may keep the lock for more than 30 s
          None

ASSUME BoundsAssumption ==
  MaxTokens \in Nat \ {0} /\ MaxOps \in Nat /\ MaxKills \in Nat /\ Overrun \in BOOLEAN
ASSUME NoneAssumption ==
  None \notin Keys /\ None \notin [by : Procs \X {"main", "refresh"}, old : BOOLEAN]

VARIABLES
  file,       \* what auth.json parses to
  lock,       \* the lock directory: who made it, and whether it is older than 30 s
  issued,     \* the provider: the newest token, the only one it will refresh
  expired,    \* the tokens up to this one have expired
  at,         \* where each thread of control is
  op,         \* what each main thread is doing
  seen,       \* the contents a thread will write
  data,       \* _data of each process
  loadError,  \* _load_error of each process
  started,    \* how many operations each process started
  dead,       \* the processes that were killed
  committed   \* history: the changes written so far, in the order of their writes

vars == <<file, lock, issued, expired, at, op, seen, data, loadError, started, dead, committed>>

Threads == Procs \X {"main", "refresh"}
Contents == [token : 0..MaxTokens, key : Keys \union {None}]
Nothing == [token |-> 0, key |-> None]   \* "" and "{}" both parse to it
Garbage == [half |-> "dump"]              \* does not parse
Ops == [kind : {"set"}, key : Keys] \union
       [kind : {"remove", "logout", "reload"}, key : {None}]
Reload == [kind |-> "reload", key |-> None]
Places == {"idle", "try", "break", "once", "read", "network", "answered",
           "truncate", "write", "release", "abandon"}

Main(p) == <<p, "main">>
Refresher(p) == <<p, "refresh">>

\* A refresh runs while the main thread does not block the event loop; the main thread
\* gets its turn where the refresh awaits.
Turn(t) == t[1] \notin dead /\ (t[2] = "refresh" => at[Main(t[1])] = "idle")
Yields(p) == at[Refresher(p)] \in {"idle", "try", "network", "answered"}
Holds(t) == at[t] \in {"read", "network", "answered", "truncate", "write", "release", "abandon"}

\* What an operation does to the credentials: set and remove of an API key, logout
Changed(o, c) ==
  CASE o.kind \in {"set", "remove"} -> [c EXCEPT !.key = o.key]
    [] o.kind = "logout"            -> [c EXCEPT !.token = 0]
    [] o.kind = "reload"            -> c

\* mutant of Merged: the store's own data is dumped over what the file holds
MergedOwn(t, c) == data[t[1]]

\* mutant of Merged: a refresh sends the token its process already had
MergedStale(t, c) == IF t[2] = "main" THEN Changed(op[t[1]], c) ELSE data[t[1]]

\* The contents a thread writes after it read c: only its own provider differs
Merged(t, c) == IF t[2] = "main" THEN Changed(op[t[1]], c) ELSE c

Init ==
  /\ file = [token |-> 1, key |-> None] /\ committed = file
  /\ lock = None /\ issued = 1 /\ expired = 0 /\ dead = {}
  /\ at = [t \in Threads |-> "idle"]
  /\ op = [p \in Procs |-> Reload]
  /\ seen = [t \in Threads |-> Nothing]
  /\ data = [p \in Procs |-> file]
  /\ loadError = [p \in Procs |-> FALSE]
  /\ started = [p \in Procs |-> 0]

Go(t, place) == at' = [at EXCEPT ![t] = place]

(***************************************************************************)
(* Starting an operation.                                                  *)
(***************************************************************************)
\* set, remove, logout, reload: the store's own data first; a store that failed to load
\* leaves the file alone
Begin(p) ==
  /\ p \notin dead /\ at[Main(p)] = "idle" /\ Yields(p) /\ started[p] < MaxOps
  /\ \E o \in Ops :
        /\ op' = [op EXCEPT ![p] = o]
        /\ data' = [data EXCEPT ![p] = Changed(o, data[p])]
        /\ IF o # Reload /\ loadError[p] THEN at' = at ELSE Go(Main(p), "try")
  /\ started' = [started EXCEPT ![p] = @ + 1]
  /\ UNCHANGED <<file, lock, issued, expired, seen, loadError, dead, committed>>

\* get_api_key, when the stored token has expired
GetApiKey(p) ==
  /\ p \notin dead /\ at[Main(p)] = "idle" /\ at[Refresher(p)] = "idle"
  /\ started[p] < MaxOps
  /\ data[p].token \in 1..expired
  /\ Go(Refresher(p), "try")
  /\ started' = [started EXCEPT ![p] = @ + 1]
  /\ UNCHANGED <<file, lock, issued, expired, op, seen, data, loadError, dead, committed>>

(***************************************************************************)
(* The lock.                                                               *)
(***************************************************************************)
Locked(t) == lock' = [by |-> t, old |-> FALSE] /\ Go(t, "read")

Acquire(t) ==
  /\ Turn(t) /\ at[t] = "try" /\ lock = None
  /\ Locked(t)
  /\ UNCHANGED <<file, issued, expired, op, seen, data, loadError, started, dead, committed>>

\* mutant of FindStale: the age of the lock is not looked at
FindLock(t) ==
  /\ Turn(t) /\ at[t] = "try" /\ lock # None
  /\ Go(t, "break")
  /\ UNCHANGED <<file, lock, issued, expired, op, seen, data, loadError, started, dead, committed>>

\* _is_stale; _break_stale; _try_acquire_once
FindStale(t) ==
  /\ Turn(t) /\ at[t] = "try" /\ lock # None /\ lock.old
  /\ Go(t, "break")
  /\ UNCHANGED <<file, lock, issued, expired, op, seen, data, loadError, started, dead, committed>>

BreakStale(t) ==
  /\ Turn(t) /\ at[t] = "break"
  /\ lock' = None
  /\ Go(t, "once")
  /\ UNCHANGED <<file, issued, expired, op, seen, data, loadError, started, dead, committed>>

AcquireOnce(t) ==
  /\ Turn(t) /\ at[t] = "once"
  /\ IF lock = None THEN Locked(t) ELSE lock' = lock /\ Go(t, "try")
  /\ UNCHANGED <<file, issued, expired, op, seen, data, loadError, started, dead, committed>>

\* A refresh that raised re-reads the store before get_api_key answers
ThenReload(t) ==
  /\ op' = [op EXCEPT ![t[1]] = Reload]
  /\ at' = [at EXCEPT ![t] = "idle", ![Main(t[1])] = "try"]

\* TimeoutError: recorded, and the change stays in this process's data alone
GiveUp(t) ==
  /\ Turn(t) /\ at[t] = "try" /\ lock # None /\ ~lock.old
  /\ IF t[2] = "refresh" THEN ThenReload(t) /\ loadError' = loadError
     ELSE /\ Go(t, "idle") /\ op' = op
          /\ loadError' = [loadError EXCEPT ![t[1]] = @ \/ op[t[1]] = Reload]
  /\ UNCHANGED <<file, lock, issued, expired, seen, data, started, dead, committed>>

(***************************************************************************)
(* Under the lock.                                                         *)
(***************************************************************************)
\* mutant of Parsed: contents that do not parse are taken for data
ParsedAnyhow(p) == file

\* what reload leaves in _data: the file, or the last good data
Parsed(p) == IF file = Garbage THEN data[p] ELSE file

\* reload's read, _persist_provider_change's merge
ReadMain(p) ==
  LET t == Main(p) IN
  /\ Turn(t) /\ at[t] = "read"
  /\ IF op[p] = Reload
     THEN /\ data' = [data EXCEPT ![p] = Parsed(p)]
          /\ loadError' = [loadError EXCEPT ![p] = (file = Garbage)]
          /\ seen' = seen /\ Go(t, "release")
     ELSE /\ UNCHANGED <<data, loadError>>
          /\ IF file = Garbage THEN seen' = seen /\ Go(t, "release")
             ELSE seen' = [seen EXCEPT ![t] = Merged(t, file)] /\ Go(t, "truncate")
  /\ UNCHANGED <<file, lock, issued, expired, op, started, dead, committed>>

\* the refresh asks the provider only if the token on file, re-read, has expired too
ReadRefresh(p) ==
  LET t == Refresher(p) IN
  /\ Turn(t) /\ at[t] = "read"
  /\ IF file = Garbage THEN UNCHANGED <<seen, data, loadError>> /\ Go(t, "abandon")
     ELSE /\ data' = [data EXCEPT ![p] = file]
          /\ loadError' = [loadError EXCEPT ![p] = FALSE]
          /\ seen' = [seen EXCEPT ![t] = Merged(t, file)]
          /\ Go(t, IF file.token \in 1..expired THEN "network" ELSE "release")
  /\ UNCHANGED <<file, lock, issued, expired, op, started, dead, committed>>

\* the provider takes the refresh token and issues another pair, whether or not the process
\* that asked is still there
Issue(p) ==
  LET t == Refresher(p) IN
  /\ at[t] = "network" /\ seen[t].token = issued /\ issued < MaxTokens
  /\ issued' = issued + 1
  /\ seen' = [seen EXCEPT ![t].token = issued + 1]
  /\ Go(t, "answered")
  /\ UNCHANGED <<file, lock, expired, op, data, loadError, started, dead, committed>>

Answered(p) ==
  LET t == Refresher(p) IN
  /\ Turn(t) /\ at[t] = "answered"
  /\ data' = [data EXCEPT ![p] = seen[t]]
  /\ loadError' = [loadError EXCEPT ![p] = FALSE]
  /\ Go(t, "truncate")
  /\ UNCHANGED <<file, lock, issued, expired, op, seen, started, dead, committed>>

\* the request fails, or the token was used before
Refused(p) ==
  LET t == Refresher(p) IN
  /\ Turn(t) /\ at[t] = "network"
  /\ Go(t, "abandon")
  /\ UNCHANGED <<file, lock, issued, expired, op, seen, data, loadError, started, dead, committed>>

\* _write: open for writing, then the dump
Truncate(t) ==
  /\ Turn(t) /\ at[t] = "truncate"
  /\ file' = Nothing
  /\ Go(t, "write")
  /\ UNCHANGED <<lock, issued, expired, op, seen, data, loadError, started, dead, committed>>

\* the change alone, as its writer meant it
Meant(t) == IF t[2] = "main" THEN Changed(op[t[1]], committed)
            ELSE [committed EXCEPT !.token = seen[t].token]

Write(t) ==
  /\ Turn(t) /\ at[t] = "write"
  /\ file' = seen[t]
  /\ committed' = Meant(t)
  /\ Go(t, "release")
  /\ UNCHANGED <<lock, issued, expired, op, seen, data, loadError, started, dead>>

\* the finally clause
Release(t) ==
  /\ Turn(t) /\ at[t] \in {"release", "abandon"}
  /\ lock' = None
  /\ IF at[t] = "abandon" THEN ThenReload(t) ELSE Go(t, "idle") /\ op' = op
  /\ UNCHANGED <<file, issued, expired, seen, data, loadError, started, dead, committed>>

(***************************************************************************)
(* Time and kills.                                                         *)
(***************************************************************************)
Age ==
  /\ lock # None /\ ~lock.old /\ (Overrun \/ lock.by[1] \in dead)
  /\ lock' = [lock EXCEPT !.old = TRUE]
  /\ UNCHANGED <<file, issued, expired, at, op, seen, data, loadError, started, dead, committed>>

Expire ==
  /\ expired < issued
  /\ expired' = issued
  /\ UNCHANGED <<file, lock, issued, at, op, seen, data, loadError, started, dead, committed>>

\* a kill in the middle of a write leaves nothing of the dump, or half of it
Kill(p) ==
  /\ p \notin dead /\ Cardinality(dead) < MaxKills
  /\ dead' = dead \union {p}
  /\ IF \E t \in Threads : t[1] = p /\ at[t] = "write" THEN file' \in {file, Garbage}
     ELSE file' = file
  /\ UNCHANGED <<lock, issued, expired, at, op, seen, data, loadError, started, committed>>

Locking(t) == Acquire(t) \/ FindStale(t) \/ BreakStale(t) \/ AcquireOnce(t) \/ GiveUp(t)
Section(p) == ReadMain(p) \/ ReadRefresh(p) \/ Issue(p) \/ Answered(p) \/ Refused(p)

Next ==
  \/ \E p \in Procs : Begin(p) \/ GetApiKey(p) \/ Section(p) \/ Kill(p)
  \/ \E t \in Threads : Locking(t) \/ Truncate(t) \/ Write(t) \/ Release(t)
  \/ Age \/ Expire

Spec == Init /\ [][Next]_vars
-----------------------------------------------------------------------------
(***************************************************************************)
(* Properties.                                                             *)
(***************************************************************************)
\* Every variable keeps its type, and a process's own data is always credentials: a file
\* that does not parse never becomes a store's data or what a thread writes back.
TypeOK ==
  /\ file \in Contents \union {Garbage} /\ committed \in Contents
  /\ lock \in [by : Threads, old : BOOLEAN] \union {None}
  /\ issued \in 1..MaxTokens /\ expired \in 0..issued
  /\ at \in [Threads -> Places] /\ op \in [Procs -> Ops]
  /\ seen \in [Threads -> Contents] /\ data \in [Procs -> Contents]
  /\ loadError \in [Procs -> BOOLEAN] /\ started \in [Procs -> 0..MaxOps]
  /\ dead \subseteq Procs

\* The file holds every change that was written, each in its turn: a process that changes
\* one provider's credential never undoes another process's change to the other's.  A
\* process that is writing, or was killed at it, is the exception.
NoChangeIsUndone == (\A t \in Threads : at[t] # "write") => file = committed

\* The newest token is the one on file, or in the hands of the thread that is bringing it
\* there, and no refresh is sent with a token that was used before: that would leave every
\* process without a usable one, as a kill between the answer and the write does.
Bringing(t) == at[t] \in {"answered", "truncate", "write"} /\ seen[t].token = issued
NewestTokenKept ==
  /\ file # Garbage /\ file.token # 0 =>
       file.token = issued \/ \E t \in Threads : Bringing(t)
  /\ \A t \in Threads : at[t] = "network" /\ t[1] \notin dead =>
       seen[t].token = issued \/ \E u \in Threads : u[1] \in dead /\ Bringing(u)

\* The lock: of the processes that are alive, one thread at most is between taking the
\* lock and giving it back.  Refuted when two processes find the lock of a third stale:
\* both have decided to break it before either does, and the second removes what the
\* first has just taken.
MutualExclusion ==
  \A t, u \in Threads : Holds(t) /\ Holds(u) /\ {t[1], u[1]} \intersect dead = {} => t = u
=============================================================================
