----------------------------- MODULE SettingsFile -----------------------------
(***************************************************************************)
(* settings.json, shared by the processes that run (packages/code/config,  *)
(* settings_storage.py and settings_manager.py).  Each keeps the settings  *)
(* it loaded, changes them, and a flush puts those it changed into what    *)
(* the file holds by then, under a lock file.  A setting may be one of a   *)
(* group, which is an object of its own in the file.                       *)
(*                                                                         *)
(* A process may die at any step, and its lock file is taken for stale     *)
(* after 5 seconds: its age is looked at in one step and it is unlinked in *)
(* another, so that of two processes that found it stale the second may    *)
(* unlink the lock file that the first has made since.  The project's      *)
(* settings and the values a setting has in memory only are left out.      *)
(***************************************************************************)
EXTENDS Naturals, FiniteSets

CONSTANTS
    Procs, Settings, Values,
    GroupOf,    \* the group of each setting; one that is in no group is its own
    Default, Missing, HalfWritten, Nobody,
    MaxCrashes, MaxSets     \* bounds: on processes that die, on settings changed

Contents == [Settings -> Values \cup {Default}]     \* what a file that is read holds

ASSUME SettingsAssumption ==
    /\ Nobody \notin Procs
    /\ Missing # HalfWritten /\ Missing \notin Contents /\ HalfWritten \notin Contents

VARIABLES
    file,       \* the content of settings.json, Missing, or HalfWritten: emptied to be written
    lock,       \* whose lock file there is
    loaded,     \* _global_settings of each process
    modified,   \* the settings a process has changed since; _modified_fields has
                \* the group of each
    at,         \* where a process is in with_lock
    current,    \* what it has read there
    saved,      \* history: what each setting was last saved as by a process that changed it
    spoiled,    \* history: settings that another process saved a sibling of since
    createdTwice,   \* history: two processes found no file and made one
    usurped,    \* history: a process died while it wrote
    seized,     \* history: a lock file was unlinked while the process that made it lived
    crashes, sets

historyVars  == <<saved, spoiled, createdTwice>>
countVars    == <<crashes, sets>>
settingsVars == <<file, lock, loaded, modified, at, current, historyVars, usurped, seized,
                countVars>>

AllDefault == [s \in Settings |-> Default]

SettingsInit ==
    /\ file \in {Missing, AllDefault} /\ lock = Nobody
    /\ loaded = [p \in Procs |-> AllDefault] /\ modified = [p \in Procs |-> {}]
    /\ at = [p \in Procs |-> "idle"] /\ current = [p \in Procs |-> Missing]
    /\ saved = AllDefault /\ spoiled = {} /\ createdTwice = FALSE
    /\ usurped = FALSE /\ seized = FALSE /\ crashes = 0 /\ sets = 0

Goes(p, step) == at' = [at EXCEPT ![p] = step]

-----------------------------------------------------------------------------
\* A setter: the value in memory, and _mark_modified.
Change(p, s, v) ==
    /\ at[p] = "idle" /\ loaded[p][s] # v /\ sets < MaxSets
    /\ loaded' = [loaded EXCEPT ![p][s] = v]
    /\ modified' = [modified EXCEPT ![p] = @ \cup {s}]
    /\ sets' = sets + 1
    /\ UNCHANGED <<file, lock, at, current, historyVars, usurped, seized, crashes>>

\* with_lock: whether there is a file is looked at first, and without one nothing is
\* locked until there is something to write.
BeginLoad(p) ==         \* reload; what was changed and not saved is given up
    /\ at[p] = "idle"
    /\ IF file = Missing
       THEN /\ loaded' = [loaded EXCEPT ![p] = AllDefault]
            /\ modified' = [modified EXCEPT ![p] = {}]
            /\ UNCHANGED at
       ELSE Goes(p, "lockToLoad") /\ UNCHANGED <<loaded, modified>>
    /\ UNCHANGED <<file, lock, current, historyVars, usurped, seized, countVars>>
BeginFlush(p) ==
    /\ at[p] = "idle" /\ modified[p] # {}
    /\ Goes(p, IF file = Missing THEN "lockToCreate" ELSE "lockToFlush")
    /\ current' = [current EXCEPT ![p] = AllDefault]
    /\ UNCHANGED <<file, lock, loaded, modified, historyVars, usurped, seized, countVars>>

Waits(p) == at[p] \in {"lockToLoad", "lockToFlush", "lockToCreate"}
Acquire(p) ==
    /\ Waits(p) /\ lock = Nobody
    /\ lock' = p
    /\ Goes(p, CASE at[p] = "lockToLoad"   -> "load"
                 [] at[p] = "lockToFlush"  -> "flush"
                 [] at[p] = "lockToCreate" -> "write")
    /\ createdTwice' = (createdTwice \/ (at[p] = "lockToCreate" /\ file # Missing))
    /\ UNCHANGED <<file, loaded, modified, current, saved, spoiled, usurped, seized, countVars>>
\* getmtime: the lock file is older than 5 seconds, which a holder that lives never needs.
FindStale(p) ==
    /\ Waits(p) /\ lock # Nobody /\ at[lock] = "dead"
    /\ Goes(p, CASE at[p] = "lockToLoad"   -> "breakToLoad"
                 [] at[p] = "lockToFlush"  -> "breakToFlush"
                 [] at[p] = "lockToCreate" -> "breakToCreate")
    /\ UNCHANGED <<file, lock, loaded, modified, current, historyVars, usurped, seized, countVars>>
\* os.unlink, of the lock file that is there by then, if there is one.  That may have been
\* the last attempt.
Breaks(p) == at[p] \in {"breakToLoad", "breakToFlush", "breakToCreate"}
BreakStale(p) ==
    /\ Breaks(p)
    /\ lock' = Nobody
    /\ seized' = (seized \/ (lock # Nobody /\ at[lock] # "dead"))
    /\ \E step \in {CASE at[p] = "breakToLoad"   -> "lockToLoad"
                     [] at[p] = "breakToFlush"  -> "lockToFlush"
                     [] at[p] = "breakToCreate" -> "lockToCreate",
                   "idle"} : Goes(p, step)
    /\ UNCHANGED <<file, loaded, modified, current, historyVars, usurped, countVars>>
\* Ten attempts in vain: with_lock raises, and what was modified stays so.
GiveUp(p) ==
    /\ Waits(p) /\ lock # Nobody
    /\ Goes(p, "idle")
    /\ UNCHANGED <<file, lock, loaded, modified, current, historyVars, usurped, seized, countVars>>

\* An empty file is an error to a load, which goes on with the defaults; a flush
\* takes it for no settings.
ReadToLoad(p) ==
    /\ at[p] = "load"
    /\ loaded' = [loaded EXCEPT ![p] = IF file = HalfWritten THEN AllDefault ELSE file]
    /\ modified' = [modified EXCEPT ![p] = {}]
    /\ Goes(p, "release")
    /\ UNCHANGED <<file, lock, current, historyVars, usurped, seized, countVars>>
ReadToFlush(p) ==
    /\ at[p] = "flush"
    /\ current' = [current EXCEPT ![p] = IF file = HalfWritten THEN AllDefault ELSE file]
    /\ Goes(p, "write")
    /\ UNCHANGED <<file, lock, loaded, modified, historyVars, usurped, seized, countVars>>

\* write(): a group is written whole when one of its settings was changed.
Written(p, s) == \E t \in modified[p] : GroupOf[t] = GroupOf[s]
MergedStale(p) == loaded[p]     \* mutant: everything is written, as it was loaded
Merged(p) == [s \in Settings |-> IF Written(p, s) THEN loaded[p][s] ELSE current[p][s]]
Truncate(p) ==          \* write_text opens the file, which empties it
    /\ at[p] = "write"
    /\ file' = HalfWritten
    /\ Goes(p, "writing")
    /\ UNCHANGED <<lock, loaded, modified, current, historyVars, usurped, seized, countVars>>
WriteText(p) ==
    /\ at[p] = "writing"
    /\ file' = Merged(p)
    /\ saved' = [s \in Settings |-> IF s \in modified[p] THEN loaded[p][s] ELSE saved[s]]
    /\ spoiled' = {s \in Settings \ modified[p] : s \in spoiled \/ Written(p, s)}
    /\ Goes(p, "written")
    /\ UNCHANGED <<lock, loaded, modified, current, createdTwice, usurped, seized, countVars>>
\* flush() forgets what it has written; the lock file is unlinked, whoever's it is.
Release(p) ==
    /\ at[p] \in {"release", "written"}
    /\ lock' = Nobody
    /\ modified' = IF at[p] = "written" THEN [modified EXCEPT ![p] = {}] ELSE modified
    /\ Goes(p, "idle")
    /\ UNCHANGED <<file, loaded, current, historyVars, usurped, seized, countVars>>

Crash(p) ==
    /\ at[p] # "dead" /\ crashes < MaxCrashes
    /\ Goes(p, "dead")
    /\ usurped' = (usurped \/ at[p] = "writing")
    /\ crashes' = crashes + 1
    /\ UNCHANGED <<file, lock, loaded, modified, current, historyVars, seized, sets>>

SettingsNext == \E p \in Procs :
    \/ \E s \in Settings, v \in Values : Change(p, s, v)
    \/ BeginLoad(p) \/ BeginFlush(p)
    \/ Acquire(p) \/ FindStale(p) \/ BreakStale(p) \/ GiveUp(p)
    \/ ReadToLoad(p) \/ ReadToFlush(p) \/ Truncate(p) \/ WriteText(p) \/ Release(p) \/ Crash(p)
SettingsSpec == SettingsInit /\ [][SettingsNext]_settingsVars

-----------------------------------------------------------------------------
(* Properties                                                               *)
Readable == file \notin {Missing, HalfWritten}

\* No load and no flush ever meets half a file, unless a writer died.
NobodyReadsTorn == \A p \in Procs :
    at[p] \in {"load", "flush"} => (file # HalfWritten \/ usurped)

\* A setting that was saved stays saved, and nobody reads it half written, while other
\* processes load, change and save others; the exceptions are a setting of a group that
\* another process saves a sibling of, two processes that create the file, a writer that
\* dies, and a lock file unlinked under a process that lives (_acquire_lock_with_retry,
\* with_lock and _save_settings).
SavedStays == ~seized =>
    /\ Readable /\ ~usurped /\ ~createdTwice => \A s \in Settings \ spoiled : file[s] = saved[s]
    /\ NobodyReadsTorn
=============================================================================
