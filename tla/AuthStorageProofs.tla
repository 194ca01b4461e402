-------------------------- MODULE AuthStorageProofs --------------------------
(***************************************************************************)
(* Proofs about AuthStorage, for any number of processes.  Types are kept  *)
(* whatever happens.  The other theorems take it that no process is killed *)
(* and that no holder keeps the lock for more than 30 s: then no lock is   *)
(* ever found stale, and the lock excludes.                                *)
(***************************************************************************)
EXTENDS AuthStorage, FiniteSetTheorems, TLAPS

(* A process's two threads are different from each other and from those of  *)
(* other processes, and there are no other threads.                         *)
LEMMA ThreadsApart ==
  /\ \A p \in Procs : Main(p) \in Threads /\ Refresher(p) \in Threads
  /\ \A p \in Procs : /\ Main(p)[1] = p /\ Main(p)[2] = "main"
                      /\ Refresher(p)[1] = p /\ Refresher(p)[2] = "refresh"
  /\ \A t \in Threads : t[1] \in Procs /\ (t = Main(t[1]) \/ t = Refresher(t[1]))
  /\ \A t \in Threads : t[2] \in {"main", "refresh"}
BY DEF Threads, Main, Refresher

(* The contents an operation makes of credentials are credentials.          *)
LEMMA ContentsType ==
  /\ Nothing \in Contents /\ Reload \in Ops
  /\ \A o \in Ops, c \in Contents : Changed(o, c) \in Contents
<1>1. Nothing \in Contents
  BY BoundsAssumption DEF Nothing, Contents
<1>2. Reload \in Ops
  BY DEF Reload, Ops
<1>3. ASSUME NEW o \in Ops, NEW c \in Contents PROVE Changed(o, c) \in Contents
  <2>1. /\ o.kind \in {"set", "remove", "logout", "reload"}
        /\ o.key \in Keys \union {None}
    BY DEF Ops
  <2>2. /\ [c EXCEPT !.key = o.key] \in Contents
        /\ [c EXCEPT !.token = 0] \in Contents
    BY <2>1, BoundsAssumption DEF Contents
  <2>3. CASE o.kind \in {"set", "remove"}
    BY <2>2, <2>3 DEF Changed
  <2>4. CASE o.kind = "logout"
    BY <2>2, <2>4 DEF Changed
  <2>5. CASE o.kind = "reload"
    BY <2>5 DEF Changed
  <2>. QED BY <2>1, <2>3, <2>4, <2>5
<1>. QED BY <1>1, <1>2, <1>3

-----------------------------------------------------------------------------
(* Each step of a process, of time and of a kill keeps the types.           *)
LEMMA TypeInductive == TypeOK /\ [Next]_vars => TypeOK'
<1>. SUFFICES ASSUME TypeOK, [Next]_vars PROVE TypeOK'
  OBVIOUS
<1>. USE DEF TypeOK
<1>0. \A t \in Threads : \A x \in Places : [at EXCEPT ![t] = x] \in [Threads -> Places]
  OBVIOUS
<1>a. {"idle", "try", "break", "once", "read", "network", "answered", "truncate",
       "write", "release", "abandon"} = Places
  BY DEF Places
<1>1. ASSUME NEW p \in Procs, Begin(p) PROVE TypeOK'
  <2>1. PICK o \in Ops :
          /\ op' = [op EXCEPT ![p] = o]
          /\ data' = [data EXCEPT ![p] = Changed(o, data[p])]
          /\ IF o # Reload /\ loadError[p] THEN at' = at ELSE Go(Main(p), "try")
    BY <1>1 DEF Begin
  <2>2. op' \in [Procs -> Ops] /\ data' \in [Procs -> Contents]
    BY <2>1, ContentsType
  <2>3. at' \in [Threads -> Places]
    BY <2>1, <1>0, <1>a, ThreadsApart DEF Go
  <2>4. started' \in [Procs -> 0..MaxOps]
    BY <1>1, BoundsAssumption DEF Begin
  <2>. QED BY <1>1, <2>2, <2>3, <2>4 DEF Begin
<1>2. ASSUME NEW p \in Procs, GetApiKey(p) PROVE TypeOK'
  <2>1. at' \in [Threads -> Places]
    BY <1>2, <1>0, <1>a, ThreadsApart DEF Go, GetApiKey
  <2>2. started' \in [Procs -> 0..MaxOps]
    BY <1>2, BoundsAssumption DEF GetApiKey
  <2>. QED BY <1>2, <2>1, <2>2 DEF GetApiKey
<1>3. ASSUME NEW p \in Procs, Section(p) PROVE TypeOK'
  <2>0. Main(p) \in Threads /\ Refresher(p) \in Threads /\ Main(p)[1] = p
    BY ThreadsApart
  <2>1. CASE ReadMain(p)
    <3>1. at' \in [Threads -> Places]
      BY <2>0, <2>1, <1>0, <1>a DEF Go, ReadMain
    <3>2. Parsed(p) \in Contents
      BY DEF Parsed
    <3>3. file # Garbage => Merged(Main(p), file) \in Contents
      BY <2>0, ContentsType, ThreadsApart DEF Merged
    <3>4. data' \in [Procs -> Contents] /\ loadError' \in [Procs -> BOOLEAN]
      <4>1. /\ data' \in {data, [data EXCEPT ![p] = Parsed(p)]}
            /\ loadError' \in {loadError, [loadError EXCEPT ![p] = (file = Garbage)]}
        BY <2>1 DEF ReadMain
      <4>2. (file = Garbage) \in BOOLEAN
        OBVIOUS
      <4>3. data' \in [Procs -> Contents]
        BY <4>1, <3>2
      <4>4. loadError' \in [Procs -> BOOLEAN]
        BY <4>1, <4>2
      <4>. QED BY <4>3, <4>4
    <3>5. seen' \in [Threads -> Contents]
      <4>1. CASE seen' = seen
        BY <4>1
      <4>2. CASE seen' # seen
        <5>1. file # Garbage /\ seen' = [seen EXCEPT ![Main(p)] = Merged(Main(p), file)]
          BY <2>1, <4>2 DEF ReadMain
        <5>. QED BY <5>1, <3>3
      <4>. QED BY <4>1, <4>2
    <3>. QED BY <2>1, <3>1, <3>4, <3>5 DEF ReadMain
  <2>2. CASE ReadRefresh(p)
    <3>1. at' \in [Threads -> Places]
      <4>1. \E x \in {"abandon", "network", "release"} : at' = [at EXCEPT ![Refresher(p)] = x]
        BY <2>2 DEF Go, ReadRefresh
      <4>. QED BY <4>1, <2>0, <1>0, <1>a
    <3>2. CASE file = Garbage
      BY <2>2, <3>1, <3>2 DEF ReadRefresh
    <3>3. CASE file # Garbage
      <4>1. Merged(Refresher(p), file) \in Contents
        BY <3>3, ThreadsApart DEF Merged
      <4>2. /\ data' = [data EXCEPT ![p] = file]
            /\ loadError' = [loadError EXCEPT ![p] = FALSE]
            /\ seen' = [seen EXCEPT ![Refresher(p)] = Merged(Refresher(p), file)]
        BY <2>2, <3>3 DEF ReadRefresh
      <4>3. data' \in [Procs -> Contents] /\ loadError' \in [Procs -> BOOLEAN]
        BY <3>3, <4>2
      <4>4. seen' \in [Threads -> Contents]
        BY <4>1, <4>2
      <4>. QED BY <2>2, <3>1, <4>3, <4>4 DEF ReadRefresh
    <3>. QED BY <3>2, <3>3
  <2>3. CASE Issue(p)
    <3>1. at' \in [Threads -> Places]
      BY <2>0, <2>3, <1>0, <1>a DEF Go, Issue
    <3>2. issued' \in 1..MaxTokens /\ expired' \in 0..issued'
      BY <2>3, BoundsAssumption DEF Issue
    <3>3. [seen[Refresher(p)] EXCEPT !.token = issued + 1] \in Contents
      <4>1. seen[Refresher(p)] \in [token : 0..MaxTokens, key : Keys \union {None}]
        BY <2>0 DEF Contents
      <4>2. issued + 1 \in 0..MaxTokens
        BY <2>3, <3>2, BoundsAssumption DEF Issue
      <4>. QED BY <4>1, <4>2 DEF Contents
    <3>4. seen' \in [Threads -> Contents]
      BY <2>3, <3>3 DEF Issue
    <3>. QED BY <2>3, <3>1, <3>2, <3>4 DEF Issue
  <2>4. CASE Answered(p)
    BY <2>0, <2>4, <1>0, <1>a DEF Go, Answered
  <2>5. CASE Refused(p)
    BY <2>0, <2>5, <1>0, <1>a DEF Go, Refused
  <2>. QED BY <1>3, <2>1, <2>2, <2>3, <2>4, <2>5 DEF Section
<1>4. ASSUME NEW p \in Procs, Kill(p) PROVE TypeOK'
  BY <1>4 DEF Kill
<1>5. ASSUME NEW t \in Threads, Locking(t) PROVE TypeOK'
  <2>. USE ThreadsApart, ContentsType
  <2>1. CASE Acquire(t) \/ AcquireOnce(t)
    <3>1. at' \in [Threads -> Places]
      BY <2>1, <1>0, <1>a DEF Acquire, AcquireOnce, Locked, Go
    <3>2. lock' \in [by : Threads, old : BOOLEAN] \union {None}
      <4>1. [by |-> t, old |-> FALSE] \in [by : Threads, old : BOOLEAN]
        OBVIOUS
      <4>2. lock' \in {lock, [by |-> t, old |-> FALSE]}
        BY <2>1 DEF Acquire, AcquireOnce, Locked
      <4>. QED BY <4>1, <4>2
    <3>. QED BY <2>1, <3>1, <3>2 DEF Acquire, AcquireOnce
  <2>2. CASE FindStale(t) \/ BreakStale(t)
    BY <2>2, <1>0, <1>a DEF FindStale, BreakStale, Go
  <2>3. CASE GiveUp(t)
    <3>1. at' \in [Threads -> Places]
      BY <2>3, <1>0, <1>a DEF GiveUp, ThenReload, Go
    <3>2. op' \in [Procs -> Ops]
      <4>1. op' \in {op, [op EXCEPT ![t[1]] = Reload]}
        BY <2>3 DEF GiveUp, ThenReload
      <4>. QED BY <4>1
    <3>3. loadError' \in [Procs -> BOOLEAN]
      <4>1. loadError' \in {loadError, [loadError EXCEPT ![t[1]] = @ \/ op[t[1]] = Reload]}
        BY <2>3 DEF GiveUp
      <4>. QED BY <4>1
    <3>. QED BY <2>3, <3>1, <3>2, <3>3 DEF GiveUp
  <2>. QED BY <1>5, <2>1, <2>2, <2>3 DEF Locking
<1>6. ASSUME NEW t \in Threads, Truncate(t) PROVE TypeOK'
  BY <1>6, <1>0, <1>a, ContentsType DEF Truncate, Go
<1>7. ASSUME NEW t \in Threads, Write(t) PROVE TypeOK'
  <2>1. t[1] \in Procs /\ seen[t] \in Contents
    BY ThreadsApart
  <2>2. Changed(op[t[1]], committed) \in Contents
    BY <2>1, ContentsType
  <2>3. [committed EXCEPT !.token = seen[t].token] \in Contents
    BY <2>1 DEF Contents
  <2>4. committed' \in Contents
    BY <1>7, <2>2, <2>3 DEF Write, Meant
  <2>. QED BY <1>7, <2>1, <2>4, <1>0, <1>a DEF Write, Go
<1>8. ASSUME NEW t \in Threads, Release(t) PROVE TypeOK'
  <2>0. t[1] \in Procs /\ Main(t[1]) \in Threads /\ Reload \in Ops
    BY ThreadsApart, ContentsType
  <2>1. at' \in [Threads -> Places]
    <3>1. \/ at' = [at EXCEPT ![t] = "idle", ![Main(t[1])] = "try"]
          \/ at' = [at EXCEPT ![t] = "idle"]
      BY <1>8 DEF Release, ThenReload, Go
    <3>. QED BY <3>1, <2>0, <1>a
  <2>2. op' \in [Procs -> Ops]
    <3>1. op' \in {op, [op EXCEPT ![t[1]] = Reload]}
      BY <1>8 DEF Release, ThenReload
    <3>. QED BY <3>1, <2>0
  <2>. QED BY <1>8, <2>1, <2>2 DEF Release
<1>9. CASE Age
  <2>1. lock' \in [by : Threads, old : BOOLEAN]
    BY <1>9 DEF Age
  <2>. QED BY <1>9, <2>1 DEF Age
<1>10. CASE Expire
  BY <1>10, BoundsAssumption DEF Expire
<1>11. CASE UNCHANGED vars
  BY <1>11 DEF vars
<1>. QED
  BY <1>1, <1>2, <1>3, <1>4, <1>5, <1>6, <1>7, <1>8, <1>9, <1>10, <1>11 DEF Next

(* The store starts with one token on file.                                 *)
LEMMA TypeInit == Init => TypeOK
<1>. SUFFICES ASSUME Init PROVE TypeOK
  OBVIOUS
<1>1. file \in Contents /\ committed = file
  BY BoundsAssumption DEF Init, Contents
<1>2. at \in [Threads -> Places]
  BY DEF Init, Places
<1>. QED BY <1>1, <1>2, ContentsType, BoundsAssumption DEF Init, TypeOK

\* Every variable keeps its type, and what a store holds in memory is always credentials,
\* whatever is killed and however often the lock is broken.
THEOREM TypeCorrect == Spec => []TypeOK
<1>. QED BY TypeInit, TypeInductive, PTL DEF Spec
-----------------------------------------------------------------------------
(* The lock.  With no kills and no overrun no lock is ever old, so no thread *)
(* breaks one, and whoever is in the section made the lock that is there.    *)
LockInv ==
  /\ dead = {}
  /\ lock # None => ~lock.old
  /\ \A t \in Threads : at[t] \notin {"break", "once"}
  /\ \A t \in Threads : Holds(t) => lock # None /\ lock.by = t

(* Two threads that hold the lock are one.                                  *)
LEMMA OneHolder ==
  ASSUME LockInv, NEW t \in Threads, NEW u \in Threads, Holds(t), Holds(u)
  PROVE  t = u
BY DEF LockInv

(* A step of a thread that has the lock, and keeps it.                      *)
LEMMA HolderMoves ==
  ASSUME TypeOK, LockInv, NEW t \in Threads, Holds(t), UNCHANGED <<lock, dead>>,
         NEW x \in {"network", "answered", "truncate", "write", "release", "abandon"},
         Go(t, x)
  PROVE  LockInv'
BY DEF TypeOK, LockInv, Holds, Go

(* A step that leaves the lock and takes no thread into the section.        *)
LEMMA OutsideMoves ==
  ASSUME LockInv, UNCHANGED <<lock, dead>>,
         \A u \in Threads : at'[u] = at[u] \/ at'[u] \in {"idle", "try"}
  PROVE  LockInv'
BY DEF LockInv, Holds

(* Each step keeps the lock exclusive.                                      *)
LEMMA LockInductive ==
  ASSUME MaxKills = 0, Overrun = FALSE
  PROVE  TypeOK /\ LockInv /\ [Next]_vars => LockInv'
<1>. SUFFICES ASSUME TypeOK, LockInv, [Next]_vars PROVE LockInv'
  OBVIOUS
<1>0. at \in [Threads -> Places]
  BY DEF TypeOK
<1>1. ASSUME NEW p \in Procs, Begin(p) \/ GetApiKey(p) PROVE LockInv'
  <2>1. /\ \/ at' = at \/ at' = [at EXCEPT ![Main(p)] = "try"]
           \/ at' = [at EXCEPT ![Refresher(p)] = "try"]
        /\ UNCHANGED <<lock, dead>>
    BY <1>1 DEF Begin, GetApiKey, Go
  <2>2. \A u \in Threads : at'[u] = at[u] \/ at'[u] \in {"idle", "try"}
    BY <2>1, <1>0
  <2>. QED BY <2>1, <2>2, OutsideMoves
<1>2. ASSUME NEW p \in Procs, Section(p) PROVE LockInv'
  <2>1. \E t \in Threads, x \in {"network", "answered", "truncate", "release", "abandon"} :
           Holds(t) /\ Go(t, x)
    <3>1. CASE ReadMain(p)
      BY <3>1, ThreadsApart DEF ReadMain, Holds
    <3>2. CASE ReadRefresh(p)
      <4>1. Holds(Refresher(p)) /\ Refresher(p) \in Threads
        BY <3>2, ThreadsApart DEF ReadRefresh, Holds
      <4>2. \E x \in {"network", "release", "abandon"} : Go(Refresher(p), x)
        BY <3>2 DEF ReadRefresh
      <4>. QED BY <4>1, <4>2
    <3>3. CASE Issue(p) \/ Answered(p) \/ Refused(p)
      BY <3>3, ThreadsApart DEF Issue, Answered, Refused, Holds
    <3>. QED BY <1>2, <3>1, <3>2, <3>3 DEF Section
  <2>2. UNCHANGED <<lock, dead>>
    BY <1>2 DEF Section, ReadMain, ReadRefresh, Issue, Answered, Refused
  <2>. QED BY <2>1, <2>2, HolderMoves
<1>3. ASSUME NEW p \in Procs, Kill(p) PROVE FALSE
  BY <1>3, FS_EmptySet DEF Kill, LockInv
<1>4. ASSUME NEW t \in Threads, Locking(t) PROVE LockInv'
  <2>1. CASE Acquire(t)
    <3>1. [by |-> t, old |-> FALSE] # None
      <4>1. [by |-> t, old |-> FALSE] \in [by : Threads, old : BOOLEAN]
        OBVIOUS
      <4>. QED BY <4>1, NoneAssumption DEF Threads
    <3>2. /\ \A u \in Threads : ~Holds(u)
          /\ lock' = [by |-> t, old |-> FALSE] /\ at' = [at EXCEPT ![t] = "read"]
          /\ dead' = dead
      BY <2>1 DEF LockInv, Acquire, Locked, Go
    <3>. QED BY <3>1, <3>2, <1>0 DEF LockInv, Holds
  <2>2. ~FindStale(t) /\ ~BreakStale(t) /\ ~AcquireOnce(t)
    BY DEF LockInv, FindStale, BreakStale, AcquireOnce
  <2>3. CASE GiveUp(t)
    <3>1. /\ \/ at' = [at EXCEPT ![t] = "idle", ![Main(t[1])] = "try"]
             \/ at' = [at EXCEPT ![t] = "idle"]
          /\ UNCHANGED <<lock, dead>>
      BY <2>3 DEF GiveUp, ThenReload, Go
    <3>2. \A u \in Threads : at'[u] = at[u] \/ at'[u] \in {"idle", "try"}
      BY <3>1, <1>0
    <3>. QED BY <3>1, <3>2, OutsideMoves
  <2>. QED BY <1>4, <2>1, <2>2, <2>3 DEF Locking
<1>5. ASSUME NEW t \in Threads, Truncate(t) \/ Write(t) PROVE LockInv'
  BY <1>5, HolderMoves DEF Truncate, Write, Holds
<1>6. ASSUME NEW t \in Threads, Release(t) PROVE LockInv'
  <2>1. /\ \A u \in Threads : Holds(u) => u = t
        /\ lock' = None /\ dead' = dead
        /\ \/ at' = [at EXCEPT ![t] = "idle", ![Main(t[1])] = "try"]
           \/ at' = [at EXCEPT ![t] = "idle"]
    BY <1>6 DEF LockInv, Release, ThenReload, Go, Holds
  <2>. QED BY <2>1, <1>0 DEF LockInv, Holds
<1>7. ~Age
  BY DEF Age, LockInv
<1>8. CASE Expire
  BY <1>8, OutsideMoves DEF Expire
<1>9. CASE UNCHANGED vars
  BY <1>9, OutsideMoves DEF vars
<1>. QED
  BY <1>1, <1>2, <1>3, <1>4, <1>5, <1>6, <1>7, <1>8, <1>9 DEF Next

(* No thread is in the section at the start.                                *)
LEMMA LockInit == Init => LockInv
BY DEF Init, LockInv, Holds

\* The lock excludes among any number of processes and threads, refreshes that await the
\* network under it included, as long as no lock becomes stale.
THEOREM LockExcludes ==
  ASSUME MaxKills = 0, Overrun = FALSE
  PROVE  Spec => []MutualExclusion
<1>1. LockInv => MutualExclusion
  BY DEF LockInv, MutualExclusion
<1>2. TypeOK /\ LockInv /\ [Next]_vars => LockInv'
  BY LockInductive
<1>. QED BY <1>1, <1>2, LockInit, TypeCorrect, PTL DEF Spec
-----------------------------------------------------------------------------
(* The file and the tokens.  A thread that has something in hand for the     *)
(* file has what it means to write, made from what is committed; the file is *)
(* what is committed unless a thread writes, and then it is empty.  The      *)
(* newest token is committed or in the hands of the refresh that got it.     *)
InHand == {"network", "answered", "truncate", "write"}
FileInv ==
  /\ \A t \in Threads : at[t] = "write" => file = Nothing
  /\ NoChangeIsUndone
  /\ \A t \in Threads : at[t] \in InHand => seen[t] = Meant(t)

TokenInv ==
  /\ committed.token # 0 => committed.token = issued \/ \E t \in Threads : Bringing(t)
  /\ \A t \in Threads : at[t] = "network" => seen[t].token = issued
  /\ \A t \in Threads : t[2] = "refresh" /\ at[t] \in InHand => seen[t].token = issued

IInv == TypeOK /\ LockInv /\ FileInv /\ TokenInv

(* What a thread means to write depends on what is committed, and on what    *)
(* its process is doing or the token it has.                                 *)
LEMMA MeantSame ==
  ASSUME NEW t \in Threads, committed' = committed, seen'[t] = seen[t],
         t[2] = "main" => op'[t[1]] = op[t[1]]
  PROVE  Meant(t)' = Meant(t)
<1>1. CASE t[2] = "main"
  <2>1. Meant(t)' = Changed(op'[t[1]], committed') /\ Meant(t) = Changed(op[t[1]], committed)
    BY <1>1 DEF Meant, Changed
  <2>2. op'[t[1]] = op[t[1]]
    BY <1>1
  <2>. QED BY <2>1, <2>2
<1>2. CASE t[2] # "main"
  <2>1. /\ Meant(t)' = [committed' EXCEPT !.token = seen'[t].token]
        /\ Meant(t) = [committed EXCEPT !.token = seen[t].token]
    BY <1>2 DEF Meant
  <2>. QED BY <2>1
<1>. QED BY <1>1, <1>2

(* A step that writes nothing: each thread stays as it is or, with nothing   *)
(* to bring to the file, goes where it has nothing in hand.                  *)
Quiet(u) ==
  \/ at'[u] = at[u] /\ seen'[u] = seen[u] /\ (u[2] = "main" => op'[u[1]] = op[u[1]])
  \/ at'[u] \notin InHand /\ at[u] \notin {"answered", "truncate", "write"}

LEMMA QuietKeeps ==
  ASSUME FileInv, TokenInv, UNCHANGED <<file, committed, issued>>,
         \A u \in Threads : Quiet(u)
  PROVE  FileInv' /\ TokenInv'
<1>1. \A u \in Threads : at'[u] \in InHand => /\ at'[u] = at[u] /\ seen'[u] = seen[u]
                                             /\ Meant(u)' = Meant(u)
  BY MeantSame DEF Quiet
<1>2. \A u \in Threads : at'[u] = "write" <=> at[u] = "write"
  BY DEF Quiet, InHand
<1>3. \A u \in Threads : Bringing(u) => Bringing(u)'
  BY DEF Quiet, Bringing, InHand
<1>4. FileInv'
  BY <1>1, <1>2 DEF FileInv, NoChangeIsUndone, InHand
<1>5. TokenInv'
  BY <1>1, <1>3 DEF TokenInv, InHand
<1>. QED BY <1>4, <1>5

(* A step of the holder is about the holder alone.                           *)
LEMMA HolderKeeps ==
  ASSUME LockInv, NEW t \in Threads, Holds(t),
         \A u \in Threads \ {t} : at'[u] = at[u],
         at'[t] = "write" => file' = Nothing,
         at'[t] # "write" => file' = committed',
         at'[t] \in InHand => seen'[t] = Meant(t)',
         committed'.token # 0 => committed'.token = issued' \/ Bringing(t)',
         at'[t] = "network" => seen'[t].token = issued',
         t[2] = "refresh" /\ at'[t] \in InHand => seen'[t].token = issued'
  PROVE  FileInv' /\ TokenInv'
<1>1. \A u \in Threads \ {t} : ~Holds(u)
  BY OneHolder
<1>2. \A u \in Threads \ {t} : at'[u] \notin InHand
  BY <1>1 DEF Holds, InHand
<1>3. FileInv'
  BY <1>2 DEF FileInv, NoChangeIsUndone, InHand
<1>4. TokenInv'
  BY <1>2 DEF TokenInv, InHand
<1>. QED BY <1>3, <1>4

(* Before the holder brings anything, the newest token is committed, and the *)
(* file is what is committed.                                                *)
LEMMA HolderReads ==
  ASSUME LockInv, FileInv, TokenInv, NEW t \in Threads, at[t] \in {"read", "network"}
  PROVE  /\ file = committed
         /\ committed.token # 0 => committed.token = issued
<1>1. Holds(t)
  BY DEF Holds
<1>2. \A u \in Threads : at[u] # "write" /\ ~Bringing(u)
  BY <1>1, OneHolder DEF Holds, Bringing
<1>. QED BY <1>2 DEF FileInv, NoChangeIsUndone, TokenInv

(* Each step of the section: reading the file, asking the provider, writing. *)
LEMMA SectionKeeps ==
  ASSUME TypeOK, LockInv, FileInv, TokenInv, NEW p \in Procs, Section(p)
  PROVE  FileInv' /\ TokenInv'
<1>. DEFINE m == Main(p)
            r == Refresher(p)
<1>0. /\ m \in Threads /\ m[1] = p /\ m[2] = "main"
      /\ r \in Threads /\ r[1] = p /\ r[2] = "refresh"
  BY ThreadsApart
<1>t. /\ at \in [Threads -> Places] /\ seen \in [Threads -> Contents]
      /\ committed \in [token : 0..MaxTokens, key : Keys \union {None}]
  BY DEF TypeOK, Contents
<1>1. CASE ReadMain(p)
  <2>0. file = committed /\ (committed.token # 0 => committed.token = issued)
    BY <1>0, <1>1, HolderReads DEF ReadMain
  <2>1. Holds(m) /\ \A u \in Threads \ {m} : at'[u] = at[u]
    BY <1>0, <1>1, <1>t DEF ReadMain, Holds, Go
  <2>2. UNCHANGED <<file, committed, issued, op>>
    BY <1>1 DEF ReadMain
  <2>3. /\ at'[m] \in {"release", "truncate"}
        /\ at'[m] = "truncate" => seen'[m] = Merged(m, file)
    BY <1>0, <1>1, <1>t DEF ReadMain, Go
  <2>4. Merged(m, file) = Meant(m)
    BY <1>0, <2>0 DEF Merged, Meant
  <2>5. Meant(m)' = Changed(op'[m[1]], committed') /\ Meant(m) = Changed(op[m[1]], committed)
    BY <1>0 DEF Meant, Changed
  <2>. QED BY <1>0, <2>0, <2>1, <2>2, <2>3, <2>4, <2>5, HolderKeeps DEF InHand
<1>2. CASE ReadRefresh(p)
  <2>0. file = committed /\ (committed.token # 0 => committed.token = issued)
    BY <1>0, <1>2, HolderReads DEF ReadRefresh
  <2>1. Holds(r) /\ \A u \in Threads \ {r} : at'[u] = at[u]
    BY <1>0, <1>2, <1>t DEF ReadRefresh, Holds, Go
  <2>2. UNCHANGED <<file, committed, issued>>
    BY <1>2 DEF ReadRefresh
  <2>3. /\ at'[r] \in {"release", "abandon", "network"}
        /\ at'[r] = "network" => seen'[r] = Merged(r, file) /\ file.token \in 1..expired
    BY <1>0, <1>2, <1>t DEF ReadRefresh, Go
  <2>4. Merged(r, file) = file
    BY <1>0 DEF Merged
  <2>5. at'[r] = "network" => seen'[r] = committed /\ seen'[r].token = issued
    BY <2>0, <2>3, <2>4, <1>t DEF TypeOK
  <2>6. Meant(r)' = [committed' EXCEPT !.token = seen'[r].token]
    BY <1>0 DEF Meant
  <2>7. at'[r] = "network" => seen'[r] = Meant(r)'
    BY <2>2, <2>5, <2>6, <1>t
  <2>. QED BY <1>0, <2>0, <2>1, <2>2, <2>3, <2>5, <2>7, HolderKeeps DEF InHand
<1>3. CASE Issue(p)
  <2>0. file = committed
    BY <1>0, <1>3, HolderReads DEF Issue
  <2>1. Holds(r) /\ at'[r] = "answered" /\ \A u \in Threads \ {r} : at'[u] = at[u]
    BY <1>0, <1>3, <1>t DEF Issue, Holds, Go
  <2>2. /\ UNCHANGED <<file, committed>> /\ issued' = issued + 1
        /\ seen'[r] = [seen[r] EXCEPT !.token = issued + 1]
    BY <1>0, <1>3, <1>t DEF Issue
  <2>3. seen[r] = [committed EXCEPT !.token = seen[r].token]
    BY <1>0, <1>3 DEF Issue, FileInv, InHand, Meant
  <2>4. seen'[r] = [committed EXCEPT !.token = issued + 1] /\ seen'[r].token = issued'
    BY <2>2, <2>3, <1>t
  <2>5. Meant(r)' = [committed' EXCEPT !.token = seen'[r].token]
    BY <1>0 DEF Meant
  <2>6. seen'[r] = Meant(r)'
    BY <2>2, <2>4, <2>5
  <2>7. Bringing(r)'
    BY <2>1, <2>4 DEF Bringing
  <2>. QED BY <1>0, <2>0, <2>1, <2>2, <2>4, <2>6, <2>7, HolderKeeps
<1>4. CASE Answered(p)
  <2>1. /\ Holds(r) /\ at[r] = "answered" /\ at'[r] = "truncate"
        /\ \A u \in Threads \ {r} : at'[u] = at[u]
    BY <1>0, <1>4, <1>t DEF Answered, Holds, Go
  <2>2. UNCHANGED <<file, committed, issued, seen>>
    BY <1>4 DEF Answered
  <2>3. file = committed
    <3>1. \A u \in Threads : at[u] # "write"
      BY <1>0, <2>1, OneHolder DEF Holds
    <3>. QED BY <3>1 DEF FileInv, NoChangeIsUndone
  <2>4. seen[r] = Meant(r) /\ seen[r].token = issued
    BY <1>0, <2>1 DEF FileInv, TokenInv, InHand
  <2>5. Meant(r)' = Meant(r)
    BY <1>0, <2>2, MeantSame
  <2>6. Bringing(r)'
    BY <2>1, <2>2, <2>4 DEF Bringing
  <2>. QED BY <1>0, <2>1, <2>2, <2>3, <2>4, <2>5, <2>6, HolderKeeps
<1>5. CASE Refused(p)
  <2>1. \A u \in Threads : Quiet(u)
    BY <1>0, <1>5, <1>t DEF Refused, Quiet, Go, InHand
  <2>. QED BY <2>1, <1>5, QuietKeeps DEF Refused
<1>. QED BY <1>1, <1>2, <1>3, <1>4, <1>5 DEF Section

(* Opening the file empties it; the dump makes it what the writer meant.     *)
LEMMA WriteKeeps ==
  ASSUME TypeOK, LockInv, FileInv, TokenInv, NEW t \in Threads, Truncate(t) \/ Write(t)
  PROVE  FileInv' /\ TokenInv'
<1>t. at \in [Threads -> Places] /\ committed \in Contents /\ t[2] \in {"main", "refresh"}
  BY ThreadsApart DEF TypeOK
<1>0. Holds(t) /\ seen[t] = Meant(t)
  BY DEF Truncate, Write, Holds, FileInv, InHand
<1>1. \A u \in Threads \ {t} : at'[u] = at[u] /\ ~Bringing(u)
  BY <1>0, <1>t, OneHolder DEF Truncate, Write, Go, Bringing, Holds
<1>2. t[2] = "refresh" => seen[t].token = issued
  BY DEF Truncate, Write, TokenInv, InHand
<1>3. committed.token # 0 => committed.token = issued \/ Bringing(t)
  BY <1>1 DEF TokenInv
<1>4. CASE Truncate(t)
  <2>1. /\ at'[t] = "write" /\ file' = Nothing
        /\ UNCHANGED <<committed, issued, seen, op>>
    BY <1>4, <1>t DEF Truncate, Go
  <2>2. Meant(t)' = Meant(t)
    BY <2>1, MeantSame
  <2>3. Bringing(t) => Bringing(t)'
    BY <1>4, <2>1 DEF Truncate, Bringing
  <2>. QED BY <1>0, <1>1, <1>2, <1>3, <2>1, <2>2, <2>3, HolderKeeps
<1>5. CASE Write(t)
  <2>1. /\ at[t] = "write" /\ at'[t] = "release" /\ file' = seen[t] /\ committed' = Meant(t)
        /\ UNCHANGED <<issued, seen, op>>
    BY <1>5, <1>t DEF Write, Go
  <2>2. committed'.token # 0 => committed'.token = issued
    <3>1. CASE t[2] = "refresh"
      BY <3>1, <1>0, <1>2, <2>1
    <3>2. CASE t[2] = "main"
      <4>1. committed' = Changed(op[t[1]], committed)
        BY <2>1, <3>2 DEF Meant
      <4>2. committed'.token \in {0, committed.token}
        <5>1. op[t[1]] \in Ops
          BY ThreadsApart DEF TypeOK
        <5>. QED BY <4>1, <5>1, <1>t, BoundsAssumption DEF Changed, Ops, Contents
      <4>3. Bringing(t) => committed'.token = issued
        BY <1>0, <2>1 DEF Bringing
      <4>. QED BY <4>2, <4>3, <1>3
    <3>. QED BY <3>1, <3>2, <1>t
  <2>. QED BY <1>0, <1>1, <2>1, <2>2, HolderKeeps DEF InHand
<1>. QED BY <1>4, <1>5

(* A refresh that raised leaves it to the main thread to reload.             *)
LEMMA ReloadKeeps ==
  ASSUME TypeOK, FileInv, TokenInv, NEW t \in Threads, Turn(t), ThenReload(t),
         at[t] \in {"try", "abandon"}, t[2] = "refresh" \/ at[t] = "abandon",
         UNCHANGED <<file, committed, issued, seen>>
  PROVE  FileInv' /\ TokenInv'
<1>t. at \in [Threads -> Places] /\ op \in [Procs -> Ops]
  BY DEF TypeOK
<1>1. at[Main(t[1])] \in {"idle", "abandon"}
  <2>1. CASE t[2] = "refresh"
    BY <2>1 DEF Turn
  <2>2. CASE t[2] # "refresh"
    BY <2>2, ThreadsApart
  <2>. QED BY <2>1, <2>2
<1>2. /\ at' = [at EXCEPT ![t] = "idle", ![Main(t[1])] = "try"]
      /\ op' = [op EXCEPT ![t[1]] = Reload]
  BY DEF ThenReload
<1>3. ASSUME NEW u \in Threads PROVE Quiet(u)
  <2>1. CASE u = t \/ u = Main(t[1])
    BY <1>1, <1>2, <2>1, <1>t, ThreadsApart DEF Quiet, InHand
  <2>2. CASE u # t /\ u # Main(t[1])
    <3>1. u[2] = "main" => u[1] \in Procs \ {t[1]}
      BY <2>2, ThreadsApart
    <3>. QED BY <1>2, <2>2, <3>1, <1>t DEF Quiet
  <2>. QED BY <2>1, <2>2
<1>. QED BY <1>3, QuietKeeps

(* Every step keeps what the file holds and where the newest token is.       *)
LEMMA DataInductive ==
  ASSUME MaxKills = 0, Overrun = FALSE
  PROVE  TypeOK /\ LockInv /\ FileInv /\ TokenInv /\ [Next]_vars => FileInv' /\ TokenInv'
<1>. SUFFICES ASSUME TypeOK, LockInv, FileInv, TokenInv, [Next]_vars
              PROVE  FileInv' /\ TokenInv'
  OBVIOUS
<1>t. at \in [Threads -> Places] /\ op \in [Procs -> Ops]
  BY DEF TypeOK
<1>1. ASSUME NEW p \in Procs, Begin(p) PROVE FileInv' /\ TokenInv'
  <2>1. /\ UNCHANGED <<file, committed, issued, seen>> /\ at[Main(p)] = "idle"
        /\ at' = at \/ at' = [at EXCEPT ![Main(p)] = "try"]
        /\ \A q \in Procs \ {p} : op'[q] = op[q]
    BY <1>1, <1>t DEF Begin, Go
  <2>2. ASSUME NEW u \in Threads PROVE Quiet(u)
    <3>1. CASE u = Main(p)
      BY <2>1, <3>1, <1>t DEF Quiet, InHand
    <3>2. CASE u # Main(p)
      <4>1. u[2] = "main" => u[1] \in Procs \ {p}
        BY <3>2, ThreadsApart
      <4>. QED BY <2>1, <3>2, <4>1, <1>t DEF Quiet
    <3>. QED BY <3>1, <3>2
  <2>. QED BY <2>1, <2>2, QuietKeeps
<1>2. ASSUME NEW p \in Procs, GetApiKey(p) PROVE FileInv' /\ TokenInv'
  <2>1. /\ UNCHANGED <<file, committed, issued, seen, op>> /\ at[Refresher(p)] = "idle"
        /\ at' = [at EXCEPT ![Refresher(p)] = "try"]
    BY <1>2 DEF GetApiKey, Go
  <2>2. \A u \in Threads : Quiet(u)
    BY <2>1, <1>t DEF Quiet, InHand
  <2>. QED BY <2>1, <2>2, QuietKeeps
<1>3. ASSUME NEW p \in Procs, Section(p) PROVE FileInv' /\ TokenInv'
  BY <1>3, SectionKeeps
<1>4. ASSUME NEW p \in Procs, Kill(p) PROVE FALSE
  BY <1>4, FS_EmptySet DEF Kill, LockInv
<1>5. ASSUME NEW t \in Threads, Locking(t) PROVE FileInv' /\ TokenInv'
  <2>1. ~FindStale(t) /\ ~BreakStale(t) /\ ~AcquireOnce(t)
    BY DEF LockInv, FindStale, BreakStale, AcquireOnce
  <2>2. CASE Acquire(t)
    <3>1. /\ UNCHANGED <<file, committed, issued, seen, op>> /\ at[t] = "try"
          /\ at' = [at EXCEPT ![t] = "read"]
      BY <2>2 DEF Acquire, Locked, Go
    <3>2. \A u \in Threads : Quiet(u)
      BY <3>1, <1>t DEF Quiet, InHand
    <3>. QED BY <3>1, <3>2, QuietKeeps
  <2>3. CASE GiveUp(t)
    <3>1. UNCHANGED <<file, committed, issued, seen>> /\ at[t] = "try"
      BY <2>3 DEF GiveUp
    <3>2. CASE t[2] = "refresh"
      BY <2>3, <3>1, <3>2, ReloadKeeps, ThreadsApart DEF GiveUp, Turn
    <3>3. CASE t[2] # "refresh"
      <4>1. at' = [at EXCEPT ![t] = "idle"] /\ op' = op
        BY <2>3, <3>3 DEF GiveUp, Go
      <4>2. \A u \in Threads : Quiet(u)
        BY <3>1, <4>1, <1>t DEF Quiet, InHand
      <4>. QED BY <3>1, <4>2, QuietKeeps
    <3>. QED BY <3>2, <3>3
  <2>. QED BY <1>5, <2>1, <2>2, <2>3 DEF Locking
<1>6. ASSUME NEW t \in Threads, Truncate(t) \/ Write(t) PROVE FileInv' /\ TokenInv'
  BY <1>6, WriteKeeps
<1>7. ASSUME NEW t \in Threads, Release(t) PROVE FileInv' /\ TokenInv'
  <2>1. UNCHANGED <<file, committed, issued, seen>> /\ at[t] \in {"release", "abandon"}
    BY <1>7 DEF Release
  <2>2. CASE at[t] = "abandon"
    BY <1>7, <2>1, <2>2, ReloadKeeps DEF Release, Turn
  <2>3. CASE at[t] = "release"
    <3>1. at' = [at EXCEPT ![t] = "idle"] /\ op' = op
      BY <1>7, <2>3 DEF Release, Go
    <3>2. \A u \in Threads : Quiet(u)
      BY <2>1, <2>3, <3>1, <1>t DEF Quiet, InHand
    <3>. QED BY <2>1, <3>2, QuietKeeps
  <2>. QED BY <2>1, <2>2, <2>3
<1>8. CASE Age \/ Expire \/ UNCHANGED vars
  BY <1>8, QuietKeeps DEF Age, Expire, vars, Quiet
<1>. QED
  BY <1>1, <1>2, <1>3, <1>4, <1>5, <1>6, <1>7, <1>8 DEF Next

(* At the start the first token is on file and nobody has anything in hand.  *)
LEMMA DataInit == Init => FileInv /\ TokenInv
BY DEF Init, FileInv, NoChangeIsUndone, TokenInv, InHand

\* The inductive invariant holds throughout, for any number of processes.
THEOREM Invariance ==
  ASSUME MaxKills = 0, Overrun = FALSE
  PROVE  Spec => []IInv
<1>1. Init => IInv
  BY TypeInit, LockInit, DataInit DEF IInv
<1>2. IInv /\ [Next]_vars => IInv'
  BY TypeInductive, LockInductive, DataInductive DEF IInv
<1>. QED BY <1>1, <1>2, PTL DEF Spec

\* No process undoes another's change: set, remove, logout and the refresh each write what
\* they read under the lock with their own provider's credential changed.
THEOREM ChangesKept ==
  ASSUME MaxKills = 0, Overrun = FALSE
  PROVE  Spec => []NoChangeIsUndone
<1>1. IInv => NoChangeIsUndone
  BY DEF IInv, FileInv
<1>. QED BY <1>1, Invariance, PTL

\* No process sends a refresh token that was used before, and the newest token is never
\* lost: the refresh re-reads the file under the lock and writes before it gives it back.
THEOREM TokenKept ==
  ASSUME MaxKills = 0, Overrun = FALSE
  PROVE  Spec => []NewestTokenKept
<1>1. ASSUME IInv PROVE NewestTokenKept
  <2>1. CASE \A t \in Threads : at[t] # "write"
    BY <1>1, <2>1 DEF IInv, FileInv, NoChangeIsUndone, TokenInv, NewestTokenKept
  <2>2. CASE \E t \in Threads : at[t] = "write"
    <3>1. file.token = 0
      BY <1>1, <2>2 DEF IInv, FileInv, Nothing
    <3>. QED BY <1>1, <3>1 DEF IInv, TokenInv, NewestTokenKept
  <2>. QED BY <2>1, <2>2
<1>. QED BY <1>1, Invariance, PTL
=============================================================================
