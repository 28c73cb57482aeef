---------------------------- MODULE SyncEngineProofs ----------------------------
(***************************************************************************)
(* Proofs of the safety properties of SyncEngine, for any number of        *)
(* repositories, stacks, commits and goroutines, any failure limit and     *)
(* channel capacity, and any combination of faults.                        *)
(***************************************************************************)
EXTENDS SyncEngine, TLAPS

\* The groups of variables and the sets of values are always expanded.
USE DEF extVars, stackVars, listVars, histVars, backVars, repoVars, passVars, syncVars,
        mainVars, workVars
USE DEF RepoStatuses, StackStatuses, Rows, MainPCs, WorkerPCs, Keys, Contents, Procs

\* None is none of the values it stands in for.
LEMMA NoneFresh ==
    /\ None \notin Repos /\ None \notin Stacks /\ None \notin Workers
    /\ None \notin Keys /\ None # Main /\ Main \notin Workers
  BY ConstantsAssumption

-----------------------------------------------------------------------------
(***************************************************************************)
(* The core invariant.  The types are not inductive without it: the stacks *)
(* to apply are those of a commit only because the clone of the repo in    *)
(* hand holds one, and it does because of the lock.                        *)
(***************************************************************************)

SyncPCs == {"lock", "pull", "head", "stacks", "compose"}
LockPCs == {"pull", "head", "stacks", "compose"}

\* Which locals are in scope at which point of the two kinds of goroutine.
Scope ==
    /\ mpc \in SyncPCs <=> cur # None
    /\ mpc = "compose" <=> stk # None
    /\ \A w \in Workers : wpc[w] = "idle" <=> wjob[w] = None

\* The lock of r is held by whoever is in the section it guards.
LockInv ==
    \A r \in Repos :
        /\ lock[r] = Main <=> mpc \in LockPCs /\ cur = r
        /\ \A w \in Workers : lock[r] = w <=> wpc[w] = "pull" /\ wjob[w][1] = r

\* After its pull, main finds a whole commit on disk, and it stays there.
HeadInv ==
    mpc \in {"head", "stacks", "compose"} =>
        /\ disk[cur] \in Commits
        /\ mpc # "head" => newSHA = disk[cur]

Core == TypeOK /\ Scope /\ LockInv /\ HeadInv

\* A process that has just been started satisfies Core.
LEMMA CoreInit == Init => Core
<1> SUFFICES ASSUME Init PROVE Core
  OBVIOUS
<1> USE DEF Init, MemoryInit, AllRepos, AllStacks
<1>1. TypeWorld
  BY DEF TypeWorld
<1>2. TypeStore
  BY DEF TypeStore
<1>3. TypeBackoff
  <2>1. failures \in [Repos -> Nat] /\ ctxDone \in BOOLEAN
    OBVIOUS
  <2>2. suspended \in [Repos -> BOOLEAN] /\ due \in [Repos -> BOOLEAN]
    OBVIOUS
  <2>3. waiting \in [Repos -> BOOLEAN]
    OBVIOUS
  <2>4. queue \in Seq(Repos) /\ Len(queue) = 0
    OBVIOUS
  <2> QED
    BY <2>1, <2>2, <2>3, <2>4, ConstantsAssumption DEF TypeBackoff
<1>4. TypeMain
  BY DEF TypeMain
<1>5. TypeWork
  BY DEF TypeWork
<1>6. Scope
  BY NoneFresh DEF Scope, SyncPCs
<1>7. LockInv
  BY NoneFresh DEF LockInv, LockPCs
<1>8. HeadInv
  BY DEF HeadInv
<1> QED
  BY <1>1, <1>2, <1>3, <1>4, <1>5, <1>6, <1>7, <1>8 DEF Core, TypeOK

-----------------------------------------------------------------------------
(***************************************************************************)
(* Frames: which actions touch which variables.                            *)
(***************************************************************************)

MainAction == MainNext \/ Crash
WorkAction(w) == WorkerNext(w) \/ \E k \in Keys : RequestApply(w, k)

USE DEF Next, MainNext, WorkerNext, Start, ListRepos, PassDone, Tick, TakeTrigger,
        DrainDone, SkipRepo, SyncBegin, SyncLock, SyncPullOK, SyncPullFails, SyncHead,
        SyncHeadFails, SyncError, SyncReturn, SyncComposeStart, SyncComposeEnd,
        SyncDone, Exit, ApplyFound, ApplyNotFound, ApplyLock, ApplyPull, ApplyReturn,
        ApplyComposeStart, ApplyComposeEnd, RequestApply, RequestSync, BackoffElapses,
        IntervalElapses, Push, SetRepoRow, Signal, Crash, MainAction, WorkAction

\* The world outside: git and the environment.
LEMMA WorldFrame ==
    Next => \/ UNCHANGED <<remote, repoDB, stacksDir, disk>>
            \/ SyncPullOK \/ SyncPullFails
            \/ \E w \in Workers : ApplyPull(w)
            \/ \E r \in Repos : \/ \E c \in Commits : Push(r, c)
                                \/ \E row \in Rows, d \in Dirs : SetRepoRow(r, row, d)
  BY ZenonT(40)

\* The repo locks: taken and released by a sync and by the pull of an apply.
LEMMA LockFrame ==
    Next => \/ UNCHANGED lock
            \/ SyncLock \/ SyncReturn \/ MemoryLost
            \/ \E w \in Workers : ApplyLock(w) \/ ApplyPull(w)
  BY ZenonT(40)

\* The repo entries of the store: written by syncRepoFromDB only.
LEMMA RepoFrame ==
    Next => \/ UNCHANGED <<repoStatus, lastSHA>>
            \/ SyncPullFails \/ SyncHeadFails \/ SyncDone \/ MemoryLost
            \/ \E r \in Repos : SyncBegin(r)
  BY ZenonT(40)

\* The stack entries of the store: written by applyStack only.
LEMMA StackFrame ==
    Next => \/ UNCHANGED <<stackStatus, stackDir, tried>>
            \/ SyncComposeEnd \/ MemoryLost
            \/ \E s \in Stacks : SyncComposeStart(s)
            \/ \E w \in Workers : ApplyComposeStart(w) \/ ApplyComposeEnd(w)
  BY ZenonT(40) DEF NoteApplied

\* The history of StacksDir: edits, lists of rows, and the start of the applies.
LEMMA EditFrame ==
    Next => \/ UNCHANGED <<edited, moved>>
            \/ Start \/ ListRepos \/ SyncHead \/ MemoryLost
            \/ \E r \in Repos, row \in Rows, d \in Dirs : SetRepoRow(r, row, d)
  BY ZenonT(40) DEF NoteApplied

\* Backoff and due times: written by a sync, and changed by time.
LEMMA BackoffFrame ==
    Next => \/ UNCHANGED <<failures, suspended, waiting, due>>
            \/ SyncPullFails \/ SyncHeadFails \/ SyncDone \/ MemoryLost
            \/ \E r \in Repos : SyncBegin(r) \/ BackoffElapses(r) \/ IntervalElapses(r)
  BY ZenonT(40)

\* The trigger channel and the signal context.
LEMMA InputFrame ==
    Next => \/ UNCHANGED <<queue, ctxDone>>
            \/ TakeTrigger \/ Signal \/ MemoryLost
            \/ \E r \in Repos : RequestSync(r)
  BY ZenonT(40)

\* The locals of the main goroutine: changed by its own steps only.
LEMMA MainFrame == Next => MainAction \/ UNCHANGED mainVars
  BY ZenonT(40)

\* The locals of the apply goroutines: changed by a step of one of them only.
LEMMA WorkFrame ==
    Next => \/ UNCHANGED workVars \/ MemoryLost
            \/ \E w \in Workers : WorkAction(w)
  BY ZenonT(40)

HIDE DEF Next, MainNext, WorkerNext, Start, ListRepos, PassDone, Tick, TakeTrigger,
        DrainDone, SkipRepo, SyncBegin, SyncLock, SyncPullOK, SyncPullFails, SyncHead,
        SyncHeadFails, SyncError, SyncReturn, SyncComposeStart, SyncComposeEnd,
        SyncDone, Exit, ApplyFound, ApplyNotFound, ApplyLock, ApplyPull, ApplyReturn,
        ApplyComposeStart, ApplyComposeEnd, RequestApply, RequestSync, BackoffElapses,
        IntervalElapses, Push, SetRepoRow, Signal, Crash, MainAction, WorkAction

-----------------------------------------------------------------------------
(***************************************************************************)
(* Every step keeps the types.                                             *)
(***************************************************************************)

\* What Core says of the locals in scope, as the proofs below use it.
LEMMA InScope ==
    ASSUME Core
    PROVE  /\ mpc \in SyncPCs => cur \in Repos
           /\ mpc = "compose" => stk \in Stacks
           /\ \A w \in Workers : wpc[w] # "idle" =>
                 wjob[w] \in Keys /\ wjob[w][1] \in Repos /\ wjob[w][2] \in Stacks
  BY DEF Core, Scope, TypeOK, TypeMain, TypeWork

\* An entry of a table by repo and stack is replaced, and no other.
LEMMA StackEntry ==
    ASSUME NEW S, NEW f \in [Repos -> [Stacks -> S]],
           NEW r \in Repos, NEW s \in Stacks, NEW v \in S
    PROVE  /\ [f EXCEPT ![r][s] = v] \in [Repos -> [Stacks -> S]]
           /\ \A q \in Repos, u \in Stacks :
                 [f EXCEPT ![r][s] = v][q][u] = IF q = r /\ u = s THEN v ELSE f[q][u]
  OBVIOUS

\* The remote, the rows and the clones keep their types.
LEMMA WorldTyped == Core /\ Next => TypeWorld'
<1> SUFFICES ASSUME Core, Next PROVE TypeWorld'
  OBVIOUS
<1>a. TypeWorld
  BY DEF Core, TypeOK
<1>1. CASE SyncPullOK
  BY <1>a, <1>1, InScope DEF SyncPullOK, GitSyncOK, TypeWorld, SyncPCs
<1>2. CASE SyncPullFails
  BY <1>a, <1>2 DEF SyncPullFails, SyncError, GitSyncFails, TypeWorld
<1>3. ASSUME NEW w \in Workers, ApplyPull(w) PROVE TypeWorld'
  BY <1>a, <1>3, InScope DEF ApplyPull, GitSyncOK, GitSyncFails, TypeWorld
<1>4. ASSUME NEW r \in Repos, NEW c \in Commits, Push(r, c) PROVE TypeWorld'
  BY <1>a, <1>4 DEF Push, TypeWorld
<1>5. ASSUME NEW r \in Repos, NEW row \in Rows, NEW d \in Dirs, SetRepoRow(r, row, d)
      PROVE  TypeWorld'
  BY <1>a, <1>5 DEF SetRepoRow, TypeWorld
<1>6. CASE UNCHANGED <<remote, repoDB, stacksDir, disk>>
  BY <1>a, <1>6 DEF TypeWorld
<1> QED
  BY <1>1, <1>2, <1>3, <1>4, <1>5, <1>6, WorldFrame

\* The locks and the entries of the state store keep their types.
LEMMA StoreTyped == Core /\ Next => TypeStore'
<1> SUFFICES ASSUME Core, Next PROVE TypeStore'
  OBVIOUS
<1>a. TypeStore /\ TypeMain /\ TypeWork
  BY DEF Core, TypeOK
<1>1. (lock \in [Repos -> Procs \cup {None}])'
  <2>a. lock \in [Repos -> Procs \cup {None}]
    BY <1>a DEF TypeStore
  <2>1. CASE SyncLock \/ SyncReturn
    BY <2>a, <2>1 DEF SyncLock, SyncReturn
  <2>2. ASSUME NEW w \in Workers, ApplyLock(w) \/ ApplyPull(w)
        PROVE  (lock \in [Repos -> Procs \cup {None}])'
    <3>1. PICK p \in {w, None} : lock' = [lock EXCEPT ![wjob[w][1]] = p]
      BY <2>2 DEF ApplyLock, ApplyPull
    <3> QED
      BY <2>a, <3>1
  <2>3. CASE MemoryLost
    BY <2>3 DEF MemoryLost, AllRepos
  <2> QED
    BY <1>a, <2>1, <2>2, <2>3, LockFrame DEF TypeStore
<1>2. (repoStatus \in [Repos -> RepoStatuses] /\ lastSHA \in [Repos -> Commits \cup {NoSHA}])'
  <2>1. CASE SyncPullFails \/ SyncHeadFails
    BY <1>a, <2>1 DEF SyncPullFails, SyncHeadFails, SyncError, TypeStore
  <2>2. CASE SyncDone
    <3>1. newSHA \in Commits
      BY <2>2 DEF SyncDone, Core, HeadInv
    <3> QED
      BY <1>a, <2>2, <3>1 DEF SyncDone, TypeStore
  <2>3. CASE MemoryLost
    BY <2>3 DEF MemoryLost, AllRepos
  <2>4. CASE \E r \in Repos : SyncBegin(r)
    BY <1>a, <2>4 DEF SyncBegin, TypeStore
  <2> QED
    BY <1>a, <2>1, <2>2, <2>3, <2>4, RepoFrame DEF TypeStore
<1>3. (stackStatus \in [Repos -> [Stacks -> StackStatuses]])'
  <2>a. \A r \in Repos, s \in Stacks, v \in StackStatuses :
           [stackStatus EXCEPT ![r][s] = v] \in [Repos -> [Stacks -> StackStatuses]]
    BY <1>a, StackEntry DEF TypeStore
  <2>1. CASE SyncComposeEnd
    <3>1. PICK v \in {"ok", "error"} : stackStatus' = [stackStatus EXCEPT ![cur][stk] = v]
      BY <2>1 DEF SyncComposeEnd, ComposeEnd
    <3> QED
      BY <2>a, <2>1, <3>1, InScope DEF SyncComposeEnd, SyncPCs
  <2>2. CASE MemoryLost
    BY <2>2 DEF MemoryLost, AllStacks
  <2>3. CASE \E s \in Stacks : SyncComposeStart(s)
    BY <2>a, <2>3, InScope DEF SyncComposeStart, ComposeStart, SyncPCs
  <2>4. ASSUME NEW w \in Workers, ApplyComposeStart(w) \/ ApplyComposeEnd(w)
        PROVE  (stackStatus \in [Repos -> [Stacks -> StackStatuses]])'
    <3>1. wjob[w][1] \in Repos /\ wjob[w][2] \in Stacks
      BY <2>4, InScope DEF ApplyComposeStart, ApplyComposeEnd
    <3>2. PICK v \in {"applying", "ok", "error"} :
             stackStatus' = [stackStatus EXCEPT ![wjob[w][1]][wjob[w][2]] = v]
      BY <2>4 DEF ApplyComposeStart, ApplyComposeEnd, ComposeStart, ComposeEnd
    <3> QED
      BY <2>a, <3>1, <3>2
  <2> QED
    BY <1>a, <2>1, <2>2, <2>3, <2>4, StackFrame DEF TypeStore
<1>4. (stackDir \in [Repos -> [Stacks -> Dirs \cup {None}]])'
  <2>a. \A r \in Repos, s \in Stacks, d \in Dirs \cup {None} :
           [stackDir EXCEPT ![r][s] = d] \in [Repos -> [Stacks -> Dirs \cup {None}]]
    BY <1>a, StackEntry DEF TypeStore
  <2>1. CASE SyncComposeEnd \/ \E s \in Stacks : SyncComposeStart(s)
    <3>1. cur \in Repos /\ listedDir[cur] \in Dirs
      BY <1>a, <2>1, InScope DEF SyncComposeEnd, SyncComposeStart, SyncPCs, TypeMain
    <3> QED
      BY <2>a, <2>1, <3>1, InScope
         DEF SyncComposeEnd, ComposeEnd, SyncComposeStart, ComposeStart
  <2>2. CASE MemoryLost
    BY <2>2 DEF MemoryLost, AllStacks
  <2>3. ASSUME NEW w \in Workers, ApplyComposeStart(w) \/ ApplyComposeEnd(w)
        PROVE  (stackDir \in [Repos -> [Stacks -> Dirs \cup {None}]])'
    <3>1. wjob[w][1] \in Repos /\ wjob[w][2] \in Stacks /\ wdir[w] \in Dirs \cup {None}
      BY <1>a, <2>3, InScope DEF ApplyComposeStart, ApplyComposeEnd, TypeWork
    <3>2. stackDir' = [stackDir EXCEPT ![wjob[w][1]][wjob[w][2]] = wdir[w]]
      BY <2>3 DEF ApplyComposeStart, ApplyComposeEnd, ComposeStart, ComposeEnd
    <3> QED
      BY <2>a, <3>1, <3>2
  <2> QED
    BY <1>a, <2>1, <2>2, <2>3, StackFrame DEF TypeStore
<1>5. (tried \in [Repos -> [Stacks -> Contents \X (Dirs \cup {None})]])'
  <2>1. CASE SyncComposeEnd
    <3>1. /\ cur \in Repos /\ stk \in Stacks
          /\ <<mread, listedDir[cur]>> \in Contents \X (Dirs \cup {None})
      BY <1>a, <2>1, InScope DEF SyncComposeEnd, SyncPCs, TypeMain
    <3>2. tried' = [tried EXCEPT ![cur][stk] = <<mread, listedDir[cur]>>]
      BY <2>1 DEF SyncComposeEnd
    <3> QED
      BY <1>a, <3>1, <3>2, StackEntry DEF TypeStore
  <2>2. CASE MemoryLost
    BY <2>2 DEF MemoryLost, AllStacks
  <2>3. CASE UNCHANGED tried
    BY <1>a, <2>3 DEF TypeStore
  <2> QED
    BY <2>1, <2>2, <2>3, StackFrame DEF SyncComposeStart, ApplyComposeStart, ApplyComposeEnd
<1>6. (edited \subseteq Repos /\ moved \subseteq Repos)'
  <2>1. CASE Start \/ ListRepos \/ MemoryLost
    BY <1>a, <2>1 DEF TypeStore, Start, ListRepos, MemoryLost
  <2>2. CASE SyncHead
    BY <1>a, <2>2 DEF TypeStore, SyncHead, NoteApplied
  <2>3. ASSUME NEW r \in Repos, NEW row \in Rows, NEW d \in Dirs, SetRepoRow(r, row, d)
        PROVE  (edited \subseteq Repos /\ moved \subseteq Repos)'
    BY <1>a, <2>3 DEF TypeStore, SetRepoRow
  <2> QED
    BY <1>a, <2>1, <2>2, <2>3, EditFrame DEF TypeStore
<1> QED
  BY <1>1, <1>2, <1>3, <1>4, <1>5, <1>6 DEF TypeStore

\* The backoff keeps its types, and the channel its capacity.
LEMMA BackoffTyped == Core /\ Next => TypeBackoff'
<1> SUFFICES ASSUME Core, Next PROVE TypeBackoff'
  OBVIOUS
<1>a. TypeBackoff
  BY DEF Core, TypeOK
<1> DEFINE Table == /\ failures \in [Repos -> Nat] /\ suspended \in [Repos -> BOOLEAN]
                    /\ waiting \in [Repos -> BOOLEAN] /\ due \in [Repos -> BOOLEAN]
<1>b. Table
  BY <1>a DEF TypeBackoff
<1>1. Table'
  <2>1. CASE SyncPullFails \/ SyncHeadFails
    <3>1. RecordSyncFailure(cur) /\ UNCHANGED due
      BY <2>1 DEF SyncPullFails, SyncHeadFails, SyncError
    <3>2. failures' \in [Repos -> Nat]
      <4>1. failures' = [failures EXCEPT ![cur] = failures[cur] + 1]
        BY <3>1 DEF RecordSyncFailure
      <4>2. failures \in [Repos -> Nat] /\ cur \in Repos
        BY <1>b, <2>1, InScope DEF SyncPullFails, SyncHeadFails, SyncPCs
      <4> QED
        BY <4>1, <4>2
    <3> QED
      BY <1>b, <3>1, <3>2 DEF RecordSyncFailure
  <2>2. CASE SyncDone
    BY <1>b, <2>2 DEF SyncDone, ClearBackoff
  <2>3. CASE MemoryLost
    BY <2>3 DEF MemoryLost, AllRepos
  <2>4. ASSUME NEW r \in Repos, SyncBegin(r) PROVE Table'
    <3>1. CASE mode = "trigger"
      <4>1. ClearBackoff(r) /\ UNCHANGED due
        BY <2>4, <3>1 DEF SyncBegin
      <4> QED
        BY <1>b, <4>1 DEF ClearBackoff
    <3>2. CASE mode # "trigger"
      BY <1>b, <2>4, <3>2 DEF SyncBegin
    <3> QED
      BY <3>1, <3>2
  <2>5. CASE \E r \in Repos : BackoffElapses(r) \/ IntervalElapses(r)
    BY <1>b, <2>5 DEF BackoffElapses, IntervalElapses
  <2> QED
    BY <1>b, <2>1, <2>2, <2>3, <2>4, <2>5, BackoffFrame
<1>2. (queue \in Seq(Repos) /\ Len(queue) <= QueueCap /\ ctxDone \in BOOLEAN)'
  <2>1. CASE TakeTrigger
    BY <1>a, <2>1, ConstantsAssumption DEF TakeTrigger, TypeBackoff
  <2>2. CASE Signal
    BY <1>a, <2>2 DEF Signal, TypeBackoff
  <2>3. CASE MemoryLost
    <3>1. queue' = << >> /\ ctxDone' \in BOOLEAN
      BY <2>3 DEF MemoryLost
    <3>2. Len(queue') = 0 /\ queue' \in Seq(Repos)
      BY <3>1
    <3> QED
      BY <3>1, <3>2, ConstantsAssumption
  <2>4. ASSUME NEW r \in Repos, RequestSync(r)
        PROVE  (queue \in Seq(Repos) /\ Len(queue) <= QueueCap /\ ctxDone \in BOOLEAN)'
    BY <1>a, <2>4, ConstantsAssumption DEF RequestSync, TypeBackoff
  <2> QED
    BY <1>a, <2>1, <2>2, <2>3, <2>4, InputFrame DEF TypeBackoff
<1> QED
  BY <1>1, <1>2 DEF TypeBackoff

\* The locals of the main goroutine keep their types.
LEMMA MainTyped == Core /\ Next => TypeMain'
<1> SUFFICES ASSUME Core, Next PROVE TypeMain'
  OBVIOUS
<1>a. TypeMain /\ TypeWorld /\ TypeStore /\ TypeBackoff
  BY DEF Core, TypeOK
<1>1. CASE Start \/ ListRepos
  BY <1>a, <1>1 DEF Start, ListRepos, ListResult, Enabled, AllRepos, TypeMain, TypeWorld
<1>2. CASE PassDone \/ Tick \/ DrainDone
  BY <1>a, <1>2 DEF PassDone, Tick, DrainDone, TypeMain
<1>3. CASE TakeTrigger
  BY <1>a, <1>3 DEF TakeTrigger, TypeMain, TypeBackoff
<1>4. CASE \E r \in Repos : SkipRepo(r) \/ SyncBegin(r)
  BY <1>a, <1>4 DEF SkipRepo, SyncBegin, TypeMain
<1>5. CASE SyncLock
  BY <1>a, <1>5, InScope DEF SyncLock, SyncPCs, TypeMain, TypeStore
<1>6. CASE SyncPullOK
  BY <1>a, <1>6 DEF SyncPullOK, TypeMain
<1>7. CASE SyncPullFails \/ SyncHeadFails \/ SyncDone
  BY <1>a, <1>7 DEF SyncPullFails, SyncHeadFails, SyncError, SyncDone, SyncReturn, TypeMain
<1>8. CASE SyncHead
  <2>1. cur \in Repos /\ disk[cur] \in Commits /\ listedDir[cur] \in Dirs
    BY <1>a, <1>8, InScope DEF SyncHead, SyncPCs, Core, HeadInv, TypeMain
  <2>2. StacksOf[disk[cur]][listedDir[cur]] \subseteq Stacks
    BY <2>1, ConstantsAssumption
  <2> QED
    BY <1>a, <1>8, <2>1, <2>2 DEF SyncHead, StacksFound, TypeMain
<1>9. ASSUME NEW s \in Stacks, SyncComposeStart(s) PROVE TypeMain'
  <2>1. Readable(Main, cur) \subseteq Contents
    BY <1>a, <1>9, InScope DEF SyncComposeStart, Readable, SyncPCs, TypeWorld
  <2> QED
    BY <1>a, <1>9, <2>1 DEF SyncComposeStart, TypeMain
<1>10. CASE SyncComposeEnd
  BY <1>a, <1>10 DEF SyncComposeEnd, TypeMain
<1>11. CASE MemoryLost
  <2>1. listedDir' \in [Repos -> Dirs]
    BY <1>a, <1>11 DEF MemoryLost, TypeWorld
  <2> QED
    BY <1>11, <2>1 DEF MemoryLost, AllRepos, TypeMain
<1>12. CASE UNCHANGED mainVars
  BY <1>a, <1>12 DEF TypeMain
<1> QED
  BY <1>1, <1>2, <1>3, <1>4, <1>5, <1>6, <1>7, <1>8, <1>9, <1>10, <1>11, <1>12,
     MainFrame DEF MainAction, MainNext, Exit, Crash

\* The locals of the apply goroutines keep their types.
LEMMA WorkTyped == Core /\ Next => TypeWork'
<1> SUFFICES ASSUME Core, Next PROVE TypeWork'
  OBVIOUS
<1>a. TypeWork /\ TypeWorld /\ TypeStore
  BY DEF Core, TypeOK
<1>1. ASSUME NEW w \in Workers, NEW k \in Keys, RequestApply(w, k) PROVE TypeWork'
  <2>1. stackDir[k[1]][k[2]] \in Dirs \cup {None}
    BY <1>a DEF TypeStore
  <2> QED
    BY <1>a, <1>1, <2>1 DEF RequestApply, TypeWork
<1>2. ASSUME NEW w \in Workers, ApplyFound(w) \/ ApplyLock(w) \/ ApplyPull(w)
      PROVE  TypeWork'
  BY <1>a, <1>2 DEF ApplyFound, ApplyLock, ApplyPull, TypeWork
<1>3. ASSUME NEW w \in Workers, ApplyNotFound(w) \/ ApplyComposeEnd(w) PROVE TypeWork'
  BY <1>a, <1>3 DEF ApplyNotFound, ApplyComposeEnd, ApplyReturn, TypeWork
<1>4. ASSUME NEW w \in Workers, ApplyComposeStart(w) PROVE TypeWork'
  <2>1. Readable(w, wjob[w][1]) \subseteq Contents
    BY <1>a, <1>4, InScope DEF ApplyComposeStart, Readable, TypeWorld
  <2> QED
    BY <1>a, <1>4, <2>1 DEF ApplyComposeStart, TypeWork
<1>5. CASE MemoryLost
  BY <1>5 DEF MemoryLost, TypeWork
<1>6. CASE UNCHANGED workVars
  BY <1>a, <1>6 DEF TypeWork
<1> QED
  BY <1>1, <1>2, <1>3, <1>4, <1>5, <1>6, WorkFrame DEF WorkAction, WorkerNext

-----------------------------------------------------------------------------
(***************************************************************************)
(* Every step keeps Scope, LockInv and HeadInv.                            *)
(***************************************************************************)

\* A local has a value exactly while its function runs.
LEMMA ScopeStep == Core /\ Next => Scope'
<1> SUFFICES ASSUME Core, Next PROVE Scope'
  OBVIOUS
<1>a. Scope /\ TypeWork /\ TypeMain
  BY DEF Core, TypeOK
<1>1. (mpc \in SyncPCs <=> cur # None)' /\ (mpc = "compose" <=> stk # None)'
  <2>1. CASE \/ Start \/ ListRepos \/ PassDone \/ Tick \/ TakeTrigger \/ DrainDone
             \/ \E r \in Repos : SkipRepo(r)
    BY <1>a, <2>1 DEF Start, ListRepos, PassDone, Tick, TakeTrigger, DrainDone, SkipRepo,
       Scope, SyncPCs
  <2>2. CASE \E r \in Repos : SyncBegin(r)
    BY <1>a, <2>2, NoneFresh DEF SyncBegin, Scope, SyncPCs
  <2>3. CASE SyncLock \/ SyncPullOK \/ SyncHead
    BY <1>a, <2>3 DEF SyncLock, SyncPullOK, SyncHead, Scope, SyncPCs
  <2>4. CASE SyncPullFails \/ SyncHeadFails \/ SyncDone
    BY <1>a, <2>4 DEF SyncPullFails, SyncHeadFails, SyncError, SyncDone, SyncReturn, Scope,
       SyncPCs
  <2>5. CASE SyncComposeEnd \/ \E s \in Stacks : SyncComposeStart(s)
    BY <1>a, <2>5, NoneFresh DEF SyncComposeStart, SyncComposeEnd, Scope, SyncPCs
  <2>6. CASE MemoryLost
    BY <2>6 DEF MemoryLost, SyncPCs
  <2>7. CASE UNCHANGED mainVars
    BY <1>a, <2>7 DEF Scope
  <2> QED
    BY <2>1, <2>2, <2>3, <2>4, <2>5, <2>6, <2>7, MainFrame
       DEF MainAction, MainNext, Exit, Crash
<1>2. (\A w \in Workers : wpc[w] = "idle" <=> wjob[w] = None)'
  <2>1. ASSUME NEW w \in Workers, NEW k \in Keys, RequestApply(w, k)
        PROVE  (\A v \in Workers : wpc[v] = "idle" <=> wjob[v] = None)'
    BY <1>a, <2>1, NoneFresh DEF RequestApply, Scope, TypeWork
  <2>2. ASSUME NEW w \in Workers,
               ApplyFound(w) \/ ApplyLock(w) \/ ApplyPull(w) \/ ApplyComposeStart(w)
        PROVE  (\A v \in Workers : wpc[v] = "idle" <=> wjob[v] = None)'
    BY <1>a, <2>2 DEF ApplyFound, ApplyLock, ApplyPull, ApplyComposeStart, Scope, TypeWork
  <2>3. ASSUME NEW w \in Workers, ApplyNotFound(w) \/ ApplyComposeEnd(w)
        PROVE  (\A v \in Workers : wpc[v] = "idle" <=> wjob[v] = None)'
    BY <1>a, <2>3 DEF ApplyNotFound, ApplyComposeEnd, ApplyReturn, Scope, TypeWork
  <2>4. CASE MemoryLost
    BY <2>4 DEF MemoryLost
  <2>5. CASE UNCHANGED workVars
    BY <1>a, <2>5 DEF Scope
  <2> QED
    BY <2>1, <2>2, <2>3, <2>4, <2>5, WorkFrame DEF WorkAction, WorkerNext
<1> QED
  BY <1>1, <1>2 DEF Scope

\* Whoever is in a section guarded by a repo lock goes on holding that lock.
LEMMA LockStep == Core /\ Next => LockInv'
<1> SUFFICES ASSUME Core, Next, NEW r \in Repos
             PROVE  /\ (lock[r] = Main <=> mpc \in LockPCs /\ cur = r)'
                    /\ (\A w \in Workers : lock[r] = w <=> wpc[w] = "pull" /\ wjob[w][1] = r)'
  BY DEF LockInv
<1> DEFINE MainSide == lock[r] = Main <=> mpc \in LockPCs /\ cur = r
           WorkSide == \A v \in Workers : lock[r] = v <=> wpc[v] = "pull" /\ wjob[v][1] = r
<1>a. MainSide /\ WorkSide /\ TypeStore /\ TypeWork /\ lock \in [Repos -> Procs \cup {None}]
  BY DEF Core, TypeOK, LockInv, TypeStore
<1>b. \A v \in Workers : v # Main /\ v # None
  BY NoneFresh
<1>1. CASE MemoryLost
  BY <1>1, NoneFresh DEF MemoryLost, AllRepos, LockPCs
<1>2. CASE SyncLock
  <2>1. cur \in Repos /\ lock[cur] = None /\ UNCHANGED <<wpc, wjob, cur>>
    BY <1>2, InScope DEF SyncLock, SyncPCs
  <2>2. lock' = [lock EXCEPT ![cur] = Main] /\ mpc = "lock" /\ mpc' = "pull"
    BY <1>2 DEF SyncLock
  <2> QED
    BY <1>a, <1>b, <2>1, <2>2 DEF LockPCs
<1>3. CASE SyncPullFails \/ SyncHeadFails \/ SyncDone
  <2>1. mpc \in LockPCs /\ cur \in Repos
    BY <1>3, InScope DEF SyncPullFails, SyncHeadFails, SyncDone, SyncPCs, LockPCs
  <2>2. lock[cur] = Main
    BY <2>1 DEF Core, LockInv
  <2>3. lock' = [lock EXCEPT ![cur] = None] /\ mpc' = "pick" /\ UNCHANGED <<wpc, wjob>>
    BY <1>3 DEF SyncPullFails, SyncHeadFails, SyncError, SyncDone, SyncReturn
  <2> QED
    BY <1>a, <1>b, <2>1, <2>2, <2>3, NoneFresh DEF LockPCs
<1>4. CASE \/ Start \/ ListRepos \/ PassDone \/ Tick \/ TakeTrigger \/ DrainDone
           \/ \E q \in Repos : SkipRepo(q) \/ SyncBegin(q)
  <2>1. mpc \notin LockPCs /\ mpc' \notin LockPCs /\ UNCHANGED <<lock, wpc, wjob>>
    BY <1>4 DEF Start, ListRepos, PassDone, Tick, TakeTrigger, DrainDone, SkipRepo,
       SyncBegin, LockPCs
  <2> QED
    BY <1>a, <2>1
<1>5. CASE \/ SyncPullOK \/ SyncHead \/ SyncComposeEnd
           \/ \E s \in Stacks : SyncComposeStart(s)
  <2>1. mpc \in LockPCs /\ mpc' \in LockPCs /\ UNCHANGED <<lock, cur, wpc, wjob>>
    BY <1>5 DEF SyncPullOK, SyncHead, SyncComposeStart, SyncComposeEnd, LockPCs
  <2> QED
    BY <1>a, <2>1
<1>6. ASSUME NEW w \in Workers, WorkAction(w) PROVE MainSide' /\ WorkSide'
  <2>a. UNCHANGED mainVars
    BY <1>6 DEF WorkAction, WorkerNext, RequestApply, ApplyFound, ApplyNotFound, ApplyLock,
       ApplyPull, ApplyComposeStart, ApplyComposeEnd
  <2>1. CASE ApplyLock(w)
    <3>1. wjob[w][1] \in Repos /\ lock[wjob[w][1]] = None /\ UNCHANGED wjob
      BY <2>1, InScope DEF ApplyLock
    <3>2. lock' = [lock EXCEPT ![wjob[w][1]] = w] /\ wpc' = [wpc EXCEPT ![w] = "pull"]
      BY <2>1 DEF ApplyLock
    <3>3. MainSide'
      BY <1>a, <1>b, <2>a, <3>1, <3>2, NoneFresh
    <3>4. wpc[w] # "pull"
      BY <2>1 DEF ApplyLock
    <3>5. WorkSide'
      <4> SUFFICES ASSUME NEW v \in Workers
                   PROVE  (lock[r] = v <=> wpc[v] = "pull" /\ wjob[v][1] = r)'
        OBVIOUS
      <4>1. CASE v = w
        BY <1>a, <1>b, <3>1, <3>2, <3>4, <4>1 DEF TypeWork
      <4>2. CASE v # w
        BY <1>a, <1>b, <3>1, <3>2, <4>2 DEF TypeWork
      <4> QED
        BY <4>1, <4>2
    <3> QED
      BY <3>3, <3>5
  <2>2. CASE ApplyPull(w)
    <3>1. wjob[w][1] \in Repos /\ wpc[w] = "pull" /\ UNCHANGED wjob
      BY <2>2, InScope DEF ApplyPull
    <3>2. lock[wjob[w][1]] = w
      BY <3>1 DEF Core, LockInv
    <3>3. lock' = [lock EXCEPT ![wjob[w][1]] = None] /\ wpc' = [wpc EXCEPT ![w] = "ready"]
      BY <2>2 DEF ApplyPull
    <3> QED
      BY <1>a, <1>b, <2>a, <3>1, <3>2, <3>3, NoneFresh DEF TypeWork
  <2>3. CASE ~ApplyLock(w) /\ ~ApplyPull(w)
    <3>1. /\ UNCHANGED lock /\ wpc[w] # "pull" /\ wpc'[w] # "pull"
          /\ \A v \in Workers \ {w} : wpc'[v] = wpc[v] /\ wjob'[v] = wjob[v]
      BY <1>a, <1>6, <2>3 DEF WorkAction, WorkerNext, RequestApply, ApplyFound, ApplyNotFound,
         ApplyReturn, ApplyComposeStart, ApplyComposeEnd, TypeWork
    <3> QED
      BY <1>a, <2>a, <3>1
  <2> QED
    BY <2>1, <2>2, <2>3
<1>7. CASE UNCHANGED <<lock, mainVars, workVars>>
  BY <1>a, <1>7
<1>8. MainAction \/ (\E w \in Workers : WorkAction(w)) \/ UNCHANGED <<lock, mainVars, workVars>>
  BY DEF Next, MainAction, WorkAction, RequestSync, BackoffElapses, IntervalElapses, Push,
     SetRepoRow, Signal
<1> QED
  BY <1>1, <1>2, <1>3, <1>4, <1>5, <1>6, <1>7, <1>8 DEF MainAction, MainNext, Exit, Crash

\* While main is inside the section of its repo, no other goroutine works on it.
LEMMA NobodyElsePulls ==
    ASSUME Core, mpc \in LockPCs, NEW w \in Workers, wpc[w] = "pull"
    PROVE  wjob[w][1] # cur
<1>1. cur \in Repos
  BY InScope DEF SyncPCs, LockPCs
<1>2. lock[cur] = Main
  BY <1>1 DEF Core, LockInv
<1> QED
  BY <1>1, <1>2, NoneFresh DEF Core, LockInv

\* Nothing moves the clone between the pull of a sync and its end.
LEMMA HeadStep == Core /\ Next => HeadInv'
<1> SUFFICES ASSUME Core, Next, mpc' \in {"head", "stacks", "compose"}
             PROVE  (disk[cur] \in Commits /\ (mpc # "head" => newSHA = disk[cur]))'
  BY DEF HeadInv
<1> DEFINE Goal == disk[cur] \in Commits /\ (mpc # "head" => newSHA = disk[cur])
<1>a. HeadInv /\ TypeWorld /\ (mpc \in SyncPCs => cur \in Repos)
  BY InScope DEF Core, TypeOK
<1>1. CASE SyncPullOK
  BY <1>a, <1>1 DEF SyncPullOK, GitSyncOK, TypeWorld, SyncPCs
<1>2. CASE SyncHead \/ SyncComposeEnd \/ \E s \in Stacks : SyncComposeStart(s)
  BY <1>a, <1>2 DEF SyncHead, SyncComposeStart, SyncComposeEnd, HeadInv
<1>3. CASE ~(SyncPullOK \/ SyncHead \/ SyncComposeEnd \/ \E s \in Stacks : SyncComposeStart(s))
  <2>1. mpc \in {"head", "stacks", "compose"} /\ UNCHANGED <<mpc, cur, newSHA>>
    BY <1>3, MainFrame DEF MainAction, MainNext, Start, ListRepos, PassDone, Tick, TakeTrigger,
       DrainDone, SkipRepo, SyncBegin, SyncLock, SyncPullFails, SyncHeadFails, SyncError,
       SyncReturn, SyncDone, Exit, Crash, MemoryLost
  <2>2. disk'[cur] = disk[cur]
    <3>1. ASSUME NEW w \in Workers, ApplyPull(w) PROVE disk'[cur] = disk[cur]
      <4>1. wjob[w][1] # cur
        BY <2>1, <3>1, NobodyElsePulls DEF ApplyPull, LockPCs
      <4> QED
        BY <1>a, <2>1, <3>1, <4>1
           DEF ApplyPull, GitSyncOK, GitSyncFails, TypeWorld, SyncPCs
    <3>2. CASE ~\E w \in Workers : ApplyPull(w)
      BY <1>3, <2>1, <3>2, WorldFrame DEF SyncPullFails, Push, SetRepoRow
    <3> QED
      BY <3>1, <3>2
  <2> QED
    BY <1>a, <2>1, <2>2 DEF HeadInv
<1> QED
  BY <1>1, <1>2, <1>3

\* The core invariant holds in every reachable state.
THEOREM CoreInvariant == Spec => []Core
<1>1. Init => Core
  BY CoreInit
<1>2. Core /\ [Next]_vars => Core'
  <2>1. CASE Next
    BY <2>1, WorldTyped, StoreTyped, BackoffTyped, MainTyped, WorkTyped, ScopeStep, LockStep,
       HeadStep DEF Core, TypeOK
  <2>2. CASE UNCHANGED vars
    BY <2>2 DEF vars, Core, TypeOK, TypeWorld, TypeStore, TypeBackoff, TypeMain, TypeWork,
       Scope, LockInv, HeadInv
  <2> QED
    BY <2>1, <2>2
<1> QED
  BY <1>1, <1>2, PTL DEF Spec

\* Every variable keeps its type, the channel stays within its capacity and the
\* recorded SHA is that of a commit.
THEOREM TypeCorrect == Spec => []TypeOK
  BY CoreInvariant, PTL DEF Core

\* At most one goroutine at a time is in the section guarded by a repo's lock,
\* whichever of scheduled sync, manual sync and per-stack apply brought it there.
THEOREM RepoLockExclusion == Spec => []RepoLockExclusive
<1>1. Core => RepoLockExclusive
  BY NoneFresh DEF Core, LockInv, LockPCs, RepoLockExclusive, InSection
<1> QED
  BY <1>1, CoreInvariant, PTL

-----------------------------------------------------------------------------
(***************************************************************************)
(* A recorded SHA has been applied.                                        *)
(***************************************************************************)

\* Every stack the sync loop applies is applied at the commit that will be recorded:
\* compose starts on the commit at HEAD, with the lock held.
THEOREM AppliesHead == Spec => []SyncAppliesHead
<1>1. Init => SyncAppliesHead
  BY DEF Init, MemoryInit, SyncAppliesHead
<1>2. ASSUME Core, SyncAppliesHead, [Next]_vars PROVE SyncAppliesHead'
  <2>1. ASSUME NEW s \in Stacks, SyncComposeStart(s) PROVE SyncAppliesHead'
    <3>1. /\ UNCHANGED <<cur, newSHA>> /\ mpc = "stacks"
          /\ mread' \in Readable(Main, cur)
      BY <2>1 DEF SyncComposeStart
    <3>2. \A w \in Workers : ~Pulling(w, cur)
      BY <1>2, <3>1, NoneFresh, NobodyElsePulls DEF Pulling, LockPCs
    <3> QED
      BY <1>2, <3>1, <3>2 DEF Readable, Core, HeadInv, SyncAppliesHead
  <2>2. CASE ~ \E s \in Stacks : SyncComposeStart(s)
    <3>1. mpc' # "compose" \/ UNCHANGED <<mpc, mread, newSHA>>
      BY <1>2, <2>2, MainFrame DEF vars, MainAction, MainNext, Start, ListRepos, PassDone,
         Tick, TakeTrigger, DrainDone, SkipRepo, SyncBegin, SyncLock, SyncPullOK,
         SyncPullFails, SyncHead, SyncHeadFails, SyncError, SyncReturn, SyncComposeEnd,
         SyncDone, Exit, Crash, MemoryLost
    <3> QED
      BY <1>2, <3>1 DEF SyncAppliesHead
  <2> QED
    BY <2>1, <2>2
<1> QED
  BY <1>1, <1>2, CoreInvariant, PTL DEF Spec

\* Main compares with the SHA of the store, composes the commit it will record,
\* and each stack of that commit is pending, being composed, or done.  The rows main
\* has listed agree with the table but for the StacksDir edited since.
CommitInv ==
    /\ mpc \in LockPCs => oldSHA = lastSHA[cur]
    /\ mpc = "compose" => mread = newSHA
    /\ edited \subseteq moved
    /\ \A r \in Repos \ edited : listedDir[r] = stacksDir[r]
    /\ mpc \in {"stacks", "compose"} /\ cur \notin moved =>
          \A s \in StacksOf[newSHA][stacksDir[cur]] :
             s \in pend \cup {stk} \/ tried[cur][s] = <<newSHA, stacksDir[cur]>>
    /\ RecordedShaApplied

\* A step that leaves all of this alone keeps it.
LEMMA CommitFrame ==
    ASSUME CommitInv,
           UNCHANGED <<mpc, cur, oldSHA, newSHA, mread, pend, stk, lastSHA, stacksDir,
                       listedDir, histVars>>
    PROVE  CommitInv'
  BY DEF CommitInv, RecordedShaApplied, Recorded

\* An edit of a row: a new StacksDir is noted, and the old one says nothing any more.
LEMMA CommitEdit ==
    ASSUME Core, CommitInv, NEW q \in Repos, NEW row \in Rows, NEW d \in Dirs,
           SetRepoRow(q, row, d)
    PROVE  CommitInv'
<1>a. stacksDir \in [Repos -> Dirs] /\ (mpc \in {"stacks", "compose"} => cur \in Repos)
  BY InScope DEF Core, TypeOK, TypeWorld, SyncPCs
<1>1. UNCHANGED <<mpc, cur, oldSHA, newSHA, mread, pend, stk, lastSHA, listedDir, tried>>
  BY DEF SetRepoRow
<1>2. CASE d = stacksDir[q]
  <2>1. UNCHANGED <<stacksDir, edited, moved>>
    BY <1>a, <1>2 DEF SetRepoRow
  <2> QED
    BY <1>1, <2>1, CommitFrame
<1>3. CASE d # stacksDir[q]
  <2>1. /\ edited' = edited \cup {q} /\ moved' = moved \cup {q}
        /\ \A r \in Repos \ {q} : stacksDir'[r] = stacksDir[r]
    BY <1>a, <1>3 DEF SetRepoRow
  <2> QED
    BY <1>a, <1>1, <2>1 DEF CommitInv, RecordedShaApplied, Recorded
<1> QED
  BY <1>2, <1>3

\* The steps of main outside syncRepoFromDB, and those up to the pull.
LEMMA CommitPass ==
    ASSUME Core, CommitInv,
           \/ Start \/ ListRepos \/ PassDone \/ Tick \/ TakeTrigger \/ DrainDone
           \/ \E r \in Repos : SkipRepo(r) \/ SyncBegin(r)
           \/ SyncLock \/ SyncPullOK
    PROVE  CommitInv'
<1>1. UNCHANGED <<lastSHA, tried, moved, stacksDir>> /\ mpc \notin {"stacks", "compose"}
  BY DEF Start, ListRepos, PassDone, Tick, TakeTrigger, DrainDone, SkipRepo, SyncBegin,
     SyncLock, SyncPullOK
<1>2. mpc' \notin {"stacks", "compose"}
  BY DEF Start, ListRepos, PassDone, Tick, TakeTrigger, DrainDone, SkipRepo, SyncBegin,
     SyncLock, SyncPullOK
<1>3. RecordedShaApplied'
  BY <1>1, <1>2 DEF CommitInv, RecordedShaApplied, Recorded
<1>4. (mpc \in LockPCs => oldSHA = lastSHA[cur])'
  BY DEF Start, ListRepos, PassDone, Tick, TakeTrigger, DrainDone, SkipRepo, SyncBegin,
     SyncLock, SyncPullOK, LockPCs, CommitInv
<1>5. UNCHANGED <<edited, listedDir>> \/ (edited' = {} /\ listedDir' = stacksDir)
  BY DEF Start, ListRepos, PassDone, Tick, TakeTrigger, DrainDone, SkipRepo, SyncBegin,
     SyncLock, SyncPullOK
<1> QED
  BY <1>1, <1>2, <1>3, <1>4, <1>5 DEF CommitInv

\* One case per action of main; stacks are found when directories can be read.
LEMMA CommitStep == "fs" \notin Faults /\ Core /\ CommitInv /\ Next => CommitInv'
<1> SUFFICES ASSUME "fs" \notin Faults, Core, CommitInv, Next PROVE CommitInv'
  OBVIOUS
<1>a. TypeStore /\ TypeMain /\ TypeWorld
  BY DEF Core, TypeOK
<1>b. mpc \in SyncPCs => cur \in Repos
  BY InScope
<1>c. Main \notin Workers
  BY NoneFresh
<1>d. \A c \in Commits, r \in Repos : StacksOf[c][stacksDir[r]] \subseteq Stacks
  BY <1>a, ConstantsAssumption DEF TypeWorld
<1>1. CASE MemoryLost /\ UNCHANGED extVars
  BY <1>1 DEF MemoryLost, AllRepos, AllStacks, CommitInv, RecordedShaApplied, Recorded,
     LockPCs
<1>2. CASE \/ Start \/ ListRepos \/ PassDone \/ Tick \/ TakeTrigger \/ DrainDone
           \/ (\E r \in Repos : SkipRepo(r) \/ SyncBegin(r)) \/ SyncLock \/ SyncPullOK
  BY <1>2, CommitPass
<1>3. CASE SyncPullFails \/ SyncHeadFails
  <2>1. /\ UNCHANGED <<lastSHA, histVars, stacksDir, listedDir>>
        /\ mpc \in {"pull", "head"} /\ mpc' = "pick"
    BY <1>3 DEF SyncPullFails, SyncHeadFails, SyncError, SyncReturn
  <2> QED
    BY <2>1 DEF CommitInv, RecordedShaApplied, Recorded, LockPCs
<1>4. CASE SyncHead
  <2>1. /\ UNCHANGED <<cur, oldSHA, lastSHA, tried, edited, stk, stacksDir, listedDir>>
        /\ mpc = "head" /\ mpc' = "stacks" /\ cur \in Repos
        /\ newSHA' = disk[cur] /\ newSHA' \in Commits /\ oldSHA = lastSHA[cur]
        /\ pend' = IF newSHA' # oldSHA THEN StacksOf[newSHA'][listedDir[cur]] ELSE {}
        /\ moved' = IF newSHA' # oldSHA /\ cur \notin edited THEN moved \ {cur} ELSE moved
    BY <1>4, <1>b DEF SyncHead, StacksFound, NoteApplied, Core, HeadInv, CommitInv, LockPCs,
       SyncPCs
  <2>2. CASE newSHA' = oldSHA
    <3>1. cur \notin moved => \A s \in StacksOf[newSHA'][stacksDir[cur]] :
                                 tried[cur][s] = <<newSHA', stacksDir[cur]>>
      BY <2>1, <2>2, ConstantsAssumption DEF CommitInv, RecordedShaApplied, Recorded
    <3>2. RecordedShaApplied'
      BY <2>1, <2>2 DEF CommitInv, RecordedShaApplied, Recorded
    <3> QED
      BY <2>1, <2>2, <3>1, <3>2 DEF CommitInv, LockPCs
  <2>3. CASE newSHA' # oldSHA
    <3>1. cur \notin moved' => listedDir[cur] = stacksDir[cur]
      BY <2>1, <2>3 DEF CommitInv
    <3>2. RecordedShaApplied'
      BY <2>1, <2>3 DEF CommitInv, RecordedShaApplied, Recorded
    <3>3. edited' \subseteq moved'
      BY <2>1, <2>3 DEF CommitInv
    <3> QED
      BY <2>1, <2>3, <3>1, <3>2, <3>3 DEF CommitInv, LockPCs
  <2> QED
    BY <2>2, <2>3
<1>5. ASSUME NEW s \in Stacks, SyncComposeStart(s) PROVE CommitInv'
  <2>1. /\ UNCHANGED <<cur, oldSHA, newSHA, lastSHA, histVars, stacksDir, listedDir>>
        /\ mpc = "stacks" /\ mpc' = "compose" /\ stk' = s /\ pend' = pend \ {s}
        /\ mread' \in Readable(Main, cur) /\ cur \in Repos
    BY <1>5, <1>b DEF SyncComposeStart, SyncPCs
  <2>2. \A w \in Workers : ~Pulling(w, cur)
    BY <1>c, <2>1, NobodyElsePulls DEF Pulling, LockPCs
  <2>3. mread' = newSHA' /\ newSHA \in Commits
    BY <2>1, <2>2 DEF Readable, Core, HeadInv
  <2>4. stk = None
    BY <2>1 DEF Core, Scope
  <2>5. ASSUME cur \notin moved, NEW q \in StacksOf[newSHA][stacksDir[cur]]
        PROVE  q \in pend' \cup {stk'} \/ tried[cur][q] = <<newSHA, stacksDir[cur]>>
    <3>1. q \in Stacks
      BY <1>d, <2>1, <2>3
    <3> QED
      BY <2>1, <2>4, <2>5, <3>1, NoneFresh DEF CommitInv
  <2>6. RecordedShaApplied'
    BY <2>1 DEF CommitInv, RecordedShaApplied, Recorded
  <2> QED
    BY <2>1, <2>3, <2>5, <2>6 DEF CommitInv, LockPCs
<1>6. CASE SyncComposeEnd
  <2>1. /\ UNCHANGED <<cur, oldSHA, newSHA, lastSHA, pend, edited, moved, stacksDir, listedDir>>
        /\ mpc = "compose" /\ mpc' = "stacks" /\ stk' = None /\ mread = newSHA
        /\ tried' = [tried EXCEPT ![cur][stk] = <<mread, listedDir[cur]>>]
    BY <1>6 DEF SyncComposeEnd, CommitInv
  <2>2. cur \in Repos /\ stk \in Stacks /\ newSHA \in Commits /\ listedDir[cur] \in Dirs
    BY <1>a, <2>1, InScope DEF SyncPCs, Core, HeadInv, TypeMain
  <2>3. \A q \in Repos, u \in Stacks :
           tried'[q][u] = IF q = cur /\ u = stk THEN <<newSHA, listedDir[cur]>> ELSE tried[q][u]
    BY <1>a, <2>1, <2>2, StackEntry DEF TypeStore
  <2>4. cur \notin moved => listedDir[cur] = stacksDir[cur]
    BY <2>2 DEF CommitInv
  <2>5. ASSUME cur \notin moved, NEW u \in StacksOf[newSHA][stacksDir[cur]]
        PROVE  u \in pend \/ tried'[cur][u] = <<newSHA, stacksDir[cur]>>
    <3>1. u \in Stacks
      BY <1>d, <2>2
    <3>2. u \in pend \cup {stk} \/ tried[cur][u] = <<newSHA, stacksDir[cur]>>
      BY <2>1, <2>5 DEF CommitInv
    <3> QED
      BY <2>2, <2>3, <2>4, <2>5, <3>1, <3>2
  <2>6. RecordedShaApplied'
    <3> SUFFICES ASSUME NEW q \in Repos, q # cur, lastSHA[q] # NoSHA, q \notin moved,
                        NEW u \in StacksOf[lastSHA[q]][stacksDir[q]]
                 PROVE  tried'[q][u] = <<lastSHA[q], stacksDir[q]>>
      BY <2>1 DEF RecordedShaApplied, Recorded
    <3>1. u \in Stacks
      BY <1>a, <1>d DEF TypeStore
    <3> QED
      BY <2>3, <3>1 DEF CommitInv, RecordedShaApplied, Recorded
  <2> QED
    BY <2>1, <2>5, <2>6 DEF CommitInv, LockPCs
<1>7. CASE SyncDone
  <2>1. /\ UNCHANGED <<histVars, stacksDir, listedDir>>
        /\ lastSHA' = [lastSHA EXCEPT ![cur] = newSHA]
        /\ mpc = "stacks" /\ mpc' = "pick" /\ pend = {} /\ cur \in Repos
    BY <1>7, <1>b DEF SyncDone, SyncReturn, SyncPCs
  <2>2. stk = None /\ newSHA \in Commits
    BY <2>1 DEF Core, Scope, HeadInv
  <2>3. cur \notin moved => \A s \in StacksOf[newSHA][stacksDir[cur]] :
                               tried[cur][s] = <<newSHA, stacksDir[cur]>>
    BY <1>d, <2>1, <2>2, NoneFresh DEF CommitInv
  <2>4. RecordedShaApplied'
    <3> SUFFICES ASSUME NEW q \in Repos, lastSHA'[q] # NoSHA, q \notin moved,
                        NEW u \in StacksOf[lastSHA'[q]][stacksDir[q]]
                 PROVE  tried[q][u] = <<lastSHA'[q], stacksDir[q]>>
      BY <2>1 DEF RecordedShaApplied, Recorded
    <3>1. CASE q = cur
      BY <1>a, <2>1, <2>3, <3>1 DEF TypeStore
    <3>2. CASE q # cur
      BY <1>a, <2>1, <3>2 DEF TypeStore, CommitInv, RecordedShaApplied, Recorded
    <3> QED
      BY <3>1, <3>2
  <2> QED
    BY <2>1, <2>4 DEF CommitInv, LockPCs
<1>8. CASE UNCHANGED <<mainVars, lastSHA, stacksDir, histVars>>
  BY <1>8, CommitFrame
<1>9. CASE \E r \in Repos, row \in Rows, d \in Dirs : SetRepoRow(r, row, d)
  BY <1>9, CommitEdit
<1>10. \/ MainAction \/ UNCHANGED <<mainVars, lastSHA, stacksDir, histVars>>
       \/ \E r \in Repos, row \in Rows, d \in Dirs : SetRepoRow(r, row, d)
  BY DEF Next, MainAction, WorkerNext, RequestApply, ApplyFound, ApplyNotFound, ApplyLock,
     ApplyPull, ApplyComposeStart, ApplyComposeEnd, RequestSync, BackoffElapses,
     IntervalElapses, Push, Signal
<1> QED
  BY <1>1, <1>2, <1>3, <1>4, <1>5, <1>6, <1>7, <1>8, <1>9, <1>10
     DEF MainAction, MainNext, Exit, Crash

\* The inductive invariant behind RecordedApplied.
THEOREM CommitInvariant ==
    ASSUME "fs" \notin Faults
    PROVE  Spec => []CommitInv
<1>1. Init => CommitInv
  BY DEF Init, MemoryInit, AllRepos, AllStacks, CommitInv, RecordedShaApplied, Recorded, LockPCs
<1>2. Core /\ CommitInv /\ [Next]_vars => CommitInv'
  <2>1. CASE UNCHANGED vars
    BY <2>1 DEF vars, CommitInv, RecordedShaApplied, Recorded
  <2> QED
    BY <2>1, CommitStep
<1> QED
  BY <1>1, <1>2, CoreInvariant, PTL DEF Spec

\* A recorded SHA has been applied to every stack under the StacksDir of the row since
\* the process started, unless that StacksDir was edited after the list of rows the
\* applies used, and provided the stack directories of the clone can be read.
THEOREM RecordedApplied ==
    ASSUME "fs" \notin Faults
    PROVE  Spec => []RecordedShaApplied
<1>1. CommitInv => RecordedShaApplied
  BY DEF CommitInv
<1> QED
  BY <1>1, CommitInvariant, PTL

-----------------------------------------------------------------------------
(***************************************************************************)
(* Backoff and suspension.                                                 *)
(***************************************************************************)

\* The counter is below the limit whenever a sync is under way, which is what
\* keeps a failure from counting past it.
BackoffInv ==
    /\ BackoffConsistent
    /\ mpc \in SyncPCs => failures[cur] < MaxFailures
    /\ mpc = "down" => mode = "startup" /\ \A r \in Repos : failures[r] = 0
    /\ mode = "startup" => \A r \in todo : failures[r] = 0
    /\ mode = "trigger" => todo \subseteq triggered

\* Every step keeps counter, flag and limit consistent.
LEMMA BackoffStep == Core /\ BackoffInv /\ Next => BackoffInv'
<1> SUFFICES ASSUME Core, BackoffInv, Next PROVE BackoffInv'
  OBVIOUS
<1>a. TypeBackoff /\ TypeMain /\ MaxFailures \in Nat \ {0}
  BY ConstantsAssumption DEF Core, TypeOK
<1>b. mpc \in SyncPCs => cur \in Repos
  BY InScope
<1>1. CASE MemoryLost
  BY <1>1, <1>a DEF MemoryLost, AllRepos, BackoffInv, BackoffConsistent, SyncPCs
<1>2. CASE \/ Start \/ ListRepos \/ PassDone \/ Tick \/ TakeTrigger \/ DrainDone
           \/ \E r \in Repos : SkipRepo(r)
  <2>1. UNCHANGED <<failures, suspended>> /\ mpc' \notin SyncPCs /\ mpc' # "down"
    BY <1>2 DEF Start, ListRepos, PassDone, Tick, TakeTrigger, DrainDone, SkipRepo, SyncPCs
  <2>2. (mode = "startup" => \A r \in todo : failures[r] = 0)'
    BY <1>2, <1>a, <2>1 DEF Start, ListRepos, PassDone, Tick, TakeTrigger, DrainDone,
       SkipRepo, BackoffInv, ListResult, Enabled, TypeMain
  <2>3. (mode = "trigger" => todo \subseteq triggered)'
    <3>1. CASE Start
      BY <3>1 DEF Start, BackoffInv
    <3>2. CASE ~Start
      BY <1>2, <3>2 DEF ListRepos, PassDone, Tick, TakeTrigger, DrainDone, SkipRepo, BackoffInv
    <3> QED
      BY <3>1, <3>2
  <2> QED
    BY <2>1, <2>2, <2>3 DEF BackoffInv, BackoffConsistent
<1>3. ASSUME NEW r \in Repos, SyncBegin(r) PROVE BackoffInv'
  <2>1. mpc' = "lock" /\ cur' = r /\ r \in todo /\ UNCHANGED <<mode, todo, triggered>>
    BY <1>3 DEF SyncBegin
  <2>2. CASE mode = "trigger"
    <3>1. /\ failures' = [failures EXCEPT ![r] = 0]
          /\ suspended' = [suspended EXCEPT ![r] = FALSE]
      BY <1>3, <2>2 DEF SyncBegin, ClearBackoff
    <3> QED
      BY <1>a, <2>1, <2>2, <3>1 DEF BackoffInv, BackoffConsistent, TypeBackoff, SyncPCs
  <2>3. CASE mode # "trigger"
    <3>1. UNCHANGED <<failures, suspended>>
      BY <1>3, <2>3 DEF SyncBegin
    <3>2. failures[r] < MaxFailures
      BY <1>3, <1>a, <2>1, <2>3 DEF SyncBegin, ShouldSkipSync, BackoffInv, BackoffConsistent,
         TypeBackoff, TypeMain
    <3> QED
      BY <1>a, <2>1, <2>3, <3>1, <3>2 DEF BackoffInv, BackoffConsistent, SyncPCs
  <2> QED
    BY <2>2, <2>3
<1>4. CASE SyncPullFails \/ SyncHeadFails
  <2>1. /\ RecordSyncFailure(cur) /\ cur \in Repos /\ failures[cur] < MaxFailures
        /\ mpc' = "pick" /\ todo' = todo \ {cur} /\ UNCHANGED <<mode, triggered>>
    BY <1>4, <1>b DEF SyncPullFails, SyncHeadFails, SyncError, SyncReturn, SyncPCs, BackoffInv
  <2>2. failures' = [failures EXCEPT ![cur] = failures[cur] + 1]
    BY <2>1 DEF RecordSyncFailure
  <2>3. suspended' = IF failures[cur] + 1 >= MaxFailures
                       THEN [suspended EXCEPT ![cur] = TRUE] ELSE suspended
    BY <2>1 DEF RecordSyncFailure
  <2>4. BackoffConsistent'
    BY <1>a, <2>1, <2>2, <2>3 DEF BackoffInv, BackoffConsistent, TypeBackoff
  <2> QED
    BY <1>a, <2>1, <2>2, <2>4 DEF BackoffInv, TypeBackoff, TypeMain, SyncPCs
<1>5. CASE SyncDone
  <2>1. /\ failures' = [failures EXCEPT ![cur] = 0]
        /\ suspended' = [suspended EXCEPT ![cur] = FALSE]
        /\ mpc' = "pick" /\ todo' = todo \ {cur} /\ UNCHANGED <<mode, triggered>>
    BY <1>5 DEF SyncDone, SyncReturn, ClearBackoff
  <2> QED
    BY <1>a, <2>1 DEF BackoffInv, BackoffConsistent, TypeBackoff, TypeMain, SyncPCs
<1>6. CASE \/ SyncLock \/ SyncPullOK \/ SyncHead \/ SyncComposeEnd
           \/ \E s \in Stacks : SyncComposeStart(s)
  <2>1. /\ UNCHANGED <<failures, suspended, cur, mode, todo, triggered>>
        /\ mpc \in SyncPCs /\ mpc' \in SyncPCs
    BY <1>6 DEF SyncLock, SyncPullOK, SyncHead, SyncComposeEnd, SyncComposeStart, SyncPCs
  <2> QED
    BY <2>1 DEF BackoffInv, BackoffConsistent, SyncPCs
<1>7. CASE UNCHANGED <<mainVars, failures, suspended>>
  BY <1>7 DEF BackoffInv, BackoffConsistent
<1>8. MainAction \/ UNCHANGED <<mainVars, failures, suspended>>
  BY DEF Next, MainAction, WorkerNext, RequestApply, ApplyFound, ApplyNotFound, ApplyLock,
     ApplyPull, ApplyComposeStart, ApplyComposeEnd, RequestSync, BackoffElapses,
     IntervalElapses, Push, SetRepoRow, Signal
<1> QED
  BY <1>1, <1>2, <1>3, <1>4, <1>5, <1>6, <1>7, <1>8 DEF MainAction, MainNext, Exit, Crash

\* The inductive invariant of the backoff holds in every reachable state.
THEOREM BackoffInvariant == Spec => []BackoffInv
<1>1. Init => BackoffInv
  BY ConstantsAssumption
     DEF Init, MemoryInit, AllRepos, BackoffInv, BackoffConsistent, SyncPCs
<1>2. Core /\ BackoffInv /\ [Next]_vars => BackoffInv'
  <2>1. CASE UNCHANGED vars
    BY <2>1 DEF vars, BackoffInv, BackoffConsistent
  <2> QED
    BY <2>1, BackoffStep
<1> QED
  BY <1>1, <1>2, CoreInvariant, PTL DEF Spec

\* The failure counter stays within the limit, and reaching it is what suspends.
THEOREM BackoffCorrect == Spec => []BackoffConsistent
<1>1. BackoffInv => BackoffConsistent
  BY DEF BackoffInv
<1> QED
  BY <1>1, BackoffInvariant, PTL

\* A suspended repo leaves that state only through a manual trigger that names
\* it, or with the process.
THEOREM SuspensionSticky == Spec => SuspensionEndsByTrigger
<1> DEFINE Released(r) == suspended[r] /\ ~suspended'[r]
           Allowed(r)  == mpc' = "down" \/ (mode = "trigger" /\ r \in triggered)
<1>1. ASSUME Core, BackoffInv, Next, NEW r \in Repos, Released(r) PROVE Allowed(r)
  <2>a. TypeBackoff
    BY <1>1 DEF Core, TypeOK
  <2>1. CASE MemoryLost
    BY <2>1 DEF MemoryLost
  <2>2. CASE SyncPullFails \/ SyncHeadFails
    <3>1. RecordSyncFailure(cur)
      BY <2>2 DEF SyncPullFails, SyncHeadFails, SyncError
    <3>2. suspended' = [suspended EXCEPT ![cur] = TRUE] \/ UNCHANGED suspended
      BY <3>1 DEF RecordSyncFailure
    <3> QED
      BY <1>1, <2>a, <3>2 DEF TypeBackoff
  <2>3. CASE SyncDone
    <3>1. suspended' = [suspended EXCEPT ![cur] = FALSE] /\ cur \in Repos
      BY <1>1, <2>3, InScope DEF SyncDone, ClearBackoff, SyncPCs
    <3>2. ~suspended[cur]
      BY <1>1, <2>3, <2>a, <3>1, ConstantsAssumption
         DEF SyncDone, SyncPCs, BackoffInv, BackoffConsistent, TypeBackoff
    <3> QED
      BY <1>1, <2>a, <3>1, <3>2 DEF TypeBackoff
  <2>4. ASSUME NEW q \in Repos, SyncBegin(q) PROVE Allowed(r)
    <3>1. CASE mode = "trigger"
      <4>1. suspended' = [suspended EXCEPT ![q] = FALSE] /\ q \in todo
        BY <2>4, <3>1 DEF SyncBegin, ClearBackoff
      <4>2. r = q
        BY <1>1, <2>a, <4>1 DEF TypeBackoff
      <4> QED
        BY <1>1, <3>1, <4>1, <4>2 DEF BackoffInv
    <3>2. CASE mode # "trigger"
      BY <1>1, <2>4, <3>2 DEF SyncBegin
    <3> QED
      BY <3>1, <3>2
  <2>5. CASE \E q \in Repos : BackoffElapses(q) \/ IntervalElapses(q)
    BY <1>1, <2>5 DEF BackoffElapses, IntervalElapses
  <2>6. CASE UNCHANGED <<failures, suspended, waiting, due>>
    BY <1>1, <2>6
  <2> QED
    BY <1>1, <2>1, <2>2, <2>3, <2>4, <2>5, <2>6, BackoffFrame
<1>2. Core /\ BackoffInv /\ [Next]_vars => [\A r \in Repos : Released(r) => Allowed(r)]_vars
  BY <1>1
<1> QED
  BY <1>2, CoreInvariant, BackoffInvariant, PTL DEF Spec, SuspensionEndsByTrigger

-----------------------------------------------------------------------------
(***************************************************************************)
(* What the store shows, and the applying map.                             *)
(***************************************************************************)

\* Every way out of syncRepoFromDB replaces the status "syncing".
LEMMA SyncingStep == Core /\ SyncingIsLive /\ Next => SyncingIsLive'
<1> SUFFICES ASSUME Core, SyncingIsLive, Next PROVE SyncingIsLive'
  OBVIOUS
<1>a. TypeStore /\ (mpc \in SyncPCs <=> cur # None)
  BY DEF Core, TypeOK, Scope
<1>1. CASE MemoryLost
  BY <1>1 DEF MemoryLost, AllRepos, SyncingIsLive
<1>2. ASSUME NEW r \in Repos, SyncBegin(r) PROVE SyncingIsLive'
  BY <1>a, <1>2 DEF SyncBegin, SyncingIsLive, TypeStore, SyncPCs
<1>3. CASE SyncPullFails \/ SyncHeadFails \/ SyncDone
  BY <1>a, <1>3 DEF SyncPullFails, SyncHeadFails, SyncError, SyncDone, SyncingIsLive, TypeStore
<1>4. CASE \/ SyncLock \/ SyncPullOK \/ SyncHead \/ SyncComposeEnd
           \/ \E s \in Stacks : SyncComposeStart(s)
  BY <1>4 DEF SyncLock, SyncPullOK, SyncHead, SyncComposeEnd, SyncComposeStart, SyncingIsLive
<1>5. CASE \/ Start \/ ListRepos \/ PassDone \/ Tick \/ TakeTrigger \/ DrainDone
           \/ \E r \in Repos : SkipRepo(r)
  BY <1>5 DEF Start, ListRepos, PassDone, Tick, TakeTrigger, DrainDone, SkipRepo, SyncingIsLive
<1>6. CASE UNCHANGED <<mainVars, repoStatus>>
  BY <1>6 DEF SyncingIsLive
<1>7. MainAction \/ MemoryLost \/ UNCHANGED <<mainVars, repoStatus>>
  BY MainFrame, RepoFrame DEF MainAction, MainNext
<1> QED
  BY <1>1, <1>2, <1>3, <1>4, <1>5, <1>6, <1>7 DEF MainAction, MainNext, Exit, Crash

\* "syncing" is shown only while a sync of the repo is under way.
THEOREM SyncingLive == Spec => []SyncingIsLive
<1>1. Init => SyncingIsLive
  BY DEF Init, MemoryInit, AllRepos, SyncingIsLive
<1>2. Core /\ SyncingIsLive /\ [Next]_vars => SyncingIsLive'
  <2>1. CASE UNCHANGED vars
    BY <2>1 DEF vars, SyncingIsLive
  <2> QED
    BY <2>1, SyncingStep
<1> QED
  BY <1>1, <1>2, CoreInvariant, PTL DEF Spec

\* A run that ends replaces "applying", and one that goes on keeps it true.
LEMMA ApplyingStep == Core /\ ApplyingIsLive /\ Next => ApplyingIsLive'
<1> SUFFICES ASSUME Core, ApplyingIsLive, Next,
                    NEW r \in Repos, NEW s \in Stacks, stackStatus'[r][s] = "applying"
             PROVE  Composing(r, s)'
  BY DEF ApplyingIsLive
<1>a. TypeStore /\ TypeWork /\ stackStatus \in [Repos -> [Stacks -> StackStatuses]]
  BY DEF Core, TypeOK, TypeStore
<1>1. CASE MemoryLost
  BY <1>1 DEF MemoryLost, AllStacks
<1>2. ASSUME NEW u \in Stacks, SyncComposeStart(u) PROVE Composing(r, s)'
  <2>1. /\ stackStatus' = [stackStatus EXCEPT ![cur][u] = "applying"] /\ cur \in Repos
        /\ cur' = cur /\ stk' = u /\ mpc' = "compose" /\ mpc # "compose"
        /\ UNCHANGED <<wpc, wjob>>
    BY <1>2, InScope DEF SyncComposeStart, ComposeStart, SyncPCs
  <2>2. (cur = r /\ u = s) \/ stackStatus[r][s] = "applying"
    BY <1>a, <2>1, StackEntry
  <2> QED
    BY <2>1, <2>2 DEF ApplyingIsLive, Composing
<1>3. CASE SyncComposeEnd
  <2>1. cur \in Repos /\ stk \in Stacks /\ mpc = "compose" /\ UNCHANGED <<wpc, wjob>>
    BY <1>3, InScope DEF SyncComposeEnd, SyncPCs
  <2>2. PICK v \in {"ok", "error"} : stackStatus' = [stackStatus EXCEPT ![cur][stk] = v]
    BY <1>3 DEF SyncComposeEnd, ComposeEnd
  <2>3. ~(cur = r /\ stk = s) /\ stackStatus[r][s] = "applying"
    BY <1>a, <2>1, <2>2, StackEntry
  <2> QED
    BY <2>1, <2>3 DEF ApplyingIsLive, Composing
<1>4. ASSUME NEW w \in Workers, WorkAction(w) PROVE Composing(r, s)'
  <2>a. UNCHANGED <<mpc, cur, stk>>
    BY <1>4 DEF WorkAction, WorkerNext, RequestApply, ApplyFound, ApplyNotFound, ApplyLock,
       ApplyPull, ApplyComposeStart, ApplyComposeEnd
  <2>1. CASE ApplyComposeStart(w)
    <3>1. /\ stackStatus' = [stackStatus EXCEPT ![wjob[w][1]][wjob[w][2]] = "applying"]
          /\ wjob[w] \in Keys /\ wjob[w][1] \in Repos /\ wjob[w][2] \in Stacks
          /\ wpc[w] = "ready" /\ wpc' = [wpc EXCEPT ![w] = "compose"] /\ wjob' = wjob
      BY <2>1, InScope DEF ApplyComposeStart, ComposeStart
    <3>2. wjob[w] = <<r, s>> \/ stackStatus[r][s] = "applying"
      BY <1>a, <3>1, StackEntry
    <3>3. CASE wjob[w] = <<r, s>>
      BY <1>a, <3>1, <3>3 DEF Composing, TypeWork
    <3>4. CASE stackStatus[r][s] = "applying"
      BY <1>a, <2>a, <3>1, <3>4 DEF ApplyingIsLive, Composing, TypeWork
    <3> QED
      BY <3>2, <3>3, <3>4
  <2>2. CASE ApplyComposeEnd(w)
    <3>1. /\ wjob[w] \in Keys /\ wjob[w][1] \in Repos /\ wjob[w][2] \in Stacks
          /\ wpc[w] = "compose" /\ wpc' = [wpc EXCEPT ![w] = "idle"]
          /\ wjob' = [wjob EXCEPT ![w] = None]
      BY <2>2, InScope DEF ApplyComposeEnd, ApplyReturn
    <3>2. PICK v \in {"ok", "error"} :
             stackStatus' = [stackStatus EXCEPT ![wjob[w][1]][wjob[w][2]] = v]
      BY <2>2 DEF ApplyComposeEnd, ComposeEnd
    <3>3. wjob[w] # <<r, s>> /\ stackStatus[r][s] = "applying"
      BY <1>a, <3>1, <3>2, StackEntry
    <3> QED
      BY <1>a, <2>a, <3>1, <3>3 DEF ApplyingIsLive, Composing, TypeWork
  <2>3. CASE ~ApplyComposeStart(w) /\ ~ApplyComposeEnd(w)
    <3>1. /\ UNCHANGED stackStatus /\ wpc[w] # "compose"
          /\ \A v \in Workers \ {w} : wpc'[v] = wpc[v] /\ wjob'[v] = wjob[v]
      BY <1>a, <1>4, <2>3 DEF WorkAction, WorkerNext, RequestApply, ApplyFound,
         ApplyNotFound, ApplyReturn, ApplyLock, ApplyPull, TypeWork
    <3> QED
      BY <2>a, <3>1 DEF ApplyingIsLive, Composing
  <2> QED
    BY <2>1, <2>2, <2>3
<1>5. CASE /\ UNCHANGED <<stackStatus, wpc, wjob>>
           /\ UNCHANGED <<mpc, cur, stk>> \/ mpc # "compose"
  BY <1>5 DEF ApplyingIsLive, Composing
<1>6. \/ MemoryLost \/ SyncComposeEnd \/ \E u \in Stacks : SyncComposeStart(u)
      \/ \E w \in Workers : WorkAction(w)
      \/ /\ UNCHANGED <<stackStatus, wpc, wjob>>
         /\ UNCHANGED <<mpc, cur, stk>> \/ mpc # "compose"
  BY DEF Next, MainNext, WorkAction, Start, ListRepos, PassDone, Tick, TakeTrigger, DrainDone,
     SkipRepo, SyncBegin, SyncLock, SyncPullOK, SyncPullFails, SyncHead, SyncHeadFails,
     SyncError, SyncReturn, SyncDone, Exit, Crash, RequestSync, BackoffElapses,
     IntervalElapses, Push, SetRepoRow, Signal
<1> QED
  BY <1>1, <1>2, <1>3, <1>4, <1>5, <1>6

\* "applying" is shown only while a compose run of the stack is in progress.
THEOREM ApplyingLive == Spec => []ApplyingIsLive
<1>1. Init => ApplyingIsLive
  BY DEF Init, MemoryInit, AllStacks, ApplyingIsLive
<1>2. Core /\ ApplyingIsLive /\ [Next]_vars => ApplyingIsLive'
  <2>1. CASE UNCHANGED vars
    BY <2>1 DEF vars, ApplyingIsLive, Composing
  <2> QED
    BY <2>1, ApplyingStep
<1> QED
  BY <1>1, <1>2, CoreInvariant, PTL DEF Spec

\* The applying map holds exactly the keys of the goroutines at work.
ApplyMapInv ==
    /\ OneApplyPerStack
    /\ \A w \in Workers : wpc[w] # "idle" => wjob[w] \in applying

\* Every step keeps the applying map and the apply goroutines in agreement.
LEMMA ApplyMapStep == Core /\ ApplyMapInv /\ Next => ApplyMapInv'
<1> SUFFICES ASSUME Core, ApplyMapInv, Next PROVE ApplyMapInv'
  OBVIOUS
<1>a. TypeWork /\ \A w \in Workers : wpc[w] = "idle" <=> wjob[w] = None
  BY DEF Core, TypeOK, Scope
<1>1. ASSUME NEW w \in Workers, NEW k \in Keys, RequestApply(w, k) PROVE ApplyMapInv'
  <2>1. /\ wpc[w] = "idle" /\ k \notin applying /\ applying' = applying \cup {k}
        /\ wpc' = [wpc EXCEPT ![w] = "begin"] /\ wjob' = [wjob EXCEPT ![w] = k]
    BY <1>1 DEF RequestApply
  <2>2. (\A u, v \in Workers : wpc[u] # "idle" /\ wjob[u] = wjob[v] => u = v)'
    BY <1>a, <2>1, NoneFresh DEF ApplyMapInv, OneApplyPerStack, TypeWork
  <2>3. (\A j \in applying : \E v \in Workers : wpc[v] # "idle" /\ wjob[v] = j)'
    <3> SUFFICES ASSUME NEW j \in applying'
                 PROVE  \E v \in Workers : wpc'[v] # "idle" /\ wjob'[v] = j
      OBVIOUS
    <3>1. CASE j = k
      BY <1>a, <2>1, <3>1 DEF TypeWork
    <3>2. CASE j # k
      <4>1. PICK v \in Workers : wpc[v] # "idle" /\ wjob[v] = j
        BY <2>1, <3>2 DEF ApplyMapInv, OneApplyPerStack
      <4> QED
        BY <1>a, <2>1, <4>1 DEF TypeWork
    <3> QED
      BY <3>1, <3>2
  <2>4. (\A v \in Workers : wpc[v] # "idle" => wjob[v] \in applying)'
    BY <1>a, <2>1 DEF ApplyMapInv, TypeWork
  <2> QED
    BY <2>2, <2>3, <2>4 DEF ApplyMapInv, OneApplyPerStack
<1>2. ASSUME NEW w \in Workers,
             ApplyFound(w) \/ ApplyLock(w) \/ ApplyPull(w) \/ ApplyComposeStart(w)
      PROVE  ApplyMapInv'
  <2>1. /\ UNCHANGED <<wjob, applying>>
        /\ \A v \in Workers : wpc'[v] # "idle" <=> wpc[v] # "idle"
    BY <1>a, <1>2 DEF ApplyFound, ApplyLock, ApplyPull, ApplyComposeStart, TypeWork
  <2> QED
    BY <2>1 DEF ApplyMapInv, OneApplyPerStack
<1>3. ASSUME NEW w \in Workers, ApplyNotFound(w) \/ ApplyComposeEnd(w) PROVE ApplyMapInv'
  <2>1. /\ wpc[w] # "idle" /\ applying' = applying \ {wjob[w]}
        /\ wpc' = [wpc EXCEPT ![w] = "idle"] /\ wjob' = [wjob EXCEPT ![w] = None]
    BY <1>3 DEF ApplyNotFound, ApplyComposeEnd, ApplyReturn
  <2> QED
    BY <1>a, <2>1 DEF ApplyMapInv, OneApplyPerStack, TypeWork
<1>4. CASE MemoryLost
  BY <1>4 DEF MemoryLost, ApplyMapInv, OneApplyPerStack
<1>5. CASE UNCHANGED workVars
  BY <1>5 DEF ApplyMapInv, OneApplyPerStack
<1> QED
  BY <1>1, <1>2, <1>3, <1>4, <1>5, WorkFrame DEF WorkAction, WorkerNext

\* The applying map and the goroutines agree in every reachable state.
THEOREM ApplyMapInvariant == Spec => []ApplyMapInv
<1>1. Init => ApplyMapInv
  BY DEF Init, MemoryInit, ApplyMapInv, OneApplyPerStack
<1>2. Core /\ ApplyMapInv /\ [Next]_vars => ApplyMapInv'
  <2>1. CASE UNCHANGED vars
    BY <2>1 DEF vars, ApplyMapInv, OneApplyPerStack
  <2> QED
    BY <2>1, ApplyMapStep
<1> QED
  BY <1>1, <1>2, CoreInvariant, PTL DEF Spec

\* Two goroutines never apply one stack, and no key outlives its goroutine.
THEOREM ApplyOnce == Spec => []OneApplyPerStack
  BY ApplyMapInvariant, PTL DEF ApplyMapInv
=============================================================================
