---------------------------- MODULE DeploymentProofs ----------------------------
(***************************************************************************)
(* What docker runs is what the store says, for any number of repos,       *)
(* stacks, commits and goroutines, whichever of them share a compose       *)
(* project, and any faults but unreadable stack directories.  Of           *)
(* SyncEngineProofs it uses the core invariant, the bookkeeping of the     *)
(* applying map, and that a recorded SHA has been applied.                 *)
(***************************************************************************)
EXTENDS Deployment, SyncEngineProofs

\* The groups of variables and the sets of values are always expanded.
USE DEF extVars, stackVars, listVars, histVars, backVars, repoVars, passVars, syncVars,
        mainVars, workVars
USE DEF StackStatuses, Keys, Contents

\* Project p runs what the sync loop's last compose run of k gave it, or belongs to
\* another key.
RunsTried(k, p) ==
    \/ p = [key |-> k, ran |-> tried[k[1]][k[2]]]
    \/ p.key \in Sharing(k)

\* A stack no goroutine has force-applied since the process started, and shown "ok",
\* runs what the sync loop's last compose run gave it, unless its project was taken.
ShownIsTried ==
    \A k \in Keys :
        k \notin forced /\ stackStatus[k[1]][k[2]] = "ok" => RunsTried(k, running[Project[k[2]]])

Runs == [key : Keys \cup {None}, ran : Contents \X (Dirs \cup {None})]

\* ShownIsTried is kept because the key of a per-stack apply counts as forced for
\* as long as its goroutine lives, and a new process starts with neither.
DeployInv ==
    /\ running \in [Projects -> Runs]
    /\ applying \subseteq forced
    /\ mpc = "down" => forced = {}
    /\ ShownIsTried

-----------------------------------------------------------------------------
\* The process goes down only by losing its memory; while it is down, no goroutine
\* applies anything.
LEMMA DownStep ==
    ASSUME Core, ApplyMapInv, DeployInv, Next, mpc' = "down"
    PROVE  MemoryLost \/ (mpc = "down" /\ applying' = {})
<1>1. MemoryLost \/ UNCHANGED mainVars
  BY MainFrame DEF MainAction, MainNext, Start, ListRepos, PassDone, Tick, TakeTrigger,
     DrainDone, SkipRepo, SyncBegin, SyncLock, SyncPullOK, SyncPullFails, SyncHead,
     SyncHeadFails, SyncError, SyncReturn, SyncComposeStart, SyncComposeEnd, SyncDone, Exit,
     Crash
<1>2. CASE mpc = "down" /\ ~MemoryLost
  <2>1. applying = {} /\ \A w \in Workers : wpc[w] = "idle"
    BY <1>2 DEF DeployInv, ApplyMapInv
  <2>2. ~\E w \in Workers : WorkAction(w)
    BY <1>2, <2>1 DEF WorkAction, WorkerNext, RequestApply, Serving, ApplyFound,
       ApplyNotFound, ApplyLock, ApplyPull, ApplyComposeStart, ApplyComposeEnd
  <2> QED
    BY <1>2, <2>1, <2>2, WorkFrame
<1> QED
  BY <1>1, <1>2

\* Only the end of main's compose run takes it from "compose" back to "stacks".
LEMMA MainFinishes ==
    ASSUME Next, mpc = "compose", mpc' = "stacks"
    PROVE  SyncComposeEnd
  BY MainFrame DEF MainAction, MainNext, Start, ListRepos, PassDone, Tick, TakeTrigger,
     DrainDone, SkipRepo, SyncBegin, SyncLock, SyncPullOK, SyncPullFails, SyncHead,
     SyncHeadFails, SyncError, SyncReturn, SyncComposeStart, SyncDone, Exit, Crash, MemoryLost

\* A key that is not forced has no goroutine.
LEMMA NotForcedNotApplied ==
    ASSUME ApplyMapInv, DeployInv, NEW k, k \notin forced, NEW w \in Workers, wpc[w] # "idle"
    PROVE  wjob[w] # k
  BY DEF ApplyMapInv, DeployInv

-----------------------------------------------------------------------------
\* What ends is a run of some key, on some content.
LEMMA EndedTyped ==
    ASSUME Core, NEW u \in Ended
    PROVE  u \in Runs /\ u.key \in Keys
<1>1. CASE mpc = "compose" /\ u = Up(<<cur, stk>>, mread, listedDir[cur])
  BY <1>1, InScope DEF Up, Runs, Core, TypeOK, TypeMain, SyncPCs
<1>2. ASSUME NEW w \in Workers, wpc[w] = "compose", u = Up(wjob[w], wread[w], wdir[w])
      PROVE  u \in Runs /\ u.key \in Keys
  <2>1. wjob[w] \in Keys /\ wread[w] \in Contents /\ wdir[w] \in Dirs \cup {None}
    BY <1>2, InScope DEF Core, TypeOK, TypeWork
  <2> QED
    BY <1>2, <2>1 DEF Up, Runs
<1> QED
  BY <1>1, <1>2 DEF Ended

\* Docker runs contents, whichever compose run brings one up.
LEMMA RunningTyped ==
    ASSUME Core, DeployInv, DeployNext
    PROVE  (running \in [Projects -> Runs])'
<1>1. CASE LeftAlone
  BY <1>1 DEF LeftAlone, DeployInv
<1>2. CASE BroughtUp
  <2>1. PICK u \in Ended : running' = [running EXCEPT ![Project[u.key[2]]] = u]
    BY <1>2 DEF BroughtUp
  <2>2. u \in Runs
    BY EndedTyped
  <2> QED
    BY <2>1, <2>2 DEF DeployInv
<1> QED
  BY <1>1, <1>2 DEF DeployNext

\* A run of another key leaves k's project alone or takes it over.
LEMMA OtherKeyUp ==
    ASSUME DeployInv, NEW k \in Keys, NEW u, u.key \in Keys, u.key # k,
           running' = [running EXCEPT ![Project[u.key[2]]] = u],
           RunsTried(k, running[Project[k[2]]])
    PROVE  RunsTried(k, running'[Project[k[2]]])
<1>1. Project[k[2]] \in Projects /\ running \in [Projects -> Runs]
  BY ProjectAssumption DEF DeployInv
<1>2. CASE Project[u.key[2]] = Project[k[2]]
  <2>1. running'[Project[k[2]]] = u /\ u.key \in Sharing(k)
    BY <1>1, <1>2 DEF Sharing
  <2> QED
    BY <2>1 DEF RunsTried
<1>3. CASE Project[u.key[2]] # Project[k[2]]
  BY <1>1, <1>3
<1> QED
  BY <1>2, <1>3

\* The end of a compose run of the sync loop: shown "ok", the stack runs what was
\* read; left alone, it is shown "error".
LEMMA MainRunEnds ==
    ASSUME Core, DeployInv, DeployNext, SyncComposeEnd,
           NEW k \in Keys, k \notin forced, stackStatus'[k[1]][k[2]] = "ok"
    PROVE  RunsTried(k, running[Project[k[2]]])'
<1>a. /\ stackStatus \in [Repos -> [Stacks -> StackStatuses]]
      /\ tried \in [Repos -> [Stacks -> Contents \X (Dirs \cup {None})]]
      /\ running \in [Projects -> Runs] /\ Project[k[2]] \in Projects
      /\ k[1] \in Repos /\ k[2] \in Stacks /\ k = <<k[1], k[2]>>
  BY ProjectAssumption DEF Core, TypeOK, TypeStore, DeployInv
<1> DEFINE u == Up(<<cur, stk>>, mread, listedDir[cur])
<1>1. /\ mpc = "compose" /\ mpc' = "stacks" /\ cur \in Repos /\ stk \in Stacks /\ wpc' = wpc
      /\ mread \in Contents /\ listedDir[cur] \in Dirs
      /\ tried' = [tried EXCEPT ![cur][stk] = <<mread, listedDir[cur]>>]
  BY InScope DEF SyncComposeEnd, SyncPCs, Core, TypeOK, TypeMain
<1>2. PICK v \in {"ok", "error"} : stackStatus' = [stackStatus EXCEPT ![cur][stk] = v]
  BY DEF SyncComposeEnd, ComposeEnd
<1>3. Ended = {u}
  BY <1>1 DEF Ended
<1>4. u.key = <<cur, stk>> /\ u.key[1] = cur /\ u.key[2] = stk /\ u.key \in Keys
  BY <1>1 DEF Up
<1>5. running' = running \/ running' = [running EXCEPT ![Project[u.key[2]]] = u]
  BY <1>3 DEF DeployNext, BroughtUp, LeftAlone
<1>6. CASE k = <<cur, stk>>
  <2>1. ~LeftAlone
    <3>1. stackStatus'[u.key[1]][u.key[2]] = "ok"
      BY <1>4, <1>6
    <3> QED
      BY <1>3, <3>1 DEF LeftAlone
  <2>2. running' = [running EXCEPT ![Project[u.key[2]]] = u]
    BY <1>3, <2>1 DEF DeployNext, BroughtUp
  <2>3. running'[Project[k[2]]] = u
    BY <1>a, <1>4, <1>6, <2>2
  <2>4. tried'[k[1]][k[2]] = <<mread, listedDir[cur]>>
    BY <1>a, <1>1, <1>6, StackEntry
  <2> QED
    BY <1>6, <2>3, <2>4 DEF RunsTried, Up
<1>7. CASE k # <<cur, stk>>
  <2>1. ~(k[1] = cur /\ k[2] = stk)
    BY <1>a, <1>7
  <2>2. stackStatus[k[1]][k[2]] = "ok"
    BY <1>a, <1>1, <1>2, <2>1, StackEntry
  <2>3. tried'[k[1]][k[2]] = tried[k[1]][k[2]]
    <3>1. <<mread, listedDir[cur]>> \in Contents \X (Dirs \cup {None})
      BY <1>1
    <3> QED
      BY <1>a, <1>1, <2>1, <3>1, StackEntry
  <2>4. RunsTried(k, running[Project[k[2]]])
    BY <2>2 DEF DeployInv, ShownIsTried
  <2>5. RunsTried(k, running'[Project[k[2]]])
    BY <1>4, <1>5, <1>7, <2>4, OtherKeyUp
  <2> QED
    BY <2>3, <2>5 DEF RunsTried
<1> QED
  BY <1>6, <1>7

\* Every other step: what a goroutine applies is forced, and nothing else that
\* writes the stack's entry shows it "ok".
LEMMA OtherSteps ==
    ASSUME Core, ApplyMapInv, DeployInv, DeployNext, ~SyncComposeEnd, ~MemoryLost,
           NEW k \in Keys, k \notin forced, stackStatus'[k[1]][k[2]] = "ok"
    PROVE  RunsTried(k, running[Project[k[2]]])'
<1>a. /\ stackStatus \in [Repos -> [Stacks -> StackStatuses]] /\ Next
      /\ k[1] \in Repos /\ k[2] \in Stacks /\ k = <<k[1], k[2]>>
  BY DEF Core, TypeOK, TypeStore, DeployNext
<1>b. \A w \in Workers : wpc[w] # "idle" => wjob[w] # k
  BY NotForcedNotApplied
<1>1. stackStatus[k[1]][k[2]] = "ok" /\ tried' = tried
  <2>1. ASSUME NEW s \in Stacks, SyncComposeStart(s)
        PROVE  stackStatus[k[1]][k[2]] = "ok" /\ tried' = tried
    <3>1. /\ stackStatus' = [stackStatus EXCEPT ![cur][s] = "applying"] /\ cur \in Repos
          /\ tried' = tried
      BY <2>1, InScope DEF SyncComposeStart, ComposeStart, SyncPCs
    <3> QED
      BY <1>a, <3>1, StackEntry
  <2>2. ASSUME NEW w \in Workers, ApplyComposeStart(w) \/ ApplyComposeEnd(w)
        PROVE  stackStatus[k[1]][k[2]] = "ok" /\ tried' = tried
    <3>1. /\ wpc[w] # "idle" /\ tried' = tried
          /\ wjob[w] \in Keys /\ wjob[w][1] \in Repos /\ wjob[w][2] \in Stacks
      BY <2>2, InScope DEF ApplyComposeStart, ApplyComposeEnd
    <3>2. PICK v \in {"applying", "ok", "error"} :
             stackStatus' = [stackStatus EXCEPT ![wjob[w][1]][wjob[w][2]] = v]
      BY <2>2 DEF ApplyComposeStart, ApplyComposeEnd, ComposeStart, ComposeEnd
    <3>3. ~(wjob[w][1] = k[1] /\ wjob[w][2] = k[2])
      BY <1>a, <1>b, <3>1
    <3> QED
      BY <1>a, <3>1, <3>2, <3>3, StackEntry
  <2>3. CASE UNCHANGED <<stackStatus, stackDir, tried>>
    BY <2>3
  <2> QED
    BY <1>a, <2>1, <2>2, <2>3, StackFrame
<1>2. RunsTried(k, running[Project[k[2]]])
  BY <1>1 DEF DeployInv, ShownIsTried
<1>3. RunsTried(k, running'[Project[k[2]]])
  <2>1. CASE LeftAlone
    BY <1>2, <2>1 DEF LeftAlone
  <2>2. CASE BroughtUp
    <3>1. PICK u \in Ended : running' = [running EXCEPT ![Project[u.key[2]]] = u]
      BY <2>2 DEF BroughtUp
    <3>2. ~(mpc = "compose" /\ mpc' = "stacks")
      BY <1>a, MainFinishes
    <3>3. PICK w \in Workers : wpc[w] = "compose" /\ u = Up(wjob[w], wread[w], wdir[w])
      BY <3>2 DEF Ended
    <3>4. u.key \in Keys /\ u.key # k
      BY <1>b, <3>3, EndedTyped DEF Up
    <3> QED
      BY <1>2, <3>1, <3>4, OtherKeyUp
  <2> QED
    BY <2>1, <2>2 DEF DeployNext
<1> QED
  BY <1>1, <1>3 DEF RunsTried

\* The invariant is kept by every step of the engine and docker.
LEMMA DeployStep ==
    ASSUME Core, ApplyMapInv, DeployInv, DeployNext
    PROVE  DeployInv'
<1>a. Next
  BY DEF DeployNext
<1>1. (applying \subseteq forced)' /\ (mpc = "down" => forced = {})'
  BY <1>a, DownStep DEF DeployNext, MemoryLost
<1>2. ShownIsTried'
  <2> SUFFICES ASSUME NEW k \in Keys, k \notin forced', stackStatus'[k[1]][k[2]] = "ok"
               PROVE  RunsTried(k, running[Project[k[2]]])'
    BY DEF ShownIsTried
  <2>1. ~MemoryLost
    <3>1. k[1] \in Repos /\ k[2] \in Stacks
      OBVIOUS
    <3>2. MemoryLost => stackStatus' = [r \in Repos |-> [s \in Stacks |-> "none"]]
      BY DEF MemoryLost, AllStacks
    <3> QED
      BY <3>1, <3>2
  <2>2. k \notin forced
    BY <1>a, <2>1, DownStep DEF DeployNext, DeployInv
  <2> QED
    BY <2>1, <2>2, MainRunEnds, OtherSteps
<1> QED
  BY <1>1, <1>2, RunningTyped DEF DeployInv

-----------------------------------------------------------------------------
\* By its definition the engine inside Deployment takes the steps of SyncEngine, so the
\* theorems of SyncEngineProofs hold of it.
LEMMA DeploymentRunsEngine == DeploySpec => Spec
<1>1. DeployInit => Init
  BY DEF DeployInit
<1>2. [DeployNext]_dvars => [Next]_vars
  BY DEF DeployNext, dvars
<1> QED
  BY <1>1, <1>2, PTL DEF DeploySpec, Spec

\* The inductive invariant holds in every reachable state.
THEOREM DeployInvariant == DeploySpec => []DeployInv
<1>1. DeployInit => DeployInv
  <2> SUFFICES ASSUME DeployInit PROVE DeployInv
    OBVIOUS
  <2>1. running \in [Projects -> Runs]
    BY DEF DeployInit, Up, Runs
  <2>2. ShownIsTried
    BY DEF DeployInit, Init, MemoryInit, AllStacks, ShownIsTried
  <2> QED
    BY <2>1, <2>2 DEF DeployInit, Init, MemoryInit, DeployInv
<1>2. Core /\ ApplyMapInv /\ DeployInv /\ [DeployNext]_dvars => DeployInv'
  <2>1. CASE UNCHANGED dvars
    BY <2>1 DEF dvars, vars, DeployInv, ShownIsTried, RunsTried
  <2> QED
    BY <2>1, DeployStep
<1>3. Spec => []ApplyMapInv
  BY ApplyMapInvariant
<1> QED
  BY <1>1, <1>2, <1>3, CoreInvariant, DeploymentRunsEngine, PTL DEF DeploySpec

\* A stack shown "ok" and not force-applied since the start runs the commit that is
\* recorded for its repo, from the StacksDir of its row, whenever the sync loop is not
\* applying that repo: unless that StacksDir was edited since, or a stack of the same
\* project name took the project over, and provided the stack directories can be read.
THEOREM DeployedRecorded ==
    ASSUME "fs" \notin Faults
    PROVE  DeploySpec => []DeployedIsRecorded
<1>1. Core /\ RecordedShaApplied /\ DeployInv => DeployedIsRecorded
  <2> SUFFICES ASSUME Core, RecordedShaApplied, DeployInv,
                      NEW r \in Repos, lastSHA[r] # NoSHA, r \notin moved,
                      ~(cur = r /\ mpc \in {"stacks", "compose"}),
                      NEW s \in StacksOf[lastSHA[r]][stacksDir[r]],
                      <<r, s>> \notin forced, stackStatus[r][s] = "ok"
               PROVE  \/ running[Project[s]] = Up(<<r, s>>, lastSHA[r], stacksDir[r])
                      \/ running[Project[s]].key \in Sharing(<<r, s>>)
    BY DEF DeployedIsRecorded
  <2>1. s \in Stacks
    BY ConstantsAssumption DEF Core, TypeOK, TypeStore, TypeWorld
  <2>2. tried[r][s] = <<lastSHA[r], stacksDir[r]>>
    BY DEF RecordedShaApplied, Recorded
  <2>3. <<r, s>> \in Keys /\ <<r, s>>[1] = r /\ <<r, s>>[2] = s
    BY <2>1
  <2>4. RunsTried(<<r, s>>, running[Project[s]])
    BY <2>3 DEF DeployInv, ShownIsTried
  <2> QED
    BY <2>2, <2>3, <2>4 DEF RunsTried, Up
<1>2. Spec => []RecordedShaApplied
  BY RecordedApplied
<1> QED
  BY <1>1, <1>2, CoreInvariant, DeployInvariant, DeploymentRunsEngine, PTL
=============================================================================
