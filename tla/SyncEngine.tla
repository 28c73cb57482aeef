------------------------------- MODULE SyncEngine -------------------------------
(***************************************************************************)
(* The sync engine of stackd (main.go): the main goroutine, which lists    *)
(* the repositories of the database, pulls each clone under the per-repo   *)
(* lock and runs `docker compose up` for every stack when the HEAD commit  *)
(* differs from the recorded one; the goroutines that force-apply a single *)
(* stack on behalf of POST /api/stacks/{repo}/{stack}/apply; the trigger   *)
(* channel fed by POST /api/sync/{repo}; the in-memory state store; and    *)
(* process crash, shutdown and restart.                                    *)
(*                                                                         *)
(* Time is abstracted here to the two flags a sync round looks at (module  *)
(* Scheduler has the clock): waiting[r] is "nextAllowed lies in the        *)
(* future", due[r] is "repoNextDue has passed".  What docker runs as a     *)
(* result of the compose commands is in module Deployment.                 *)
(***************************************************************************)
EXTENDS Naturals, Sequences

CONSTANTS
    Repos,        \* repository names
    Stacks,       \* stack names (directories under StacksDir)
    Dirs,         \* values of the row's field StacksDir
    Commits,      \* commits the remote branch may point to
    StacksOf,     \* StacksOf[c][d]: those with a compose file under d in commit c
    Workers,      \* goroutines that run a per-stack apply
    Main,         \* the main goroutine
    None,         \* holder of a free lock, value of a local that is out of scope
    NoSHA,        \* the empty SHA: nothing cloned, recorded or deployed
    Torn,         \* content of no single commit: a rewrite in progress or cut short
    MaxFailures,  \* maxSyncFailures (10 in the code)
    QueueCap,     \* capacity of the syncTrigger channel (16 in the code)
    Faults        \* which operations may fail: a subset of FaultKinds

FaultKinds == {"git", "compose", "db", "fs", "crash", "shutdown"}

ASSUME ConstantsAssumption ==
    /\ StacksOf \in [Commits -> [Dirs -> SUBSET Stacks]]
    /\ NoSHA \notin Commits /\ Torn \notin Commits /\ NoSHA # Torn
    /\ Main \notin Workers
    /\ None \notin Workers \cup Repos \cup Stacks \cup Dirs \cup {Main} \cup (Repos \X Stacks)
    /\ MaxFailures \in Nat \ {0}
    /\ QueueCap \in Nat \ {0}
    /\ Faults \subseteq FaultKinds

VARIABLES
    \* outside the process
    remote,       \* remote[r]: tip of the configured branch
    repoDB,       \* repoDB[r]: the row of table repos, "absent" | "disabled" | "enabled"
    stacksDir,    \* stacksDir[r]: its StacksDir, the last one if the row is gone
    disk,         \* disk[r]: HEAD of the clone directory
    \* shared memory of the process
    lock,         \* lock[r]: holder of repoLock(r)
    repoStatus,   \* RepoState.Status, "none" when the store has no entry
    lastSHA,      \* RepoState.LastSHA
    stackStatus,  \* StackState.Status, "none" when the store has no entry
    stackDir,     \* StackState.StackDir: the StacksDir the stack was found in
    failures, suspended, waiting,  \* syncBackoff
    due,          \* dueForSync(r)
    queue,        \* the syncTrigger channel
    applying,     \* Server.applying: keys <<r, s>> with an apply in progress
    ctxDone,      \* the signal context has been cancelled
    \* locals of the main goroutine
    mpc, mode, listed, listedDir, triggered, todo, cur, oldSHA, newSHA, pend, stk, mread,
    \* locals of the per-stack apply goroutines
    wpc, wjob, wdir, wread,
    \* history, since the process started
    tried,        \* commit and StacksDir of the sync loop's last compose run per stack
    edited,       \* repos whose StacksDir was edited since main last listed the rows
    moved         \* repos whose StacksDir was edited after the list of rows from which
                  \* their stacks were last applied

extVars   == <<remote, repoDB, stacksDir>>
stackVars == <<stackStatus, stackDir>>
listVars  == <<listed, listedDir>>
histVars  == <<tried, edited, moved>>
backVars  == <<failures, suspended, waiting, due>>
repoVars  == <<repoStatus, lastSHA>>
passVars  == <<mode, listVars, triggered, todo>>
syncVars  == <<cur, oldSHA, newSHA, pend>>
mainVars  == <<mpc, passVars, syncVars, stk, mread>>
workVars  == <<wpc, wjob, wdir, wread, applying>>
vars == <<extVars, disk, lock, repoVars, stackVars, backVars, queue,
          ctxDone, mainVars, workVars, histVars>>

Procs    == {Main} \cup Workers
Contents == Commits \cup {NoSHA, Torn}
Keys     == Repos \X Stacks

\* One value for every repo, and for every stack of every repo.
AllRepos(v)  == [r \in Repos |-> v]
AllStacks(v) == [r \in Repos |-> [s \in Stacks |-> v]]

(***************************************************************************)
(* Process memory as main() finds it: an empty store, fresh mutexes,       *)
(* backoff maps, channel and applying map, no goroutine but main.          *)
(***************************************************************************)
MemoryInit ==
    /\ lock = AllRepos(None)
    /\ repoStatus = AllRepos("none") /\ lastSHA = AllRepos(NoSHA)
    /\ stackStatus = AllStacks("none") /\ stackDir = AllStacks(None)
    /\ failures = AllRepos(0) /\ suspended = AllRepos(FALSE)
    /\ waiting = AllRepos(FALSE) /\ due = AllRepos(TRUE)
    /\ queue = << >> /\ applying = {} /\ ctxDone = FALSE
    /\ mpc = "down" /\ mode = "startup"
    /\ listed = AllRepos("absent") /\ listedDir = stacksDir
    /\ triggered = {} /\ todo = {}
    /\ cur = None /\ oldSHA = NoSHA /\ newSHA = NoSHA /\ pend = {}
    /\ stk = None /\ mread = NoSHA
    /\ wpc = [w \in Workers |-> "idle"]
    /\ wjob = [w \in Workers |-> None] /\ wdir = [w \in Workers |-> None]
    /\ wread = [w \in Workers |-> NoSHA]
    /\ tried = AllStacks(<<NoSHA, None>>) /\ edited = {} /\ moved = {}

Init ==
    /\ remote \in [Repos -> Commits]
    /\ repoDB \in [Repos -> {"absent", "disabled", "enabled"}]
    /\ stacksDir \in [Repos -> Dirs]
    /\ disk = AllRepos(NoSHA)
    /\ MemoryInit

-----------------------------------------------------------------------------
(***************************************************************************)
(* syncBackoff.                                                            *)
(***************************************************************************)

\* Mutant: the suspended flag is not reset.
ClearBackoff_KeepSuspended(r) ==
    /\ failures' = [failures EXCEPT ![r] = 0]
    /\ waiting' = [waiting EXCEPT ![r] = FALSE]
    /\ UNCHANGED suspended

\* recordSyncSuccess and resetBackoff have the same body.
ClearBackoff(r) ==
    /\ failures' = [failures EXCEPT ![r] = 0]
    /\ waiting' = [waiting EXCEPT ![r] = FALSE]
    /\ suspended' = [suspended EXCEPT ![r] = FALSE]

\* The failure that reaches the limit suspends and leaves nextAllowed alone.
RecordSyncFailure(r) ==
    /\ failures' = [failures EXCEPT ![r] = @ + 1]
    /\ IF failures[r] + 1 >= MaxFailures
         THEN suspended' = [suspended EXCEPT ![r] = TRUE] /\ UNCHANGED waiting
         ELSE waiting' = [waiting EXCEPT ![r] = TRUE] /\ UNCHANGED suspended

\* Mutant: a suspended repo is only held back by its backoff.
ShouldSkipSync_NoSuspend(r) == waiting[r]

ShouldSkipSync(r) == suspended[r] \/ waiting[r]

\* Time passes: a backoff ends, a repo's interval has elapsed.
BackoffElapses(r) ==
    /\ waiting[r]
    /\ waiting' = [waiting EXCEPT ![r] = FALSE]
    /\ UNCHANGED <<extVars, disk, lock, repoVars, stackVars, failures,
                   suspended, due, queue, ctxDone, mainVars, workVars, histVars>>

IntervalElapses(r) ==
    /\ ~due[r]
    /\ due' = [due EXCEPT ![r] = TRUE]
    /\ UNCHANGED <<extVars, disk, lock, repoVars, stackVars, failures,
                   suspended, waiting, queue, ctxDone, mainVars, workVars, histVars>>

-----------------------------------------------------------------------------
(***************************************************************************)
(* The environment: the git remote, and the HTTP handlers that write the   *)
(* repos table.  The HTTP server starts after the startup scan.            *)
(***************************************************************************)

Serving == mpc # "down" /\ mode # "startup"

\* The branch moves to any other commit: a push, or a force-push back.
Push(r, c) ==
    /\ c # remote[r]
    /\ remote' = [remote EXCEPT ![r] = c]
    /\ UNCHANGED <<repoDB, stacksDir, disk, lock, repoVars, stackVars, backVars,
                   queue, ctxDone, mainVars, workVars, histVars>>

\* handleCreateRepo, handleUpdateRepo (enabled flag, StacksDir), handleDeleteRepo:
\* only the row changes; store entries, backoff, lock and clone stay behind.
SetRepoRow(r, row, dir) ==
    /\ Serving
    /\ row # repoDB[r] \/ dir # stacksDir[r]
    /\ row = "absent" => dir = stacksDir[r]
    /\ repoDB' = [repoDB EXCEPT ![r] = row]
    /\ stacksDir' = [stacksDir EXCEPT ![r] = dir]
    /\ IF dir = stacksDir[r]
         THEN UNCHANGED <<edited, moved>>
         ELSE edited' = edited \cup {r} /\ moved' = moved \cup {r}
    /\ UNCHANGED <<remote, disk, lock, repoVars, stackVars, backVars,
                   queue, ctxDone, mainVars, workVars, tried>>

\* Mutant: the send ignores the capacity of the channel.
RequestSync_NoBound(r) ==
    /\ Serving
    /\ queue' = Append(queue, r)
    /\ UNCHANGED <<extVars, disk, lock, repoVars, stackVars, backVars,
                   ctxDone, mainVars, workVars, histVars>>

\* handleSync, once past the rate limiter: a non-blocking send.  A full channel
\* answers already_queued and changes nothing.
RequestSync(r) ==
    /\ Serving
    /\ Len(queue) < QueueCap
    /\ queue' = Append(queue, r)
    /\ UNCHANGED <<extVars, disk, lock, repoVars, stackVars, backVars,
                   ctxDone, mainVars, workVars, histVars>>

-----------------------------------------------------------------------------
(***************************************************************************)
(* Git and docker compose, as both kinds of goroutine use them.            *)
(***************************************************************************)

\* Git works on r's clone: between taking the lock and the end of the pull.
Pulling(p, r) ==
    \/ p = Main /\ mpc = "pull" /\ cur = r
    \/ p \in Workers /\ wpc[p] = "pull" /\ wjob[p][1] = r

\* gitSyncToDisk: fetch + reset --hard to the remote tip.  A reset to the commit that
\* is checked out rewrites no file.  It fails on a git error, its timeout or a
\* cancelled context, before or in the middle of the reset.
Rewrites(r) == disk[r] # remote[r]

GitSyncOK(r) == disk' = [disk EXCEPT ![r] = remote[r]]

GitSyncFails(r) ==
    /\ "git" \in Faults \/ ctxDone
    /\ \/ UNCHANGED disk
       \/ Rewrites(r) /\ disk' = [disk EXCEPT ![r] = Torn]

\* What a compose process of p may read from the clone of r.
Readable(p, r) ==
    {disk[r]} \cup (IF Rewrites(r) /\ \E q \in Procs \ {p} : Pulling(q, r)
                    THEN {Torn, remote[r]} ELSE {})

\* The first half of applyStack: the store shows "applying" (a fresh StackState,
\* without LastApply) and compose reads its files.
ComposeStart(r, s, d) ==
    /\ stackStatus' = [stackStatus EXCEPT ![r][s] = "applying"]
    /\ stackDir' = [stackDir EXCEPT ![r][s] = d]

\* The second half: compose ends within 300s and the outcome is stored.  Without
\* the stack's directory under d it cannot start.
Composable(s, c, d) == c = Torn \/ (c \in Commits /\ s \in StacksOf[c][d])

\* Mutant: a failed run is logged and not stored.
ComposeEnd_NoError(r, s, c, d) ==
    /\ stackDir' = [stackDir EXCEPT ![r][s] = d]
    /\ \/ /\ Composable(s, c, d)
          /\ stackStatus' = [stackStatus EXCEPT ![r][s] = "ok"]
       \/ /\ "compose" \in Faults \/ ctxDone \/ c = Torn \/ ~Composable(s, c, d)
          /\ UNCHANGED stackStatus

ComposeEnd(r, s, c, d) ==
    /\ stackDir' = [stackDir EXCEPT ![r][s] = d]
    /\ \/ /\ Composable(s, c, d)
          /\ stackStatus' = [stackStatus EXCEPT ![r][s] = "ok"]
       \/ /\ "compose" \in Faults \/ ctxDone \/ c = Torn \/ ~Composable(s, c, d)
          /\ stackStatus' = [stackStatus EXCEPT ![r][s] = "error"]

-----------------------------------------------------------------------------
(***************************************************************************)
(* The main goroutine.  A pass visits the repositories in todo: the        *)
(* startup scan, a scheduled round (doSyncRound), or the repositories of   *)
(* one batch of manual triggers.                                           *)
(***************************************************************************)

Enabled(rows) == {r \in Repos : rows[r] = "enabled"}

\* ListRepos; on an error the slice is nil.
ListResult(rows) ==
    \/ ~ctxDone /\ rows = repoDB
    \/ ("db" \in Faults \/ ctxDone) /\ rows = AllRepos("absent")

\* main() starts; the startup scan takes every enabled repo.
Start ==
    /\ mpc = "down"
    /\ mpc' = "pick"
    /\ \E rows \in {repoDB, AllRepos("absent")} :
         ListResult(rows) /\ todo' = Enabled(rows)
    /\ listedDir' = stacksDir /\ edited' = {}
    /\ UNCHANGED <<extVars, disk, lock, repoVars, stackVars, backVars,
                   queue, ctxDone, mode, listed, triggered, syncVars, stk, mread,
                   workVars, tried, moved>>

\* Mutant: the directories of the first list are kept.
ListRepos_OldDirs ==
    /\ mpc = "list"
    /\ \E rows \in {repoDB, AllRepos("absent")} :
         ListResult(rows) /\ listed' = rows /\ todo' = Enabled(rows)
    /\ UNCHANGED listedDir /\ edited' = {}
    /\ mpc' = "pick" /\ mode' = "round"
    /\ UNCHANGED <<extVars, disk, lock, repoVars, stackVars, backVars, queue, ctxDone,
                   triggered, syncVars, stk, mread, workVars, tried, moved>>

\* The head of the main loop: ListRepos and the start of doSyncRound.
ListRepos ==
    /\ mpc = "list"
    /\ \E rows \in {repoDB, AllRepos("absent")} :
         ListResult(rows) /\ listed' = rows /\ todo' = Enabled(rows)
    /\ listedDir' = stacksDir /\ edited' = {}
    /\ mpc' = "pick" /\ mode' = "round"
    /\ UNCHANGED <<extVars, disk, lock, repoVars, stackVars, backVars, queue, ctxDone,
                   triggered, syncVars, stk, mread, workVars, tried, moved>>

\* doSyncRound passes over a repo in backoff, suspended or not due.
SkipRepo(r) ==
    /\ mpc = "pick" /\ mode = "round" /\ r \in todo /\ ~ctxDone
    /\ ShouldSkipSync(r) \/ ~due[r]
    /\ todo' = todo \ {r}
    /\ UNCHANGED <<extVars, disk, lock, repoVars, stackVars, backVars,
                   queue, ctxDone, mpc, mode, listVars, triggered, syncVars, stk, mread,
                   workVars, histVars>>

\* The pass is over (a round also ends when the context is cancelled).  After a
\* round main waits in select; after the startup scan and after a trigger batch
\* it goes to the head of the loop.
PassDone ==
    /\ mpc = "pick"
    /\ todo = {} \/ (mode = "round" /\ ctxDone)
    /\ mpc' = IF mode = "round" THEN "select" ELSE "list"
    /\ mode' = "round" /\ todo' = {} /\ triggered' = {}
    /\ UNCHANGED <<extVars, disk, lock, repoVars, stackVars, backVars,
                   queue, ctxDone, listVars, syncVars, stk, mread, workVars, histVars>>

\* select: the base ticker fires.
Tick ==
    /\ mpc = "select"
    /\ mpc' = "list"
    /\ UNCHANGED <<extVars, disk, lock, repoVars, stackVars, backVars,
                   queue, ctxDone, passVars, syncVars, stk, mread, workVars, histVars>>

\* select receives a trigger, and the drain loop receives further ones...
TakeTrigger ==
    /\ mpc \in {"select", "drain"} /\ queue # << >>
    /\ mpc' = "drain"
    /\ triggered' = triggered \cup {Head(queue)}
    /\ queue' = Tail(queue)
    /\ UNCHANGED <<extVars, disk, lock, repoVars, stackVars, backVars,
                   ctxDone, mode, listVars, todo, syncVars, stk, mread, workVars, histVars>>

\* ... until the channel is empty.  The batch is matched with the list of repos
\* read at the head of this iteration.
DrainDone ==
    /\ mpc = "drain" /\ queue = << >>
    /\ mpc' = "pick" /\ mode' = "trigger"
    /\ todo' = {r \in triggered : listed[r] # "absent"}
    /\ UNCHANGED <<extVars, disk, lock, repoVars, stackVars, backVars,
                   queue, ctxDone, listVars, triggered, syncVars, stk, mread, workVars,
                   histVars>>

-----------------------------------------------------------------------------
(***************************************************************************)
(* syncRepoFromDB.                                                         *)
(***************************************************************************)

\* The call: a scheduled round has checked backoff and due time, a manual
\* trigger resets the backoff first.  The store shows "syncing" before the lock.
SyncBegin(r) ==
    /\ mpc = "pick" /\ r \in todo
    /\ mode = "round" => ~ctxDone /\ ~ShouldSkipSync(r) /\ due[r]
    /\ IF mode = "trigger" THEN ClearBackoff(r)
                           ELSE UNCHANGED <<failures, waiting, suspended>>
    /\ repoStatus' = [repoStatus EXCEPT ![r] = "syncing"]
    /\ mpc' = "lock" /\ cur' = r
    /\ UNCHANGED <<extVars, disk, lock, lastSHA, stackVars, due, queue,
                   ctxDone, passVars, oldSHA, newSHA, pend, stk, mread, workVars,
                   histVars>>

\* Mutant: compare with the HEAD found on disk.
SyncLock_DiskSHA ==
    /\ mpc = "lock" /\ lock[cur] = None
    /\ lock' = [lock EXCEPT ![cur] = Main]
    /\ oldSHA' = disk[cur]
    /\ mpc' = "pull"
    /\ UNCHANGED <<extVars, disk, repoVars, stackVars, backVars, queue,
                   ctxDone, passVars, cur, newSHA, pend, stk, mread, workVars, histVars>>

\* mu.Lock(), then the store's SHA (not the clone's) is the one to compare with.
SyncLock ==
    /\ mpc = "lock" /\ lock[cur] = None
    /\ lock' = [lock EXCEPT ![cur] = Main]
    /\ oldSHA' = lastSHA[cur]
    /\ mpc' = "pull"
    /\ UNCHANGED <<extVars, disk, repoVars, stackVars, backVars, queue,
                   ctxDone, passVars, cur, newSHA, pend, stk, mread, workVars, histVars>>

\* Mutant: the Unlock is not deferred, and missing.
SyncReturn_NoUnlock ==
    /\ UNCHANGED lock
    /\ mpc' = "pick" /\ todo' = todo \ {cur}
    /\ cur' = None /\ oldSHA' = NoSHA /\ newSHA' = NoSHA /\ pend' = {}

\* syncRepoFromDB returns: the deferred Unlock, and the pass goes on.
SyncReturn ==
    /\ lock' = [lock EXCEPT ![cur] = None]
    /\ mpc' = "pick" /\ todo' = todo \ {cur}
    /\ cur' = None /\ oldSHA' = NoSHA /\ newSHA' = NoSHA /\ pend' = {}

\* Mutant: an early return that does not report the error.
SyncError_NoStatus ==
    /\ UNCHANGED repoStatus
    /\ RecordSyncFailure(cur)
    /\ SyncReturn
    /\ UNCHANGED <<extVars, lastSHA, stackVars, due, queue, ctxDone, mode,
                   listVars, triggered, stk, mread, workVars, histVars>>

\* recordError: LastSHA is kept, and the repo is not marked as scheduled.
SyncError ==
    /\ repoStatus' = [repoStatus EXCEPT ![cur] = "error"]
    /\ RecordSyncFailure(cur)
    /\ SyncReturn
    /\ UNCHANGED <<extVars, lastSHA, stackVars, due, queue, ctxDone, mode,
                   listVars, triggered, stk, mread, workVars, histVars>>

SyncPullOK ==
    /\ mpc = "pull"
    /\ GitSyncOK(cur)
    /\ mpc' = "head"
    /\ UNCHANGED <<extVars, lock, repoVars, stackVars, backVars, queue,
                   ctxDone, passVars, syncVars, stk, mread, workVars, histVars>>

SyncPullFails ==
    /\ mpc = "pull"
    /\ GitSyncFails(cur)
    /\ SyncError

\* The stacks runStacksSync finds under the listed StacksDir in the clone of r.  A
\* directory that cannot be read is logged and skipped, and the sync does not fail.
StacksFound(r) ==
    LET found == StacksOf[disk[r]][listedDir[r]]
    IN  IF "fs" \in Faults THEN SUBSET found ELSE {found}

\* History: the stacks are about to be applied, if the SHA is new, from the list of
\* rows main holds.
NoteApplied(r) ==
    /\ moved' = IF disk[r] # oldSHA /\ r \notin edited THEN moved \ {r} ELSE moved
    /\ UNCHANGED <<tried, edited>>

\* Mutant: the SHA is the remote tip instead of the HEAD that was pulled.
SyncHead_RemoteTip ==
    /\ mpc = "head"
    /\ newSHA' = remote[cur]
    /\ pend' \in IF disk[cur] # oldSHA THEN StacksFound(cur) ELSE {{}}
    /\ NoteApplied(cur)
    /\ mpc' = "stacks"
    /\ UNCHANGED <<extVars, disk, lock, repoVars, stackVars, backVars,
                   queue, ctxDone, passVars, cur, oldSHA, stk, mread, workVars>>

\* HeadSHA, and the stacks to apply: those of the clone if the SHA changed.
SyncHead ==
    /\ mpc = "head"
    /\ newSHA' = disk[cur]
    /\ pend' \in IF disk[cur] # oldSHA THEN StacksFound(cur) ELSE {{}}
    /\ NoteApplied(cur)
    /\ mpc' = "stacks"
    /\ UNCHANGED <<extVars, disk, lock, repoVars, stackVars, backVars,
                   queue, ctxDone, passVars, cur, oldSHA, stk, mread, workVars>>

SyncHeadFails ==
    /\ mpc = "head"
    /\ "git" \in Faults \/ ctxDone
    /\ SyncError
    /\ UNCHANGED disk

\* runStacksSync applies one stack after the other, whatever becomes of each.
SyncComposeStart(s) ==
    /\ mpc = "stacks" /\ s \in pend
    /\ ComposeStart(cur, s, listedDir[cur])
    /\ mread' \in Readable(Main, cur)
    /\ stk' = s /\ pend' = pend \ {s}
    /\ mpc' = "compose"
    /\ UNCHANGED <<extVars, disk, lock, repoVars, backVars, queue, ctxDone,
                   passVars, cur, oldSHA, newSHA, workVars, histVars>>

SyncComposeEnd ==
    /\ mpc = "compose"
    /\ ComposeEnd(cur, stk, mread, listedDir[cur])
    /\ tried' = [tried EXCEPT ![cur][stk] = <<mread, listedDir[cur]>>]
    /\ mpc' = "stacks" /\ stk' = None /\ mread' = NoSHA
    /\ UNCHANGED <<extVars, disk, lock, repoVars, backVars, queue, ctxDone, passVars,
                   syncVars, workVars, edited, moved>>

\* Mutant: the new RepoState does not carry the SHA.
SyncDone_NoSHA ==
    /\ mpc = "stacks" /\ pend = {}
    /\ repoStatus' = [repoStatus EXCEPT ![cur] = "ok"]
    /\ UNCHANGED lastSHA
    /\ ClearBackoff(cur)
    /\ due' = [due EXCEPT ![cur] = FALSE]
    /\ SyncReturn
    /\ UNCHANGED <<extVars, disk, stackVars, queue, ctxDone, mode, listVars,
                   triggered, stk, mread, workVars, histVars>>

\* Every stack has been handled: record the SHA, clear the backoff, schedule.
SyncDone ==
    /\ mpc = "stacks" /\ pend = {}
    /\ repoStatus' = [repoStatus EXCEPT ![cur] = "ok"]
    /\ lastSHA' = [lastSHA EXCEPT ![cur] = newSHA]
    /\ ClearBackoff(cur)
    /\ due' = [due EXCEPT ![cur] = FALSE]
    /\ SyncReturn
    /\ UNCHANGED <<extVars, disk, stackVars, queue, ctxDone, mode, listVars,
                   triggered, stk, mread, workVars, histVars>>

-----------------------------------------------------------------------------
(***************************************************************************)
(* Per-stack apply: handleApplyStack and the callback of SetApplyStack.    *)
(***************************************************************************)

\* Mutant: no look at the applying map.
RequestApply_NoDedup(w, k) ==
    /\ Serving
    /\ wpc[w] = "idle"
    /\ stackStatus[k[1]][k[2]] # "none"
    /\ applying' = applying \cup {k}
    /\ wpc' = [wpc EXCEPT ![w] = "begin"]
    /\ wjob' = [wjob EXCEPT ![w] = k]
    /\ wdir' = [wdir EXCEPT ![w] = stackDir[k[1]][k[2]]]
    /\ UNCHANGED <<extVars, disk, lock, repoVars, stackVars, backVars,
                   queue, ctxDone, mainVars, wread, histVars>>

\* The request is refused (404, 409) unless the store knows the stack and no
\* apply of the same key is in progress; a new goroutine takes it and reads the
\* stack's directory from the store.
RequestApply(w, k) ==
    /\ Serving
    /\ wpc[w] = "idle"
    /\ stackStatus[k[1]][k[2]] # "none"
    /\ k \notin applying
    /\ applying' = applying \cup {k}
    /\ wpc' = [wpc EXCEPT ![w] = "begin"]
    /\ wjob' = [wjob EXCEPT ![w] = k]
    /\ wdir' = [wdir EXCEPT ![w] = stackDir[k[1]][k[2]]]
    /\ UNCHANGED <<extVars, disk, lock, repoVars, stackVars, backVars,
                   queue, ctxDone, mainVars, wread, histVars>>

\* The goroutine ends; the deferred delete makes room for the next request.
ApplyReturn(w) ==
    /\ applying' = applying \ {wjob[w]}
    /\ wpc' = [wpc EXCEPT ![w] = "idle"]
    /\ wjob' = [wjob EXCEPT ![w] = None]
    /\ wdir' = [wdir EXCEPT ![w] = None]
    /\ wread' = [wread EXCEPT ![w] = NoSHA]

\* GetRepoByName finds the row, enabled or not...
ApplyFound(w) ==
    /\ wpc[w] = "begin"
    /\ repoDB[wjob[w][1]] # "absent" /\ ~ctxDone
    /\ wpc' = [wpc EXCEPT ![w] = "lock"]
    /\ UNCHANGED <<extVars, disk, lock, repoVars, stackVars, backVars,
                   queue, ctxDone, mainVars, wjob, wdir, wread, applying, histVars>>

\* ... or fails, and nothing is applied.
ApplyNotFound(w) ==
    /\ wpc[w] = "begin"
    /\ repoDB[wjob[w][1]] = "absent" \/ "db" \in Faults \/ ctxDone
    /\ ApplyReturn(w)
    /\ UNCHANGED <<extVars, disk, lock, repoVars, stackVars, backVars,
                   queue, ctxDone, mainVars, histVars>>

\* Mutant: the per-stack apply does not wait for the repo lock.
ApplyLock_NoWait(w) ==
    /\ wpc[w] = "lock"
    /\ lock' = [lock EXCEPT ![wjob[w][1]] = w]
    /\ wpc' = [wpc EXCEPT ![w] = "pull"]
    /\ UNCHANGED <<extVars, disk, repoVars, stackVars, backVars, queue,
                   ctxDone, mainVars, wjob, wdir, wread, applying, histVars>>

ApplyLock(w) ==
    /\ wpc[w] = "lock" /\ lock[wjob[w][1]] = None
    /\ lock' = [lock EXCEPT ![wjob[w][1]] = w]
    /\ wpc' = [wpc EXCEPT ![w] = "pull"]
    /\ UNCHANGED <<extVars, disk, repoVars, stackVars, backVars, queue,
                   ctxDone, mainVars, wjob, wdir, wread, applying, histVars>>

\* Mutant: a failed pull leaves the lock taken.
ApplyPull_NoUnlock(w) ==
    /\ wpc[w] = "pull"
    /\ \/ GitSyncOK(wjob[w][1]) /\ lock' = [lock EXCEPT ![wjob[w][1]] = None]
       \/ GitSyncFails(wjob[w][1]) /\ UNCHANGED lock
    /\ wpc' = [wpc EXCEPT ![w] = "ready"]
    /\ UNCHANGED <<extVars, repoVars, stackVars, backVars, queue, ctxDone,
                   mainVars, wjob, wdir, wread, applying, histVars>>

\* The pull, after which the lock is released.  A failed pull is only reported:
\* the apply goes on with whatever the clone holds.
ApplyPull(w) ==
    /\ wpc[w] = "pull"
    /\ GitSyncOK(wjob[w][1]) \/ GitSyncFails(wjob[w][1])
    /\ lock' = [lock EXCEPT ![wjob[w][1]] = None]
    /\ wpc' = [wpc EXCEPT ![w] = "ready"]
    /\ UNCHANGED <<extVars, repoVars, stackVars, backVars, queue, ctxDone,
                   mainVars, wjob, wdir, wread, applying, histVars>>

\* applyStack runs outside the lock; RepoState is not touched.
ApplyComposeStart(w) ==
    /\ wpc[w] = "ready"
    /\ ComposeStart(wjob[w][1], wjob[w][2], wdir[w])
    /\ \E c \in Readable(w, wjob[w][1]) : wread' = [wread EXCEPT ![w] = c]
    /\ wpc' = [wpc EXCEPT ![w] = "compose"]
    /\ UNCHANGED <<extVars, disk, lock, repoVars, backVars, queue, ctxDone,
                   mainVars, wjob, wdir, applying, histVars>>

ApplyComposeEnd(w) ==
    /\ wpc[w] = "compose"
    /\ ComposeEnd(wjob[w][1], wjob[w][2], wread[w], wdir[w])
    /\ ApplyReturn(w)
    /\ UNCHANGED <<extVars, disk, lock, repoVars, backVars, queue, ctxDone, mainVars,
                   histVars>>

-----------------------------------------------------------------------------
(***************************************************************************)
(* The process: signal, orderly exit, crash.                               *)
(***************************************************************************)

\* SIGTERM cancels the context every operation runs under.
Signal ==
    /\ "shutdown" \in Faults /\ mpc # "down" /\ ~ctxDone
    /\ ctxDone' = TRUE
    /\ UNCHANGED <<extVars, disk, lock, repoVars, stackVars, backVars,
                   queue, mainVars, workVars, histVars>>

\* Nothing of the process memory survives: the next start finds MemoryInit.
MemoryLost ==
    /\ lock' = AllRepos(None)
    /\ repoStatus' = AllRepos("none") /\ lastSHA' = AllRepos(NoSHA)
    /\ stackStatus' = AllStacks("none") /\ stackDir' = AllStacks(None)
    /\ failures' = AllRepos(0) /\ suspended' = AllRepos(FALSE)
    /\ waiting' = AllRepos(FALSE) /\ due' = AllRepos(TRUE)
    /\ queue' = << >> /\ applying' = {} /\ ctxDone' = FALSE
    /\ mpc' = "down" /\ mode' = "startup"
    /\ listed' = AllRepos("absent") /\ listedDir' = stacksDir
    /\ triggered' = {} /\ todo' = {}
    /\ cur' = None /\ oldSHA' = NoSHA /\ newSHA' = NoSHA /\ pend' = {}
    /\ stk' = None /\ mread' = NoSHA
    /\ wpc' = [w \in Workers |-> "idle"]
    /\ wjob' = [w \in Workers |-> None] /\ wdir' = [w \in Workers |-> None]
    /\ wread' = [w \in Workers |-> NoSHA]
    /\ tried' = AllStacks(<<NoSHA, None>>) /\ edited' = {} /\ moved' = {}

\* main returns from select: the process ends, with every other goroutine.
Exit ==
    /\ mpc = "select" /\ ctxDone
    /\ MemoryLost
    /\ UNCHANGED <<extVars, disk>>

\* A crash loses the memory.  What a pull in progress leaves behind is what it
\* leaves when it ends just before the crash.
Crash ==
    /\ "crash" \in Faults /\ mpc # "down"
    /\ MemoryLost
    /\ UNCHANGED <<extVars, disk>>

-----------------------------------------------------------------------------
MainNext ==
    \/ Start \/ ListRepos \/ PassDone \/ Tick \/ TakeTrigger \/ DrainDone
    \/ \E r \in Repos : SkipRepo(r) \/ SyncBegin(r)
    \/ SyncLock \/ SyncPullOK \/ SyncPullFails \/ SyncHead \/ SyncHeadFails
    \/ \E s \in Stacks : SyncComposeStart(s)
    \/ SyncComposeEnd \/ SyncDone \/ Exit

WorkerNext(w) ==
    \/ ApplyFound(w) \/ ApplyNotFound(w) \/ ApplyLock(w) \/ ApplyPull(w)
    \/ ApplyComposeStart(w) \/ ApplyComposeEnd(w)

Next ==
    \/ MainNext
    \/ \E w \in Workers : WorkerNext(w) \/ \E k \in Keys : RequestApply(w, k)
    \/ \E r \in Repos : \/ RequestSync(r) \/ BackoffElapses(r) \/ IntervalElapses(r)
                        \/ \E c \in Commits : Push(r, c)
                        \/ \E row \in {"absent", "disabled", "enabled"}, d \in Dirs :
                              SetRepoRow(r, row, d)
    \/ Signal \/ Crash

Spec == Init /\ [][Next]_vars

(***************************************************************************)
(* Fairness.  A goroutine that can run does; sync.Mutex hands the lock to  *)
(* a waiter that starves; timers fire; and the drain loop, which takes     *)
(* microseconds while the rate limiter spaces the senders out, at some     *)
(* point finds the channel empty.  Nothing is assumed of requests, pushes, *)
(* failures or signals.                                                    *)
(***************************************************************************)
Fairness ==
    /\ WF_vars(MainNext) /\ SF_vars(SyncLock) /\ SF_vars(DrainDone)
    /\ \A w \in Workers : WF_vars(WorkerNext(w)) /\ SF_vars(ApplyLock(w))
    /\ \A r \in Repos : WF_vars(BackoffElapses(r)) /\ WF_vars(IntervalElapses(r))

FairSpec == Spec /\ Fairness

-----------------------------------------------------------------------------
(***************************************************************************)
(* Properties.                                                             *)
(***************************************************************************)

RepoStatuses  == {"none", "syncing", "ok", "error"}
StackStatuses == {"none", "applying", "ok", "error"}
Rows          == {"absent", "disabled", "enabled"}
MainPCs       == {"down", "list", "pick", "select", "drain", "lock", "pull", "head",
                  "stacks", "compose"}
WorkerPCs     == {"idle", "begin", "lock", "pull", "ready", "compose"}

\* The types of all variables: the world outside, the shared memory, and the
\* locals of the main goroutine and of the apply goroutines.
TypeWorld ==
    /\ remote \in [Repos -> Commits]
    /\ repoDB \in [Repos -> Rows] /\ stacksDir \in [Repos -> Dirs]
    /\ disk \in [Repos -> Contents]

TypeStore ==
    /\ lock \in [Repos -> Procs \cup {None}]
    /\ repoStatus \in [Repos -> RepoStatuses]
    /\ lastSHA \in [Repos -> Commits \cup {NoSHA}]
    /\ stackStatus \in [Repos -> [Stacks -> StackStatuses]]
    /\ stackDir \in [Repos -> [Stacks -> Dirs \cup {None}]]
    /\ tried \in [Repos -> [Stacks -> Contents \X (Dirs \cup {None})]]
    /\ edited \subseteq Repos /\ moved \subseteq Repos

TypeBackoff ==
    /\ failures \in [Repos -> Nat]
    /\ suspended \in [Repos -> BOOLEAN] /\ waiting \in [Repos -> BOOLEAN]
    /\ due \in [Repos -> BOOLEAN] /\ ctxDone \in BOOLEAN
    /\ queue \in Seq(Repos) /\ Len(queue) <= QueueCap

TypeMain ==
    /\ mpc \in MainPCs /\ mode \in {"startup", "round", "trigger"}
    /\ listed \in [Repos -> Rows] /\ listedDir \in [Repos -> Dirs]
    /\ triggered \subseteq Repos /\ todo \subseteq Repos
    /\ cur \in Repos \cup {None}
    /\ oldSHA \in Contents /\ newSHA \in Contents /\ mread \in Contents
    /\ pend \subseteq Stacks /\ stk \in Stacks \cup {None}

TypeWork ==
    /\ applying \subseteq Keys
    /\ wpc \in [Workers -> WorkerPCs]
    /\ wjob \in [Workers -> Keys \cup {None}]
    /\ wdir \in [Workers -> Dirs \cup {None}]
    /\ wread \in [Workers -> Contents]

TypeOK == TypeWorld /\ TypeStore /\ TypeBackoff /\ TypeMain /\ TypeWork

\* p is inside the section of syncRepoFromDB or of the per-stack apply that is
\* guarded by repoLock(r).
InSection(p, r) ==
    \/ p = Main /\ mpc \in {"pull", "head", "stacks", "compose"} /\ cur = r
    \/ p \in Workers /\ wpc[p] = "pull" /\ wjob[p][1] = r

\* Git work and the sync loop's applies on one clone never overlap, whichever of
\* scheduled sync, manual sync and per-stack apply asks for them (main.go:54-56).
RepoLockExclusive ==
    \A r \in Repos : \A p, q \in Procs : InSection(p, r) /\ InSection(q, r) => p = q

\* Every stack the sync loop applies is applied at the very commit that will be
\* recorded: no pull of a per-stack apply moves the clone in between, and no
\* half-written tree is read (main.go:611-665).
SyncAppliesHead == mpc = "compose" => mread = newSHA /\ newSHA \in Commits

\* A recorded SHA has been applied: since the process started, the last compose
\* run of the sync loop for every stack of that commit used its content.  So no
\* commit is skipped after a restart, after a failed pull, when a per-stack apply
\* has already moved the clone, or when the row was disabled, deleted or created
\* again (main.go:611-658).  The exception is the code's own: only the SHA is
\* compared, so after an edit of StacksDir (moved), also one that overtakes the list
\* of rows, the stacks now found wait for the next commit.  It needs readable stack
\* directories ("fs" not in Faults): runStacksSync skips what it cannot read.
Recorded(r) ==
    (lastSHA[r] # NoSHA /\ r \notin moved /\ ~(cur = r /\ mpc \in {"stacks", "compose"}))
        => \A s \in StacksOf[lastSHA[r]][stacksDir[r]] :
              tried[r][s] = <<lastSHA[r], stacksDir[r]>>

RecordedShaApplied == \A r \in Repos : Recorded(r)

\* The store never shows work nobody does: "syncing" only while main is inside
\* syncRepoFromDB for the repo, "applying" only while some compose run of that
\* stack is in progress, in spite of early returns and concurrent writers
\* (main.go:595-660, 465-550).
SyncingIsLive ==
    \A r \in Repos : repoStatus[r] = "syncing" =>
        cur = r /\ mpc \in {"lock", "pull", "head", "stacks", "compose"}

Composing(r, s) ==
    \/ mpc = "compose" /\ cur = r /\ stk = s
    \/ \E w \in Workers : wpc[w] = "compose" /\ wjob[w] = <<r, s>>

ApplyingIsLive ==
    \A r \in Repos, s \in Stacks : stackStatus[r][s] = "applying" => Composing(r, s)

\* The failure counter never passes the limit, and a repo is suspended exactly
\* when it has reached it (main.go:221-240).
BackoffConsistent ==
    \A r \in Repos : /\ failures[r] <= MaxFailures
                     /\ suspended[r] <=> failures[r] = MaxFailures

\* The applying map keeps two goroutines from applying one stack at once, and
\* an entry never outlives its goroutine (server.go:679-701).
OneApplyPerStack ==
    /\ \A v, w \in Workers : wpc[v] # "idle" /\ wjob[v] = wjob[w] => v = w
    /\ \A k \in applying : \E w \in Workers : wpc[w] # "idle" /\ wjob[w] = k

\* A suspended repo stays suspended, and is not synced, until a manual trigger
\* or the end of the process (main.go:243-264, docs/architecture.md:88-90).
SuspensionEndsByTrigger ==
    [][\A r \in Repos : suspended[r] /\ ~suspended'[r] =>
          mpc' = "down" \/ (mode = "trigger" /\ r \in triggered)]_vars

\* A commit that stays the tip of an enabled repo is in the end the recorded one,
\* whatever manual syncs and per-stack applies happen meanwhile, unless failures
\* keep suspending the repo or keep hitting its pulls (docs/architecture.md:9).  Lists
\* of rows succeed ("db" not in Faults): one that keeps failing (main.go:931) keeps every
\* repo from being visited.
Converges ==
    \A r \in Repos, c \in Commits :
        (<>[](remote[r] = c /\ repoDB[r] = "enabled")) =>
            \/ <>[](lastSHA[r] = c)
            \/ []<>(suspended[r] \/ repoStatus[r] = "error")

\* A failed repo is retried by itself until it succeeds or is suspended: no early
\* return leaves it in backoff for good.  (Manual syncs restart the count, so they
\* are assumed to stop.)  docs/architecture.md:78-93.
RetriedOrSuspended ==
    (<>[](queue = << >>)) =>
        \A r \in Repos : repoStatus[r] = "error" ~>
            (repoStatus[r] = "ok" \/ suspended[r] \/ repoDB[r] # "enabled")

\* A per-stack apply ends and frees its key: nobody keeps the repo lock, on any
\* path (main.go:609-610, 883-886).
ApplyEnds == \A w \in Workers : wpc[w] # "idle" ~> wpc[w] = "idle"

-----------------------------------------------------------------------------
(***************************************************************************)
(* What a comment says and the code does not do, refuted by a run of its   *)
(* own.                                                                    *)
(***************************************************************************)

\* "so concurrent syncs (scheduled + manual + per-stack apply) cannot race on the
\* same clone directory" (main.go:54-56): without git failures nothing reads a
\* half-written clone.  The per-stack compose runs outside the lock and does.
CloneNeverReadTorn ==
    \A w \in Workers : wpc[w] = "compose" => wread[w] # Torn
=============================================================================
