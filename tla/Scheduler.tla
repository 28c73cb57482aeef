------------------------------- MODULE Scheduler --------------------------------
(***************************************************************************)
(* The clock of stackd: the base ticker, every repo's own interval, the    *)
(* exponential backoff after a failed sync, and the rate limiter and       *)
(* channel of manual syncs.  SyncEngine has what a sync does; here a sync  *)
(* only takes time and succeeds or fails.                                  *)
(*                                                                         *)
(* Every point in time the code stores is a countdown here: dueIn[r] is    *)
(* repoNextDue - now, allowIn[r] nextAllowed - now, limitIn[r] what is     *)
(* left of the limiter's window.  The main goroutine acts as soon as it    *)
(* can: time passes only while it sleeps in select or waits for a sync.    *)
(* What it spends on the list of rows, on the settings and in              *)
(* refreshContainers, between one pass and the next, is not counted, and   *)
(* every list of rows succeeds.                                            *)
(***************************************************************************)
EXTENDS Naturals, Sequences, FiniteSetsExt

CONSTANTS
    Repos,
    NoRepo,       \* no sync is running
    Intervals,    \* sync intervals a repo may be given, in units of time
    BaseTick,     \* period of the base ticker (15 s in the code)
    Window,       \* SYNC_RATE_LIMIT_SECONDS (5 s by default)
    MaxSync,      \* the longest a sync takes (every step of it has a timeout)
    MaxFailures,  \* maxSyncFailures (10 in the code)
    QueueCap,     \* capacity of the syncTrigger channel (16 in the code)
    Flaky,        \* repos whose syncs may fail
    Manual        \* repos somebody asks to sync by hand

MaxFactor == 8    \* maxBackoff = 8 * baseInterval

ASSUME SchedulerAssumption ==
    /\ NoRepo \notin Repos /\ Flaky \subseteq Repos /\ Manual \subseteq Repos
    /\ IsFiniteSet(Repos) /\ IsFiniteSet(Intervals)
    /\ Intervals # {} /\ Intervals \subseteq Nat \ {0}
    /\ BaseTick \in Nat \ {0} /\ Window \in Nat \ {0} /\ MaxSync \in Nat
    /\ MaxFailures \in Nat \ {0} /\ QueueCap \in Nat \ {0}

VARIABLES
    ivl,        \* interval in the repo's row, after the default is applied
    listedIvl,  \* the same, as read by the last ListRepos
    dueIn, allowIn, failures, suspended,
    tickIn,     \* time to the ticker's next tick
    ticked,     \* a tick is waiting in the ticker's channel
    limitIn, queue,
    mode,       \* "startup", "round", "trigger", or "select" while main waits
    todo,       \* repos the pass has not visited yet
    cur, left,  \* the repo being synced, and the time its sync may still take
    overdue,    \* history: how long r has been due and allowed, without a sync
    streak      \* history: time since the first of the current failures

backoffVars == <<allowIn, failures, suspended>>
tickVars    == <<tickIn, ticked>>
manualVars  == <<limitIn, queue>>
syncVars    == <<cur, left>>
histVars    == <<overdue, streak>>
svars == <<ivl, listedIvl, dueIn, backoffVars, tickVars, manualVars, mode, todo,
           syncVars, histVars>>

All(v) == [r \in Repos |-> v]

\* One unit of time runs a countdown down.
Dec(f)     == [r \in Repos |-> IF f[r] = 0 THEN 0 ELSE f[r] - 1]

ShouldSkip(r)  == suspended[r] \/ allowIn[r] > 0
DueForSync(r)  == dueIn[r] = 0
Eligible(r)    == ~ShouldSkip(r) /\ DueForSync(r)

(***************************************************************************)
(* The bounds the properties state.                                        *)
(***************************************************************************)
\* The time the other repos may take in one pass.
Others == (Cardinality(Repos) - 1) * MaxSync

\* A repo that comes due right after a round has passed it by waits for the rest
\* of the round or the next tick, then for a batch of manual syncs, then for the
\* repos before it in the next round.  A repo of the batch is due again in that
\* round only if some other sync came in between.
WaitBound ==
    Max({BaseTick, Others}) + Others + (IF Cardinality(Repos) > 2 THEN Others ELSE 0)

\* The backoff after the n-th failure, in intervals: 2^n up to MaxFactor, which is
\* the third failure's.
Factor(n) == IF n < 3 THEN 2^n ELSE MaxFactor

\* The first n backoffs together, in intervals.
Backoffs[n \in Nat] == IF n = 0 THEN 0 ELSE Backoffs[n - 1] + Factor(n)

\* All the backoffs between the first failure and the one that suspends.
StreakBound == Backoffs[MaxFailures - 1] * Min(Intervals)

SchedulerInit ==
    /\ ivl \in [Repos -> Intervals] /\ listedIvl = ivl
    /\ dueIn = All(0) /\ allowIn = All(0)
    /\ failures = All(0) /\ suspended = All(FALSE)
    /\ tickIn = BaseTick /\ ticked = FALSE
    /\ limitIn = All(0) /\ queue = << >>
    /\ mode = "startup" /\ todo = Repos
    /\ cur = NoRepo /\ left = 0
    /\ overdue = All(0) /\ streak = All(0)

-----------------------------------------------------------------------------
(***************************************************************************)
(* HTTP requests.                                                          *)
(***************************************************************************)

\* handleUpdateRepo or a new default_sync_interval.  repoNextDue is not touched.
ChangeInterval(r, i) ==
    /\ mode # "startup" /\ i # ivl[r]
    /\ ivl' = [ivl EXCEPT ![r] = i]
    /\ UNCHANGED <<listedIvl, dueIn, backoffVars, tickVars, manualVars, mode, todo,
                   syncVars, histVars>>

\* rateLimiter.Allow: a request within the window of the last accepted one is
\* answered rate_limited.
Allow(r) ==
    /\ limitIn[r] = 0
    /\ limitIn' = [limitIn EXCEPT ![r] = Window]

\* handleSync: queued...
RequestQueued(r) ==
    /\ mode # "startup" /\ Allow(r)
    /\ Len(queue) < QueueCap
    /\ queue' = Append(queue, r)
    /\ UNCHANGED <<ivl, listedIvl, dueIn, backoffVars, tickVars, mode, todo, syncVars,
                   histVars>>

\* ... or, with the channel full, already_queued; the window has begun all the same.
RequestFull(r) ==
    /\ mode # "startup" /\ Allow(r)
    /\ Len(queue) = QueueCap
    /\ UNCHANGED <<ivl, listedIvl, dueIn, backoffVars, tickVars, queue, mode, todo,
                   syncVars, histVars>>

-----------------------------------------------------------------------------
(***************************************************************************)
(* The main goroutine.                                                     *)
(***************************************************************************)

\* doSyncRound passes over a repo that is held back or not due.
Skip(r) ==
    /\ mode = "round" /\ cur = NoRepo /\ r \in todo
    /\ ~Eligible(r)
    /\ todo' = todo \ {r}
    /\ UNCHANGED <<ivl, listedIvl, dueIn, backoffVars, tickVars, manualVars, mode,
                   syncVars, histVars>>

\* A sync begins; a manual one first resets the backoff.
BeginSync(r) ==
    /\ mode # "select" /\ cur = NoRepo /\ r \in todo
    /\ mode = "round" => Eligible(r)
    /\ IF mode = "trigger"
         THEN /\ failures' = [failures EXCEPT ![r] = 0]
              /\ allowIn' = [allowIn EXCEPT ![r] = 0]
              /\ suspended' = [suspended EXCEPT ![r] = FALSE]
              /\ streak' = [streak EXCEPT ![r] = 0]
         ELSE UNCHANGED <<backoffVars, streak>>
    /\ cur' = r /\ left' = MaxSync /\ todo' = todo \ {r}
    /\ overdue' = [overdue EXCEPT ![r] = 0]
    /\ UNCHANGED <<ivl, listedIvl, dueIn, tickVars, manualVars, mode>>

\* recordSyncSuccess and markScheduled.
SyncSucceeds ==
    /\ cur # NoRepo
    /\ failures' = [failures EXCEPT ![cur] = 0]
    /\ allowIn' = [allowIn EXCEPT ![cur] = 0]
    /\ suspended' = [suspended EXCEPT ![cur] = FALSE]
    /\ dueIn' = [dueIn EXCEPT ![cur] = listedIvl[cur]]
    /\ streak' = [streak EXCEPT ![cur] = 0]
    /\ cur' = NoRepo /\ left' = 0
    /\ UNCHANGED <<ivl, listedIvl, tickVars, manualVars, mode, todo, overdue>>

\* Mutant: the shift is one short (1, 2, 4... intervals).
Backoff_Short(n, base) == Factor(n - 1) * base

\* Mutant: the delay is not capped.
Backoff_NoCap(n, base) == 2^n * base

\* The n-th failure in a row holds the repo back for min(2^n, 8) intervals.
Backoff(n, base) == Factor(n) * base

\* recordSyncFailure; the repo stays due.
SyncFails ==
    /\ cur \in Flaky
    /\ failures' = [failures EXCEPT ![cur] = @ + 1]
    /\ IF failures'[cur] >= MaxFailures
         THEN suspended' = [suspended EXCEPT ![cur] = TRUE] /\ UNCHANGED allowIn
         ELSE /\ allowIn' = [allowIn EXCEPT ![cur] = Backoff(failures'[cur], listedIvl[cur])]
              /\ UNCHANGED suspended
    /\ cur' = NoRepo /\ left' = 0
    /\ UNCHANGED <<ivl, listedIvl, dueIn, tickVars, manualVars, mode, todo, histVars>>

\* Mutant: after a batch of manual syncs main goes back to waiting.
PassDone_NoRound ==
    /\ mode # "select" /\ cur = NoRepo /\ todo = {}
    /\ IF mode = "startup"
         THEN mode' = "round" /\ todo' = Repos /\ listedIvl' = ivl
         ELSE mode' = "select" /\ UNCHANGED <<todo, listedIvl>>
    /\ IF mode = "trigger" THEN tickIn' = BaseTick /\ ticked' = FALSE
                           ELSE UNCHANGED tickVars
    /\ UNCHANGED <<ivl, dueIn, backoffVars, manualVars, syncVars, histVars>>

\* The end of a pass.  After the startup scan and after a batch of manual syncs
\* (which resets the ticker) main lists the repos and starts a round at once;
\* after a round it waits.
PassDone ==
    /\ mode # "select" /\ cur = NoRepo /\ todo = {}
    /\ IF mode = "round"
         THEN mode' = "select" /\ UNCHANGED <<todo, listedIvl>>
         ELSE mode' = "round" /\ todo' = Repos /\ listedIvl' = ivl
    /\ IF mode = "trigger" THEN tickIn' = BaseTick /\ ticked' = FALSE
                           ELSE UNCHANGED tickVars
    /\ UNCHANGED <<ivl, dueIn, backoffVars, manualVars, syncVars, histVars>>

SelectTick ==
    /\ mode = "select" /\ ticked
    /\ ticked' = FALSE
    /\ mode' = "round" /\ todo' = Repos /\ listedIvl' = ivl
    /\ UNCHANGED <<ivl, dueIn, backoffVars, tickIn, manualVars, syncVars, histVars>>

\* All pending triggers are drained into one batch.
SelectTrigger ==
    /\ mode = "select" /\ queue # << >>
    /\ mode' = "trigger" /\ todo' = {queue[i] : i \in DOMAIN queue}
    /\ queue' = << >>
    /\ UNCHANGED <<ivl, listedIvl, dueIn, backoffVars, tickVars, limitIn, syncVars,
                   histVars>>

\* One unit of time.  A tick nobody has taken yet is not doubled.
Advance ==
    /\ \/ mode = "select" /\ ~ticked /\ queue = << >>
       \/ cur # NoRepo /\ left > 0
    /\ left' = IF cur = NoRepo THEN 0 ELSE left - 1
    /\ dueIn' = Dec(dueIn) /\ allowIn' = Dec(allowIn) /\ limitIn' = Dec(limitIn)
    /\ IF tickIn = 1 THEN tickIn' = BaseTick /\ ticked' = TRUE
                     ELSE tickIn' = tickIn - 1 /\ UNCHANGED ticked
    /\ overdue' = [r \in Repos |-> IF Eligible(r) /\ cur # r
                                     THEN Min({overdue[r] + 1, WaitBound}) ELSE 0]
    /\ streak' = [r \in Repos |-> IF failures[r] > 0 /\ ~suspended[r]
                                     THEN Min({streak[r] + 1, StreakBound}) ELSE streak[r]]
    /\ UNCHANGED <<ivl, listedIvl, failures, suspended, queue, mode, todo, cur>>

SchedulerNext ==
    \/ \E r \in Repos, i \in Intervals : ChangeInterval(r, i)
    \/ \E r \in Manual : RequestQueued(r) \/ RequestFull(r)
    \/ \E r \in Repos : Skip(r) \/ BeginSync(r)
    \/ SyncSucceeds \/ SyncFails \/ PassDone \/ SelectTick \/ SelectTrigger \/ Advance

SchedulerSpec == SchedulerInit /\ [][SchedulerNext]_svars

-----------------------------------------------------------------------------
(***************************************************************************)
(* Properties.                                                             *)
(***************************************************************************)

\* The countdowns stay within what the code can have stored, and the channel
\* within its capacity.
SchedulerTypeOK ==
    /\ ivl \in [Repos -> Intervals] /\ listedIvl \in [Repos -> Intervals]
    /\ dueIn \in [Repos -> 0 .. Max(Intervals)]
    /\ allowIn \in [Repos -> 0 .. MaxFactor * Max(Intervals)]
    /\ failures \in [Repos -> 0 .. MaxFailures] /\ suspended \in [Repos -> BOOLEAN]
    /\ tickIn \in 1 .. BaseTick /\ ticked \in BOOLEAN
    /\ limitIn \in [Repos -> 0 .. Window]
    /\ queue \in Seq(Repos) /\ Len(queue) <= QueueCap
    /\ mode \in {"startup", "round", "trigger", "select"} /\ todo \subseteq Repos
    /\ cur \in Repos \cup {NoRepo} /\ left \in 0 .. MaxSync

\* A repo that is due and not held back is synced in less than WaitBound, however many
\* manual syncs of other repos reset the ticker meanwhile (main.go:900-982).  The time
\* of listing the rows and of refreshContainers (main.go:924, 928) comes on top, and a
\* list that fails costs a round.
BoundedWait == \A r \in Repos : overdue[r] < WaitBound

\* A repo is not given up too early: between the first failure and the suspension
\* lie all the backoffs, 62 intervals with the limit of 10 failures
\* (main.go:221-240, docs/architecture.md:75-88).
NoEarlySuspension == \A r \in Repos : suspended[r] => streak[r] >= StreakBound
=============================================================================
