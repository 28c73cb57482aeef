---------------------------- MODULE SchedulerProofs -----------------------------
(***************************************************************************)
(* The timing of stackd, for any number of repositories, any intervals,    *)
(* tick, rate limit, longest sync, failure limit and channel capacity: how *)
(* long a repo that is due may wait, and how long a repo that keeps        *)
(* failing is retried before it is given up.                               *)
(***************************************************************************)
EXTENDS Scheduler, FiniteSetTheorems, WellFoundedInduction, TLAPS

-----------------------------------------------------------------------------
(***************************************************************************)
(* The intervals.  The library states induction over operators, which the  *)
(* provers cannot instantiate; the least element of a well-founded order   *)
(* (WFMin) does the same work with a set.                                  *)
(***************************************************************************)

\* A nonempty finite set of numbers has a largest element.
LEMMA FiniteMax ==
    ASSUME NEW S, IsFiniteSet(S), S # {}, S \subseteq Nat
    PROVE  Max(S) \in S /\ \A i \in S : i <= Max(S)
<1> DEFINE HasMax(U) == \E m \in U : \A i \in U : m >= i
           Bad == {U \in FiniteSubsetsOf(S) : U # {} /\ ~HasMax(U)}
<1>1. Bad = {}
  <2> SUFFICES ASSUME Bad # {} PROVE FALSE
    OBVIOUS
  <2>1. PICK U \in Bad : \A V \in Bad : <<V, U>> \notin StrictSubsetOrdering(S)
    BY FS_StrictSubsetOrderingWellFounded, WFMin
  <2>2. U \subseteq S /\ IsFiniteSet(U) /\ U # {} /\ ~HasMax(U)
    BY DEF FiniteSubsetsOf
  <2>3. PICK x \in U : TRUE
    BY <2>2
  <2>4. U \ {x} \in FiniteSubsetsOf(S) /\ <<U \ {x}, U>> \in StrictSubsetOrdering(S)
    BY <2>2, <2>3, FS_RemoveElement DEF FiniteSubsetsOf, StrictSubsetOrdering
  <2>5. CASE U \ {x} = {}
    BY <2>2, <2>3, <2>5
  <2>6. CASE U \ {x} # {}
    <3>1. HasMax(U \ {x})
      BY <2>1, <2>4, <2>6
    <3>2. PICK m \in U \ {x} : \A i \in U \ {x} : m >= i
      BY <3>1
    <3>3. m \in Nat /\ x \in Nat /\ \A i \in U : i \in Nat
      BY <2>2, <3>2
    <3>4. \/ \A i \in U : m >= i
          \/ \A i \in U : x >= i
      BY <3>2, <3>3
    <3> QED
      BY <2>2, <2>3, <3>2, <3>4
  <2> QED
    BY <2>5, <2>6
<1>2. HasMax(S)
  BY <1>1 DEF FiniteSubsetsOf
<1>3. PICK m \in S : \A i \in S : m >= i
  BY <1>2
<1>4. \E m2 \in S : \A y \in S : m2 >= y
  BY <1>3
<1>5. Max(S) \in S /\ \A y \in S : Max(S) >= y
  BY <1>4 DEF Max
<1> QED
  BY <1>5

\* A nonempty set of numbers has a smallest element.
LEMMA LeastNumber ==
    ASSUME NEW S, S # {}, S \subseteq Nat
    PROVE  Min(S) \in S /\ \A i \in S : Min(S) <= i
<1>1. PICK n \in S : \A i \in S : <<i, n>> \notin OpToRel(<, Nat)
  BY NatLessThanWellFounded, WFMin
<1>2. ASSUME NEW i \in S PROVE n <= i
  <2>1. i \in Nat /\ n \in Nat
    OBVIOUS
  <2>2. i < n => <<i, n>> \in {ss \in Nat \X Nat : ss[1] < ss[2]}
    BY <2>1
  <2>3. OpToRel(<, Nat) = {ss \in Nat \X Nat : ss[1] < ss[2]}
    BY Zenon DEF OpToRel
  <2>4. ~(i < n)
    BY <1>1, <2>2, <2>3, Zenon
  <2> QED
    BY <2>1, <2>4
<1> QED
  BY <1>2 DEF Min

\* The longest and the shortest interval.
LEMMA IntervalBounds ==
    /\ Max(Intervals) \in Nat \ {0} /\ Min(Intervals) \in Nat \ {0}
    /\ \A i \in Intervals : i \in Nat \ {0} /\ Min(Intervals) <= i /\ i <= Max(Intervals)
<1>1. Max(Intervals) \in Intervals /\ \A i \in Intervals : i <= Max(Intervals)
  BY FiniteMax, SchedulerAssumption
<1>2. Min(Intervals) \in Intervals /\ \A i \in Intervals : Min(Intervals) <= i
  BY LeastNumber, SchedulerAssumption
<1> QED
  BY <1>1, <1>2, SchedulerAssumption

\* The smaller of two numbers.
LEMMA MinOfTwo ==
    ASSUME NEW a \in Nat, NEW b \in Nat
    PROVE  Min({a, b}) = IF a <= b THEN a ELSE b
  BY DEF Min

\* The larger of two numbers.
LEMMA MaxOfTwo ==
    ASSUME NEW a \in Nat, NEW b \in Nat
    PROVE  Max({a, b}) = IF a <= b THEN b ELSE a
  BY DEF Max

-----------------------------------------------------------------------------
(***************************************************************************)
(* The backoffs.                                                           *)
(***************************************************************************)

\* Every backoff lies between one interval and the cap.
LEMMA FactorBounds ==
    ASSUME NEW n \in Nat
    PROVE  Factor(n) \in 1 .. MaxFactor
<1>1. 2^0 = 1 /\ 2^1 = 2 /\ 2^2 = 4
  OBVIOUS
<1>2. CASE n < 3
  <2>1. n = 0 \/ n = 1 \/ n = 2
    BY <1>2
  <2>2. Factor(n) = 2^n
    BY <1>2 DEF Factor
  <2>3. Factor(n) = 1 \/ Factor(n) = 2 \/ Factor(n) = 4
    BY <1>1, <2>1, <2>2
  <2> QED
    BY <2>3 DEF MaxFactor
<1>3. CASE ~(n < 3)
  BY <1>3 DEF Factor, MaxFactor
<1> QED
  BY <1>2, <1>3

\* The recursion of Backoffs has a solution: 0, 2, 6, 14, 22...
LEMMA BackoffsEquation ==
    \A n \in Nat : Backoffs[n] = IF n = 0 THEN 0 ELSE Backoffs[n - 1] + Factor(n)
<1> DEFINE g == [n \in Nat |-> IF n = 0 THEN 0 ELSE IF n = 1 THEN 2 ELSE 8 * n - 10]
           Eq(f) == f = [n \in Nat |-> IF n = 0 THEN 0 ELSE f[n - 1] + Factor(n)]
<1>1. \A n \in Nat : g[n] = IF n = 0 THEN 0 ELSE g[n - 1] + Factor(n)
  <2> SUFFICES ASSUME NEW n \in Nat PROVE g[n] = IF n = 0 THEN 0 ELSE g[n - 1] + Factor(n)
    OBVIOUS
  <2>1. CASE n = 0
    BY <2>1
  <2>2. CASE n = 1
    <3>1. Factor(1) = 2 /\ g[0] = 0 /\ g[1] = 2
      BY DEF Factor
    <3> QED
      BY <2>2, <3>1
  <2>3. CASE n = 2
    <3>1. Factor(2) = 4 /\ g[1] = 2 /\ g[2] = 6
      BY DEF Factor
    <3> QED
      BY <2>3, <3>1
  <2>4. CASE n > 2
    <3>1. Factor(n) = 8 /\ n - 1 \in Nat /\ n - 1 # 0 /\ n - 1 # 1
      BY <2>4 DEF Factor, MaxFactor
    <3>2. g[n - 1] = 8 * (n - 1) - 10 /\ g[n] = 8 * n - 10
      BY <2>4, <3>1
    <3> QED
      BY <2>4, <3>1, <3>2
  <2> QED
    BY <2>1, <2>2, <2>3, <2>4
<1>2. Eq(g)
  <2>1. g = [n \in Nat |-> g[n]]
    OBVIOUS
  <2> HIDE DEF g
  <2> QED
    BY <1>1, <2>1
<1>3. Eq(Backoffs)
  BY <1>2 DEF Backoffs
<1> QED
  BY <1>3

\* The backoffs add up to a number.
LEMMA BackoffsNat == \A n \in Nat : Backoffs[n] \in Nat
<1> DEFINE Bad == {n \in Nat : Backoffs[n] \notin Nat}
<1> SUFFICES ASSUME Bad # {} PROVE FALSE
  OBVIOUS
<1>1. Min(Bad) \in Bad /\ \A i \in Bad : Min(Bad) <= i
  BY LeastNumber
<1>2. PICK n \in Bad : \A i \in Bad : n <= i
  BY <1>1
<1>3. n \in Nat /\ n # 0
  BY <1>2, BackoffsEquation
<1>4. n - 1 \in Nat /\ n - 1 \notin Bad
  BY <1>2, <1>3
<1>5. Backoffs[n - 1] \in Nat /\ Factor(n) \in Nat
  BY <1>3, <1>4, FactorBounds DEF MaxFactor
<1>6. Backoffs[n] = Backoffs[n - 1] + Factor(n)
  BY <1>3, BackoffsEquation
<1> QED
  BY <1>2, <1>5, <1>6

\* The bounds of the properties are numbers.
LEMMA StreakBoundNat == StreakBound \in Nat
  BY BackoffsNat, IntervalBounds, SchedulerAssumption DEF StreakBound

-----------------------------------------------------------------------------
(***************************************************************************)
(* The core invariant: the types, the failure counter and the pass.        *)
(***************************************************************************)

USE DEF backoffVars, tickVars, manualVars, syncVars, histVars

HistoryOK == overdue \in [Repos -> Nat] /\ streak \in [Repos -> Nat]

\* A repo is suspended exactly at the limit.  One that is being synced is below it
\* and not held back, so that a failure neither counts past the limit nor cuts a
\* backoff short.
LimitInv ==
    /\ \A r \in Repos : suspended[r] <=> failures[r] = MaxFailures
    /\ \A r \in Repos : cur = r => allowIn[r] = 0 /\ failures[r] < MaxFailures
    /\ mode = "startup" => \A r \in todo : failures[r] = 0 /\ allowIn[r] = 0

\* A pass visits a repo once, and the repo it has visited last is not eligible again
\* before time passes.
PassInv ==
    /\ cur \notin todo
    /\ cur = NoRepo => left = 0
    /\ mode = "select" => cur = NoRepo
    /\ mode \in {"startup", "trigger"} /\ cur = NoRepo /\ todo = {} /\ Repos # {}
          => \E q \in Repos : ~Eligible(q)

SchedulerCore == SchedulerTypeOK /\ HistoryOK /\ LimitInv /\ PassInv

\* The process starts in such a state.
LEMMA CoreAtStart == SchedulerInit => SchedulerCore
<1> SUFFICES ASSUME SchedulerInit PROVE SchedulerCore
  OBVIOUS
<1> USE DEF SchedulerInit, All
<1>a. /\ Max(Intervals) \in Nat /\ MaxFactor * Max(Intervals) \in Nat /\ MaxFailures \in Nat \ {0}
      /\ Window \in Nat /\ MaxSync \in Nat /\ BaseTick \in Nat \ {0} /\ QueueCap \in Nat
      /\ NoRepo \notin Repos
  BY SchedulerAssumption, IntervalBounds DEF MaxFactor
<1>1. SchedulerTypeOK
  <2>1. /\ ivl \in [Repos -> Intervals] /\ listedIvl \in [Repos -> Intervals]
        /\ tickIn \in 1 .. BaseTick /\ left \in 0 .. MaxSync
    BY <1>a
  <2>2. /\ dueIn \in [Repos -> 0 .. Max(Intervals)]
        /\ allowIn \in [Repos -> 0 .. MaxFactor * Max(Intervals)]
    BY <1>a
  <2>3. failures \in [Repos -> 0 .. MaxFailures] /\ limitIn \in [Repos -> 0 .. Window]
    BY <1>a
  <2>4. suspended \in [Repos -> BOOLEAN] /\ ticked \in BOOLEAN
    OBVIOUS
  <2>5. queue \in Seq(Repos) /\ Len(queue) <= QueueCap
    BY <1>a
  <2> QED
    BY <2>1, <2>2, <2>3, <2>4, <2>5 DEF SchedulerTypeOK
<1>2. HistoryOK
  BY DEF HistoryOK
<1>3. LimitInv
  BY <1>a DEF LimitInv
<1>4. PassInv
  BY <1>a DEF PassInv
<1> QED
  BY <1>1, <1>2, <1>3, <1>4 DEF SchedulerCore

-----------------------------------------------------------------------------
(***************************************************************************)
(* Frames: which actions touch which variables.                            *)
(***************************************************************************)

USE DEF SchedulerNext, ChangeInterval, RequestQueued, RequestFull, Skip, BeginSync,
        SyncSucceeds, SyncFails, PassDone, SelectTick, SelectTrigger, Advance

\* The intervals: written by a request, read at the head of a round.
LEMMA IntervalFrame ==
    SchedulerNext => \/ UNCHANGED <<ivl, listedIvl>>
                     \/ \E r \in Repos, i \in Intervals : ChangeInterval(r, i)
                     \/ UNCHANGED ivl /\ listedIvl' = ivl
  OBVIOUS

\* Due times, backoff and counters: written by a sync, and changed by time.
LEMMA BackoffFrame ==
    SchedulerNext => \/ UNCHANGED <<dueIn, backoffVars>>
                     \/ SyncSucceeds \/ SyncFails \/ Advance
                     \/ UNCHANGED dueIn /\ \E r \in Repos : BeginSync(r)
  OBVIOUS

\* The ticker: changed by time, received by main, reset after a batch.
LEMMA TickFrame ==
    SchedulerNext => \/ UNCHANGED tickVars \/ Advance
                     \/ UNCHANGED tickIn /\ ticked' = FALSE
                     \/ tickIn' = BaseTick /\ ticked' = FALSE
  OBVIOUS

\* The limiter and the channel: requests, time and main.
LEMMA ManualFrame ==
    SchedulerNext => \/ UNCHANGED manualVars
                     \/ \E r \in Manual : RequestQueued(r) \/ RequestFull(r)
                     \/ SelectTrigger \/ Advance
  OBVIOUS

\* The pass: changed by main only.
LEMMA PassFrame ==
    SchedulerNext => \/ UNCHANGED <<mode, todo, syncVars>>
                     \/ \E r \in Repos : Skip(r) \/ BeginSync(r)
                     \/ SyncSucceeds \/ SyncFails \/ PassDone \/ SelectTick
                     \/ SelectTrigger \/ Advance
  OBVIOUS

\* The histories: time, and the syncs that end a wait or a streak.
LEMMA HistoryFrame ==
    SchedulerNext => \/ UNCHANGED histVars
                     \/ (\E r \in Repos : BeginSync(r)) \/ SyncSucceeds \/ Advance
  OBVIOUS

HIDE DEF SchedulerNext, ChangeInterval, RequestQueued, RequestFull, Skip, BeginSync,
        SyncSucceeds, SyncFails, PassDone, SelectTick, SelectTrigger, Advance

-----------------------------------------------------------------------------
(***************************************************************************)
(* Every step keeps the types.                                             *)
(***************************************************************************)

\* A countdown that runs down stays in its range, and a positive one loses a unit.
LEMMA DecTyped ==
    ASSUME NEW n \in Nat, NEW f \in [Repos -> 0 .. n]
    PROVE  /\ Dec(f) \in [Repos -> 0 .. n]
           /\ \A r \in Repos : Dec(f)[r] = IF f[r] = 0 THEN 0 ELSE f[r] - 1
<1>1. \A r \in Repos : (IF f[r] = 0 THEN 0 ELSE f[r] - 1) \in 0 .. n
  <2> TAKE r \in Repos
  <2>1. f[r] \in 0 .. n
    OBVIOUS
  <2> QED
    BY <2>1
<1> QED
  BY <1>1 DEF Dec

\* The delay a failure stores is positive and within the type.
LEMMA BackoffRange ==
    ASSUME NEW n \in Nat, NEW i \in Intervals
    PROVE  /\ Backoff(n, i) \in 1 .. MaxFactor * Max(Intervals)
           /\ Backoff(n, i) >= Factor(n) * Min(Intervals)
<1>1. PICK f \in 1 .. 8 : f = Factor(n)
  BY FactorBounds DEF MaxFactor
<1>2. PICK a \in Nat, b \in Nat :
         a = Min(Intervals) /\ b = Max(Intervals) /\ a <= i /\ i <= b /\ i \in Nat /\ 1 <= i
  BY IntervalBounds
<1>3. f * i >= f * a /\ f * i <= 8 * b /\ f * i >= 1 /\ f * i \in Nat /\ 8 * b \in Nat
  BY <1>1, <1>2
<1> QED
  BY <1>1, <1>2, <1>3 DEF Backoff, MaxFactor

\* Intervals stay intervals.
LEMMA IntervalTyped ==
    SchedulerCore /\ SchedulerNext =>
        (ivl \in [Repos -> Intervals] /\ listedIvl \in [Repos -> Intervals])'
  BY IntervalFrame DEF SchedulerCore, SchedulerTypeOK, ChangeInterval

\* Due times and backoffs stay within what an interval allows.
LEMMA DueTyped ==
    SchedulerCore /\ SchedulerNext =>
        (/\ dueIn \in [Repos -> 0 .. Max(Intervals)]
         /\ allowIn \in [Repos -> 0 .. MaxFactor * Max(Intervals)])'
<1> SUFFICES ASSUME SchedulerCore, SchedulerNext
             PROVE  /\ dueIn' \in [Repos -> 0 .. Max(Intervals)]
                    /\ allowIn' \in [Repos -> 0 .. MaxFactor * Max(Intervals)]
  OBVIOUS
<1>m. PICK M \in Nat, A \in Nat : M = Max(Intervals) /\ A = MaxFactor * Max(Intervals)
  BY IntervalBounds DEF MaxFactor
<1> SUFFICES dueIn' \in [Repos -> 0 .. M] /\ allowIn' \in [Repos -> 0 .. A]
  BY <1>m
<1>a. /\ dueIn \in [Repos -> 0 .. M] /\ allowIn \in [Repos -> 0 .. A]
      /\ listedIvl \in [Repos -> Intervals] /\ failures \in [Repos -> Nat]
      /\ \A i \in Intervals : i \in 0 .. M
  BY <1>m, IntervalBounds, SchedulerAssumption DEF SchedulerCore, SchedulerTypeOK
<1>b. 0 \in 0 .. A
  BY <1>a
<1>c. \A n \in Nat, i \in Intervals : Backoff(n, i) \in 0 .. A
  BY <1>m, BackoffRange
<1>1. CASE Advance
  BY <1>a, <1>1, DecTyped DEF Advance
<1>2. CASE SyncSucceeds
  BY <1>a, <1>b, <1>2 DEF SyncSucceeds
<1>3. CASE SyncFails
  <2>1. cur \in Repos /\ dueIn' = dueIn
    BY <1>3, SchedulerAssumption DEF SyncFails
  <2>2. failures'[cur] \in Nat
    BY <1>a, <1>3, <2>1 DEF SyncFails
  <2>3. \/ allowIn' = allowIn
        \/ allowIn' = [allowIn EXCEPT ![cur] = Backoff(failures'[cur], listedIvl[cur])]
    BY <1>3 DEF SyncFails
  <2>4. Backoff(failures'[cur], listedIvl[cur]) \in 0 .. A
    BY <1>a, <1>c, <2>1, <2>2
  <2> QED
    BY <1>a, <2>1, <2>3, <2>4
<1>4. ASSUME NEW r \in Repos, BeginSync(r) PROVE allowIn' \in [Repos -> 0 .. A]
  BY <1>a, <1>b, <1>4 DEF BeginSync
<1>5. CASE UNCHANGED <<dueIn, backoffVars>>
  BY <1>a, <1>5
<1> QED
  BY <1>a, <1>1, <1>2, <1>3, <1>4, <1>5, BackoffFrame

\* The counter stays within the limit.
LEMMA CountTyped ==
    SchedulerCore /\ SchedulerNext =>
        (failures \in [Repos -> 0 .. MaxFailures] /\ suspended \in [Repos -> BOOLEAN])'
<1> SUFFICES ASSUME SchedulerCore, SchedulerNext
             PROVE  /\ failures' \in [Repos -> 0 .. MaxFailures]
                    /\ suspended' \in [Repos -> BOOLEAN]
  OBVIOUS
<1>a. /\ failures \in [Repos -> 0 .. MaxFailures] /\ suspended \in [Repos -> BOOLEAN]
      /\ MaxFailures \in Nat \ {0} /\ 0 \in 0 .. MaxFailures
  BY SchedulerAssumption DEF SchedulerCore, SchedulerTypeOK
<1>1. CASE SyncFails
  <2>1. cur \in Repos /\ failures' = [failures EXCEPT ![cur] = @ + 1]
    BY <1>1, SchedulerAssumption DEF SyncFails
  <2>2. failures[cur] + 1 \in 0 .. MaxFailures
    BY <1>a, <2>1 DEF SchedulerCore, LimitInv
  <2>3. suspended' = suspended \/ suspended' = [suspended EXCEPT ![cur] = TRUE]
    BY <1>1 DEF SyncFails
  <2>4. failures' \in [Repos -> 0 .. MaxFailures]
    BY <1>a, <2>1, <2>2
  <2>5. suspended' \in [Repos -> BOOLEAN]
    BY <1>a, <2>3
  <2> QED
    BY <2>4, <2>5
<1>2. CASE SyncSucceeds
  <2>1. failures' \in [Repos -> 0 .. MaxFailures]
    BY <1>a, <1>2 DEF SyncSucceeds
  <2>2. suspended' \in [Repos -> BOOLEAN]
    BY <1>a, <1>2 DEF SyncSucceeds
  <2> QED
    BY <2>1, <2>2
<1>3. ASSUME NEW r \in Repos, BeginSync(r)
      PROVE  failures' \in [Repos -> 0 .. MaxFailures] /\ suspended' \in [Repos -> BOOLEAN]
  <2>1. failures' \in [Repos -> 0 .. MaxFailures]
    BY <1>a, <1>3 DEF BeginSync
  <2>2. suspended' \in [Repos -> BOOLEAN]
    BY <1>a, <1>3 DEF BeginSync
  <2> QED
    BY <2>1, <2>2
<1>4. CASE UNCHANGED <<failures, suspended>>
  BY <1>a, <1>4
<1> QED
  BY <1>1, <1>2, <1>3, <1>4, BackoffFrame DEF Advance

\* The ticker counts down from BaseTick.
LEMMA TickTyped ==
    SchedulerCore /\ SchedulerNext => (tickIn \in 1 .. BaseTick /\ ticked \in BOOLEAN)'
<1> SUFFICES ASSUME SchedulerCore, SchedulerNext
             PROVE  tickIn' \in 1 .. BaseTick /\ ticked' \in BOOLEAN
  OBVIOUS
<1>a. tickIn \in 1 .. BaseTick /\ ticked \in BOOLEAN /\ BaseTick \in Nat \ {0}
  BY SchedulerAssumption DEF SchedulerCore, SchedulerTypeOK
<1>1. tickIn' \in {tickIn, BaseTick} \/ (tickIn' = tickIn - 1 /\ tickIn # 1)
  BY TickFrame DEF Advance
<1>2. ticked' \in {ticked, TRUE, FALSE}
  BY TickFrame DEF Advance
<1>3. tickIn' \in 1 .. BaseTick
  BY <1>a, <1>1
<1>4. ticked' \in BOOLEAN
  BY <1>a, <1>2
<1> QED
  BY <1>3, <1>4

\* The channel holds at most QueueCap requests.
LEMMA ManualTyped ==
    SchedulerCore /\ SchedulerNext =>
        (limitIn \in [Repos -> 0 .. Window] /\ queue \in Seq(Repos) /\ Len(queue) <= QueueCap)'
<1> SUFFICES ASSUME SchedulerCore, SchedulerNext
             PROVE  /\ limitIn' \in [Repos -> 0 .. Window]
                    /\ queue' \in Seq(Repos) /\ Len(queue') <= QueueCap
  OBVIOUS
<1>a. /\ limitIn \in [Repos -> 0 .. Window] /\ queue \in Seq(Repos) /\ Len(queue) <= QueueCap
      /\ Window \in Nat /\ Window \in 0 .. Window /\ QueueCap \in Nat /\ Manual \subseteq Repos
  BY SchedulerAssumption DEF SchedulerCore, SchedulerTypeOK
<1>1. limitIn' \in [Repos -> 0 .. Window]
  <2>1. CASE Advance
    BY <1>a, <2>1, DecTyped DEF Advance
  <2>2. CASE ~Advance
    BY <1>a, <2>2, ManualFrame DEF RequestQueued, RequestFull, Allow, SelectTrigger
  <2> QED
    BY <2>1, <2>2
<1>2. \/ queue' = queue \/ queue' = << >>
      \/ \E r \in Repos : queue' = Append(queue, r) /\ Len(queue) < QueueCap
  BY <1>a, ManualFrame DEF RequestQueued, RequestFull, SelectTrigger, Advance
<1>3. queue' \in Seq(Repos) /\ Len(queue') <= QueueCap
  <2>1. CASE queue' = << >>
    BY <1>a, <2>1
  <2>2. ASSUME NEW r \in Repos, queue' = Append(queue, r), Len(queue) < QueueCap
        PROVE  queue' \in Seq(Repos) /\ Len(queue') <= QueueCap
    BY <1>a, <2>2
  <2> QED
    BY <1>a, <1>2, <2>1, <2>2
<1> QED
  BY <1>1, <1>3

\* The pass visits repos, and a sync takes at most MaxSync.
LEMMA PassTyped ==
    SchedulerCore /\ SchedulerNext =>
        (/\ mode \in {"startup", "round", "trigger", "select"} /\ todo \subseteq Repos
         /\ cur \in Repos \cup {NoRepo} /\ left \in 0 .. MaxSync)'
<1> SUFFICES ASSUME SchedulerCore, SchedulerNext
             PROVE  /\ mode' \in {"startup", "round", "trigger", "select"} /\ todo' \subseteq Repos
                    /\ cur' \in Repos \cup {NoRepo} /\ left' \in 0 .. MaxSync
  OBVIOUS
<1>a. /\ mode \in {"startup", "round", "trigger", "select"} /\ todo \subseteq Repos
      /\ cur \in Repos \cup {NoRepo} /\ left \in 0 .. MaxSync /\ queue \in Seq(Repos)
      /\ MaxSync \in Nat
  BY SchedulerAssumption DEF SchedulerCore, SchedulerTypeOK
<1>1. mode' \in {mode, "select", "round", "trigger"}
  BY PassFrame DEF Skip, BeginSync, SyncSucceeds, SyncFails, PassDone, SelectTick,
     SelectTrigger, Advance
<1>2. \A i \in DOMAIN queue : queue[i] \in Repos
  BY <1>a
<1>3. todo' \subseteq Repos
  BY <1>a, <1>2, PassFrame DEF Skip, BeginSync, SyncSucceeds, SyncFails, PassDone, SelectTick,
     SelectTrigger, Advance
<1>4. cur' \in Repos \cup {NoRepo}
  BY <1>a, PassFrame DEF Skip, BeginSync, SyncSucceeds, SyncFails, PassDone, SelectTick,
     SelectTrigger, Advance
<1>5. left' \in {left, 0, MaxSync} \/ (left > 0 /\ left' = left - 1)
  BY <1>a, PassFrame DEF Skip, BeginSync, SyncSucceeds, SyncFails, PassDone, SelectTick,
     SelectTrigger, Advance, SchedulerCore, PassInv
<1> QED
  BY <1>a, <1>1, <1>3, <1>4, <1>5

\* The bound on the wait is a number.
LEMMA WaitBoundNat ==
    /\ Repos # {} => Others \in Nat /\ WaitBound \in Nat
    /\ Cardinality(Repos) \in Nat
<1>1. Cardinality(Repos) \in Nat /\ MaxSync \in Nat /\ BaseTick \in Nat
  BY SchedulerAssumption, FS_CardinalityType
<1>2. Repos # {} => Cardinality(Repos) >= 1
  BY <1>1, SchedulerAssumption, FS_EmptySet
<1>3. Repos # {} => Others \in Nat
  BY <1>1, <1>2 DEF Others
<1>4. Repos # {} => Max({BaseTick, Others}) \in Nat
  BY <1>1, <1>3, MaxOfTwo
<1> QED
  BY <1>1, <1>3, <1>4 DEF WaitBound

\* The histories are numbers.
LEMMA HistoryTyped == SchedulerCore /\ SchedulerNext => HistoryOK'
<1> SUFFICES ASSUME SchedulerCore, SchedulerNext PROVE HistoryOK'
  OBVIOUS
<1>a. overdue \in [Repos -> Nat] /\ streak \in [Repos -> Nat]
  BY DEF SchedulerCore, HistoryOK
<1>1. CASE Advance
  <2>1. ASSUME NEW r \in Repos PROVE overdue'[r] \in Nat /\ streak'[r] \in Nat
    <3>1. overdue[r] + 1 \in Nat /\ streak[r] + 1 \in Nat /\ WaitBound \in Nat
      BY <1>a, WaitBoundNat
    <3>2. /\ Min({overdue[r] + 1, WaitBound}) \in Nat
          /\ Min({streak[r] + 1, StreakBound}) \in Nat
      BY <3>1, MinOfTwo, StreakBoundNat
    <3> QED
      BY <1>a, <1>1, <3>2 DEF Advance
  <2>2. overdue' = [r \in Repos |-> overdue'[r]] /\ streak' = [r \in Repos |-> streak'[r]]
    BY <1>1 DEF Advance
  <2> QED
    BY <2>1, <2>2 DEF HistoryOK
<1>2. ASSUME NEW r \in Repos, BeginSync(r) PROVE HistoryOK'
  BY <1>a, <1>2 DEF BeginSync, HistoryOK
<1>3. CASE SyncSucceeds
  BY <1>a, <1>3 DEF SyncSucceeds, HistoryOK
<1>4. CASE UNCHANGED histVars
  BY <1>a, <1>4 DEF HistoryOK
<1> QED
  BY <1>1, <1>2, <1>3, <1>4, HistoryFrame

\* The facts about the counters the next two lemmas use.
LEMMA CounterTypes ==
    ASSUME SchedulerCore
    PROVE  /\ failures \in [Repos -> 0 .. MaxFailures] /\ suspended \in [Repos -> BOOLEAN]
           /\ allowIn \in [Repos -> Nat] /\ dueIn \in [Repos -> Nat]
           /\ listedIvl \in [Repos -> Intervals]
           /\ MaxFailures \in Nat \ {0} /\ NoRepo \notin Repos
           /\ cur \in Repos \cup {NoRepo} /\ todo \subseteq Repos
<1>1. PICK M \in Nat, A \in Nat : M = Max(Intervals) /\ A = MaxFactor * Max(Intervals)
  BY IntervalBounds DEF MaxFactor
<1>2. dueIn \in [Repos -> 0 .. M] /\ allowIn \in [Repos -> 0 .. A]
  BY <1>1 DEF SchedulerCore, SchedulerTypeOK
<1>3. dueIn \in [Repos -> Nat] /\ allowIn \in [Repos -> Nat]
  BY <1>2
<1> QED
  BY <1>3, SchedulerAssumption DEF SchedulerCore, SchedulerTypeOK

\* What a failed sync leaves behind: one more failure, and either the suspension or
\* a backoff of some length.
LEMMA FailureEffect ==
    ASSUME SchedulerCore, SyncFails
    PROVE  /\ cur \in Repos /\ cur' = NoRepo /\ left' = 0
           /\ UNCHANGED <<dueIn, mode, todo>>
           /\ failures[cur] < MaxFailures /\ allowIn[cur] = 0
           /\ failures'[cur] = failures[cur] + 1
           /\ IF failures'[cur] = MaxFailures
                THEN suspended'[cur] /\ allowIn' = allowIn
                ELSE /\ ~suspended'[cur]
                     /\ allowIn'[cur] = Backoff(failures'[cur], listedIvl[cur])
                     /\ allowIn'[cur] \in Nat \ {0}
           /\ \A r \in Repos \ {cur} : /\ failures'[r] = failures[r]
                                       /\ suspended'[r] = suspended[r]
                                       /\ allowIn'[r] = allowIn[r]
<1>a. cur \in Repos
  BY SchedulerAssumption DEF SyncFails
<1>b. failures[cur] < MaxFailures /\ allowIn[cur] = 0 /\ ~suspended[cur]
  BY <1>a, CounterTypes DEF SchedulerCore, LimitInv
<1>1. failures'[cur] = failures[cur] + 1 /\ \A r \in Repos \ {cur} : failures'[r] = failures[r]
  BY <1>a, CounterTypes DEF SyncFails
<1>2. failures'[cur] \in Nat /\ (failures'[cur] >= MaxFailures <=> failures'[cur] = MaxFailures)
  BY <1>a, <1>b, <1>1, CounterTypes
<1>3. CASE failures'[cur] = MaxFailures
  <2>1. suspended' = [suspended EXCEPT ![cur] = TRUE] /\ allowIn' = allowIn
    BY <1>2, <1>3 DEF SyncFails
  <2>2. suspended'[cur] /\ \A r \in Repos \ {cur} : suspended'[r] = suspended[r]
    BY <1>a, <2>1, CounterTypes
  <2> QED
    BY <1>a, <1>b, <1>1, <1>3, <2>1, <2>2 DEF SyncFails
<1>4. CASE failures'[cur] # MaxFailures
  <2>1. /\ allowIn' = [allowIn EXCEPT ![cur] = Backoff(failures'[cur], listedIvl[cur])]
        /\ suspended' = suspended
    BY <1>2, <1>4 DEF SyncFails
  <2>2. listedIvl[cur] \in Intervals
    BY <1>a, CounterTypes
  <2>3. PICK A \in Nat : A = MaxFactor * Max(Intervals)
    BY IntervalBounds DEF MaxFactor
  <2>4. Backoff(failures'[cur], listedIvl[cur]) \in 1 .. A
    BY <1>2, <2>2, <2>3, BackoffRange
  <2>5. Backoff(failures'[cur], listedIvl[cur]) \in Nat \ {0}
    BY <2>3, <2>4
  <2>6. /\ allowIn'[cur] = Backoff(failures'[cur], listedIvl[cur])
        /\ \A r \in Repos \ {cur} : allowIn'[r] = allowIn[r]
    BY <1>a, <2>1, CounterTypes
  <2> QED
    BY <1>a, <1>b, <1>1, <1>4, <2>1, <2>5, <2>6 DEF SyncFails
<1> QED
  BY <1>3, <1>4

\* Counter, flag and limit stay consistent.
LEMMA LimitStep == SchedulerCore /\ SchedulerNext => LimitInv'
<1> SUFFICES ASSUME SchedulerCore, SchedulerNext PROVE LimitInv'
  OBVIOUS
<1>a. LimitInv /\ PassInv
  BY DEF SchedulerCore
<1>b. /\ failures \in [Repos -> 0 .. MaxFailures] /\ suspended \in [Repos -> BOOLEAN]
      /\ allowIn \in [Repos -> Nat] /\ MaxFailures \in Nat \ {0} /\ NoRepo \notin Repos
      /\ cur \in Repos \cup {NoRepo} /\ todo \subseteq Repos
  BY CounterTypes
<1>1. CASE SyncFails
  <2>1. /\ cur \in Repos /\ cur' = NoRepo /\ UNCHANGED <<mode, todo>>
        /\ failures'[cur] = MaxFailures <=> suspended'[cur]
        /\ \A r \in Repos \ {cur} : /\ failures'[r] = failures[r]
                                    /\ suspended'[r] = suspended[r]
                                    /\ allowIn'[r] = allowIn[r]
    BY <1>1, FailureEffect
  <2> QED
    BY <1>a, <1>b, <2>1 DEF LimitInv, PassInv
<1>2. CASE SyncSucceeds
  <2>1. /\ cur \in Repos /\ cur' = NoRepo /\ UNCHANGED <<mode, todo>>
        /\ failures'[cur] = 0 /\ ~suspended'[cur]
        /\ \A r \in Repos \ {cur} : /\ failures'[r] = failures[r]
                                    /\ suspended'[r] = suspended[r]
                                    /\ allowIn'[r] = allowIn[r]
    BY <1>b, <1>2 DEF SyncSucceeds
  <2> QED
    BY <1>a, <1>b, <2>1 DEF LimitInv, PassInv
<1>3. ASSUME NEW q \in Repos, BeginSync(q) PROVE LimitInv'
  <2>1. cur' = q /\ q \in todo /\ mode' = mode /\ todo' = todo \ {q}
    BY <1>3 DEF BeginSync
  <2>2. CASE mode = "trigger"
    <3>1. /\ failures'[q] = 0 /\ ~suspended'[q] /\ allowIn'[q] = 0
          /\ \A r \in Repos \ {q} : /\ failures'[r] = failures[r]
                                    /\ suspended'[r] = suspended[r]
                                    /\ allowIn'[r] = allowIn[r]
      BY <1>b, <1>3, <2>2 DEF BeginSync
    <3> QED
      BY <1>a, <1>b, <2>1, <2>2, <3>1 DEF LimitInv
  <2>3. CASE mode # "trigger"
    <3>1. UNCHANGED backoffVars
      BY <1>3, <2>3 DEF BeginSync
    <3>2. ~suspended[q] /\ allowIn[q] = 0
      <4>1. CASE mode = "startup"
        BY <1>a, <1>b, <2>1, <4>1 DEF LimitInv
      <4>2. CASE mode = "round"
        <5>1. ~suspended[q] /\ ~(allowIn[q] > 0)
          BY <1>3, <4>2 DEF BeginSync, Eligible, ShouldSkip
        <5> QED
          BY <1>b, <5>1
      <4> QED
        BY <1>3, <2>3, <4>1, <4>2 DEF BeginSync, SchedulerCore, SchedulerTypeOK
    <3>3. failures[q] < MaxFailures
      BY <1>a, <1>b, <3>2 DEF LimitInv
    <3> QED
      BY <1>a, <2>1, <3>1, <3>2, <3>3 DEF LimitInv
  <2> QED
    BY <2>2, <2>3
<1>4. CASE Advance
  <2>1. /\ UNCHANGED <<failures, suspended, mode, todo, cur>>
        /\ \A r \in Repos : allowIn[r] = 0 => allowIn'[r] = 0
    BY <1>4 DEF Advance, Dec
  <2> QED
    BY <1>a, <1>b, <2>1 DEF LimitInv
<1>5. CASE /\ UNCHANGED <<backoffVars, cur>>
           /\ UNCHANGED mode \/ mode' # "startup"
           /\ todo' \subseteq todo \/ mode' # "startup"
  BY <1>a, <1>5 DEF LimitInv
<1>6. \/ SyncFails \/ SyncSucceeds \/ Advance \/ \E q \in Repos : BeginSync(q)
      \/ /\ UNCHANGED <<backoffVars, cur>>
         /\ UNCHANGED mode \/ mode' # "startup"
         /\ todo' \subseteq todo \/ mode' # "startup"
  BY DEF SchedulerNext, ChangeInterval, RequestQueued, RequestFull, Skip, PassDone, SelectTick,
     SelectTrigger
<1> QED
  BY <1>1, <1>2, <1>3, <1>4, <1>5, <1>6

\* Whether a repo is eligible depends on its own entries only.
LEMMA EligibleFrame ==
    ASSUME NEW r \in Repos,
           suspended'[r] = suspended[r], allowIn'[r] = allowIn[r], dueIn'[r] = dueIn[r]
    PROVE  Eligible(r)' <=> Eligible(r)
  BY DEF Eligible, ShouldSkip, DueForSync

\* A sync that has just ended leaves its repo not due, held back or suspended, and
\* the other repos as they were.
LEMMA SyncEnds ==
    ASSUME SchedulerCore, SyncSucceeds \/ SyncFails
    PROVE  /\ cur \in Repos /\ cur' = NoRepo /\ left' = 0 /\ UNCHANGED <<mode, todo>>
           /\ \A r \in Repos : r = cur => ~Eligible(r)'
           /\ \A r \in Repos \ {cur} : Eligible(r)' <=> Eligible(r)
<1>1. CASE SyncSucceeds
  <2>1. /\ cur \in Repos /\ cur' = NoRepo /\ left' = 0 /\ UNCHANGED <<mode, todo>>
        /\ dueIn'[cur] = listedIvl[cur]
        /\ \A r \in Repos \ {cur} : /\ suspended'[r] = suspended[r]
                                    /\ allowIn'[r] = allowIn[r]
                                    /\ dueIn'[r] = dueIn[r]
    BY <1>1, CounterTypes DEF SyncSucceeds
  <2>2. dueIn'[cur] # 0
    BY <2>1, CounterTypes, IntervalBounds
  <2>3. ASSUME NEW r \in Repos \ {cur} PROVE Eligible(r)' <=> Eligible(r)
    BY <2>1, EligibleFrame
  <2>4. \A r \in Repos : r = cur => ~Eligible(r)'
    BY <2>1, <2>2 DEF Eligible, DueForSync
  <2> QED
    BY <2>1, <2>3, <2>4
<1>2. CASE SyncFails
  <2>1. /\ cur \in Repos /\ cur' = NoRepo /\ left' = 0 /\ UNCHANGED <<dueIn, mode, todo>>
        /\ suspended'[cur] \/ allowIn'[cur] \in Nat \ {0}
        /\ \A r \in Repos \ {cur} : suspended'[r] = suspended[r] /\ allowIn'[r] = allowIn[r]
    BY <1>2, FailureEffect
  <2>2. suspended'[cur] \/ allowIn'[cur] > 0
    BY <2>1
  <2>3. ASSUME NEW r \in Repos \ {cur} PROVE Eligible(r)' <=> Eligible(r)
    BY <2>1, EligibleFrame
  <2>4. \A r \in Repos : r = cur => ~Eligible(r)'
    BY <2>1, <2>2 DEF Eligible, ShouldSkip
  <2> QED
    BY <2>1, <2>3, <2>4
<1> QED
  BY <1>1, <1>2

\* The pass visits every repo once.
LEMMA PassStep == SchedulerCore /\ SchedulerNext => PassInv'
<1> SUFFICES ASSUME SchedulerCore, SchedulerNext PROVE PassInv'
  OBVIOUS
<1>a. /\ PassInv /\ cur \in Repos \cup {NoRepo} /\ todo \subseteq Repos /\ NoRepo \notin Repos
      /\ queue \in Seq(Repos) /\ left \in 0 .. MaxSync /\ MaxSync \in Nat
  BY SchedulerAssumption DEF SchedulerCore, SchedulerTypeOK
<1>1. CASE SyncSucceeds \/ SyncFails
  <2>1. mode # "select"
    BY <1>a, <1>1, SyncEnds DEF PassInv
  <2>2. \E q \in Repos : ~Eligible(q)'
    BY <1>1, SyncEnds
  <2> QED
    BY <1>a, <1>1, <2>1, <2>2, SyncEnds DEF PassInv
<1>2. ASSUME NEW r \in Repos, Skip(r) \/ BeginSync(r) PROVE PassInv'
  BY <1>a, <1>2 DEF Skip, BeginSync, PassInv
<1>3. CASE PassDone
  BY <1>a, <1>3 DEF PassDone, PassInv
<1>4. CASE SelectTick
  BY <1>a, <1>4 DEF SelectTick, PassInv
<1>5. CASE SelectTrigger
  <2>1. /\ cur = NoRepo /\ UNCHANGED <<cur, left>> /\ mode' = "trigger"
        /\ todo' = {queue[i] : i \in DOMAIN queue} /\ queue # << >>
    BY <1>a, <1>5 DEF SelectTrigger, PassInv
  <2>2. 1 \in DOMAIN queue /\ \A i \in DOMAIN queue : queue[i] \in Repos
    BY <1>a, <2>1
  <2>3. todo' # {} /\ todo' \subseteq Repos
    BY <2>1, <2>2
  <2> QED
    BY <1>a, <2>1, <2>3 DEF PassInv
<1>6. CASE Advance
  BY <1>a, <1>6 DEF Advance, PassInv
<1>7. CASE UNCHANGED <<mode, todo, syncVars, dueIn, backoffVars>>
  <2>1. ASSUME NEW r \in Repos PROVE Eligible(r)' <=> Eligible(r)
    BY <1>7, EligibleFrame
  <2> QED
    BY <1>a, <1>7, <2>1 DEF PassInv
<1>8. \/ SyncSucceeds \/ SyncFails \/ \E r \in Repos : Skip(r) \/ BeginSync(r)
      \/ PassDone \/ SelectTick \/ SelectTrigger \/ Advance
      \/ UNCHANGED <<mode, todo, syncVars, dueIn, backoffVars>>
  BY DEF SchedulerNext, ChangeInterval, RequestQueued, RequestFull
<1> QED
  BY <1>1, <1>2, <1>3, <1>4, <1>5, <1>6, <1>7, <1>8

\* Whatever holds of the entries in one state holds when none of them changes.
LEMMA CoreStutters == SchedulerCore /\ UNCHANGED svars => SchedulerCore'
<1> SUFFICES ASSUME SchedulerCore, UNCHANGED svars PROVE SchedulerCore'
  OBVIOUS
<1>1. SchedulerTypeOK' /\ HistoryOK'
  BY DEF svars, SchedulerCore, SchedulerTypeOK, HistoryOK
<1>2. LimitInv'
  BY DEF svars, SchedulerCore, LimitInv
<1>3. ASSUME NEW r \in Repos PROVE Eligible(r)' <=> Eligible(r)
  BY EligibleFrame DEF svars
<1>4. PassInv'
  BY <1>3 DEF svars, SchedulerCore, PassInv
<1> QED
  BY <1>1, <1>2, <1>4 DEF SchedulerCore

\* The core invariant holds in every reachable state.
THEOREM SchedulerInvariant == SchedulerSpec => []SchedulerCore
<1>1. SchedulerCore /\ [SchedulerNext]_svars => SchedulerCore'
  <2>1. SchedulerCore /\ SchedulerNext => SchedulerTypeOK'
    BY IntervalTyped, DueTyped, CountTyped, TickTyped, ManualTyped, PassTyped
       DEF SchedulerTypeOK
  <2>2. SchedulerCore /\ SchedulerNext => SchedulerCore'
    BY <2>1, HistoryTyped, LimitStep, PassStep DEF SchedulerCore
  <2> QED
    BY <2>2, CoreStutters
<1> QED
  BY <1>1, CoreAtStart, PTL DEF SchedulerSpec

\* Every countdown stays within what the code can have stored, the failure counter
\* within the limit and the channel within its capacity.
THEOREM SchedulerTypes == SchedulerSpec => []SchedulerTypeOK
  BY SchedulerInvariant, PTL DEF SchedulerCore

-----------------------------------------------------------------------------
(***************************************************************************)
(* A repo is not given up too early.                                       *)
(***************************************************************************)

\* The time since the first failure and what is left of the current backoff make up
\* all the backoffs so far.  (The history stops counting at StreakBound.)
Retried(r) ==
    \/ streak[r] >= StreakBound
    \/ streak[r] + allowIn[r] >= Backoffs[failures[r]] * Min(Intervals)

StreakInv ==
    \A r \in Repos : /\ suspended[r] => streak[r] >= StreakBound
                     /\ failures[r] \in 1 .. MaxFailures - 1 => Retried(r)

\* What depends on one repo's entries only is kept when they are.
LEMMA StreakFrame ==
    ASSUME StreakInv, NEW r \in Repos,
           failures'[r] = failures[r], suspended'[r] = suspended[r],
           allowIn'[r] = allowIn[r], streak'[r] = streak[r]
    PROVE  /\ suspended'[r] => streak'[r] >= StreakBound
           /\ failures'[r] \in 1 .. MaxFailures - 1 => Retried(r)'
  BY DEF StreakInv, Retried

\* The backoff of one more failure.
LEMMA OneMoreBackoff ==
    ASSUME NEW n \in Nat, NEW i \in Intervals, NEW t \in Nat,
           n = 0 \/ t >= Backoffs[n] * Min(Intervals)
    PROVE  t + Backoff(n + 1, i) >= Backoffs[n + 1] * Min(Intervals)
<1>1. PICK m \in Nat, f \in Nat, b \in Nat, d \in Nat :
         /\ m = Min(Intervals) /\ f = Factor(n + 1) /\ b = Backoffs[n]
         /\ d = Backoff(n + 1, i)
  <2>1. Min(Intervals) \in Nat
    BY IntervalBounds
  <2>2. Factor(n + 1) \in Nat
    BY FactorBounds DEF MaxFactor
  <2>3. Backoff(n + 1, i) \in Nat
    BY <2>2, IntervalBounds DEF Backoff
  <2> QED
    BY <2>1, <2>2, <2>3, BackoffsNat
<1>2. Backoffs[n + 1] = b + f
  <2>1. n + 1 \in Nat /\ n + 1 # 0 /\ (n + 1) - 1 = n
    OBVIOUS
  <2> QED
    BY <1>1, <2>1, BackoffsEquation
<1>3. d >= f * m
  BY <1>1, BackoffRange
<1>4. t >= b * m
  <2>1. CASE n = 0
    <3>1. b = 0
      BY <1>1, <2>1, BackoffsEquation
    <3> QED
      BY <1>1, <3>1
  <2> QED
    BY <1>1, <2>1
<1>5. (b + f) * m = b * m + f * m /\ b * m \in Nat /\ f * m \in Nat
  BY <1>1
<1> QED
  BY <1>1, <1>2, <1>3, <1>4, <1>5

\* Every step keeps the account of a streak of failures.
LEMMA StreakStep == SchedulerCore /\ StreakInv /\ SchedulerNext => StreakInv'
<1> SUFFICES ASSUME SchedulerCore, StreakInv, SchedulerNext, NEW r \in Repos
             PROVE  /\ suspended'[r] => streak'[r] >= StreakBound
                    /\ failures'[r] \in 1 .. MaxFailures - 1 => Retried(r)'
  BY DEF StreakInv
<1>a. /\ failures \in [Repos -> 0 .. MaxFailures] /\ suspended \in [Repos -> BOOLEAN]
      /\ allowIn \in [Repos -> Nat] /\ streak \in [Repos -> Nat]
      /\ listedIvl \in [Repos -> Intervals]
      /\ MaxFailures \in Nat \ {0} /\ cur \in Repos \cup {NoRepo} /\ NoRepo \notin Repos
      /\ StreakBound \in Nat
  BY CounterTypes, StreakBoundNat DEF SchedulerCore, HistoryOK
<1>1. CASE SyncFails
  <2>1. /\ cur \in Repos /\ streak' = streak
        /\ failures[cur] < MaxFailures /\ allowIn[cur] = 0
        /\ failures'[cur] = failures[cur] + 1
        /\ failures'[cur] # MaxFailures =>
              ~suspended'[cur] /\ allowIn'[cur] = Backoff(failures'[cur], listedIvl[cur])
        /\ \A q \in Repos \ {cur} : /\ failures'[q] = failures[q]
                                    /\ suspended'[q] = suspended[q]
                                    /\ allowIn'[q] = allowIn[q]
    BY <1>1, FailureEffect DEF SyncFails
  <2>2. CASE r # cur
    BY <2>1, <2>2, StreakFrame
  <2>3. CASE r = cur
    <3>a. failures[r] \in Nat /\ streak[r] \in Nat /\ listedIvl[r] \in Intervals
      BY <1>a
    <3>1. \/ failures[r] = 0
          \/ streak[r] >= StreakBound
          \/ streak[r] >= Backoffs[failures[r]] * Min(Intervals)
      <4>1. failures[r] # 0 => failures[r] \in 1 .. MaxFailures - 1
        BY <1>a, <2>1, <2>3
      <4>2. streak[r] + allowIn[r] = streak[r]
        BY <1>a, <2>1, <2>3
      <4> QED
        BY <4>1, <4>2 DEF StreakInv, Retried
    <3>2. CASE failures'[r] = MaxFailures
      <4>1. failures[r] = MaxFailures - 1
        BY <1>a, <2>1, <2>3, <3>2, <3>a
      <4>2. failures[r] = 0 => StreakBound = 0
        <5>1. failures[r] = 0 => Backoffs[failures[r]] = 0
          BY BackoffsEquation
        <5>2. 0 * Min(Intervals) = 0
          BY IntervalBounds
        <5> QED
          BY <4>1, <5>1, <5>2 DEF StreakBound
      <4>3. streak[r] >= StreakBound
        BY <1>a, <3>1, <3>a, <4>1, <4>2 DEF StreakBound
      <4> QED
        BY <1>a, <2>1, <3>2, <4>3
    <3>3. CASE failures'[r] # MaxFailures
      <4>1. CASE streak[r] >= StreakBound
        BY <2>1, <4>1 DEF Retried
      <4>2. CASE failures[r] = 0 \/ streak[r] >= Backoffs[failures[r]] * Min(Intervals)
        <5>1. streak[r] + Backoff(failures[r] + 1, listedIvl[r])
                 >= Backoffs[failures[r] + 1] * Min(Intervals)
          BY <3>a, <4>2, OneMoreBackoff
        <5>2. streak'[r] + allowIn'[r] >= Backoffs[failures'[r]] * Min(Intervals)
          BY <2>1, <2>3, <3>3, <5>1
        <5> QED
          BY <2>1, <2>3, <3>3, <5>2 DEF Retried
      <4>3. ~suspended'[r]
        BY <2>1, <2>3, <3>3
      <4> QED
        BY <3>1, <4>1, <4>2, <4>3
    <3> QED
      BY <3>2, <3>3
  <2> QED
    BY <2>2, <2>3
<1>2. CASE SyncSucceeds
  <2>1. CASE r = cur
    BY <1>a, <1>2, <2>1 DEF SyncSucceeds
  <2>2. CASE r # cur
    BY <1>a, <1>2, <2>2, StreakFrame DEF SyncSucceeds
  <2> QED
    BY <2>1, <2>2
<1>3. ASSUME NEW q \in Repos, BeginSync(q)
      PROVE  /\ suspended'[r] => streak'[r] >= StreakBound
             /\ failures'[r] \in 1 .. MaxFailures - 1 => Retried(r)'
  <2>1. CASE mode = "trigger" /\ r = q
    BY <1>a, <1>3, <2>1 DEF BeginSync
  <2>2. CASE ~(mode = "trigger" /\ r = q)
    BY <1>a, <1>3, <2>2, StreakFrame DEF BeginSync
  <2> QED
    BY <2>1, <2>2
<1>4. CASE Advance
  <2>1. UNCHANGED <<failures, suspended>>
    BY <1>4 DEF Advance
  <2>2. CASE failures[r] > 0 /\ ~suspended[r]
    <3>1. streak'[r] = IF streak[r] + 1 <= StreakBound THEN streak[r] + 1 ELSE StreakBound
      <4>1. streak'[r] = Min({streak[r] + 1, StreakBound})
        BY <1>4, <2>2 DEF Advance
      <4>2. streak[r] + 1 \in Nat /\ StreakBound \in Nat
        BY <1>a
      <4> QED
        BY <4>1, <4>2, MinOfTwo
    <3>2. allowIn'[r] = IF allowIn[r] = 0 THEN 0 ELSE allowIn[r] - 1
      BY <1>4 DEF Advance, Dec
    <3>3. PICK need \in Nat : need = Backoffs[failures[r]] * Min(Intervals)
      <4>1. failures[r] \in Nat
        BY <1>a
      <4> QED
        BY <4>1, BackoffsNat, IntervalBounds
    <3>4. failures[r] \in 1 .. MaxFailures - 1
      BY <1>a, <2>2 DEF SchedulerCore, LimitInv
    <3>5. streak[r] >= StreakBound \/ streak[r] + allowIn[r] >= need
      BY <3>3, <3>4 DEF StreakInv, Retried
    <3>6. streak'[r] >= StreakBound \/ streak'[r] + allowIn'[r] >= need
      BY <1>a, <3>1, <3>2, <3>5
    <3> QED
      BY <2>1, <2>2, <3>3, <3>6 DEF Retried
  <2>3. CASE suspended[r]
    <3>1. streak'[r] = streak[r] /\ failures[r] = MaxFailures
      BY <1>4, <2>3 DEF Advance, SchedulerCore, LimitInv
    <3> QED
      BY <1>a, <2>1, <2>3, <3>1 DEF StreakInv
  <2>4. CASE ~suspended[r] /\ failures[r] = 0
    BY <2>1, <2>4
  <2>5. failures[r] > 0 \/ failures[r] = 0
    BY <1>a
  <2> QED
    BY <2>2, <2>3, <2>4, <2>5
<1>5. CASE UNCHANGED <<failures, suspended, allowIn, streak>>
  BY <1>5, StreakFrame
<1> QED
  BY <1>1, <1>2, <1>3, <1>4, <1>5
     DEF SchedulerNext, ChangeInterval, RequestQueued, RequestFull, Skip, PassDone, SelectTick,
         SelectTrigger

\* Between the first failure and the suspension of a repo lie all the backoffs,
\* whatever the limit, the intervals and their changes, and the syncs of others.
THEOREM NotSuspendedEarly == SchedulerSpec => []NoEarlySuspension
<1>1. SchedulerInit => StreakInv
  BY SchedulerAssumption DEF SchedulerInit, All, StreakInv
<1>2. SchedulerCore /\ StreakInv /\ [SchedulerNext]_svars => StreakInv'
  <2>1. StreakInv /\ UNCHANGED svars => StreakInv'
    BY StreakFrame DEF svars, StreakInv
  <2> QED
    BY <2>1, StreakStep
<1>3. StreakInv => NoEarlySuspension
  BY DEF StreakInv, NoEarlySuspension
<1> QED
  BY <1>1, <1>2, <1>3, SchedulerInvariant, PTL DEF SchedulerSpec

-----------------------------------------------------------------------------
(***************************************************************************)
(* A repo that is due does not wait for ever: the longest it may still     *)
(* have to wait, and what it has waited already, stay below the bound.     *)
(***************************************************************************)

\* The longest the syncs of the repos in S take.
Time(S) == Cardinality(S) * MaxSync

Later(a, b) == IF a <= b THEN b ELSE a

NextTick == IF ticked THEN 0 ELSE tickIn

\* The round that follows a batch.  With two repos, the other one has just been
\* synced and is skipped.
LastRound == IF Cardinality(Repos) > 2 THEN Others ELSE 0

\* The repos this pass may sync before r.
Ahead(r) == {q \in todo \ {r} : Cardinality(Repos) > 2 \/ mode # "round" \/ Eligible(q)}

\* The longest r may still wait.  In select, for the tick, a batch and a round; in a
\* pass that has r ahead, for the repos before it; in a round that has passed r by,
\* for its end or the tick, then as in select; in a startup scan or a batch without
\* r, for its end and the round that follows.
Rest(r) ==
    IF mode = "select" THEN NextTick + Others + LastRound
    ELSE IF r \in todo THEN left + Time(Ahead(r))
    ELSE IF mode = "round" THEN Later(left + Time(todo), NextTick) + Others + LastRound
    ELSE left + Time(todo) + LastRound

Waits(r) == Eligible(r) /\ cur # r

WaitOK(r) == IF Waits(r) THEN overdue[r] + Rest(r) < WaitBound ELSE overdue[r] = 0

WaitInv == \A r \in Repos : WaitOK(r)

\* The time of a set of syncs grows with the set.
LEMMA TimeOf ==
    ASSUME NEW S, S \subseteq Repos
    PROVE  /\ Time(S) \in Nat /\ Time({}) = 0
           /\ \A q \in S : Time(S) = Time(S \ {q}) + MaxSync
           /\ \A T \in SUBSET S : Time(T) <= Time(S)
<1>a. IsFiniteSet(S) /\ MaxSync \in Nat
  BY SchedulerAssumption, FS_Subset
<1>1. Time(S) \in Nat /\ Time({}) = 0
  <2>1. Cardinality(S) \in Nat /\ Cardinality({}) = 0
    BY <1>a, FS_CardinalityType, FS_EmptySet
  <2> QED
    BY <1>a, <2>1 DEF Time
<1>2. ASSUME NEW q \in S PROVE Time(S) = Time(S \ {q}) + MaxSync
  <2>a. IsFiniteSet(S \ {q}) /\ Cardinality(S \ {q}) = Cardinality(S) - 1
    BY <1>a, FS_RemoveElement
  <2>b. Cardinality(S) \in Nat /\ Cardinality(S \ {q}) \in Nat
    BY <1>a, <2>a, FS_CardinalityType
  <2>1. PICK n \in Nat, m \in Nat :
           n = Cardinality(S) /\ m = Cardinality(S \ {q}) /\ m = n - 1
    BY <2>a, <2>b
  <2>2. n * MaxSync = m * MaxSync + MaxSync
    <3>1. n = m + 1 /\ (m + 1) * MaxSync = m * MaxSync + MaxSync
      BY <1>a, <2>1
    <3> QED
      BY <3>1
  <2> QED
    BY <2>1, <2>2 DEF Time
<1>3. ASSUME NEW T \in SUBSET S PROVE Time(T) <= Time(S)
  <2>1. PICK n \in Nat, m \in Nat :
           n = Cardinality(S) /\ m = Cardinality(T) /\ m <= n
    BY <1>a, FS_Subset, FS_CardinalityType
  <2>2. m * MaxSync <= n * MaxSync
    <3>1. PICK d \in Nat : n = m + d
      <4>1. n - m \in Nat /\ n = m + (n - m)
        BY <2>1
      <4> QED
        BY <4>1
    <3>2. (m + d) * MaxSync = m * MaxSync + d * MaxSync /\ d * MaxSync \in Nat
          /\ m * MaxSync \in Nat
      BY <1>a
    <3> QED
      BY <3>1, <3>2
  <2> QED
    BY <2>1, <2>2 DEF Time
<1> QED
  BY <1>1, <1>2, <1>3

\* Others is the time of the other repos; MaxSync of it is a third one's.
LEMMA TimeOfOthers ==
    ASSUME NEW r \in Repos
    PROVE  /\ Time(Repos \ {r}) = Others /\ Others \in Nat /\ LastRound \in Nat
           /\ WaitBound = Later(BaseTick, Others) + Others + LastRound
<1>1. Repos # {}
  OBVIOUS
<1>2. Cardinality(Repos \ {r}) = Cardinality(Repos) - 1
  BY SchedulerAssumption, FS_RemoveElement
<1>3. Time(Repos \ {r}) = Others
  BY <1>2 DEF Time, Others
<1>4. Others \in Nat /\ LastRound \in Nat
  BY <1>1, WaitBoundNat DEF LastRound
<1>5. Max({BaseTick, Others}) = Later(BaseTick, Others)
  BY <1>4, MaxOfTwo, SchedulerAssumption DEF Later
<1> QED
  BY <1>3, <1>4, <1>5 DEF WaitBound, LastRound

\* The bound leaves room for the other repos and more.
LEMMA PositiveBound ==
    ASSUME NEW r \in Repos
    PROVE  Others \in Nat /\ WaitBound \in Nat /\ WaitBound > Others /\ WaitBound > 0
<1>1. /\ Others \in Nat /\ LastRound \in Nat /\ BaseTick \in Nat \ {0}
      /\ WaitBound = Later(BaseTick, Others) + Others + LastRound
  BY TimeOfOthers, SchedulerAssumption
<1>2. Later(BaseTick, Others) \in Nat \ {0}
  BY <1>1 DEF Later
<1> QED
  BY <1>1, <1>2

\* Three different repos are more than two.
LEMMA ThreeRepos ==
    ASSUME NEW a \in Repos, NEW b \in Repos, NEW c \in Repos, a # b, b # c, a # c
    PROVE  Cardinality(Repos) > 2
<1>1. IsFiniteSet({a}) /\ Cardinality({a}) = 1
  BY FS_Singleton
<1>2. IsFiniteSet({a} \cup {b}) /\ Cardinality({a} \cup {b}) = 2
  BY <1>1, FS_AddElement
<1>3. Cardinality(({a} \cup {b}) \cup {c}) = 3
  BY <1>2, FS_AddElement
<1>4. ({a} \cup {b}) \cup {c} \in SUBSET Repos
  OBVIOUS
<1>5. Cardinality(({a} \cup {b}) \cup {c}) <= Cardinality(Repos)
  BY <1>4, SchedulerAssumption, FS_Subset
<1> QED
  BY <1>3, <1>5, WaitBoundNat

\* The types of what Rest is made of.
LEMMA RestTypes ==
    ASSUME SchedulerCore, NEW r \in Repos
    PROVE  /\ NextTick \in 0 .. BaseTick /\ BaseTick \in Nat \ {0} /\ MaxSync \in Nat
           /\ left \in 0 .. MaxSync /\ overdue[r] \in Nat
           /\ Ahead(r) \subseteq Repos \ {r} /\ todo \subseteq Repos
           /\ Time(Ahead(r)) \in Nat /\ Time(todo) \in Nat
           /\ Others \in Nat /\ LastRound \in Nat /\ Rest(r) \in Nat
<1>1. /\ left \in 0 .. MaxSync /\ tickIn \in 1 .. BaseTick /\ overdue[r] \in Nat
      /\ todo \subseteq Repos /\ Ahead(r) \subseteq Repos \ {r}
      /\ BaseTick \in Nat \ {0} /\ MaxSync \in Nat
  BY SchedulerAssumption DEF SchedulerCore, SchedulerTypeOK, HistoryOK, Ahead
<1>2. NextTick \in 0 .. BaseTick
  BY <1>1 DEF NextTick
<1>3. Time(Ahead(r)) \in Nat /\ Time(todo) \in Nat
  BY <1>1, TimeOf
<1>4. Others \in Nat /\ LastRound \in Nat
  BY TimeOfOthers
<1>5. Rest(r) \in Nat
  BY <1>1, <1>2, <1>3, <1>4 DEF Rest, Later
<1> QED
  BY <1>1, <1>2, <1>3, <1>4, <1>5

\* Rest in the next state, spelled out.
LEMMA RestNext ==
    ASSUME NEW r \in Repos
    PROVE  /\ Rest(r)' = IF mode' = "select" THEN NextTick' + Others + LastRound
                         ELSE IF r \in todo' THEN left' + Time(Ahead(r)')
                         ELSE IF mode' = "round"
                              THEN Later(left' + Time(todo'), NextTick') + Others + LastRound
                         ELSE left' + Time(todo') + LastRound
           /\ Ahead(r)' = {q \in todo' \ {r} : \/ Cardinality(Repos) > 2 \/ mode' # "round"
                                               \/ Eligible(q)'}
           /\ NextTick' = IF ticked' THEN 0 ELSE tickIn'
  BY DEF Rest, Time, Later, Ahead, NextTick, Others, LastRound

\* The types once more, in the next state.
LEMMA RestTypesNext ==
    ASSUME SchedulerCore', NEW r \in Repos
    PROVE  /\ NextTick' \in 0 .. BaseTick /\ left' \in 0 .. MaxSync
           /\ Ahead(r)' \subseteq Repos \ {r} /\ todo' \subseteq Repos
           /\ Time(Ahead(r)') \in Nat /\ Time(todo') \in Nat /\ Rest(r)' \in Nat
<1>1. /\ left' \in 0 .. MaxSync /\ tickIn' \in 1 .. BaseTick
      /\ todo' \subseteq Repos /\ BaseTick \in Nat \ {0} /\ MaxSync \in Nat
  BY SchedulerAssumption DEF SchedulerCore, SchedulerTypeOK
<1>2. Ahead(r)' \subseteq Repos \ {r}
  BY <1>1, RestNext
<1>3. NextTick' \in 0 .. BaseTick
  BY <1>1, RestNext
<1>4. Time(Ahead(r)') \in Nat /\ Time(todo') \in Nat
  BY <1>1, <1>2, TimeOf
<1>5. Others \in Nat /\ LastRound \in Nat
  BY TimeOfOthers
<1>6. Rest(r)' \in Nat
  BY <1>1, <1>3, <1>4, <1>5, RestNext DEF Later
<1> QED
  BY <1>1, <1>2, <1>3, <1>4, <1>6

\* A step that lets no time pass is fine for r if r waits after it exactly when it
\* did before, and not longer.
LEMMA WaitKept ==
    ASSUME WaitInv, SchedulerCore, SchedulerCore', NEW r \in Repos,
           overdue'[r] = overdue[r], Waits(r)' <=> Waits(r),
           Waits(r) => Rest(r)' <= Rest(r)
    PROVE  WaitOK(r)'
<1>1. overdue[r] \in Nat /\ Rest(r) \in Nat /\ WaitBound \in Nat
  BY RestTypes, WaitBoundNat
<1>2. Rest(r)' \in Nat
  BY RestTypesNext
<1>3. WaitOK(r)
  BY DEF WaitInv
<1>4. WaitBound' = WaitBound
  BY DEF WaitBound, Others
<1> QED
  BY <1>1, <1>2, <1>3, <1>4 DEF WaitOK

\* doSyncRound passes over another repo: no time, and one repo less to go.
LEMMA WaitSkip ==
    ASSUME SchedulerCore, SchedulerCore', WaitInv, NEW r \in Repos, NEW q \in Repos, Skip(q)
    PROVE  WaitOK(r)'
<1>1. /\ mode = "round" /\ q \in todo /\ ~Eligible(q) /\ todo' = todo \ {q}
      /\ UNCHANGED <<mode, left, cur, overdue, ticked, tickIn, dueIn, backoffVars>>
  BY DEF Skip
<1>2. \A x \in Repos : Eligible(x)' <=> Eligible(x)
  BY <1>1, EligibleFrame
<1>3. Waits(r)' <=> Waits(r)
  BY <1>1, <1>2 DEF Waits
<1>4. ASSUME Waits(r) PROVE Rest(r)' <= Rest(r)
  <2>1. q # r /\ NextTick' = NextTick
    BY <1>1, <1>4, RestNext DEF Waits, NextTick
  <2>2. Ahead(r)' \in SUBSET Ahead(r) /\ todo' \in SUBSET todo
    BY <1>1, <1>2, RestNext, RestTypes DEF Ahead
  <2>3. Time(Ahead(r)') <= Time(Ahead(r)) /\ Time(todo') <= Time(todo)
    BY <2>2, TimeOf, RestTypes
  <2>4. CASE r \in todo
    <3>1. Rest(r)' = left + Time(Ahead(r)') /\ Rest(r) = left + Time(Ahead(r))
      BY <1>1, <2>1, <2>4, RestNext DEF Rest
    <3> QED
      BY <2>3, <3>1, RestTypes, RestTypesNext
  <2>5. CASE r \notin todo
    <3>1. /\ Rest(r)' = Later(left + Time(todo'), NextTick) + Others + LastRound
          /\ Rest(r) = Later(left + Time(todo), NextTick) + Others + LastRound
      BY <1>1, <2>1, <2>5, RestNext DEF Rest
    <3> QED
      BY <2>3, <3>1, RestTypes, RestTypesNext DEF Later
  <2> QED
    BY <2>4, <2>5
<1> QED
  BY <1>1, <1>3, <1>4, WaitKept

\* A sync of another repo begins: its time moves from the repos ahead to left.
LEMMA WaitBegin ==
    ASSUME SchedulerCore, SchedulerCore', WaitInv,
           NEW r \in Repos, NEW q \in Repos, BeginSync(q)
    PROVE  WaitOK(r)'
<1>1. /\ mode # "select" /\ mode' = mode /\ cur = NoRepo /\ cur' = q /\ q \in todo
      /\ mode = "round" => Eligible(q)
      /\ todo' = todo \ {q} /\ left' = MaxSync
      /\ overdue' = [overdue EXCEPT ![q] = 0]
      /\ UNCHANGED <<ticked, tickIn, dueIn>>
      /\ mode # "trigger" => UNCHANGED backoffVars
  BY DEF BeginSync
<1>2. left = 0 /\ overdue \in [Repos -> Nat] /\ NoRepo \notin Repos
  BY <1>1, SchedulerAssumption DEF SchedulerCore, PassInv, HistoryOK
<1>3. CASE q = r
  BY <1>1, <1>2, <1>3 DEF WaitOK, Waits
<1>4. CASE q # r
  <2>1. ASSUME NEW x \in Repos \ {q} PROVE Eligible(x)' <=> Eligible(x)
    <3>1. suspended'[x] = suspended[x] /\ allowIn'[x] = allowIn[x]
      BY CounterTypes DEF BeginSync
    <3> QED
      BY <1>1, <3>1, EligibleFrame
  <2>2. overdue'[r] = overdue[r] /\ (Waits(r)' <=> Waits(r))
    BY <1>1, <1>2, <1>4, <2>1 DEF Waits
  <2>3. NextTick' = NextTick
    BY <1>1, RestNext DEF NextTick
  <2>4. q \in Ahead(r) /\ Ahead(r)' \in SUBSET (Ahead(r) \ {q})
    BY <1>1, <1>4, <2>1, RestNext, RestTypes DEF Ahead
  <2>5. /\ Time(Ahead(r)') <= Time(Ahead(r) \ {q})
        /\ Time(Ahead(r)) = Time(Ahead(r) \ {q}) + MaxSync
        /\ Time(todo) = Time(todo \ {q}) + MaxSync
        /\ Time(Ahead(r) \ {q}) \in Nat /\ Time(todo \ {q}) \in Nat
    <3>1. Ahead(r) \subseteq Repos /\ todo \subseteq Repos
      BY RestTypes
    <3>2. Ahead(r) \ {q} \subseteq Repos /\ todo \ {q} \subseteq Repos
      BY <3>1
    <3>3. /\ Time(Ahead(r)) = Time(Ahead(r) \ {q}) + MaxSync
          /\ Time(todo) = Time(todo \ {q}) + MaxSync
      BY <1>1, <2>4, <3>1, TimeOf
    <3>4. Time(Ahead(r)') <= Time(Ahead(r) \ {q})
      BY <2>4, <3>2, TimeOf
    <3> QED
      BY <3>2, <3>3, <3>4, TimeOf
  <2>6. Rest(r)' <= Rest(r)
    <3>1. CASE r \in todo
      <4>1. r \in todo' /\ Rest(r)' = MaxSync + Time(Ahead(r)') /\ Rest(r) = Time(Ahead(r))
        BY <1>1, <1>2, <1>4, <3>1, RestNext, RestTypes DEF Rest
      <4> QED
        BY <2>5, <4>1, RestTypes, RestTypesNext
    <3>2. CASE r \notin todo
      <4>1. r \notin todo' /\ left' + Time(todo') = left + Time(todo)
        BY <1>1, <1>2, <2>5, <3>2, RestTypes
      <4> QED
        BY <1>1, <2>3, <3>2, <4>1, RestNext, RestTypes, RestTypesNext DEF Rest, Later
    <3> QED
      BY <3>1, <3>2
  <2> QED
    BY <2>2, <2>6, WaitKept
<1> QED
  BY <1>3, <1>4

\* A sync ends, well or not.
LEMMA WaitSyncEnds ==
    ASSUME SchedulerCore, SchedulerCore', WaitInv, NEW r \in Repos,
           SyncSucceeds \/ SyncFails
    PROVE  WaitOK(r)'
<1>1. /\ cur \in Repos /\ cur' = NoRepo /\ left' = 0 /\ UNCHANGED <<mode, todo>>
      /\ \A x \in Repos : x = cur => ~Eligible(x)'
      /\ \A x \in Repos \ {cur} : Eligible(x)' <=> Eligible(x)
  BY SyncEnds
<1>2. UNCHANGED <<ticked, tickIn, overdue>>
  BY DEF SyncSucceeds, SyncFails
<1>3. cur \notin todo /\ NoRepo \notin Repos
  BY SchedulerAssumption DEF SchedulerCore, PassInv
<1>4. Waits(r)' <=> Waits(r)
  BY <1>1, <1>3 DEF Waits
<1>5. ASSUME Waits(r) PROVE Rest(r)' <= Rest(r)
  <2>1. NextTick' = NextTick
    BY <1>2, RestNext DEF NextTick
  <2>2. Ahead(r)' \in SUBSET Ahead(r)
    BY <1>1, <1>3, RestNext, RestTypes DEF Ahead
  <2>3. Time(Ahead(r)') <= Time(Ahead(r))
    BY <2>2, TimeOf, RestTypes
  <2>4. CASE mode # "select" /\ r \in todo
    <3>1. Rest(r)' = 0 + Time(Ahead(r)') /\ Rest(r) = left + Time(Ahead(r))
      BY <1>1, <2>4, RestNext DEF Rest
    <3> QED
      BY <2>3, <3>1, RestTypes, RestTypesNext
  <2>5. CASE ~(mode # "select" /\ r \in todo)
    BY <1>1, <2>1, <2>5, RestNext, RestTypes DEF Rest, Later
  <2> QED
    BY <2>4, <2>5
<1> QED
  BY <1>2, <1>4, <1>5, WaitKept

\* A pass ends.  Of two repos, the one that has just been synced is not ahead of the
\* other one in the round that follows.
LEMMA WaitPassDone ==
    ASSUME SchedulerCore, SchedulerCore', WaitInv, NEW r \in Repos, PassDone
    PROVE  WaitOK(r)'
<1>1. /\ mode # "select" /\ cur = NoRepo /\ todo = {} /\ left = 0
      /\ UNCHANGED <<cur, left, overdue, dueIn, backoffVars>>
  BY DEF PassDone, SchedulerCore, PassInv
<1>2. \A x \in Repos : Eligible(x)' <=> Eligible(x)
  BY <1>1, EligibleFrame
<1>3. Waits(r)' <=> Waits(r)
  BY <1>1, <1>2 DEF Waits
<1>4. ASSUME Waits(r) PROVE Rest(r)' <= Rest(r)
  <2>1. Time(todo) = 0
    BY <1>1, TimeOf
  <2>2. CASE mode = "round"
    <3>1. mode' = "select" /\ UNCHANGED tickVars
      BY <2>2 DEF PassDone
    <3>2. NextTick' = NextTick
      BY <3>1, RestNext DEF NextTick
    <3>3. Rest(r)' = NextTick + Others + LastRound
      BY <3>1, <3>2, RestNext
    <3>4. Rest(r) = Later(0, NextTick) + Others + LastRound
      BY <1>1, <2>1, <2>2 DEF Rest
    <3> QED
      BY <3>3, <3>4, RestTypes DEF Later
  <2>3. CASE mode # "round"
    <3>1. mode' = "round" /\ todo' = Repos /\ mode \in {"startup", "trigger"}
      BY <1>1, <2>3 DEF PassDone, SchedulerCore, SchedulerTypeOK
    <3>2. Rest(r)' = Time(Ahead(r)') /\ Rest(r) = LastRound
      BY <1>1, <2>1, <2>3, <3>1, RestNext, RestTypes, RestTypesNext DEF Rest
    <3>3. CASE Cardinality(Repos) > 2
      <4>1. Time(Ahead(r)') <= Time(Repos \ {r})
        BY RestTypesNext, TimeOf
      <4> QED
        BY <3>2, <3>3, <4>1, TimeOfOthers DEF LastRound
    <3>4. CASE ~(Cardinality(Repos) > 2)
      <4>1. PICK q \in Repos : ~Eligible(q)
        BY <1>1, <3>1 DEF SchedulerCore, PassInv
      <4>2. q # r
        BY <1>4, <4>1 DEF Waits
      <4>3. \A x \in Repos : x = r \/ x = q
        BY <3>4, <4>2, ThreeRepos
      <4>4. Ahead(r)' = {}
        BY <1>2, <3>1, <3>4, <4>1, <4>3, RestNext
      <4> QED
        BY <3>2, <3>4, <4>4, TimeOf, TimeOfOthers DEF LastRound
    <3> QED
      BY <3>3, <3>4
  <2> QED
    BY <2>2, <2>3
<1> QED
  BY <1>1, <1>3, <1>4, WaitKept

\* select receives the tick, or a batch of triggers.
LEMMA WaitSelect ==
    ASSUME SchedulerCore, SchedulerCore', WaitInv, NEW r \in Repos,
           SelectTick \/ SelectTrigger
    PROVE  WaitOK(r)'
<1>1. /\ mode = "select" /\ cur = NoRepo /\ left = 0 /\ mode' # "select"
      /\ mode' = "round" => todo' = Repos
      /\ UNCHANGED <<cur, left, overdue, dueIn, backoffVars>>
  BY DEF SelectTick, SelectTrigger, SchedulerCore, PassInv
<1>2. \A x \in Repos : Eligible(x)' <=> Eligible(x)
  BY <1>1, EligibleFrame
<1>3. Waits(r)' <=> Waits(r)
  BY <1>1, <1>2 DEF Waits
<1>4. Rest(r) >= Others + LastRound
  BY <1>1, RestTypes DEF Rest
<1>5. CASE r \in todo'
  <2>1. Rest(r)' = Time(Ahead(r)') /\ Time(Ahead(r)') <= Time(Repos \ {r})
    BY <1>1, <1>5, RestNext, RestTypesNext, TimeOf
  <2> QED
    BY <1>1, <1>3, <1>4, <2>1, TimeOfOthers, RestTypes, RestTypesNext, WaitKept
<1>6. CASE r \notin todo'
  <2>1. todo' \in SUBSET (Repos \ {r})
    BY <1>6, RestTypesNext
  <2>2. Time(todo') <= Time(Repos \ {r})
    BY <2>1, TimeOf
  <2>3. Rest(r)' = Time(todo') + LastRound
    BY <1>1, <1>6, RestNext, RestTypes, RestTypesNext
  <2> QED
    BY <1>1, <1>3, <1>4, <2>2, <2>3, TimeOfOthers, RestTypes, RestTypesNext, WaitKept
<1> QED
  BY <1>5, <1>6

\* What a unit of time does to the pass and to the ticker.
LEMMA TimePasses ==
    ASSUME SchedulerCore, Advance
    PROVE  /\ UNCHANGED <<mode, todo, cur>> /\ NextTick' <= BaseTick - 1
           /\ NextTick' = IF NextTick = 0 THEN 0 ELSE NextTick - 1
           /\ IF mode = "select" THEN NextTick > 0 ELSE left > 0 /\ left' = left - 1
           /\ mode # "select" => cur \in Repos /\ cur \notin todo
<1>1. /\ tickIn \in 1 .. BaseTick /\ BaseTick \in Nat \ {0} /\ ticked \in BOOLEAN
      /\ cur \in Repos \cup {NoRepo}
  BY SchedulerAssumption DEF SchedulerCore, SchedulerTypeOK
<1>2. UNCHANGED <<mode, todo, cur>>
  BY DEF Advance
<1>3. NextTick' = IF ticked' THEN 0 ELSE tickIn'
  BY DEF NextTick
<1>4. NextTick' = IF NextTick = 0 THEN 0 ELSE NextTick - 1
  <2>1. CASE tickIn = 1
    BY <1>1, <1>3, <2>1 DEF Advance, NextTick
  <2>2. CASE tickIn # 1
    BY <1>1, <1>3, <2>2 DEF Advance, NextTick
  <2> QED
    BY <2>1, <2>2
<1>5. NextTick \in 0 .. BaseTick
  BY <1>1 DEF NextTick
<1>6. CASE mode = "select"
  <2>1. ~ticked
    BY <1>6 DEF Advance, SchedulerCore, PassInv
  <2>2. NextTick > 0
    BY <1>1, <2>1 DEF NextTick
  <2> QED
    BY <1>1, <1>2, <1>4, <1>5, <1>6, <2>2
<1>7. CASE mode # "select"
  <2>1. cur # NoRepo /\ left > 0 /\ left' = left - 1
    BY <1>7 DEF Advance
  <2>2. cur \notin todo
    BY DEF SchedulerCore, PassInv
  <2> QED
    BY <1>1, <1>2, <1>4, <1>5, <1>7, <2>1, <2>2
<1> QED
  BY <1>6, <1>7

\* While another repo is synced, what is ahead of r leaves both out, and fits into the
\* time of the others.
LEMMA RoomForCur ==
    ASSUME SchedulerCore, NEW r \in Repos, NEW S, S \subseteq Repos \ {r},
           cur \in Repos, cur # r, cur \notin S
    PROVE  Time(S) + MaxSync <= Others
<1> DEFINE U == Repos \ {r}
<1>1. cur \in U /\ S \in SUBSET (U \ {cur}) /\ U \subseteq Repos /\ U \ {cur} \subseteq Repos
  OBVIOUS
<1>2. Time(U) = Time(U \ {cur}) + MaxSync /\ Time(S) <= Time(U \ {cur})
  BY <1>1, TimeOf
<1>3. Time(U) = Others
  BY TimeOfOthers
<1>4. Time(S) \in Nat /\ Time(U \ {cur}) \in Nat /\ MaxSync \in Nat
  BY <1>1, TimeOf, SchedulerAssumption
<1> HIDE DEF U
<1> QED
  BY <1>2, <1>3, <1>4

\* For a repo that waits, a unit of time takes one off the rest of its wait.
LEMMA RestShrinks ==
    ASSUME SchedulerCore, SchedulerCore', Advance, NEW r \in Repos, Waits(r)
    PROVE  Rest(r)' <= Rest(r) - 1
<1>1. /\ UNCHANGED <<mode, todo, cur>>
      /\ NextTick' = IF NextTick = 0 THEN 0 ELSE NextTick - 1
      /\ IF mode = "select" THEN NextTick > 0 ELSE left > 0 /\ left' = left - 1
      /\ mode # "select" => cur \in Repos /\ cur \notin todo
  BY TimePasses
<1>2. CASE mode = "select"
  <2>1. Rest(r)' = NextTick' + Others + LastRound /\ Rest(r) = NextTick + Others + LastRound
    BY <1>1, <1>2, RestNext DEF Rest
  <2> QED
    BY <1>1, <1>2, <2>1, RestTypes
<1>3. CASE mode # "select" /\ r \in todo
  <2>1. Ahead(r)' \in SUBSET Ahead(r)
    <3> SUFFICES ASSUME NEW x \in Ahead(r)' PROVE x \in Ahead(r)
      OBVIOUS
    <3>1. x \in todo \ {r} /\ x \in Repos
      BY <1>1, RestNext, RestTypes
    <3>2. Cardinality(Repos) > 2
      BY <1>1, <1>3, <3>1, ThreeRepos DEF Waits
    <3> QED
      BY <3>1, <3>2 DEF Ahead
  <2>2. Time(Ahead(r)') <= Time(Ahead(r))
    BY <2>1, TimeOf, RestTypes
  <2>3. Rest(r)' = left' + Time(Ahead(r)') /\ Rest(r) = left + Time(Ahead(r))
    BY <1>1, <1>3, RestNext DEF Rest
  <2> QED
    BY <1>1, <1>3, <2>2, <2>3, RestTypes, RestTypesNext
<1>4. CASE mode = "round" /\ r \notin todo
  <2>1. /\ Rest(r)' = Later(left' + Time(todo), NextTick') + Others + LastRound
        /\ Rest(r) = Later(left + Time(todo), NextTick) + Others + LastRound
    BY <1>1, <1>4, RestNext DEF Rest
  <2> QED
    BY <1>1, <1>4, <2>1, RestTypes DEF Later
<1>5. CASE mode \notin {"select", "round"} /\ r \notin todo
  <2>1. Rest(r)' = left' + Time(todo) + LastRound /\ Rest(r) = left + Time(todo) + LastRound
    BY <1>1, <1>5, RestNext DEF Rest
  <2> QED
    BY <1>1, <1>5, <2>1, RestTypes
<1> QED
  BY <1>2, <1>3, <1>4, <1>5

\* A repo that begins to wait has less than the bound before it.
LEMMA RestStarts ==
    ASSUME SchedulerCore, SchedulerCore', Advance, NEW r \in Repos, cur # r
    PROVE  Rest(r)' < WaitBound
<1>1. /\ UNCHANGED <<mode, todo, cur>> /\ NextTick' <= BaseTick - 1
      /\ mode # "select" => left > 0 /\ left' = left - 1 /\ cur \in Repos /\ cur \notin todo
  BY TimePasses
<1>2. WaitBound = Later(BaseTick, Others) + Others + LastRound
  BY TimeOfOthers
<1>3. CASE mode = "select"
  <2>1. Rest(r)' = NextTick' + Others + LastRound
    BY <1>1, <1>3, RestNext
  <2> QED
    BY <1>1, <1>2, <2>1, RestTypes, RestTypesNext DEF Later
<1>4. CASE mode # "select" /\ r \in todo
  <2>1. Ahead(r)' \subseteq Repos \ {r} /\ cur \notin Ahead(r)'
    BY <1>1, <1>4, RestNext, RestTypesNext
  <2>2. Time(Ahead(r)') + MaxSync <= Others
    BY <1>1, <1>4, <2>1, RoomForCur
  <2>3. Rest(r)' = left' + Time(Ahead(r)')
    BY <1>1, <1>4, RestNext
  <2> QED
    BY <1>1, <1>2, <1>4, <2>2, <2>3, RestTypes, RestTypesNext DEF Later
<1>5. CASE mode # "select" /\ r \notin todo
  <2>1. Time(todo) + MaxSync <= Others
    BY <1>1, <1>5, RestTypes, RoomForCur
  <2>2. \/ Rest(r)' = Later(left' + Time(todo), NextTick') + Others + LastRound
        \/ Rest(r)' = left' + Time(todo) + LastRound
    BY <1>1, <1>5, RestNext
  <2> QED
    BY <1>1, <1>2, <1>5, <2>1, <2>2, RestTypes, RestTypesNext DEF Later
<1> QED
  BY <1>3, <1>4, <1>5

\* A unit of time.
LEMMA WaitAdvance ==
    ASSUME SchedulerCore, SchedulerCore', WaitInv, NEW r \in Repos, Advance
    PROVE  WaitOK(r)'
<1>1. overdue'[r] = IF Waits(r) THEN Min({overdue[r] + 1, WaitBound}) ELSE 0
  BY DEF Advance, Waits
<1>2. cur' = cur /\ WaitBound' = WaitBound
  BY DEF Advance, WaitBound, Others
<1>3. overdue[r] \in Nat /\ Rest(r) \in Nat /\ WaitBound \in Nat /\ Rest(r)' \in Nat
  BY RestTypes, RestTypesNext, WaitBoundNat
<1>4. CASE Waits(r)
  <2>1. Waits(r)'
    <3>1. suspended'[r] = suspended[r] /\ allowIn'[r] = 0 /\ dueIn'[r] = 0
      BY <1>4, CounterTypes DEF Waits, Eligible, ShouldSkip, DueForSync, Advance, Dec
    <3> QED
      BY <1>2, <1>4, <3>1 DEF Waits, Eligible, ShouldSkip, DueForSync
  <2>2. overdue[r] + Rest(r) < WaitBound /\ Rest(r)' <= Rest(r) - 1
    BY <1>4, RestShrinks DEF WaitInv, WaitOK
  <2>3. overdue'[r] = overdue[r] + 1
    BY <1>1, <1>3, <1>4, <2>2, MinOfTwo
  <2> QED
    BY <1>2, <1>3, <2>1, <2>2, <2>3 DEF WaitOK
<1>5. CASE ~Waits(r)
  <2>1. overdue'[r] = 0
    BY <1>1, <1>5
  <2>2. Waits(r)' => Rest(r)' < WaitBound
    BY <1>2, RestStarts DEF Waits
  <2> QED
    BY <1>2, <1>3, <2>1, <2>2 DEF WaitOK
<1> QED
  BY <1>4, <1>5

\* Requests leave the pass and the clock alone.
LEMMA WaitQuiet ==
    ASSUME SchedulerCore, SchedulerCore', WaitInv, NEW r \in Repos,
           UNCHANGED <<mode, todo, cur, left, overdue, tickVars, dueIn, backoffVars>>
    PROVE  WaitOK(r)'
<1>1. \A x \in Repos : Eligible(x)' <=> Eligible(x)
  BY EligibleFrame
<1>2. Waits(r)' <=> Waits(r)
  BY <1>1 DEF Waits
<1>3. NextTick' = NextTick
  BY RestNext DEF NextTick
<1>4. Ahead(r)' \in SUBSET Ahead(r)
  BY <1>1, RestNext, RestTypes DEF Ahead
<1>5. Time(Ahead(r)') <= Time(Ahead(r))
  BY <1>4, TimeOf, RestTypes
<1>6. CASE mode # "select" /\ r \in todo
  <2>1. Rest(r)' = left + Time(Ahead(r)') /\ Rest(r) = left + Time(Ahead(r))
    BY <1>6, RestNext DEF Rest
  <2> QED
    BY <1>2, <1>5, <2>1, RestTypes, RestTypesNext, WaitKept
<1>7. CASE ~(mode # "select" /\ r \in todo)
  <2>1. Rest(r)' = Rest(r)
    BY <1>3, <1>7, RestNext DEF Rest
  <2> QED
    BY <1>2, <2>1, RestTypes, WaitKept
<1> QED
  BY <1>6, <1>7

\* Every step keeps the waits within the bound.
LEMMA WaitStep ==
    SchedulerCore /\ SchedulerCore' /\ WaitInv /\ [SchedulerNext]_svars => WaitInv'
<1> SUFFICES ASSUME SchedulerCore, SchedulerCore', WaitInv, [SchedulerNext]_svars,
                    NEW r \in Repos
             PROVE  WaitOK(r)'
  BY DEF WaitInv
<1>1. \/ (\E q \in Repos : Skip(q) \/ BeginSync(q))
      \/ SyncSucceeds \/ SyncFails \/ PassDone \/ SelectTick \/ SelectTrigger \/ Advance
      \/ UNCHANGED <<mode, todo, cur, left, overdue, tickVars, dueIn, backoffVars>>
  BY DEF SchedulerNext, ChangeInterval, RequestQueued, RequestFull, svars
<1> QED
  BY <1>1, WaitSkip, WaitBegin, WaitSyncEnds, WaitPassDone, WaitSelect, WaitAdvance, WaitQuiet

\* A repo that is due and not held back is synced before WaitBound has passed, for any
\* number of repos, and however many manual syncs reset the ticker meanwhile.
THEOREM WaitIsBounded == SchedulerSpec => []BoundedWait
<1>1. SchedulerInit => WaitInv
  <2> SUFFICES ASSUME SchedulerInit, NEW r \in Repos PROVE WaitOK(r)
    BY DEF WaitInv
  <2>1. SchedulerCore
    BY CoreAtStart
  <2>2. overdue[r] = 0 /\ left = 0 /\ mode = "startup" /\ todo = Repos
    BY DEF SchedulerInit, All
  <2>3. Rest(r) = Time(Ahead(r)) /\ Time(Ahead(r)) \in Nat
    BY <2>1, <2>2, RestTypes DEF Rest
  <2>4. Time(Ahead(r)) <= Others
    <3>1. Repos \ {r} \subseteq Repos /\ Ahead(r) \in SUBSET (Repos \ {r})
      BY <2>1, RestTypes
    <3> QED
      BY <3>1, TimeOf, TimeOfOthers
  <2>5. WaitBound > Others
    BY PositiveBound
  <2> QED
    BY <2>2, <2>3, <2>4, <2>5, PositiveBound DEF WaitOK
<1>2. SchedulerCore /\ WaitInv => BoundedWait
  <2> SUFFICES ASSUME SchedulerCore, WaitInv, NEW r \in Repos
               PROVE  overdue[r] < WaitBound
    BY DEF BoundedWait
  <2>1. overdue[r] \in Nat /\ Rest(r) \in Nat /\ WaitBound \in Nat /\ WaitBound > 0
    BY RestTypes, PositiveBound
  <2> QED
    BY <2>1 DEF WaitInv, WaitOK
<1> QED
  BY <1>1, <1>2, WaitStep, SchedulerInvariant, PTL DEF SchedulerSpec
=============================================================================
