------------------------------- MODULE Deployment -------------------------------
(***************************************************************************)
(* SyncEngine together with the docker daemon: what each compose project   *)
(* really runs as a result of the compose commands the engine issues.      *)
(* Compose names a project after the base name of the stack's directory,   *)
(* in lower case and without special characters, so two stacks of one repo *)
(* and stacks of two repos may share one and take it from each other.      *)
(***************************************************************************)
EXTENDS SyncEngine

CONSTANTS
    Projects,     \* names of compose projects
    Project       \* Project[s]: composeProjectName of a directory named s

ASSUME ProjectAssumption == Project \in [Stacks -> Projects]

VARIABLES
    running,  \* running[p]: the key that last brought p up, and from which commit
              \* and StacksDir
    forced    \* history: the keys of per-stack applies since the process started

dvars == <<vars, running, forced>>

Up(k, c, d) == [key |-> k, ran |-> <<c, d>>]

DeployInit ==
    /\ Init
    /\ running = [p \in Projects |-> Up(None, NoSHA, None)] /\ forced = {}

\* The compose runs that end in this step, with the content and StacksDir they read.
Ended ==
    (IF mpc = "compose" /\ mpc' = "stacks"
       THEN {Up(<<cur, stk>>, mread, listedDir[cur])} ELSE {})
    \cup {Up(wjob[w], wread[w], wdir[w]) :
             w \in {v \in Workers : wpc[v] = "compose" /\ wpc'[v] = "idle" /\ mpc' # "down"}}

\* A run that could start brings its content up, in place of what its project ran;
\* one that reports an error may have done so or not.
BroughtUp ==
    \E u \in Ended : /\ Composable(u.key[2], u.ran[1], u.ran[2])
                     /\ running' = [running EXCEPT ![Project[u.key[2]]] = u]

LeftAlone ==
    /\ \A u \in Ended : stackStatus'[u.key[1]][u.key[2]] = "error"
    /\ UNCHANGED running

DeployNext ==
    /\ Next
    /\ BroughtUp \/ LeftAlone
    /\ forced' = IF mpc' = "down" THEN {} ELSE forced \cup applying'

DeploySpec == DeployInit /\ [][DeployNext]_dvars

-----------------------------------------------------------------------------
\* The other keys whose directory has the project name of k's.
Sharing(k) == {q \in Keys \ {k} : Project[q[2]] = Project[k[2]]}

\* A stack shown "ok" runs the commit recorded for its repo, from the StacksDir of
\* its row, whenever the sync loop is not in the middle of applying that repo:
\* through failed pulls, failed applies and force-pushes, and although per-stack
\* applies of other stacks move the clone (main.go:587-660).  The exceptions are the
\* code's own: a stack that was itself force-applied may be ahead of, or overtaken
\* by, the recorded SHA; an edited StacksDir (moved) waits for the next commit; and
\* another stack of the same project name may have taken the project over, which the
\* store does not show (client.go:149).  Whoever took it over must be such a stack.
DeployedIsRecorded ==
    \A r \in Repos :
        lastSHA[r] # NoSHA /\ r \notin moved /\ ~(cur = r /\ mpc \in {"stacks", "compose"}) =>
            \A s \in StacksOf[lastSHA[r]][stacksDir[r]] :
                <<r, s>> \notin forced /\ stackStatus[r][s] = "ok" =>
                    \/ running[Project[s]] = Up(<<r, s>>, lastSHA[r], stacksDir[r])
                    \/ running[Project[s]].key \in Sharing(<<r, s>>)
=============================================================================
