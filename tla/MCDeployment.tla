------------------------------ MODULE MCDeployment ------------------------------
(***************************************************************************)
(* Deployment on small instances.  The stacks are found as in              *)
(* MCSyncEngine, in either of two directories.                             *)
(***************************************************************************)
EXTENDS Deployment, TLC

CONSTANTS c1, c2, d1, d2, s1, s2, web

MCStacksOf ==
    [c \in Commits |-> [d \in Dirs |-> CASE d = d2 -> Stacks \ {s1}
                                        [] c = c1 -> Stacks \ {s2}
                                        [] OTHER  -> Stacks]]

\* All directory names give one project name.
MCProject == [s \in Stacks |-> web]

\* Bounds: the rows stay enabled and nobody asks for a manual sync; the engine run
\* has both.
Scheduled == queue = << >> /\ \A r \in Repos : repoDB[r] = "enabled"
=============================================================================
