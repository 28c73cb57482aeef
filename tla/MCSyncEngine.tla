------------------------------ MODULE MCSyncEngine ------------------------------
(***************************************************************************)
(* SyncEngine on small instances.  Under d1, stack s1 is in both commits,  *)
(* s2 only in the second: a push adds it, a force-push back removes its    *)
(* directory while the store and docker still know it.  Under d2 there is  *)
(* only s2.                                                                *)
(***************************************************************************)
EXTENDS SyncEngine, TLC

CONSTANTS c1, c2, d1, d2, s1, s2

MCStacksOf ==
    [c \in Commits |-> [d \in Dirs |-> CASE d = d2 -> Stacks \ {s1}
                                        [] c = c1 -> Stacks \ {s2}
                                        [] OTHER  -> Stacks]]

Symmetry == Permutations(Workers)

\* Bound: a row is there and enabled, or it is not there.  The engine passes over a
\* disabled row as over a missing one; only a per-stack apply tells them apart, which
\* the live run covers.
RowsEnabled == \A r \in Repos : repoDB[r] # "disabled"
=============================================================================
