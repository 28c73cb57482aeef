------------------------------ MODULE MCContainers ------------------------------
(***************************************************************************)
(* Containers on a small instance: every stack has a project of its own.   *)
(***************************************************************************)
EXTENDS Containers

MCProject == [k \in Keys |-> k]
=============================================================================
