---------------------------- MODULE MCRepoSettings ----------------------------
(***************************************************************************)
(* RepoSettings with two rows, made one after the other from the same      *)
(* request, and two PUTs: one gives the repository an ssh key, the other   *)
(* moves it to another name and URL, where the second row cannot follow    *)
(* while the first is there.                                               *)
(***************************************************************************)
EXTENDS RepoSettings, TLC

CONSTANTS q1, q2

MCRow(n, u, b, r, a, k) ==
    [name |-> n, url |-> u, branch |-> b, remote |-> r, auth |-> a, key |-> k]

MCNewRows == {MCRow("n1", "u1", "", "up", "none", "")}

MCBody == q1 :> MCRow("", "", "", "", "ssh", "k1") @@ q2 :> MCRow("n2", "u2", "", "", "", "")
=============================================================================
