-------------------------------- MODULE Startup --------------------------------
(***************************************************************************)
(* The start of the process and the settings table it works on: main opens *)
(* and migrates the database (Migrations), chooses the dashboard token     *)
(* (DashboardToken) and serves; a PUT stores settings; the process ends,   *)
(* and starts again.                                                       *)
(***************************************************************************)
EXTENDS DashboardToken, Migrations

svars == <<tvars, mvars>>

StartupInit == TokenInit /\ MigrationsInit /\ settings["dashboard_token"] # "set"

\* Before any token is looked at.  A body that puts a token's row back to the seed
\* puts its value back to the empty string.
Opening ==
    /\ pc = "down"
    /\ OpenStep \/ OpenStops
    /\ dbToken' = IF settings'["dashboard_token"] = "set" THEN dbToken ELSE NoToken
    /\ UNCHANGED <<file, procVars, putVars, chosen, stored>>

\* A PUT stores its settings one by one: some before the token, the interval after it.
BeforeToken == {"infisical_env", "infisical_project_id"}
AfterToken  == {"default_sync_interval"}

Stored(f, W) == [k \in SettingKeys |-> IF k \in W THEN "set" ELSE f[k]]

Leaves(q, at) == qpc[q] = at /\ qpc'[q] # at

\* The rows written when the token's own row is or could be: a handler that has come
\* to the token, and fails there or not, has stored some of those before it, and one
\* that has come past it may have stored the interval.
RowsWritten ==
    LET token == IF dbToken' # NoToken THEN {"dashboard_token"} ELSE {}
        may   == (IF \E q \in Requests : Leaves(q, "store") THEN BeforeToken ELSE {})
                   \cup (IF \E q \in Requests : Leaves(q, "rest") THEN AfterToken ELSE {})
    IN  \E W \in SUBSET may : settings' = Stored(settings, token \cup W)

\* The rest of the process's life; its end closes the database.
Running ==
    /\ opc = "open"
    /\ TokenNext
    /\ RowsWritten
    /\ opc' = IF pc' = "down" THEN "closed" ELSE "open"
    /\ UNCHANGED <<version, dirty>>

\* A PUT that carries no token.
PutOthers ==
    /\ opc = "open" /\ Authorised
    /\ \E W \in SUBSET (BeforeToken \cup AfterToken) : settings' = Stored(settings, W)
    /\ UNCHANGED <<tvars, version, dirty, opc>>

StartupNext == Opening \/ Running \/ PutOthers

StartupSpec == StartupInit /\ [][StartupNext]_svars

\* A process that was started goes on; whoever runs it (a container's restart
\* policy) starts it again.
StartupFairSpec ==
    StartupSpec /\ WF_svars(Opening /\ OpenStep) /\ WF_svars(pc = "down" /\ Running)

-----------------------------------------------------------------------------
(***************************************************************************)
(* Properties.                                                             *)
(***************************************************************************)

\* What an operator stored is never lost: not to a repair, which runs every
\* migration again on a database in use, nor to a restart (db.go:108-125,
\* migrations/*.up.sql).  Only pull_only is removed.
SettingsSurvive ==
    [][\A k \in SettingKeys \ {"pull_only"} :
          settings[k] = "set" => settings'[k] = "set"]_svars

\* A database left dirty does not keep stackd down: once starts are no longer
\* disturbed one of them opens it (db.go:109-119).
OpensAgain ==
    (<>[](opc # "cut")) => []<>(opc = "open" /\ pc # "down")
=============================================================================
