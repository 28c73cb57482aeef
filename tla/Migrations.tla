------------------------------- MODULE Migrations -------------------------------
(***************************************************************************)
(* db.Open: the schema migrations of internal/db/migrations, run by        *)
(* golang-migrate at every start, and the repair of a database that a      *)
(* failed or interrupted run left dirty.                                   *)
(*                                                                         *)
(* A migration is three separate writes: the version row is set dirty, the *)
(* body runs in one transaction, the version row is set clean.  The        *)
(* settings table stands for all tables: it is the one whose rows later    *)
(* migrations insert and delete.  Rows that migrations treat alike are one *)
(* key: "infisical_env" is any row seeded by 001.                          *)
(***************************************************************************)
EXTENDS Naturals

VARIABLES
    version,   \* schema_migrations.version; 0 when there is no row
    dirty,     \* schema_migrations.dirty
    settings,  \* settings[k]: "absent", "seed" as a migration left it, "set" by someone
    opc        \* where Open is: "closed", "up", "force", "run", "mark", "open", or
               \* "cut" when it was cut short

mvars == <<version, dirty, settings, opc>>

Latest == 4

\* The rows a migration inserts, and those it deletes.
Seeds == << {"infisical_env"}, {"infisical_project_id"}, {},
            {"dashboard_token", "default_sync_interval"} >>
Drops == << {}, {}, {"pull_only"}, {} >>

SeededUpTo(v) == UNION {Seeds[i] : i \in 1..v}
SettingKeys   == SeededUpTo(Latest) \cup {"pull_only"}

\* A database as an earlier release left it: at some version, with the rows of that
\* version, some of them changed by an operator; pull_only is older than 003.
DatabaseOf(v) ==
    {f \in [SettingKeys -> {"absent", "seed", "set"}] :
        /\ \A k \in SeededUpTo(Latest) : f[k] = "absent" <=> k \notin SeededUpTo(v)
        /\ f["pull_only"] # "absent" => v \in {1, 2}}

MigrationsInit ==
    /\ version \in 0..Latest /\ dirty = FALSE
    /\ settings \in DatabaseOf(version)
    /\ opc = "closed"

-----------------------------------------------------------------------------
\* Open connects and calls m.Up().
OpenBegin ==
    /\ opc \in {"closed", "cut"}
    /\ opc' = "up"
    /\ UNCHANGED <<version, dirty, settings>>

\* Up refuses a dirty database with ErrDirty...
UpDirty ==
    /\ opc = "up" /\ dirty
    /\ opc' = "force"
    /\ UNCHANGED <<version, dirty, settings>>

\* Mutant: the version that failed is forced, as if it had been applied.
ForceReset_SameVersion ==
    /\ opc = "force"
    /\ dirty' = FALSE
    /\ opc' = "up"
    /\ UNCHANGED <<version, settings>>

\* Mutant: a dirty database is an error like any other: Open returns, main exits.
ForceReset_Missing ==
    /\ opc = "force"
    /\ opc' = "closed"
    /\ UNCHANGED <<version, dirty, settings>>

\* ... and Open forces "no version" and calls Up again: everything is run again.
ForceReset ==
    /\ opc = "force"
    /\ version' = 0 /\ dirty' = FALSE
    /\ opc' = "up"
    /\ UNCHANGED settings

\* Up takes the next migration: SetVersion(v, dirty).
MigrationBegin ==
    /\ opc = "up" /\ ~dirty /\ version < Latest
    /\ version' = version + 1 /\ dirty' = TRUE
    /\ opc' = "run"
    /\ UNCHANGED settings

\* Mutant: INSERT OR REPLACE.
MigrationBody_Replace(f) ==
    [k \in SettingKeys |->
        IF k \in Drops[version] THEN "absent"
        ELSE IF k \in Seeds[version] THEN "seed" ELSE f[k]]

\* INSERT ... ON CONFLICT (key) DO NOTHING; DELETE FROM settings WHERE key = ...
MigrationBody(f) ==
    [k \in SettingKeys |->
        IF k \in Drops[version] THEN "absent"
        ELSE IF k \in Seeds[version] /\ f[k] = "absent" THEN "seed" ELSE f[k]]

MigrationRun ==
    /\ opc = "run"
    /\ settings' = MigrationBody(settings)
    /\ opc' = "mark"
    /\ UNCHANGED <<version, dirty>>

\* SetVersion(v, clean).
MigrationEnd ==
    /\ opc = "mark"
    /\ dirty' = FALSE
    /\ opc' = "up"
    /\ UNCHANGED <<version, settings>>

\* Nothing is left to run (nil or ErrNoChange): Open returns the database.
OpenDone ==
    /\ opc = "up" /\ ~dirty /\ version = Latest
    /\ opc' = "open"
    /\ UNCHANGED <<version, dirty, settings>>

\* A crash, or an error that is not ErrDirty, on which Open returns and main exits.
OpenStops ==
    /\ opc \notin {"closed", "cut", "open"}
    /\ opc' = "cut"
    /\ UNCHANGED <<version, dirty, settings>>

OpenStep ==
    \/ OpenBegin \/ UpDirty \/ ForceReset \/ MigrationBegin \/ MigrationRun
    \/ MigrationEnd \/ OpenDone

-----------------------------------------------------------------------------
(***************************************************************************)
(* Properties.                                                             *)
(***************************************************************************)

\* The version row, the flag and the rows keep their types; Open works on a migration
\* only with the flag set, and no version is dirty that is none.
MigrationsTypeOK ==
    /\ version \in 0..Latest /\ dirty \in BOOLEAN
    /\ settings \in [SettingKeys -> {"absent", "seed", "set"}]
    /\ opc \in {"closed", "up", "force", "run", "mark", "open", "cut"}
    /\ opc \in {"run", "mark", "force"} => dirty
    /\ dirty => version # 0

\* A database that Open returns has every migration's effect, whichever step of
\* whichever earlier start was cut short: no row of the code is missing, none that
\* was removed is back (db.go:107-125).
OpenIsCurrent ==
    opc = "open" => /\ version = Latest /\ ~dirty
                    /\ \A k \in SettingKeys :
                          settings[k] = "absent" <=> k = "pull_only"
=============================================================================
