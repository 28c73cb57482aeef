----------------------------- MODULE StartupProofs -----------------------------
(***************************************************************************)
(* Proofs about Startup: a database that Open returns is current whatever  *)
(* was cut short before, and migrations and repairs do not disturb the     *)
(* dashboard token, so that what DashboardTokenProofs shows of it alone    *)
(* holds of the whole process.                                             *)
(***************************************************************************)
EXTENDS Startup, DashboardTokenProofs

Keys == {"infisical_env", "infisical_project_id", "dashboard_token",
         "default_sync_interval", "pull_only"}

\* The settings the migrations know are these five (migrations/*.up.sql).
LEMMA KeysAre == SettingKeys = Keys
<1>1. Seeds = << {"infisical_env"}, {"infisical_project_id"}, {},
                 {"dashboard_token", "default_sync_interval"} >>
  BY DEF Seeds
<1>2. SeededUpTo(Latest) = Keys \ {"pull_only"}
  <2>1. 1..Latest = {1, 2, 3, 4}
    BY DEF Latest
  <2> QED
    BY <1>1, <2>1 DEF SeededUpTo, Keys
<1> QED
  BY <1>2 DEF SettingKeys, Keys

\* The versions whose effect is in the database for sure.
AppliedUpTo == IF dirty /\ opc # "mark" THEN version - 1 ELSE version

\* The inductive invariant: the rows of those versions are there and those they
\* remove are not; an open database is clean and at the latest version.
Applied ==
    /\ AppliedUpTo >= 1 => settings["infisical_env"] # "absent"
    /\ AppliedUpTo >= 2 => settings["infisical_project_id"] # "absent"
    /\ AppliedUpTo >= 3 => settings["pull_only"] = "absent"
    /\ AppliedUpTo >= 4 => /\ settings["dashboard_token"] # "absent"
                           /\ settings["default_sync_interval"] # "absent"
    /\ opc = "open" => version = Latest /\ ~dirty

\* The settings row and the token it stands for agree.
TokenRow == dbToken # NoToken => settings["dashboard_token"] = "set"

StartupInv == MigrationsTypeOK /\ Applied /\ TokenRow

\* A database as an earlier release left it satisfies the invariant.
LEMMA InitInv == StartupInit => StartupInv
<1> SUFFICES ASSUME StartupInit PROVE StartupInv
  OBVIOUS
<1>1. /\ version \in 0..4 /\ dirty = FALSE /\ opc = "closed"
      /\ settings \in [Keys -> {"absent", "seed", "set"}]
      /\ \A k \in SeededUpTo(4) : settings[k] = "absent" <=> k \notin SeededUpTo(version)
      /\ settings["pull_only"] # "absent" => version \in {1, 2}
  BY KeysAre DEF StartupInit, MigrationsInit, DatabaseOf, Latest
<1>2. \A v \in 0..4, k \in Keys : k \in SeededUpTo(v) <=>
          \/ v >= 1 /\ k = "infisical_env"
          \/ v >= 2 /\ k = "infisical_project_id"
          \/ v >= 4 /\ k \in {"dashboard_token", "default_sync_interval"}
  <2> SUFFICES ASSUME NEW v \in 0..4, NEW k \in Keys
               PROVE  k \in SeededUpTo(v) <=>
                        \/ v >= 1 /\ k = "infisical_env"
                        \/ v >= 2 /\ k = "infisical_project_id"
                        \/ v >= 4 /\ k \in {"dashboard_token", "default_sync_interval"}
    OBVIOUS
  <2>1. k \in SeededUpTo(v) <=> \E i \in 1..v : k \in Seeds[i]
    BY DEF SeededUpTo
  <2> QED
    BY <2>1 DEF Seeds, Keys
<1>3. Applied
  BY <1>1, <1>2 DEF Applied, AppliedUpTo, Keys
<1>4. TokenRow
  BY DEF TokenRow, StartupInit, TokenInit
<1> QED
  BY <1>1, <1>3, <1>4, KeysAre DEF StartupInv, MigrationsTypeOK, Latest

\* What the body of a migration makes of the rows: it changes none that is there
\* except pull_only, and its own seeds are there afterwards (migrations/*.up.sql).
LEMMA BodyEffect ==
    ASSUME NEW f \in [Keys -> {"absent", "seed", "set"}], version \in 1..4
    PROVE  /\ MigrationBody(f) \in [Keys -> {"absent", "seed", "set"}]
           /\ \A k \in Keys \ {"pull_only"} :
                 /\ f[k] # "absent" => MigrationBody(f)[k] = f[k]
                 /\ k \in Seeds[version] => MigrationBody(f)[k] # "absent"
           /\ f["pull_only"] = "absent" \/ version = 3 => MigrationBody(f)["pull_only"] = "absent"
BY KeysAre DEF MigrationBody, Drops, Seeds, Keys

\* Every step of Open keeps the invariant, the repair and a cut included
\* (db.go:48-130).
LEMMA OpeningStep == StartupInv /\ Opening => StartupInv'
<1> SUFFICES ASSUME StartupInv, Opening PROVE StartupInv'
  OBVIOUS
<1>0. /\ version \in 0..4 /\ dirty \in BOOLEAN
      /\ settings \in [Keys -> {"absent", "seed", "set"}]
  BY KeysAre DEF StartupInv, MigrationsTypeOK, Latest
<1>1. MigrationsTypeOK' /\ Applied'
  <2>1. CASE OpenBegin
    BY <1>0, <2>1 DEF OpenBegin, StartupInv, MigrationsTypeOK, Applied, AppliedUpTo, Latest
  <2>2. CASE UpDirty
    BY <1>0, <2>2 DEF UpDirty, StartupInv, MigrationsTypeOK, Applied, AppliedUpTo, Latest
  <2>3. CASE ForceReset
    <3>1. version' = 0 /\ dirty' = FALSE /\ opc' = "up" /\ settings' = settings
      BY <2>3 DEF ForceReset
    <3>2. MigrationsTypeOK'
      <4>1. ~dirty' /\ dirty' \in BOOLEAN
        BY <3>1, Zenon
      <4>2. version' \in 0..Latest
        BY <3>1 DEF Latest
      <4> QED
        BY <3>1, <4>1, <4>2, Zenon DEF StartupInv, MigrationsTypeOK
    <3>3. AppliedUpTo' = 0
      BY <3>1 DEF AppliedUpTo
    <3>4. Applied'
      BY <3>1, <3>3 DEF Applied
    <3> QED
      BY <3>2, <3>4
  <2>4. CASE OpenDone
    BY <1>0, <2>4 DEF OpenDone, StartupInv, MigrationsTypeOK, Applied, AppliedUpTo, Latest
  <2>5. CASE OpenStops
    BY <1>0, <2>5 DEF OpenStops, StartupInv, MigrationsTypeOK, Applied, AppliedUpTo, Latest
  <2>6. CASE MigrationEnd
    BY <1>0, <2>6 DEF MigrationEnd, StartupInv, MigrationsTypeOK, Applied, AppliedUpTo, Latest
  <2>7. CASE MigrationBegin
    BY <1>0, <2>7 DEF MigrationBegin, StartupInv, MigrationsTypeOK, Applied, AppliedUpTo, Latest
  <2>8. CASE MigrationRun
    <3>1. version \in 1..4
      BY <1>0, <2>8 DEF MigrationRun, StartupInv, MigrationsTypeOK
    <3>2. /\ settings' \in [Keys -> {"absent", "seed", "set"}]
          /\ \A k \in Keys \ {"pull_only"} :
                 /\ settings[k] # "absent" => settings'[k] = settings[k]
                 /\ k \in Seeds[version] => settings'[k] # "absent"
          /\ settings["pull_only"] = "absent" \/ version = 3 => settings'["pull_only"] = "absent"
      BY <1>0, <2>8, <3>1, BodyEffect DEF MigrationRun
    <3>3. /\ version = 1 => settings'["infisical_env"] # "absent"
          /\ version = 2 => settings'["infisical_project_id"] # "absent"
          /\ version = 4 => /\ settings'["dashboard_token"] # "absent"
                            /\ settings'["default_sync_interval"] # "absent"
      BY <3>2 DEF Seeds, Keys
    <3> QED
      BY <1>0, <2>8, <3>1, <3>2, <3>3, KeysAre
         DEF MigrationRun, StartupInv, MigrationsTypeOK, Applied, AppliedUpTo, Latest, Keys
  <2> QED
    BY <2>1, <2>2, <2>3, <2>4, <2>5, <2>6, <2>7, <2>8 DEF Opening, OpenStep
<1>2. TokenRow'
  BY DEF Opening, TokenRow
<1> QED
  BY <1>1, <1>2 DEF StartupInv

\* So does every step of the token and of a PUT on the open database
\* (main.go:986-1028, settings_handlers.go:392-446).
LEMMA RunningStep == StartupInv /\ (Running \/ PutOthers) => StartupInv'
<1> SUFFICES ASSUME StartupInv, Running \/ PutOthers PROVE StartupInv'
  OBVIOUS
<1>0. settings \in [Keys -> {"absent", "seed", "set"}]
  BY KeysAre DEF StartupInv, MigrationsTypeOK
<1>1. /\ settings' \in [Keys -> {"absent", "seed", "set"}]
      /\ \A k \in Keys \ {"pull_only"} : settings[k] # "absent" => settings'[k] # "absent"
      /\ settings'["pull_only"] = settings["pull_only"]
      /\ dbToken' # NoToken => settings'["dashboard_token"] = "set"
  <2>1. CASE Running
    <3>1. PICK W \in SUBSET (BeforeToken \cup AfterToken) :
             settings' = Stored(settings,
                (IF dbToken' # NoToken THEN {"dashboard_token"} ELSE {}) \cup W)
      BY <2>1 DEF Running, RowsWritten
    <3> QED
      BY <1>0, <3>1, KeysAre DEF Stored, BeforeToken, AfterToken, Keys
  <2>2. CASE PutOthers
    <3>1. PICK W \in SUBSET (BeforeToken \cup AfterToken) : settings' = Stored(settings, W)
      BY <2>2 DEF PutOthers
    <3>2. dbToken' = dbToken
      BY <2>2 DEF PutOthers, tvars
    <3> QED
      BY <1>0, <3>1, <3>2, KeysAre
         DEF Stored, BeforeToken, AfterToken, Keys, StartupInv, TokenRow
  <2> QED
    BY <2>1, <2>2
<1>2. opc = "open" /\ opc' \in {"open", "closed"} /\ UNCHANGED <<version, dirty>>
  BY DEF Running, PutOthers
<1> QED
  BY <1>0, <1>1, <1>2, KeysAre
     DEF StartupInv, MigrationsTypeOK, Applied, AppliedUpTo, TokenRow, Latest, Keys

\* Whatever is cut short, the rows of the versions that were completed are in the
\* database, and an open database is clean and at the latest version (db.go:107-129).
THEOREM StartupInvariant == StartupSpec => []StartupInv
<1>1. ASSUME StartupInv, UNCHANGED svars PROVE StartupInv'
  BY <1>1 DEF svars, tvars, mvars, StartupInv, MigrationsTypeOK, Applied, AppliedUpTo, TokenRow
<1> QED
  BY InitInv, OpeningStep, RunningStep, <1>1, PTL DEF StartupSpec, StartupNext

\* A database that Open returns has every migration's effect, whichever earlier
\* starts were cut short or repaired (db.go:107-125).
THEOREM OpenedIsCurrent == StartupSpec => []OpenIsCurrent
<1>1. StartupInv => OpenIsCurrent
  BY KeysAre DEF StartupInv, Applied, AppliedUpTo, OpenIsCurrent, Latest, Keys
<1> QED
  BY StartupInvariant, <1>1, PTL

\* No setting an operator stored is lost to a migration, a repair, a restart or a PUT
\* that fails half way (migrations/*.up.sql, settings_handlers.go:434-440).
THEOREM SettingsKept == StartupSpec => SettingsSurvive
<1>1. ASSUME StartupInv, [StartupNext]_svars, NEW k \in SettingKeys \ {"pull_only"},
             settings[k] = "set"
      PROVE  settings'[k] = "set"
  <2>0. /\ version \in 0..4 /\ settings \in [Keys -> {"absent", "seed", "set"}]
        /\ k \in Keys \ {"pull_only"}
    BY <1>1, KeysAre DEF StartupInv, MigrationsTypeOK, Latest
  <2>1. CASE Opening /\ MigrationRun
    <3>1. version \in 1..4
      BY <1>1, <2>0, <2>1 DEF MigrationRun, StartupInv, MigrationsTypeOK
    <3> QED
      BY <1>1, <2>0, <2>1, <3>1, BodyEffect DEF MigrationRun
  <2>2. CASE Opening /\ ~MigrationRun
    BY <1>1, <2>2 DEF Opening, OpenStep, OpenBegin, UpDirty, ForceReset, MigrationBegin,
       MigrationEnd, OpenDone, OpenStops
  <2>3. CASE Running \/ PutOthers
    <3>1. PICK W : settings' = Stored(settings, W)
      BY <2>3 DEF Running, RowsWritten, PutOthers
    <3> QED
      BY <1>1, <2>0, <3>1, KeysAre DEF Stored
  <2>4. CASE UNCHANGED svars
    BY <1>1, <2>4 DEF svars, mvars
  <2> QED
    BY <1>1, <2>1, <2>2, <2>3, <2>4 DEF StartupNext
<1>2. StartupInv /\ [StartupNext]_svars =>
        [\A k \in SettingKeys \ {"pull_only"} : settings[k] = "set" => settings'[k] = "set"]_svars
  BY <1>1
<1> QED
  BY StartupInvariant, <1>2, PTL DEF StartupSpec, SettingsSurvive

-----------------------------------------------------------------------------
\* Opening, migrating and repairing the database are stutters of the token: the whole
\* start-up implements DashboardToken, and its theorems hold of it.
THEOREM ImplementsToken == StartupSpec => TokenSpec
<1>1. StartupInit => TokenInit
  BY DEF StartupInit
<1>2. ASSUME StartupInv, [StartupNext]_svars PROVE [TokenNext]_tvars
  <2>1. CASE Opening
    <3>0. /\ version \in 0..4 /\ settings \in [Keys -> {"absent", "seed", "set"}]
      BY <1>2, KeysAre DEF StartupInv, MigrationsTypeOK, Latest
    <3>1. ASSUME settings["dashboard_token"] = "set" PROVE settings'["dashboard_token"] = "set"
      <4>1. CASE MigrationRun
        <5>1. version \in 1..4
          BY <1>2, <3>0, <4>1 DEF MigrationRun, StartupInv, MigrationsTypeOK
        <5> QED
          BY <3>0, <3>1, <4>1, <5>1, BodyEffect DEF MigrationRun, Keys
      <4>2. CASE ~MigrationRun
        BY <2>1, <3>1, <4>2 DEF Opening, OpenStep, OpenBegin, UpDirty, ForceReset,
           MigrationBegin, MigrationEnd, OpenDone, OpenStops
      <4> QED
        BY <4>1, <4>2
    <3>2. dbToken' = dbToken
      BY <1>2, <2>1, <3>1 DEF Opening, StartupInv, TokenRow
    <3> QED
      BY <2>1, <3>2 DEF Opening, tvars, procVars, putVars
  <2>2. CASE Running
    BY <2>2 DEF Running
  <2>3. CASE PutOthers \/ UNCHANGED svars
    BY <2>3 DEF PutOthers, svars
  <2> QED
    BY <1>2, <2>1, <2>2, <2>3 DEF StartupNext
<1> QED
  BY StartupInvariant, <1>1, <1>2, PTL DEF StartupSpec, TokenSpec

\* So a start on a database that had to be repaired does not lock the operator out,
\* and keeps the token that was stored (main.go:986-1028, db.go:108-126).
THEOREM TokenSurvivesRepair ==
    ASSUME "read" \notin Faults
    PROVE  StartupSpec => []NoLockout /\ PersistedKept
BY ImplementsToken, NeverLockedOut, StoredTokenKept, PTL
=============================================================================
