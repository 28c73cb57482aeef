------------------------------ MODULE RepoSettings ------------------------------
(***************************************************************************)
(* The settings of a repository and what becomes of them: the rows of      *)
(* tables repos and ssh_keys that the settings handlers write, and the     *)
(* pulls that main and the per-stack applies make with a copy of a row     *)
(* they read earlier (gitSyncToDisk: the private key is put into a file,   *)
(* a missing clone is made, the clone is fetched and reset to the branch). *)
(*                                                                         *)
(* Only what a pull depends on is kept of a row; SyncEngine has the        *)
(* enabled flag, the commits and the applies.                              *)
(***************************************************************************)
EXTENDS Naturals

CONSTANTS
    Ids,       \* ids rows get, one after the other; each is used once (newUUID)
    Names,     \* repository names: clone directories, and keys of the repo locks
    SSHKeys,   \* ids of ssh keys
    NewRows,   \* what POST /api/settings/repos may carry; a field left "" is not given
    Puts,      \* PUT handlers that may run at the same time
    Body,      \* Body[q]: the fields of the request q handles; one left "" is kept
    Main,      \* the main goroutine
    Applies,   \* goroutines of per-stack applies
    None,      \* no row yet, no clone, no holder
    Deleted,   \* a row that is gone
    Faults     \* a subset of {"git", "kill", "crash"}

Pullers == {Main} \cup Applies
Fields  == {"name", "url", "branch", "remote", "auth", "key"}

\* Values the fields can take, "" being the empty string of the code.
ValuesOf(f) == ({row[f] : row \in NewRows} \cup {Body[q][f] : q \in Puts} \cup {""})

Row == [name : Names, url : ValuesOf("url"), branch : ValuesOf("branch") \cup {"main"},
        remote : ValuesOf("remote") \cup {"origin"}, auth : ValuesOf("auth"),
        key : ValuesOf("key")]

\* What a clone directory can hold: URL and remote in .git/config, and the tree.
Clones == [url : ValuesOf("url") \cup {None},
           remote : ValuesOf("remote") \cup {"origin", None},
           at : ((ValuesOf("url") \cup {None}) \X (ValuesOf("branch") \cup {"main", "HEAD"}))
                  \cup {None}]

ASSUME SettingsAssumption ==
    /\ Ids \subseteq Nat /\ NewRows \subseteq Row
    /\ {row.key : row \in NewRows} \cup {Body[q].key : q \in Puts} \subseteq SSHKeys \cup {""}
    /\ \A q \in Puts : DOMAIN Body[q] = Fields /\ Body[q].name \in Names \cup {""}
    /\ Main \notin Applies /\ None \notin Pullers \cup Row \cup Clones /\ Deleted \notin Row
    /\ "" \notin SSHKeys
    /\ Faults \subseteq {"git", "kill", "crash"}

VARIABLES
    rows,     \* rows[i]: a row, None before it is created, Deleted after
    keys,     \* keys[k]: "new", "stored" in table ssh_keys, or "deleted" from it
    put,      \* put[q]: None, or the id and the row that handler q has read
    pull,     \* pull[p]: None, or the row that puller p works with
    ppc,      \* ppc[p]: "idle", "lock", "auth", "open", "fetch", "reset", "failed",
              \* or "down" when the process does not run
    keyFile,  \* keyFile[p]: the key in the temporary file of p, "" when there is none
    lock,     \* lock[n]: holder of repoLock(n)
    clone,    \* clone[n]: None, or url and remote in .git/config and what is checked out
    edited    \* history: names given up, or whose url or remote was changed

tables == <<rows, keys, put>>
pulls  == <<pull, ppc, keyFile, lock>>
rvars  == <<tables, pulls, clone, edited>>

Exists(i) == rows[i] \notin {None, Deleted}

SettingsInit ==
    /\ rows = [i \in Ids |-> None] /\ keys = [k \in SSHKeys |-> "new"]
    /\ put = [q \in Puts |-> None]
    /\ pull = [p \in Pullers |-> None] /\ ppc = [p \in Pullers |-> "idle"]
    /\ keyFile = [p \in Pullers |-> ""]
    /\ lock = [n \in Names |-> None] /\ clone = [n \in Names |-> None]
    /\ edited = {}

-----------------------------------------------------------------------------
(***************************************************************************)
(* The settings handlers.                                                  *)
(***************************************************************************)

\* Mutant: the column is not UNIQUE.
NameFree_Always(n, i) == TRUE

\* The name column is UNIQUE.
NameFree(n, i) == \A j \in Ids \ {i} : Exists(j) => rows[j].name # n

WithDefaults(row) == [row EXCEPT !.branch = IF @ = "" THEN "main" ELSE @,
                                 !.remote = IF @ = "" THEN "origin" ELSE @]

CreateRepo(i, row) ==
    /\ rows[i] = None /\ \A j \in Ids : j < i => rows[j] # None
    /\ NameFree(row.name, i)
    /\ rows' = [rows EXCEPT ![i] = WithDefaults(row)]
    /\ UNCHANGED <<keys, put, pulls, clone, edited>>

\* Only the row goes; the clone directory stays, and the name is free again.
DeleteRepo(i) ==
    /\ Exists(i)
    /\ edited' = edited \cup {rows[i].name}
    /\ rows' = [rows EXCEPT ![i] = Deleted]
    /\ UNCHANGED <<keys, put, pulls, clone>>

\* The fields a request names.  With auth "ssh" it names the key too, even "".
Named(p) ==
    {f \in Fields : p[f] # ""} \cup (IF p.auth = "ssh" THEN {"key"} ELSE {})

Merge(row, p) == [f \in Fields |-> IF f \in Named(p) THEN p[f] ELSE row[f]]

\* handleUpdateRepo reads the row...
UpdateRead(q, i) ==
    /\ put[q] = None /\ Exists(i)
    /\ put' = [put EXCEPT ![q] = [id |-> i, row |-> rows[i]]]
    /\ UNCHANGED <<rows, keys, pulls, clone, edited>>

\* ... changes the fields the request names ...
NewRow(q) == Merge(put[q].row, Body[q])

\* ... and writes all of it back.
UpdateWrite(q) ==
    /\ put[q] # None
    /\ LET i == put[q].id
           row == NewRow(q)
       IN  /\ Exists(i) /\ NameFree(row.name, i)
           /\ rows' = [rows EXCEPT ![i] = row]
           /\ edited' = IF \E f \in {"name", "url", "remote"} : row[f] # rows[i][f]
                          THEN edited \cup {rows[i].name} ELSE edited
    /\ put' = [put EXCEPT ![q] = None]
    /\ UNCHANGED <<keys, pulls, clone>>

\* The name is taken, or the UPDATE finds no row any more.
UpdateNothing(q) ==
    /\ put[q] # None
    /\ ~Exists(put[q].id) \/ ~NameFree(NewRow(q).name, put[q].id)
    /\ put' = [put EXCEPT ![q] = None]
    /\ UNCHANGED <<rows, keys, pulls, clone, edited>>

\* A key gets an id of its own, and can be deleted while rows refer to it.
CreateSSHKey(k) ==
    /\ keys[k] = "new"
    /\ keys' = [keys EXCEPT ![k] = "stored"]
    /\ UNCHANGED <<rows, put, pulls, clone, edited>>

DeleteSSHKey(k) ==
    /\ keys[k] = "stored"
    /\ keys' = [keys EXCEPT ![k] = "deleted"]
    /\ UNCHANGED <<rows, put, pulls, clone, edited>>

-----------------------------------------------------------------------------
(***************************************************************************)
(* A pull.                                                                 *)
(***************************************************************************)

\* Main lists the rows at the head of a round, an apply asks for its row: either
\* way the pull comes later, with a copy.
PullRead(p, i) ==
    /\ ppc[p] = "idle" /\ Exists(i)
    /\ pull' = [pull EXCEPT ![p] = rows[i]]
    /\ ppc' = [ppc EXCEPT ![p] = "lock"]
    /\ UNCHANGED <<tables, keyFile, lock, clone, edited>>

PullLock(p) ==
    /\ ppc[p] = "lock" /\ lock[pull[p].name] = None
    /\ lock' = [lock EXCEPT ![pull[p].name] = p]
    /\ ppc' = [ppc EXCEPT ![p] = "auth"]
    /\ UNCHANGED <<tables, pull, keyFile, clone, edited>>

\* Mutant: the key file is only removed after a pull that worked.
PullReturn_KeepFile(p) ==
    /\ pull' = [pull EXCEPT ![p] = None]
    /\ ppc' = [ppc EXCEPT ![p] = "idle"]
    /\ keyFile' = IF ppc[p] = "reset" THEN [keyFile EXCEPT ![p] = ""] ELSE keyFile
    /\ lock' = [lock EXCEPT ![pull[p].name] = None]

\* The deferred cleanup and Unlock.
PullReturn(p) ==
    /\ pull' = [pull EXCEPT ![p] = None]
    /\ ppc' = [ppc EXCEPT ![p] = "idle"]
    /\ keyFile' = [keyFile EXCEPT ![p] = ""]
    /\ lock' = [lock EXCEPT ![pull[p].name] = None]

NeedsKey(row) == row.auth = "ssh" /\ row.key # ""
NoKey(row)    == NeedsKey(row) /\ keys[row.key] # "stored"

\* setupGitAuth writes the key of the row to a file of its own...
PullAuth(p) ==
    /\ ppc[p] = "auth"
    /\ ~NoKey(pull[p])
    /\ keyFile' = IF NeedsKey(pull[p]) THEN [keyFile EXCEPT ![p] = pull[p].key]
                                       ELSE keyFile
    /\ ppc' = [ppc EXCEPT ![p] = "open"]
    /\ UNCHANGED <<tables, pull, lock, clone, edited>>

\* ... unless there is no such key.
PullNoKey(p) ==
    /\ ppc[p] = "auth" /\ NoKey(pull[p])
    /\ PullReturn(p)
    /\ UNCHANGED <<tables, clone, edited>>

\* Mutant: git's default name for the remote.
Cloned_Origin(row, at) == [url |-> row.url, remote |-> "origin", at |-> at]

\* What git clone --origin makes of the row.
Cloned(row, at) == [url |-> row.url, remote |-> row.remote, at |-> at]

\* Without a .git directory the repository is cloned, at its default branch.
PullOpen(p) ==
    /\ ppc[p] = "open"
    /\ \/ /\ clone[pull[p].name] = None
          /\ clone' = [clone EXCEPT ![pull[p].name] =
                          Cloned(pull[p], <<pull[p].url, "HEAD">>)]
       \/ clone[pull[p].name] # None /\ UNCHANGED clone
    /\ ppc' = [ppc EXCEPT ![p] = "fetch"]
    /\ UNCHANGED <<tables, pull, keyFile, lock, edited>>

\* A clone killed at its deadline leaves a .git directory behind, with the remote
\* already in its configuration or not.
CloneKilled(p) ==
    /\ "kill" \in Faults
    /\ ppc[p] = "open" /\ clone[pull[p].name] = None
    /\ \E c \in {Cloned(pull[p], None), [url |-> None, remote |-> None, at |-> None]} :
          clone' = [clone EXCEPT ![pull[p].name] = c]
    /\ ppc' = [ppc EXCEPT ![p] = "failed"]
    /\ UNCHANGED <<tables, pull, keyFile, lock, edited>>

\* git fetch takes the remote by the name the row gives it; the URL is the clone's.
PullFetch(p) ==
    /\ ppc[p] = "fetch"
    /\ clone[pull[p].name].remote = pull[p].remote
    /\ ppc' = [ppc EXCEPT ![p] = "reset"]
    /\ UNCHANGED <<tables, pull, keyFile, lock, clone, edited>>

PullNoRemote(p) ==
    /\ ppc[p] = "fetch"
    /\ clone[pull[p].name].remote # pull[p].remote
    /\ PullReturn(p)
    /\ UNCHANGED <<tables, clone, edited>>

\* Mutant: reset to what was fetched instead of the branch.
PullReset_FetchHead(p) ==
    /\ ppc[p] = "reset"
    /\ clone' = [clone EXCEPT ![pull[p].name].at = <<clone[pull[p].name].url, "HEAD">>]
    /\ PullReturn(p)
    /\ UNCHANGED <<tables, edited>>

\* git reset --hard to the branch of that remote, also right after a clone.
PullReset(p) ==
    /\ ppc[p] = "reset"
    /\ clone' = [clone EXCEPT ![pull[p].name].at =
                    <<clone[pull[p].name].url, pull[p].branch>>]
    /\ PullReturn(p)
    /\ UNCHANGED <<tables, edited>>

\* Any command may fail, on the network or at its deadline, and so may the look-up
\* and the decryption of the credentials...
PullFails(p) ==
    /\ "git" \in Faults /\ ppc[p] \in {"auth", "open", "fetch", "reset"}
    /\ ppc' = [ppc EXCEPT ![p] = "failed"]
    /\ UNCHANGED <<tables, pull, keyFile, lock, clone, edited>>

\* ... and the error is returned.
PullError(p) ==
    /\ ppc[p] = "failed"
    /\ PullReturn(p)
    /\ UNCHANGED <<tables, clone, edited>>

\* The process dies.  Its memory is gone; a key file stays on the disk, unused.
SettingsCrash ==
    /\ "crash" \in Faults /\ ppc[Main] # "down"
    /\ put' = [q \in Puts |-> None]
    /\ pull' = [p \in Pullers |-> None] /\ ppc' = [p \in Pullers |-> "down"]
    /\ keyFile' = [p \in Pullers |-> ""] /\ lock' = [n \in Names |-> None]
    /\ UNCHANGED <<rows, keys, clone, edited>>

SettingsStart ==
    /\ ppc[Main] = "down"
    /\ ppc' = [p \in Pullers |-> "idle"]
    /\ UNCHANGED <<tables, pull, keyFile, lock, clone, edited>>

-----------------------------------------------------------------------------
HandlerNext ==
    /\ ppc[Main] # "down"
    /\ \/ \E i \in Ids : DeleteRepo(i) \/ \E row \in NewRows : CreateRepo(i, row)
       \/ \E q \in Puts : \/ \E i \in Ids : UpdateRead(q, i)
                          \/ UpdateWrite(q) \/ UpdateNothing(q)
       \/ \E k \in SSHKeys : CreateSSHKey(k) \/ DeleteSSHKey(k)

PullStep(p) ==
    \/ PullLock(p) \/ PullAuth(p) \/ PullNoKey(p) \/ PullOpen(p)
    \/ PullFetch(p) \/ PullNoRemote(p) \/ PullReset(p) \/ PullError(p)

SettingsNext ==
    \/ HandlerNext \/ SettingsCrash \/ SettingsStart
    \/ \E p \in Pullers : \/ PullStep(p) \/ PullFails(p) \/ CloneKilled(p)
                          \/ \E i \in Ids : PullRead(p, i)

SettingsSpec == SettingsInit /\ [][SettingsNext]_rvars

\* A pull that was begun goes on, every command of it ends by its deadline, and
\* sync.Mutex does not starve a waiter.  Nothing says that a row is pulled at all.
SettingsFairSpec == SettingsSpec /\ \A p \in Pullers : SF_rvars(PullStep(p))

-----------------------------------------------------------------------------
(***************************************************************************)
(* Properties.                                                             *)
(***************************************************************************)

\* The types of all variables, and names stay unique.
SettingsTypeOK ==
    /\ rows \in [Ids -> Row \cup {None, Deleted}] /\ keys \in [SSHKeys -> {"new", "stored", "deleted"}]
    /\ \A i, j \in Ids : Exists(i) /\ Exists(j) /\ rows[i].name = rows[j].name => i = j
    /\ put \in [Puts -> [id : Ids, row : Row] \cup {None}]
    /\ pull \in [Pullers -> Row \cup {None}]
    /\ ppc \in [Pullers -> {"idle", "lock", "auth", "open", "fetch", "reset",
                           "failed", "down"}]
    /\ \A p \in Pullers : ppc[p] \in {"idle", "down"} <=> pull[p] = None
    /\ keyFile \in [Pullers -> SSHKeys \cup {""}]
    /\ lock \in [Names -> Pullers \cup {None}]
    /\ clone \in [Names -> Clones \cup {None}]
    /\ edited \subseteq Names

\* While the process runs a private key is on disk only during a pull of its row,
\* whichever way the pull ends and whatever is changed meanwhile (main.go:117-119,
\* 182): in the file is the key of the row that is pulled, and the pull has the lock
\* of the clone.  (A crash leaves the file behind; no start looks for it.)
KeyFilesOwned ==
    \A p \in Pullers : keyFile[p] # "" =>
        /\ ppc[p] \in {"open", "fetch", "reset", "failed"}
        /\ NeedsKey(pull[p]) /\ keyFile[p] = pull[p].key
        /\ lock[pull[p].name] = p

\* A clone comes from the URL of its row, and knows the row's remote, as long as the
\* name was not given up before and neither was changed: no pull with an old copy
\* of a row can make another clone (git.go:131-158, main.go:170-194).
CloneIsRows ==
    \A i \in Ids : Exists(i) /\ rows[i].name \notin edited
                     /\ clone[rows[i].name] # None =>
        \/ /\ clone[rows[i].name].url = rows[i].url
           /\ clone[rows[i].name].remote = rows[i].remote
        \/ clone[rows[i].name].url = None

\* Once pulls stop failing, a row that stays and is pulled again and again is in the
\* end what is checked out, the branch it names and not the default one
\* (git.go:141-142), also when other rows, edited or deleted ones, had its clone
\* before: unless its key is missing, or the clone was made for another URL or remote,
\* or was killed before it knew the remote.  A row that main passes over for good,
\* disabled or suspended (main.go:912-917), is promised nothing.
Settled(i) ==
    LET row == rows[i]
        c   == clone[row.name]
    IN  \/ c # None /\ c.at = <<row.url, row.branch>>
        \/ NoKey(row)
        \/ c # None /\ (c.url # row.url \/ c.remote # row.remote)

PullBegun(i) == \E p \in Pullers : ppc[p] = "lock" /\ pull[p] = rows[i]

RowsSettle ==
    (<>[][/\ UNCHANGED <<rows, keys>>
          /\ \A p \in Pullers : ppc'[p] \notin {"failed", "down"}]_rvars)
        => \A i \in Ids : []<>PullBegun(i) => <>[](Exists(i) => Settled(i))
=============================================================================
