--------------------------- MODULE RepoSettingsProofs ---------------------------
(***************************************************************************)
(* Proofs about RepoSettings for any number of rows, handlers and pulls.   *)
(***************************************************************************)
EXTENDS RepoSettings, TLAPS

\* A request that creates a repository makes a row (settings_handlers.go:99-104).
LEMMA DefaultsRow ==
    ASSUME NEW row \in NewRows
    PROVE  WithDefaults(row) \in Row
BY SettingsAssumption DEF WithDefaults, Row

\* An update makes a row of a row (settings_handlers.go:188-242).
LEMMA MergeRow ==
    ASSUME NEW q \in Puts, NEW row \in Row
    PROVE  Merge(row, Body[q]) \in Row
<1>1. \A f \in Fields : Body[q][f] \in ValuesOf(f)
  BY DEF ValuesOf
<1>2. Body[q].name # "" => Body[q].name \in Names
  BY SettingsAssumption
<1>3. \A f \in Fields : Merge(row, Body[q])[f] \in {row[f], Body[q][f]}
  BY DEF Merge
<1> QED
  BY <1>1, <1>2, <1>3 DEF Merge, Named, Fields, Row

\* What a clone is made from is in its type (git.go:146-158).
LEMMA ClonedClone ==
    ASSUME NEW row \in Row, NEW at \in {<<row.url, "HEAD">>, None}
    PROVE  Cloned(row, at) \in Clones
BY DEF Cloned, Clones, Row

-----------------------------------------------------------------------------
\* The positions in which a pull has the lock of its clone.
Holding == {"auth", "open", "fetch", "reset", "failed"}

\* With the type invariant: whoever is past the lock has it, and a clone that is
\* fetched is there.
PullInv ==
    /\ \A p \in Pullers : ppc[p] \in Holding => lock[pull[p].name] = p
    /\ \A p \in Pullers : ppc[p] \in {"fetch", "reset"} => clone[pull[p].name] # None

SettingsInv == SettingsTypeOK /\ PullInv /\ KeyFilesOwned

\* A process that has just started satisfies the invariant.
LEMMA InitSettings == SettingsInit => SettingsInv
<1> SUFFICES ASSUME SettingsInit PROVE SettingsInv
  OBVIOUS
<1>1. /\ rows \in [Ids -> Row \cup {None, Deleted}] /\ keys \in [SSHKeys -> {"new", "stored", "deleted"}]
      /\ \A i \in Ids : ~Exists(i)
      /\ put \in [Puts -> [id : Ids, row : Row] \cup {None}]
      /\ lock \in [Names -> Pullers \cup {None}] /\ clone \in [Names -> Clones \cup {None}]
      /\ edited \subseteq Names
  BY DEF SettingsInit, Exists
<1>2. /\ pull \in [Pullers -> Row \cup {None}] /\ keyFile \in [Pullers -> SSHKeys \cup {""}]
      /\ ppc \in [Pullers -> {"idle", "lock", "auth", "open", "fetch", "reset",
                             "failed", "down"}]
      /\ \A p \in Pullers : ppc[p] = "idle" /\ pull[p] = None /\ keyFile[p] = ""
  BY DEF SettingsInit
<1>3. SettingsTypeOK
  BY <1>1, <1>2 DEF SettingsTypeOK
<1>4. PullInv /\ KeyFilesOwned
  BY <1>2 DEF PullInv, KeyFilesOwned, Holding
<1> QED
  BY <1>3, <1>4 DEF SettingsInv

\* The handlers leave the pulls and the clones alone, and keep the types of the rows,
\* whatever is read before and written after something else
\* (settings_handlers.go:81-345).
LEMMA HandlerSettings == SettingsInv /\ HandlerNext => SettingsInv'
<1> SUFFICES ASSUME SettingsInv, HandlerNext PROVE SettingsInv'
  OBVIOUS
<1>0. SettingsTypeOK
  BY DEF SettingsInv
<1>a. rows \in [Ids -> Row \cup {None, Deleted}] /\ edited \subseteq Names
  BY <1>0 DEF SettingsTypeOK
<1>b. \A j, k \in Ids : Exists(j) /\ Exists(k) /\ rows[j].name = rows[k].name => j = k
  BY <1>0 DEF SettingsTypeOK
<1>c. put \in [Puts -> [id : Ids, row : Row] \cup {None}]
  BY <1>0 DEF SettingsTypeOK
<1>1. UNCHANGED <<pull, ppc, keyFile, lock, clone>>
  BY DEF HandlerNext, DeleteRepo, CreateRepo, UpdateRead, UpdateWrite, UpdateNothing,
         CreateSSHKey, DeleteSSHKey, pulls
<1>2. PullInv' /\ KeyFilesOwned'
  BY <1>1 DEF SettingsInv, PullInv, KeyFilesOwned, NeedsKey
<1> DEFINE RowsOK == /\ rows \in [Ids -> Row \cup {None, Deleted}] /\ edited \subseteq Names
                     /\ \A j, k \in Ids : Exists(j) /\ Exists(k) /\ rows[j].name = rows[k].name => j = k
                     /\ put \in [Puts -> [id : Ids, row : Row] \cup {None}]
                     /\ keys \in [SSHKeys -> {"new", "stored", "deleted"}]
<1>d. RowsOK' => SettingsTypeOK'
  BY <1>0, <1>1 DEF SettingsTypeOK
<1>k. keys \in [SSHKeys -> {"new", "stored", "deleted"}]
  BY <1>0 DEF SettingsTypeOK
<1>3. ASSUME NEW i \in Ids, NEW row \in NewRows, CreateRepo(i, row) PROVE RowsOK'
  <2>1. WithDefaults(row) \in Row
    BY DefaultsRow
  <2>2. row \in Row /\ WithDefaults(row).name = row.name
    BY SettingsAssumption DEF WithDefaults, Row
  <2>3. /\ rows' = [rows EXCEPT ![i] = WithDefaults(row)] /\ NameFree(row.name, i)
        /\ UNCHANGED <<keys, put, edited>>
    BY <1>3 DEF CreateRepo
  <2>4. \A j, k \in Ids : Exists(j)' /\ Exists(k)' /\ rows'[j].name = rows'[k].name => j = k
    BY <1>a, <1>b, <2>2, <2>3 DEF NameFree, Exists
  <2> QED
    BY <1>a, <1>c, <1>k, <2>1, <2>3, <2>4
<1>4. ASSUME NEW i \in Ids, DeleteRepo(i) PROVE RowsOK'
  <2>1. /\ rows' = [rows EXCEPT ![i] = Deleted] /\ edited' = edited \cup {rows[i].name}
        /\ Exists(i) /\ UNCHANGED <<keys, put>>
    BY <1>4 DEF DeleteRepo
  <2>2. rows[i].name \in Names
    BY <1>a, <2>1 DEF Exists, Row
  <2>3. \A j, k \in Ids : Exists(j)' /\ Exists(k)' /\ rows'[j].name = rows'[k].name => j = k
    BY <1>a, <1>b, <2>1 DEF Exists
  <2> QED
    BY <1>a, <1>c, <1>k, <2>1, <2>2, <2>3
<1>5. ASSUME NEW q \in Puts, NEW i \in Ids, UpdateRead(q, i) PROVE RowsOK'
  <2>1. [id |-> i, row |-> rows[i]] \in [id : Ids, row : Row]
    BY <1>a, <1>5 DEF UpdateRead, Exists
  <2> QED
    BY <1>a, <1>b, <1>c, <1>k, <1>5, <2>1 DEF UpdateRead, Exists
<1>6. ASSUME NEW q \in Puts, UpdateWrite(q) PROVE RowsOK'
  <2>1. put[q].id \in Ids /\ put[q].row \in Row
    <3>1. put[q] \in [id : Ids, row : Row]
      BY <1>c, <1>6 DEF UpdateWrite
    <3> QED
      BY <3>1
  <2> DEFINE i == put[q].id
             row == NewRow(q)
  <2>2. row \in Row
    BY <2>1, MergeRow DEF NewRow
  <2>3. /\ rows' = [rows EXCEPT ![i] = row] /\ NameFree(row.name, i) /\ Exists(i)
        /\ edited' \in {edited, edited \cup {rows[i].name}}
        /\ put' = [put EXCEPT ![q] = None] /\ UNCHANGED keys
    BY <1>6 DEF UpdateWrite
  <2> HIDE DEF i, row
  <2>4. i \in Ids
    BY <2>1 DEF i
  <2>5. rows[i].name \in Names
    BY <1>a, <2>3, <2>4 DEF Exists, Row
  <2>6. \A j, k \in Ids : Exists(j)' /\ Exists(k)' /\ rows'[j].name = rows'[k].name => j = k
    BY <1>a, <1>b, <2>3, <2>4 DEF NameFree, Exists
  <2> QED
    BY <1>a, <1>c, <1>k, <2>2, <2>3, <2>4, <2>5, <2>6
<1>7. ASSUME NEW q \in Puts, UpdateNothing(q) PROVE RowsOK'
  BY <1>a, <1>b, <1>c, <1>k, <1>7 DEF UpdateNothing, Exists
<1>8. ASSUME NEW k \in SSHKeys, CreateSSHKey(k) \/ DeleteSSHKey(k) PROVE RowsOK'
  BY <1>a, <1>b, <1>c, <1>k, <1>8 DEF CreateSSHKey, DeleteSSHKey, Exists
<1>9. RowsOK'
  BY <1>3, <1>4, <1>5, <1>6, <1>7, <1>8 DEF HandlerNext
<1> QED
  BY <1>2, <1>9, <1>d DEF SettingsInv

\* What a step of pull p may do to the variables of the pulls.
PullTypes ==
    /\ pull \in [Pullers -> Row \cup {None}] /\ keyFile \in [Pullers -> SSHKeys \cup {""}]
    /\ ppc \in [Pullers -> {"idle", "lock", "auth", "open", "fetch", "reset",
                           "failed", "down"}]
    /\ \A p \in Pullers : ppc[p] \in {"idle", "down"} <=> pull[p] = None
    /\ lock \in [Names -> Pullers \cup {None}] /\ clone \in [Names -> Clones \cup {None}]

\* The row a pull works with is a row, with a name that has a lock (main.go:620, 883).
LEMMA PullsRow ==
    ASSUME PullTypes, NEW p \in Pullers, ppc[p] \notin {"idle", "down"}
    PROVE  pull[p] \in Row /\ pull[p].name \in Names
<1>1. pull[p] \in Row
  BY DEF PullTypes
<1> QED
  BY <1>1 DEF Row

\* However a pull ends, its lock is released and its key file removed, and nobody
\* else's (main.go:182, 155, 620).
LEMMA ReturnSettings ==
    ASSUME PullTypes, PullInv, KeyFilesOwned, NEW p \in Pullers, ppc[p] \in Holding,
           PullReturn(p),
           clone' \in [Names -> Clones \cup {None}],
           \A n \in Names : clone[n] # None => clone'[n] # None
    PROVE  PullTypes' /\ PullInv' /\ KeyFilesOwned'
<1>1. pull[p] \in Row /\ pull[p].name \in Names
  BY PullsRow DEF Holding
<1>2. /\ pull' = [pull EXCEPT ![p] = None] /\ ppc' = [ppc EXCEPT ![p] = "idle"]
      /\ keyFile' = [keyFile EXCEPT ![p] = ""]
      /\ lock' = [lock EXCEPT ![pull[p].name] = None]
  BY DEF PullReturn
<1>3. PullTypes'
  BY <1>1, <1>2 DEF PullTypes
<1>4. ASSUME NEW r \in Pullers, r # p
      PROVE  pull'[r] = pull[r] /\ ppc'[r] = ppc[r] /\ keyFile'[r] = keyFile[r]
  BY <1>2, <1>4 DEF PullTypes
<1>5. ppc'[p] = "idle" /\ keyFile'[p] = ""
  BY <1>2 DEF PullTypes
<1>6. ASSUME NEW r \in Pullers, r # p, ppc[r] \in Holding
      PROVE  pull[r].name \in Names /\ lock'[pull[r].name] = r
  <2>1. pull[r].name \in Names
    BY <1>6, PullsRow DEF Holding
  <2>2. lock[pull[r].name] = r /\ lock[pull[p].name] = p
    BY <1>6 DEF PullInv
  <2> QED
    BY <1>1, <1>2, <1>6, <2>1, <2>2 DEF PullTypes
<1>7. PullInv'
  <2>1. ASSUME NEW r \in Pullers, ppc'[r] \in Holding PROVE lock'[pull'[r].name] = r
    BY <2>1, <1>4, <1>5, <1>6 DEF Holding
  <2>2. ASSUME NEW r \in Pullers, ppc'[r] \in {"fetch", "reset"}
        PROVE  clone'[pull'[r].name] # None
    BY <2>2, <1>4, <1>5, <1>6 DEF PullInv, Holding
  <2> QED
    BY <2>1, <2>2 DEF PullInv
<1>8. KeyFilesOwned'
  <2> SUFFICES ASSUME NEW r \in Pullers, keyFile'[r] # ""
               PROVE  /\ ppc'[r] \in {"open", "fetch", "reset", "failed"}
                      /\ NeedsKey(pull'[r]) /\ keyFile'[r] = pull'[r].key
                      /\ lock'[pull'[r].name] = r
    BY DEF KeyFilesOwned, NeedsKey
  <2>1. r # p
    BY <1>5
  <2>2. pull'[r] = pull[r] /\ ppc'[r] = ppc[r] /\ keyFile'[r] = keyFile[r]
    BY <1>4, <2>1
  <2>3. /\ ppc[r] \in {"open", "fetch", "reset", "failed"}
        /\ NeedsKey(pull[r]) /\ keyFile[r] = pull[r].key
    BY <2>2 DEF KeyFilesOwned
  <2> QED
    BY <1>6, <2>1, <2>2, <2>3 DEF Holding
<1> QED
  BY <1>3, <1>7, <1>8

\* A step of a pull that has its lock and goes on: it moves to another position
\* behind the lock, and may write its key file or make its clone (main.go:173-194).
LEMMA ForwardSettings ==
    ASSUME PullTypes, PullInv, KeyFilesOwned, NEW p \in Pullers, ppc[p] \in Holding,
           NEW to \in {"open", "fetch", "reset", "failed"},
           ppc' = [ppc EXCEPT ![p] = to], UNCHANGED <<pull, lock>>,
           \/ UNCHANGED keyFile
           \/ NeedsKey(pull[p]) /\ keyFile' = [keyFile EXCEPT ![p] = pull[p].key],
           clone' \in [Names -> Clones \cup {None}],
           \A n \in Names : clone[n] # None => clone'[n] # None,
           to \in {"fetch", "reset"} => clone'[pull[p].name] # None
    PROVE  PullTypes' /\ PullInv' /\ KeyFilesOwned'
<1>1. pull[p] \in Row /\ pull[p].name \in Names /\ lock[pull[p].name] = p
  BY PullsRow DEF Holding, PullInv
<1>2. pull[p].key \in SSHKeys \cup {""}
  <2>1. pull[p].key \in ValuesOf("key")
    BY <1>1 DEF Row
  <2> QED
    BY <2>1, SettingsAssumption DEF ValuesOf
<1>3. PullTypes'
  <2>1. keyFile' \in [Pullers -> SSHKeys \cup {""}]
    BY <1>2 DEF PullTypes
  <2>2. ppc' \in [Pullers -> {"idle", "lock", "auth", "open", "fetch", "reset",
                             "failed", "down"}]
    BY DEF PullTypes
  <2>3. \A r \in Pullers : ppc'[r] \in {"idle", "down"} <=> pull'[r] = None
    BY DEF PullTypes, Holding
  <2> QED
    BY <2>1, <2>2, <2>3 DEF PullTypes
<1>4. \A r \in Pullers \ {p} : ppc'[r] = ppc[r] /\ keyFile'[r] = keyFile[r]
  BY DEF PullTypes
<1>5. ppc'[p] = to
  BY DEF PullTypes
<1>6. PullInv'
  <2>1. ASSUME NEW r \in Pullers, ppc'[r] \in Holding PROVE lock'[pull'[r].name] = r
    BY <2>1, <1>1, <1>4 DEF PullInv
  <2>2. ASSUME NEW r \in Pullers, ppc'[r] \in {"fetch", "reset"}
        PROVE  clone'[pull'[r].name] # None
    <3>1. CASE r = p
      BY <3>1, <2>2, <1>5
    <3>2. CASE r # p
      <4>1. ppc[r] \in {"fetch", "reset"}
        BY <2>2, <3>2, <1>4
      <4>2. pull[r].name \in Names
        BY <4>1, PullsRow
      <4> QED
        BY <4>1, <4>2 DEF PullInv
    <3> QED
      BY <3>1, <3>2
  <2> QED
    BY <2>1, <2>2 DEF PullInv
<1>7. KeyFilesOwned'
  <2> SUFFICES ASSUME NEW r \in Pullers, keyFile'[r] # ""
               PROVE  /\ ppc'[r] \in {"open", "fetch", "reset", "failed"}
                      /\ NeedsKey(pull[r]) /\ keyFile'[r] = pull[r].key
                      /\ lock[pull[r].name] = r
    BY DEF KeyFilesOwned, NeedsKey
  <2>1. CASE r # p
    BY <2>1, <1>4 DEF KeyFilesOwned
  <2>2. CASE r = p
    <3>1. \/ keyFile'[p] = keyFile[p]
          \/ NeedsKey(pull[p]) /\ keyFile'[p] = pull[p].key
      BY DEF PullTypes
    <3> QED
      BY <2>2, <3>1, <1>1, <1>5 DEF KeyFilesOwned
  <2> QED
    BY <2>1, <2>2
<1> QED
  BY <1>3, <1>6, <1>7

\* Every step of a pull keeps the invariant (main.go:117-194, git.go:131-183).
LEMMA PullSettings ==
    ASSUME SettingsInv, NEW p \in Pullers,
           PullStep(p) \/ PullFails(p) \/ CloneKilled(p) \/ \E i \in Ids : PullRead(p, i)
    PROVE  SettingsInv'
<1>0. SettingsTypeOK /\ PullTypes /\ PullInv /\ KeyFilesOwned
  BY DEF SettingsInv, SettingsTypeOK, PullTypes
<1>1. UNCHANGED <<rows, keys, put, edited>>
  BY DEF PullStep, PullFails, CloneKilled, PullRead, PullLock, PullAuth, PullNoKey, PullOpen,
         PullFetch, PullNoRemote, PullReset, PullError, tables
<1>2. PullTypes' => SettingsTypeOK'
  BY <1>0, <1>1 DEF SettingsTypeOK, PullTypes, Exists
<1>3. clone \in [Names -> Clones \cup {None}]
  BY <1>0 DEF PullTypes
<1> DEFINE Kept == PullTypes' /\ PullInv' /\ KeyFilesOwned'
<1>4. ASSUME NEW i \in Ids, PullRead(p, i) PROVE Kept
  <2>1. /\ rows[i] \in Row /\ rows[i] # None
    BY <1>0, <1>4, SettingsAssumption DEF PullRead, Exists, SettingsTypeOK
  <2>2. /\ ppc[p] = "idle" /\ pull' = [pull EXCEPT ![p] = rows[i]]
        /\ ppc' = [ppc EXCEPT ![p] = "lock"] /\ UNCHANGED <<keyFile, lock, clone>>
    BY <1>4 DEF PullRead
  <2>3. PullTypes'
    BY <1>0, <2>1, <2>2 DEF PullTypes
  <2>4. /\ ppc'[p] = "lock" /\ keyFile[p] = ""
        /\ \A r \in Pullers \ {p} : ppc'[r] = ppc[r] /\ pull'[r] = pull[r]
    <3>1. keyFile[p] = ""
      BY <1>0, <2>2 DEF KeyFilesOwned
    <3>2. pull \in [Pullers -> Row \cup {None}] /\ DOMAIN ppc = Pullers
      BY <1>0 DEF PullTypes
    <3> QED
      BY <2>2, <3>1, <3>2
  <2>5. PullInv'
    BY <1>0, <2>2, <2>4 DEF PullInv, Holding
  <2>6. KeyFilesOwned'
    <3> SUFFICES ASSUME NEW r \in Pullers, keyFile[r] # ""
                 PROVE  /\ ppc'[r] \in {"open", "fetch", "reset", "failed"}
                        /\ NeedsKey(pull'[r]) /\ keyFile[r] = pull'[r].key
                        /\ lock[pull'[r].name] = r
      BY <2>2 DEF KeyFilesOwned, NeedsKey
    <3>1. r # p
      BY <2>4
    <3> QED
      BY <1>0, <2>4, <3>1 DEF KeyFilesOwned
  <2> QED
    BY <2>3, <2>5, <2>6
<1>5. ASSUME PullLock(p) PROVE Kept
  <2>1. /\ ppc[p] = "lock" /\ lock[pull[p].name] = None
        /\ lock' = [lock EXCEPT ![pull[p].name] = p]
        /\ ppc' = [ppc EXCEPT ![p] = "auth"] /\ UNCHANGED <<pull, keyFile, clone>>
    BY <1>5 DEF PullLock
  <2>2. pull[p].name \in Names
    BY <1>0, <2>1, PullsRow
  <2>3. PullTypes'
    BY <1>0, <2>1, <2>2 DEF PullTypes
  <2>4. /\ ppc'[p] = "auth" /\ \A r \in Pullers \ {p} : ppc'[r] = ppc[r]
        /\ lock'[pull[p].name] = p
    BY <1>0, <2>1, <2>2 DEF PullTypes
  <2>5. ASSUME NEW r \in Pullers \ {p}, ppc[r] \in Holding PROVE lock'[pull[r].name] = r
    <3>1. pull[r].name \in Names
      BY <1>0, <2>5, PullsRow DEF Holding
    <3>2. lock[pull[r].name] = r /\ r # None
      BY <1>0, <2>5, SettingsAssumption DEF PullInv
    <3> QED
      BY <1>0, <2>1, <2>2, <3>1, <3>2 DEF PullTypes
  <2>6. PullInv'
    BY <1>0, <2>1, <2>4, <2>5 DEF PullInv, Holding
  <2>7. KeyFilesOwned'
    <3> SUFFICES ASSUME NEW r \in Pullers, keyFile[r] # ""
                 PROVE  /\ ppc'[r] \in {"open", "fetch", "reset", "failed"}
                        /\ NeedsKey(pull[r]) /\ keyFile[r] = pull[r].key
                        /\ lock'[pull[r].name] = r
      BY <2>1 DEF KeyFilesOwned, NeedsKey
    <3>1. r # p
      BY <1>0, <2>1 DEF KeyFilesOwned
    <3> QED
      BY <1>0, <2>4, <2>5, <3>1 DEF KeyFilesOwned, Holding
  <2> QED
    BY <2>3, <2>6, <2>7
<1>6. ASSUME PullAuth(p) PROVE Kept
  BY <1>0, <1>3, <1>6, ForwardSettings DEF PullAuth, Holding
<1>7. ASSUME PullOpen(p) PROVE Kept
  <2>1. /\ ppc[p] = "open" /\ ppc' = [ppc EXCEPT ![p] = "fetch"]
        /\ UNCHANGED <<pull, lock, keyFile>>
    BY <1>7 DEF PullOpen
  <2>2. pull[p] \in Row /\ pull[p].name \in Names
    BY <1>0, <2>1, PullsRow
  <2>3. Cloned(pull[p], <<pull[p].url, "HEAD">>) \in Clones \ {None}
    BY <2>2, ClonedClone, SettingsAssumption
  <2>4. /\ clone' \in [Names -> Clones \cup {None}] /\ clone'[pull[p].name] # None
        /\ \A n \in Names : clone[n] # None => clone'[n] # None
    BY <1>3, <1>7, <2>2, <2>3 DEF PullOpen
  <2> QED
    BY <1>0, <2>1, <2>4, ForwardSettings DEF Holding
<1>8. ASSUME CloneKilled(p) PROVE Kept
  <2>1. /\ ppc[p] = "open" /\ ppc' = [ppc EXCEPT ![p] = "failed"]
        /\ UNCHANGED <<pull, lock, keyFile>>
    BY <1>8 DEF CloneKilled
  <2>2. pull[p] \in Row /\ pull[p].name \in Names
    BY <1>0, <2>1, PullsRow
  <2>3. PICK c \in {Cloned(pull[p], None), [url |-> None, remote |-> None, at |-> None]} :
           clone' = [clone EXCEPT ![pull[p].name] = c]
    BY <1>8 DEF CloneKilled
  <2>4. c \in Clones \ {None}
    <3>1. Cloned(pull[p], None) \in Clones
      BY <2>2, ClonedClone
    <3>2. [url |-> None, remote |-> None, at |-> None] \in Clones
      BY DEF Clones
    <3> QED
      BY <3>1, <3>2, SettingsAssumption
  <2>5. /\ clone' \in [Names -> Clones \cup {None}]
        /\ \A n \in Names : clone[n] # None => clone'[n] # None
    BY <1>3, <2>2, <2>3, <2>4
  <2> QED
    BY <1>0, <2>1, <2>5, ForwardSettings DEF Holding
<1>9. ASSUME PullFetch(p) PROVE Kept
  <2>1. clone[pull[p].name] # None
    BY <1>0, <1>9 DEF PullFetch, PullInv
  <2> QED
    BY <1>0, <1>3, <1>9, <2>1, ForwardSettings DEF PullFetch, Holding
<1>10. ASSUME PullFails(p) PROVE Kept
  BY <1>0, <1>3, <1>10, ForwardSettings DEF PullFails, Holding
<1>11. ASSUME PullNoKey(p) \/ PullNoRemote(p) \/ PullError(p) PROVE Kept
  BY <1>0, <1>3, <1>11, ReturnSettings DEF PullNoKey, PullNoRemote, PullError, Holding
<1>12. ASSUME PullReset(p) PROVE Kept
  <2> DEFINE c == [clone[pull[p].name] EXCEPT !.at =
                      <<clone[pull[p].name].url, pull[p].branch>>]
  <2>1. ppc[p] = "reset" /\ PullReturn(p) /\ clone' = [clone EXCEPT ![pull[p].name] = c]
    BY <1>12 DEF PullReset
  <2>2. pull[p] \in Row /\ pull[p].name \in Names
    BY <1>0, <2>1, PullsRow
  <2>3. clone[pull[p].name] \in Clones
    BY <1>0, <1>3, <2>1, <2>2 DEF PullInv
  <2>4. c \in Clones \ {None}
    <3>1. <<clone[pull[p].name].url, pull[p].branch>>
             \in (ValuesOf("url") \cup {None}) \X (ValuesOf("branch") \cup {"main", "HEAD"})
      <4>1. clone[pull[p].name].url \in ValuesOf("url") \cup {None}
        BY <2>3 DEF Clones
      <4>2. pull[p].branch \in ValuesOf("branch") \cup {"main", "HEAD"}
        BY <2>2 DEF Row
      <4> QED
        BY <4>1, <4>2
    <3>2. c \in Clones
      BY <2>3, <3>1 DEF Clones
    <3> QED
      BY <3>2, SettingsAssumption
  <2>5. /\ clone' \in [Names -> Clones \cup {None}]
        /\ \A n \in Names : clone[n] # None => clone'[n] # None
    BY <1>3, <2>1, <2>2, <2>4
  <2> QED
    BY <1>0, <2>1, <2>5, ReturnSettings DEF Holding
<1> QED
  BY <1>2, <1>4, <1>5, <1>6, <1>7, <1>8, <1>9, <1>10, <1>11, <1>12 DEF PullStep, SettingsInv

-----------------------------------------------------------------------------
\* The pulls stop and start with the process.
DownInv == \A p \in Pullers : ppc[p] = "down" <=> ppc[Main] = "down"

\* A step moves one pull that runs, or all of them at once.
LEMMA DownTogether == SettingsTypeOK /\ DownInv /\ SettingsNext => DownInv'
<1> SUFFICES ASSUME SettingsTypeOK, DownInv, SettingsNext PROVE DownInv'
  OBVIOUS
<1>1. ppc \in [Pullers -> {"idle", "lock", "auth", "open", "fetch", "reset", "failed", "down"}]
  BY DEF SettingsTypeOK
<1>2. Main \in Pullers
  BY DEF Pullers
<1>3. CASE HandlerNext
  <2>1. UNCHANGED ppc
    BY <1>3 DEF HandlerNext, DeleteRepo, CreateRepo, UpdateRead, UpdateWrite, UpdateNothing,
                CreateSSHKey, DeleteSSHKey, pulls
  <2> QED
    BY <2>1 DEF DownInv
<1>4. CASE SettingsCrash
  BY <1>2, <1>4 DEF SettingsCrash, DownInv
<1>5. CASE SettingsStart
  BY <1>2, <1>5 DEF SettingsStart, DownInv
<1>6. ASSUME NEW p \in Pullers,
             PullStep(p) \/ PullFails(p) \/ CloneKilled(p) \/ \E i \in Ids : PullRead(p, i)
      PROVE  DownInv'
  <2>1. ppc[p] # "down"
    BY <1>6 DEF PullStep, PullFails, CloneKilled, PullRead, PullLock, PullAuth, PullNoKey,
                PullOpen, PullFetch, PullNoRemote, PullReset, PullError
  <2>2. \E to \in {"idle", "lock", "auth", "open", "fetch", "reset", "failed"} :
           ppc' = [ppc EXCEPT ![p] = to]
    BY <1>6 DEF PullStep, PullFails, CloneKilled, PullRead, PullLock, PullAuth, PullNoKey,
                PullOpen, PullFetch, PullNoRemote, PullReset, PullError, PullReturn
  <2> QED
    BY <1>1, <1>2, <2>1, <2>2 DEF DownInv
<1> QED
  BY <1>3, <1>4, <1>5, <1>6 DEF SettingsNext

\* A crash leaves no pull, no lock and no handler; a start begins from there.
LEMMA RestartSettings ==
    SettingsInv /\ DownInv /\ (SettingsCrash \/ SettingsStart) => SettingsInv'
<1> SUFFICES ASSUME SettingsInv, DownInv, SettingsCrash \/ SettingsStart PROVE SettingsInv'
  OBVIOUS
<1>1. SettingsTypeOK /\ KeyFilesOwned
  BY DEF SettingsInv
<1>2. CASE SettingsCrash
  <2>1. /\ put' = [q \in Puts |-> None] /\ pull' = [p \in Pullers |-> None]
        /\ ppc' = [p \in Pullers |-> "down"] /\ keyFile' = [p \in Pullers |-> ""]
        /\ lock' = [n \in Names |-> None] /\ UNCHANGED <<rows, keys, clone, edited>>
    BY <1>2 DEF SettingsCrash
  <2>2. SettingsTypeOK'
    BY <1>1, <2>1 DEF SettingsTypeOK, Exists
  <2> QED
    BY <2>1, <2>2 DEF SettingsInv, PullInv, KeyFilesOwned, Holding
<1>3. CASE SettingsStart
  <2>1. /\ ppc[Main] = "down" /\ ppc' = [p \in Pullers |-> "idle"]
        /\ UNCHANGED <<rows, keys, put, pull, keyFile, lock, clone, edited>>
    BY <1>3 DEF SettingsStart, tables
  <2>2. \A p \in Pullers : ppc[p] = "down" /\ pull[p] = None /\ keyFile[p] = ""
    BY <1>1, <2>1 DEF DownInv, SettingsTypeOK, KeyFilesOwned
  <2>3. SettingsTypeOK'
    BY <1>1, <2>1, <2>2 DEF SettingsTypeOK, Exists
  <2> QED
    BY <2>1, <2>2, <2>3 DEF SettingsInv, PullInv, KeyFilesOwned, Holding
<1> QED
  BY <1>2, <1>3

\* No step changes more than its action says: the invariant is inductive.
LEMMA StepSettings == SettingsInv /\ DownInv /\ [SettingsNext]_rvars => SettingsInv' /\ DownInv'
<1> SUFFICES ASSUME SettingsInv, DownInv, [SettingsNext]_rvars PROVE SettingsInv' /\ DownInv'
  OBVIOUS
<1>1. CASE SettingsNext
  <2>1. DownInv'
    BY <1>1, DownTogether DEF SettingsInv
  <2>2. SettingsInv'
    BY <1>1, HandlerSettings, RestartSettings, PullSettings DEF SettingsNext
  <2> QED
    BY <2>1, <2>2
<1>2. CASE UNCHANGED rvars
  BY <1>2 DEF rvars, tables, pulls, SettingsInv, DownInv, SettingsTypeOK, PullInv,
              KeyFilesOwned, Exists, NeedsKey
<1> QED
  BY <1>1, <1>2

\* The inductive invariant holds of the settings, the pulls and the clones
\* (main.go:117-194, settings_handlers.go:81-345).
THEOREM SettingsInvariant == SettingsSpec => [](SettingsInv /\ DownInv)
<1>1. SettingsInit => SettingsInv /\ DownInv
  <2>1. SettingsInit => DownInv
    BY DEF SettingsInit, DownInv, Pullers
  <2> QED
    BY <2>1, InitSettings
<1> QED
  BY <1>1, StepSettings, PTL DEF SettingsSpec

\* Names stay unique and every variable has its type, for any number of rows, PUT
\* handlers and pulls.
THEOREM SettingsTypes == SettingsSpec => []SettingsTypeOK
<1>1. SettingsInv => SettingsTypeOK
  BY DEF SettingsInv
<1> QED
  BY <1>1, SettingsInvariant, PTL

\* A private key is on disk only during a pull of its row that holds the lock of the
\* clone, for any number of pulls (main.go:117-119, 182).
THEOREM KeyFilesAreOwned == SettingsSpec => []KeyFilesOwned
<1>1. SettingsInv => KeyFilesOwned
  BY DEF SettingsInv
<1> QED
  BY <1>1, SettingsInvariant, PTL

-----------------------------------------------------------------------------
\* Some row has this name, url and remote, or the name was edited since.
Backed(n, url, remote) ==
    \/ n \in edited
    \/ \E i \in Ids : /\ Exists(i) /\ rows[i].name = n
                      /\ rows[i].url = url /\ rows[i].remote = remote

\* The same of the next state.
StillBacked(n, url, remote) ==
    \/ n \in edited'
    \/ \E i \in Ids : /\ rows'[i] \notin {None, Deleted} /\ rows'[i].name = n
                      /\ rows'[i].url = url /\ rows'[i].remote = remote

\* The copy a pull works with is backed, and so is what a clone was made from.
CloneInv ==
    /\ \A p \in Pullers : pull[p] # None =>
          Backed(pull[p].name, pull[p].url, pull[p].remote)
    /\ \A n \in Names : clone[n] # None /\ clone[n].url # None =>
          Backed(n, clone[n].url, clone[n].remote)

\* What is backed stays so: a row goes, or changes its name, url or remote, only with
\* its name marked as edited (settings_handlers.go:81-263).
LEMMA BackedStays ==
    ASSUME SettingsTypeOK, SettingsNext
    PROVE  \A n, url, remote : Backed(n, url, remote) => StillBacked(n, url, remote)
<1> SUFFICES ASSUME NEW n, NEW url, NEW remote, Backed(n, url, remote)
             PROVE  StillBacked(n, url, remote)
  OBVIOUS
<1>a. rows \in [Ids -> Row \cup {None, Deleted}] /\ None \notin Row /\ Deleted \notin Row
  BY SettingsAssumption DEF SettingsTypeOK
<1>b. put \in [Puts -> [id : Ids, row : Row] \cup {None}]
  BY DEF SettingsTypeOK
<1>1. CASE UNCHANGED <<rows, edited>>
  BY <1>1 DEF Backed, StillBacked, Exists
<1>2. ASSUME NEW i \in Ids, NEW row \in NewRows, CreateRepo(i, row)
      PROVE  StillBacked(n, url, remote)
  <2>1. rows[i] = None /\ rows' = [rows EXCEPT ![i] = WithDefaults(row)] /\ UNCHANGED edited
    BY <1>2 DEF CreateRepo
  <2>2. \A j \in Ids : Exists(j) => rows'[j] = rows[j]
    BY <1>a, <2>1 DEF Exists
  <2> QED
    BY <2>1, <2>2 DEF Backed, StillBacked, Exists
<1>3. ASSUME NEW i \in Ids, DeleteRepo(i) PROVE StillBacked(n, url, remote)
  <2>1. rows' = [rows EXCEPT ![i] = Deleted] /\ edited' = edited \cup {rows[i].name}
    BY <1>3 DEF DeleteRepo
  <2>2. \A j \in Ids \ {i} : rows'[j] = rows[j]
    BY <1>a, <2>1
  <2> QED
    BY <2>1, <2>2 DEF Backed, StillBacked, Exists
<1>4. ASSUME NEW q \in Puts, UpdateWrite(q) PROVE StillBacked(n, url, remote)
  <2> DEFINE i == put[q].id
             row == NewRow(q)
  <2>1. i \in Ids /\ row \in Row
    <3>1. put[q] \in [id : Ids, row : Row]
      BY <1>b, <1>4 DEF UpdateWrite
    <3> QED
      BY <3>1, MergeRow DEF NewRow
  <2>2. /\ rows' = [rows EXCEPT ![i] = row]
        /\ edited' = IF \E f \in {"name", "url", "remote"} : row[f] # rows[i][f]
                       THEN edited \cup {rows[i].name} ELSE edited
    BY <1>4 DEF UpdateWrite
  <2> HIDE DEF i, row
  <2>3. rows'[i] = row /\ \A j \in Ids \ {i} : rows'[j] = rows[j]
    BY <1>a, <2>1, <2>2
  <2>4. edited \subseteq edited'
    BY <2>2
  <2>5. CASE n \in edited
    BY <2>4, <2>5 DEF Backed, StillBacked
  <2>6. CASE n \notin edited
    <3>1. PICK j \in Ids : /\ Exists(j) /\ rows[j].name = n
                           /\ rows[j].url = url /\ rows[j].remote = remote
      BY <2>6 DEF Backed, StillBacked
    <3>2. CASE j # i
      BY <2>3, <3>1, <3>2 DEF Backed, StillBacked, Exists
    <3>3. CASE j = i /\ \E f \in {"name", "url", "remote"} : row[f] # rows[i][f]
      BY <2>2, <3>1, <3>3 DEF Backed, StillBacked
    <3>4. CASE j = i /\ ~\E f \in {"name", "url", "remote"} : row[f] # rows[i][f]
      <4>1. row.name = n /\ row.url = url /\ row.remote = remote
        BY <3>1, <3>4
      <4> QED
        BY <1>a, <2>1, <2>3, <4>1 DEF Backed, StillBacked, Exists
    <3> QED
      BY <3>2, <3>3, <3>4
  <2> QED
    BY <2>5, <2>6
<1>5. ASSUME HandlerNext PROVE StillBacked(n, url, remote)
  <2>1. ASSUME NEW q \in Puts, NEW i \in Ids, UpdateRead(q, i) PROVE UNCHANGED <<rows, edited>>
    BY <2>1 DEF UpdateRead
  <2>2. ASSUME NEW q \in Puts, UpdateNothing(q) PROVE UNCHANGED <<rows, edited>>
    BY <2>2 DEF UpdateNothing
  <2>3. ASSUME NEW k \in SSHKeys, CreateSSHKey(k) \/ DeleteSSHKey(k)
        PROVE  UNCHANGED <<rows, edited>>
    BY <2>3 DEF CreateSSHKey, DeleteSSHKey
  <2> QED
    BY <1>1, <1>2, <1>3, <1>4, <1>5, <2>1, <2>2, <2>3 DEF HandlerNext
<1>6. ASSUME SettingsCrash \/ SettingsStart PROVE UNCHANGED <<rows, edited>>
  BY <1>6 DEF SettingsCrash, SettingsStart, tables
<1>7. ASSUME NEW p \in Pullers,
             PullStep(p) \/ PullFails(p) \/ CloneKilled(p) \/ \E i \in Ids : PullRead(p, i)
      PROVE  UNCHANGED <<rows, edited>>
  BY <1>7 DEF PullStep, PullFails, CloneKilled, PullRead, PullLock, PullAuth, PullNoKey,
              PullOpen, PullFetch, PullNoRemote, PullReset, PullError, tables
<1> QED
  BY <1>1, <1>5, <1>6, <1>7 DEF SettingsNext

\* A pull works with a copy of a row that was there when it was read; a clone is only
\* ever made from such a copy (main.go:170-194, git.go:131-183).
LEMMA CloneStep ==
    SettingsInv /\ CloneInv /\ [SettingsNext]_rvars => CloneInv'
<1> SUFFICES ASSUME SettingsInv, CloneInv, [SettingsNext]_rvars PROVE CloneInv'
  OBVIOUS
<1>0. SettingsTypeOK /\ PullTypes /\ PullInv
  BY DEF SettingsInv, SettingsTypeOK, PullTypes
<1>1. CASE UNCHANGED rvars
  BY <1>1 DEF CloneInv, Backed, Exists, rvars, tables, pulls
<1>2. CASE SettingsNext
  <2> DEFINE Pulls(p) == pull'[p] # None =>
                            StillBacked(pull'[p].name, pull'[p].url, pull'[p].remote)
             Made(n)  == clone'[n] # None /\ clone'[n].url # None =>
                            StillBacked(n, clone'[n].url, clone'[n].remote)
  <2>1. ASSUME NEW p \in Pullers, pull'[p] \in {None, pull[p]} PROVE Pulls(p)
    BY <1>0, <1>2, <2>1, BackedStays DEF CloneInv
  <2>2. ASSUME NEW n \in Names, clone[n] # None, clone'[n].url = clone[n].url,
               clone'[n].remote = clone[n].remote
        PROVE  Made(n)
    BY <1>0, <1>2, <2>2, BackedStays DEF CloneInv
  <2>3. ASSUME NEW n \in Names, clone'[n] = clone[n] PROVE Made(n)
    BY <1>0, <1>2, <2>3, BackedStays DEF CloneInv
  <2>4. ASSUME NEW p \in Pullers, ppc[p] = "open", NEW at,
               clone'[pull[p].name] = Cloned(pull[p], at)
        PROVE  Made(pull[p].name)
    <3>1. pull[p] # None
      BY <1>0, <2>4 DEF PullTypes
    <3>2. StillBacked(pull[p].name, pull[p].url, pull[p].remote)
      BY <1>0, <1>2, <3>1, BackedStays DEF CloneInv
    <3> QED
      BY <2>4, <3>2 DEF Cloned
  <2> HIDE DEF Pulls, Made
  <2> DEFINE Goal == (\A p \in Pullers : Pulls(p)) /\ (\A n \in Names : Made(n))
  <2>5. Goal => CloneInv'
    BY DEF CloneInv, Pulls, Made, Backed, StillBacked, Exists
  <2>6. ASSUME UNCHANGED <<pull, clone>> PROVE Goal
    BY <2>1, <2>3, <2>6
  <2>7. CASE HandlerNext
    <3>1. UNCHANGED <<pull, clone>>
      BY <2>7 DEF HandlerNext, DeleteRepo, CreateRepo, UpdateRead, UpdateWrite, UpdateNothing,
                  CreateSSHKey, DeleteSSHKey, pulls
    <3> QED
      BY <2>5, <2>6, <3>1
  <2>8. CASE SettingsCrash \/ SettingsStart
    <3>1. UNCHANGED clone /\ \A p \in Pullers : pull'[p] \in {None, pull[p]}
      BY <2>8 DEF SettingsCrash, SettingsStart
    <3> QED
      BY <2>1, <2>3, <2>5, <3>1
  <2>9. ASSUME NEW p \in Pullers, NEW i \in Ids, PullRead(p, i) PROVE Goal
    <3>1. /\ Exists(i) /\ pull' = [pull EXCEPT ![p] = rows[i]]
          /\ UNCHANGED <<rows, edited, clone>>
      BY <2>9 DEF PullRead, tables
    <3>2. pull'[p] = rows[i] /\ \A r \in Pullers \ {p} : pull'[r] = pull[r]
      BY <1>0, <3>1 DEF PullTypes
    <3>3. Pulls(p)
      BY <3>1, <3>2 DEF Pulls, StillBacked, Exists
    <3> QED
      BY <2>1, <2>3, <3>1, <3>2, <3>3
  <2>10. ASSUME NEW p \in Pullers, PullReturn(p) PROVE \A r \in Pullers : Pulls(r)
    <3>1. pull' = [pull EXCEPT ![p] = None]
      BY <2>10 DEF PullReturn
    <3>2. \A r \in Pullers : pull'[r] \in {None, pull[r]}
      BY <1>0, <3>1 DEF PullTypes
    <3> QED
      BY <2>1, <3>2
  <2>11. ASSUME NEW p \in Pullers, PullNoKey(p) \/ PullNoRemote(p) \/ PullError(p) PROVE Goal
    BY <2>3, <2>10, <2>11 DEF PullNoKey, PullNoRemote, PullError
  <2>12. ASSUME NEW p \in Pullers, PullLock(p) \/ PullAuth(p) \/ PullFetch(p) \/ PullFails(p)
         PROVE  Goal
    BY <2>6, <2>12 DEF PullLock, PullAuth, PullFetch, PullFails
  <2>13. ASSUME NEW p \in Pullers, PullOpen(p) PROVE Goal
    <3>1. ppc[p] = "open" /\ UNCHANGED pull
      BY <2>13 DEF PullOpen
    <3>2. CASE UNCHANGED clone
      BY <2>6, <3>1, <3>2
    <3>3. CASE clone' = [clone EXCEPT ![pull[p].name] =
                            Cloned(pull[p], <<pull[p].url, "HEAD">>)]
      <4>1. pull[p].name \in Names
        BY <1>0, <3>1, PullsRow
      <4>2. /\ clone'[pull[p].name] = Cloned(pull[p], <<pull[p].url, "HEAD">>)
            /\ \A n \in Names \ {pull[p].name} : clone'[n] = clone[n]
        BY <1>0, <3>3, <4>1 DEF PullTypes
      <4> QED
        BY <2>1, <2>3, <2>4, <3>1, <4>2
    <3> QED
      BY <2>13, <3>2, <3>3 DEF PullOpen
  <2>14. ASSUME NEW p \in Pullers, CloneKilled(p) PROVE Goal
    <3>1. ppc[p] = "open" /\ UNCHANGED pull
      BY <2>14 DEF CloneKilled
    <3>2. pull[p].name \in Names
      BY <1>0, <3>1, PullsRow
    <3>3. PICK c \in {Cloned(pull[p], None), [url |-> None, remote |-> None, at |-> None]} :
             clone' = [clone EXCEPT ![pull[p].name] = c]
      BY <2>14 DEF CloneKilled
    <3>4. /\ clone'[pull[p].name] = c
          /\ \A n \in Names \ {pull[p].name} : clone'[n] = clone[n]
      BY <1>0, <3>2, <3>3 DEF PullTypes
    <3>5. CASE c = Cloned(pull[p], None)
      BY <2>1, <2>3, <2>4, <3>1, <3>4, <3>5
    <3>6. CASE c = [url |-> None, remote |-> None, at |-> None]
      <4>1. Made(pull[p].name)
        BY <3>4, <3>6 DEF Made
      <4> QED
        BY <2>1, <2>3, <3>1, <3>4, <4>1
    <3> QED
      BY <3>3, <3>5, <3>6
  <2>15. ASSUME NEW p \in Pullers, PullReset(p) PROVE Goal
    <3> DEFINE old == clone[pull[p].name]
               c   == [old EXCEPT !.at = <<old.url, pull[p].branch>>]
    <3>1. ppc[p] = "reset" /\ PullReturn(p) /\ clone' = [clone EXCEPT ![pull[p].name] = c]
      BY <2>15 DEF PullReset
    <3>2. pull[p].name \in Names
      BY <1>0, <3>1, PullsRow
    <3>3. old # None /\ old \in Clones
      BY <1>0, <3>1, <3>2 DEF PullInv, PullTypes
    <3>4. c.url = old.url /\ c.remote = old.remote
      BY <3>3 DEF Clones
    <3>5. /\ clone'[pull[p].name] = c
          /\ \A n \in Names \ {pull[p].name} : clone'[n] = clone[n]
      BY <1>0, <3>1, <3>2 DEF PullTypes
    <3>6. Made(pull[p].name)
      BY <2>2, <3>2, <3>3, <3>4, <3>5
    <3> QED
      BY <2>3, <2>10, <3>1, <3>5, <3>6
  <2> HIDE DEF Goal
  <2> QED
    BY <1>2, <2>5, <2>7, <2>8, <2>9, <2>11, <2>12, <2>13, <2>14, <2>15
    DEF SettingsNext, PullStep
<1> QED
  BY <1>1, <1>2

\* A clone comes from the URL of its row, and knows the row's remote, as long as the
\* name was not given up and neither was changed, for any number of rows, handlers and
\* pulls with old copies of rows (git.go:131-158, main.go:170-194).
THEOREM CloneOfItsRow == SettingsSpec => []CloneIsRows
<1>1. SettingsInit => CloneInv
  BY DEF SettingsInit, CloneInv
<1>2. SettingsInv /\ CloneInv => CloneIsRows
  <2> SUFFICES ASSUME SettingsInv, CloneInv, NEW i \in Ids, Exists(i),
                      rows[i].name \notin edited, clone[rows[i].name] # None,
                      clone[rows[i].name].url # None
               PROVE  /\ clone[rows[i].name].url = rows[i].url
                      /\ clone[rows[i].name].remote = rows[i].remote
    BY DEF CloneIsRows
  <2>1. rows[i].name \in Names
    BY DEF SettingsInv, SettingsTypeOK, Exists, Row
  <2>2. \A j \in Ids : Exists(j) /\ rows[j].name = rows[i].name => i = j
    BY DEF SettingsInv, SettingsTypeOK
  <2> QED
    BY <2>1, <2>2 DEF CloneInv, Backed
<1> QED
  BY <1>1, <1>2, CloneStep, SettingsInvariant, PTL DEF SettingsSpec
=============================================================================
