# stackd: TLA+ models, model checks and proofs

stackd is a single Go process that keeps docker compose stacks in step with git
repositories. It lists the repositories of its database, pulls each clone on
the repository's own interval, runs `docker compose up -d` for every stack when
the HEAD commit has changed, and serves a dashboard and an API on the side.
Nothing of the sync state is persisted: a restart begins with an empty store.

This directory models the parts of the program in which steps of several
goroutines, failures or the order of things decide whether it is right. The
modules are translations of the Go code (`PROJECT.json`, "map", has the lines
of every definition). TLC checks them on small instances, and TLAPS proves the
central invariants for every value of the constants.

## Inventory

| Part | State | Operations | Interacts through |
|---|---|---|---|
| Sync engine (`main.go`) | store entries per repo (status, LastSHA) and per stack, `repoLocks`, `repoBackoffs`, `repoNextDue`; clone directories on disk | startup scan, `doSyncRound`, trigger batch, `syncRepoFromDB`, `runStacksSync`, `applyStack` | database rows, git, docker compose, store, trigger channel |
| Per-stack apply (`server.go`, callback in `main.go`) | `Server.applying` | `handleApplyStack`, callback: look up, pull, apply, refresh | repo lock, clone, store |
| Scheduling (`main.go`, `server.go`) | ticker, due times, backoff, `rateLimiter`, channel `syncTrigger` | `dueForSync`, `markScheduled`, `recordSyncFailure`, `shouldSkipSync`, `handleSync` | main loop's `select` |
| State store (`state.go`) | maps behind an RWMutex | `UpdateRepo`, `UpdateStack`, `UpdateStackContainers`, getters | everything |
| Containers and docker client (`main.go`, `docker/`) | `ClientHolder`, container lists of the store | `refreshContainers`, container actions, `refreshContainerState` | docker daemon, store |
| Activity bus (`state.go`) | subscriber channels behind a mutex | `Publish`, `Subscribe`, cancel, `handleActivity` | publishers: sync and apply goroutines; SSE clients |
| Dashboard token (`main.go`, `settings_handlers.go`) | `settings` row, token file, `Server.tokenVal` | `ensureDashboardToken`, `PUT /api/settings/general`, `authMiddleware` | database, file system |
| Repository settings (`settings_handlers.go`, `db/`) | tables `repos` and `ssh_keys` | create, update, delete | main loop lists the rows; pulls work with copies |
| Git (`git/`) | the clone and its `.git/config`, temporary key files | clone, fetch, reset, HEAD, validators | engine, under the repo lock |
| Exec and log streams (`server.go`, `docker/`) | per session: context, hijacked connection, socket, three goroutines | bridge of a PTY to a WebSocket, SSE | docker daemon, client |
| Database (`db/`) | schema version and dirty flag, seeded rows | `Open`, migrations with repair of a dirty version | start-up |
| Dashboard (`internal/ui`) | token in local storage, polled status | polling, login gate, actions | API |
| Metrics, crypto, execpg, compose | counters; none; process groups; a constant | | |

What is hard in this code:

* the main goroutine and any number of per-stack applies share a clone, and the
  lock covers only a part of what an apply does;
* the SHA to compare with lives in memory, the clone on disk, what runs in docker:
  three places that a crash, a failed pull or a per-stack apply moves apart;
* a pull can fail in the middle of a reset; one stack of several can fail to apply;
* backoff, suspension, manual triggers and the ticker influence each other;
* container lists are read from docker and written to the store without a lock;
* channels are closed outside the mutex that guards the sends;
* the token is in three places, written one after the other;
* a repository's row is read, changed and written back in separate steps, and a pull
  works with a copy while the clone remembers an older URL and remote;
* an exec session is three goroutines, two connections and a timer that have to take
  each other down, with peers that may hang;
* a start can be cut short between the writes of a migration, and the repair runs all
  of them again over a database in use.

"hazards" in `PROJECT.json` lists each of these at its line, with the properties
that would notice it going wrong.

## Modules

| Module | What it is |
|---|---|
| `SyncEngine` | Sync engine, per-stack apply, trigger channel, store, process life cycle |
| `MCSyncEngine` | Instances: two commits; under directory `d1` stack `s1` in both and `s2` only in the second, under `d2` only `s2` |
| `SyncEngineProofs` | Its theorems |
| `Deployment`, `MCDeployment`, `DeploymentProofs` | `SyncEngine` composed with docker: what really runs, project by project |
| `Scheduler`, `SchedulerProofs` | Ticker, intervals, backoff, rate limiter and channel, in discrete time |
| `Containers`, `MCContainers`, `ContainersProofs` | Docker client holder and the writers of container lists |
| `ActivityFeed` | Abstract: what `/api/activity` promises a client |
| `ActivityBus`, `ActivityBusProofs` | The bus, and the proof that it implements the feed |
| `DashboardToken`, `DashboardTokenProofs` | Token at start-up and by PUT, with failures and crashes |
| `Migrations` | `db.Open`: migrations, and the repair of a dirty database |
| `Startup`, `StartupProofs` | `Migrations` and `DashboardToken` composed over the settings table; it implements `DashboardToken` |
| `RepoSettings`, `MCRepoSettings`, `RepoSettingsProofs` | Rows of repositories and keys, their handlers, and the pulls made from copies |
| `Sessions` | Exec sessions and log streams |

### SyncEngine

One action per step between two points at which another goroutine may act. The
main goroutine's `mpc` is `down` before `main()`; `list` at the head of the loop;
`pick` between two repositories of a pass (`mode`: `startup`, `round`, `trigger`);
`lock`, `pull`, `head`, `stacks`, `compose` inside `syncRepoFromDB`; `select` and
`drain` in the wait. An apply goroutine is `idle`, `begin`, `lock`, `pull`, `ready`,
`compose`.

* A commit is a model value, a clone is a commit, `NoSHA` (none) or `Torn`: a tree of
  no single commit, during a reset or after one that was cut short.
* `repoStatus`, `lastSHA` and `stackStatus` are the fields of the store the properties
  speak of; the others (texts, times) are left out.
* `waiting[r]` and `due[r]` stand for the two comparisons with the clock; time may
  turn them at any moment (`Scheduler` has the clock itself).
* A fault of kind `git` stands for everything that makes `gitSyncToDisk` or `HeadSHA`
  fail: authentication, decryption, the database query of the key, a path that is
  refused, the network, the timeout. `db` are failing queries, `compose` failing
  applies, `fs` directories that cannot be read.
* After `Signal` every operation that looks at the context may fail; `Exit` ends the
  process from `select`, with whatever the other goroutines are doing.
* A pass visits its repositories in any order; the code goes by name.
* The development seed (`DEV_SEED`) is not modelled.
* `StacksOf[c][d]` are the stacks commit `c` has under directory `d`. A PUT may change
  the row's `stacksDir`; main works with the directory of the rows it listed
  (`listedDir`), a per-stack apply with the one in the store (`stackDir`), which it
  reads before its pull and writes back.
* A reset to the commit that is checked out rewrites no file (`Rewrites`).
* History variables, since the process started: `tried`, commit and directory of the
  sync loop's last compose run of each stack; `edited`, repositories whose directory
  was edited since main last listed the rows; `moved`, those edited after the list from
  which their stacks were last applied.

### Deployment

Adds `running[p]`, what compose project `p` last brought up: the repository and stack
that did it, the commit and the directory it read. It is joined to the steps of
`SyncEngine` that end a compose run. A run that reports an error may have brought its
content up or not. `Project[s]` is the project name of a stack directory; it depends on
nothing but the directory's base name (`client.go:145-153`), so stacks of one or of
several repositories may share a project and take it from each other. `forced` are the
stacks applied by hand since the process started.

### Scheduler

Each stored point in time is a countdown. Time advances only while main waits in
`select` or a sync is running (main is otherwise taken to act at once), and a sync
takes up to `MaxSync` units. Between two passes main also lists the rows, reads the
settings (each with a timeout of seconds) and refreshes the containers; that time is
not counted and comes on top of `WaitBound`, as does the wait for the next tick after
a list that failed. `overdue` and `streak` are history clocks, cut off at
the bounds the properties state.

### Containers

A stack's entry has its status and its list of containers; a list is a state of
its project (`Project[k]`), or `Nothing`. `applyStack` writes the whole entry;
`refreshContainers` and `refreshContainerState` copy the entries, ask docker for
each, and write the list. Three kinds of goroutine interleave between any of
these. `held[g]` is the entry in `Server.applying` an apply goroutine keeps until its
refresh is over, whichever entries the refresh is at. The client holder starts empty if
docker could not be reached.

### ActivityBus and ActivityFeed

An event is its number. `Publish` takes the mutex, sends to one subscriber after
the other without blocking, and releases it; cancel deletes under the mutex and
closes after it. The feed's clients see increasing event numbers from their
connection on. The refinement maps `published` to the number of events and
`seen[h]` to the last event written to client h's response.

### DashboardToken

Start-up in the order of the code: environment, database, generate, file,
database. A crash is possible between any two steps and inside the file write.
`late` is a write that is stored although its context has expired. `Known` is what
an operator can present: the environment's token, the content of the token file,
and every token asked for in a PUT.

### Migrations and Startup

A migration is three writes of golang-migrate: version and dirty flag, the body,
flag off. `OpenStops` cuts `Open` short between any two of them. A setting is
`absent`, `seed` (as a migration left it) or `set` by an operator; rows that
migrations treat alike are one key. `MigrationsInit` is a database of any earlier
version. `Startup` runs `Open` first, then the token's start-up and the server;
`Running` joins every step of `DashboardToken` to the rows it writes, those a PUT
stores before and after the token included, and `PutOthers` is a PUT without one.

### RepoSettings

A row has the fields a pull depends on. Each id is used once; a name can be used
again. `handleUpdateRepo` is two steps, a read and a write (`put[q]` is what it has
read). A pull is the lock, the credentials (`keyFile`), the clone if there is none,
fetch and reset; it works with the row as it was listed (`pull[p]`). A clone keeps
the URL and the remote it was made with; `at` is what is checked out: a URL and a
branch, `"HEAD"` for the default one. A killed clone leaves a directory with or
without the remote in its configuration. `edited` is a history variable: the names
that were given up or got another URL or remote. A pull may begin for any row at any
time or never: what decides it, the enabled flag, backoff and suspension, is in
`SyncEngine` and `Scheduler`.

### Sessions

`hpc`, `rpc` and `wpc` are the handler, the reader of the PTY and the watcher of the
context; `ctx`, `conn`, `ws` and `shell` what they share. A read or write blocks until
its peer acts or its connection is closed, and the peers may hang: a client that
stays and neither reads nor writes, a shell that does not read. After the upgrade
the request's context does not end with the client. Sessions share nothing, so one
of each kind is enough.

## Runs

| Run | Question | Result |
|---|---|---|
| `engine` | Main and two applies on one repo; failing pulls, applies and queries, signals, crashes | holds, 2 million states |
| `live` | Convergence, retry and termination under fairness, with failing git; limit of 2 failures | holds, 160,000 states |
| `deployment` | What docker runs, and what was applied, against what is recorded; two stacks that share a project, two directories, failing applies | holds, 3 million states |
| `torn` | "cannot race on the same clone directory" | refuted |
| `startup` | Migrations cut short and repaired, failing and late writes, crashes, two concurrent PUTs | holds, 60,000 states |
| `token_sync` | "never leaves the running token out of sync" | refuted |
| `scheduler` | Bounded wait and backoff with five failures, manual syncs, changing intervals | holds, 1.4 million states |
| `bus` | Two publishers, two clients, channels of two | holds |
| `containers` | Failing docker, racing reconnection, three writers of an entry, readiness | holds |
| `sessions` | Do goroutines, connections and handlers end, whatever the peers do | holds, 15,000 states |
| `timeout` | "Session timeout: 30 minutes" | refuted |
| `repos` | Overlapping updates, renames, re-creation, deleted keys; pulls that fail, are killed or die | holds, 650,000 states |

What the refuted ones show:

* `torn`: the callback releases the repo lock after its pull (`main.go:885`) and runs
  compose in the clone afterwards (`main.go:895`); a sync that takes the lock then
  resets the tree under it. A push between the two pulls is needed, since a reset to
  the same commit writes nothing.
* `token_sync`: `default_sync_interval` is stored after the token; if that fails, the
  new token is stored, the old one stays live, and the next start changes it. Two PUTs
  that store in one order and set in the other do the same without any failure (with
  `Faults = {}` TLC shows this trace).
* `timeout`: when the cap elapses the watcher closes the connection to docker; the
  handler is blocked in `ws.ReadMessage` (`server.go:809`), which sees neither. It
  ends when the client leaves or types something, and not before.

Other places where the code and its documents differ, visible in the models:

* The SHA gate of `main.go:656` also applies to manual syncs: after a failed apply,
  neither rounds nor manual syncs apply the stack again until a new commit arrives
  (docs/api.md:126, "pull + apply all stacks"); the per-stack apply does.
* `main.go:1003` does not tell a failed read from a missing row: with `"read"` among
  the faults of `Startup.cfg`, TLC refutes `PersistedKept`.
* docs/security.md:7 ("By default, the dashboard API is open") and
  docs/configuration.md:36 and 80 ("If unset, the API is open", "No auth (open access)")
  describe a server without a token; `ensureDashboardToken` always finds or generates
  one and `main` exits when it cannot (`main.go:994-1028`). The theorem
  `AlwaysFailClosed` is the code's side.
* docs/configuration.md:36 and docs/architecture.md:154 give the environment's token
  precedence over the stored one. That holds at start-up; a later PUT stores its token
  and makes it the live one of the same process (`settings_handlers.go:441`), until the
  next start with the variable takes it back. `LiveInSync` therefore speaks of
  processes without the variable.
* `/readyz` goes back to 503 while the only stack is applied again; docs/observability.md
  says 503 "until then". `ReadyAgain` is what does hold.
* A changed URL is stored but the clone keeps fetching from the old one, and a
  changed remote makes every pull fail, until somebody removes the directory. These
  are two of the exceptions in `RowsSettle`; the others are a missing key and a clone
  that was killed before it knew its remote.
* An edited `stacksDir` takes effect with the next commit only: `syncRepoFromDB` compares
  the SHA and nothing else (`main.go:656`), and a repository that is deleted and created
  again with another directory inherits the SHA of the old one. An edit that overtakes
  the list of rows can even let one more commit be applied from the old directory.
  This is the exception `moved` of `RecordedShaApplied` and `DeployedIsRecorded`.
* Stack directories of the same base name, in one repository or in two, are one compose
  project (`client.go:149`): the later apply takes it from the earlier one, and the
  store shows both as ok. This is the last disjunct of `DeployedIsRecorded`.
* Of two overlapping PUTs of one row the later write puts back the fields the other one
  has changed (`settings_handlers.go:243`): `UpdateWrite` writes the row `UpdateRead` took.
* A crash during a pull leaves the private key's file in the key directory, and no
  start removes it. `KeyFilesOwned` is about a running process.

### Bounds, and why they are enough

One repository is enough for `SyncEngine`: every variable is indexed by repository,
repositories meet only in the main goroutine's passes and in the channel, and the
theorems cover any number. Two workers make lock contention among applies
possible. Two commits give pushes and force-pushes back; the commit with one stack
less makes stacks disappear. A limit of 2 failures has a backoff and a suspension.
`engine`, `live` and `torn` have one stacks directory; with two, `engine` would take
longer than five minutes. `deployment` has two and checks `RecordedShaApplied` with them. It
has one worker, one project for both stacks, and no manual syncs or disabled rows
(`Scheduled`); stacks of two repositories that share a project meet in no other way
than those of one, and the theorem has any number of both. `engine` leaves out disabled
rows (`RowsEnabled`); `live` has them.
`Scheduler` has two repositories, so that one waits for the other, five failures,
so that the backoff reaches its cap (2, 4, 8, 8), and a channel of one, so that it is
full. `ActivityBus` stops after `MaxEvents` events, twice a channel's capacity, so
that channels fill up, drain and fill again. `Containers` has one stack: writers of
different stacks do not meet. `DashboardToken` has three generated tokens, one for
each of several starts that are cut short. `Startup` has the four migrations of the
repository and databases of all five versions. `RepoSettings` has two rows, so that a
name is used again and a rename can be refused, two overlapping PUTs (one names the
key, the other moves the row) and one puller, main; `RepoSettingsProofs` covers
any number of pullers. `Sessions` has three candidate shells for the
code's five: one that fails, one that is used, and one more.

Symmetry is used for the workers of the `engine` run; the liveness runs use none.

### Fairness

`live` assumes that a goroutine which can run does (Go's scheduler), that a waiter
gets a mutex that is free again and again (`sync.Mutex` hands over to starving
waiters), that timers fire, and that the drain loop finds the channel empty at some
point (it takes microseconds; senders are spaced by the rate limiter). Nothing is
assumed about requests, pushes or failing git commands: `Converges` and
`RetriedOrSuspended` say what happens if those failures go on. Queries do not fail in this
run: a list of rows that fails for ever (`main.go:931`) keeps main from every repository,
and neither property would hold. `bus` assumes only that a goroutine inside
`Publish` goes on. `containers` assumes that goroutines go on and that the main
goroutine ends its passes again and again. `startup` assumes that a process that was
started goes on and is started again when it ends (a container's restart policy).
`sessions` assumes that goroutines run, the cap's timer fires and a lost connection is
noticed, and nothing of clients, shells and containers. `repos` assumes only that a pull
that was begun goes on. `RowsSettle` speaks of runs in which pulls no longer fail and
nobody edits, and of the rows for which pulls go on beginning: a row that is disabled, or
suspended and never triggered, is passed over (`main.go:912-917`) and promised nothing.

## Proofs

All theorems hold for arbitrary sets of repositories, stacks, commits, workers,
tokens, rows, pulls, requests, publishers and clients, under the named assumptions on the
constants, which TLC evaluates in the runs.

**SyncEngineProofs.** `TypeOK` is not inductive: `cur` must be a repository when main is
inside a sync, a lock must be held by the goroutine that is in its section. `Core`
adds three parts: `Scope` (locals have values exactly while their function runs),
`LockInv` (whoever is in a guarded section holds the lock, so two holders would be
equal) and `HeadInv` (after main's pull the clone holds a whole commit, the one that
will be recorded, because only lock holders move it). From `Core` follow
`TypeCorrect`, `RepoLockExclusion` and `AppliesHead`. `RecordedApplied` adds that the
stacks still to be applied and those already tried at the new commit together are
those of the commit under the listed directory, and that a recorded SHA equal to the
pulled one has been tried before: this is where it matters that the store's SHA and not
the clone's is compared. For a repository that is not `edited` the listed directory is
the row's; one that is `edited` is also `moved`, and leaves `moved` only when a new commit
is applied from a list made after the edit. That ties the directory of `tried` to the
row's. It assumes `"fs" \notin Faults`, since an unreadable directory is skipped
silently. `BackoffCorrect` needs that no sync of a suspended repo is running unless a
trigger has reset it. `SuspensionSticky` is an action property from the same
invariant. `SyncingLive`, `ApplyingLive` and `ApplyOnce` are inductive relative to
`Core`. Frame lemmas say which actions touch which variables, so that each proof
only looks at the actions that matter.

**DashboardTokenProofs.** `LiveInv` says where each copy of a token comes from; with it
`AlwaysFailClosed` and `LiveStored`. `KnownInv` adds that the token being persisted is
the one in the file: `NeverLockedOut` and `StoredTokenKept`, both for a database that
can be read at start-up.

**StartupProofs.** The invariant says which versions' effects are in the database for
sure: the version row, or one less while it is dirty and the body may not have run
(`AppliedUpTo`). `Applied` lists their rows, `TokenRow` ties the token's value to its
row. The repair makes the claim empty and the bodies rebuild it, which needs that a
body leaves rows alone that are there. From it follow `OpenedIsCurrent`, `SettingsKept`
(an action property) and `ImplementsToken`: every step of `Open` is a stutter of
`DashboardToken`, so its theorems hold of the whole start-up, as `TokenSurvivesRepair`
states for two of them.

**RepoSettingsProofs.** `SettingsInv` adds to the types that whoever is past the lock of a
clone holds it and that a clone being fetched is there (`PullInv`); `DownInv`, that all
pulls stop with the process, is needed for the restart. From them follow `SettingsTypes`
and `KeyFilesAreOwned`. `CloneInv` says that the copy a pull works with, and what a clone
was made from, is the name, URL and remote of some row, or the name was edited since;
`BackedStays` is the reason: only an edit of the row can take that away. With the
uniqueness of names it gives `CloneOfItsRow`.

**ActivityBusProofs.** `BusInv`: the mutex belongs to the one publisher that is sending,
its targets are registered, registered channels are open, and every channel holds
increasing numbers between the last one shown and the count. With it no send goes
to a closed channel, and every step of the bus is a step of the feed or none.
`DropsOnlyWhenFull` is inductive relative to `BusInv`: the event a publisher has not yet
sent to a handler is the next one of that handler, since the mutex is held until all
handlers have it.

**ContainersProofs.** `ClientsAccounted` is not inductive. `ClientInv` adds how the race for
the holder goes: it is written once; whoever asks docker uses its client; each
goroutine that still races has an open client of its own that no other has. The types need
it as well (a closed client was opened). `NeverReverted` is inductive by itself: the refreshes
write the list and leave the status alone, which is what `UpdateStackContainers` is for.

**DeploymentProofs.** A lemma carries the theorems of `SyncEngineProofs` over.
`DeployInv` says that the project of a stack shown `ok` which no goroutine has force-applied
runs what main's last compose run gave that stack, or was last brought up by another stack
of the same project name, of whichever repository. It is kept because a key in the `applying` map counts as forced
until the process ends, so that a worker cannot write the status of a stack that is not
forced, and because a new process shows no stack `ok`. Together with `RecordedShaApplied`
this is `DeployedRecorded`, under the same `"fs" \notin Faults`: an unreadable stack is
skipped and keeps its old `ok`.

**SchedulerProofs.** `SchedulerCore` adds to the types that a repo is suspended exactly at the
limit, that the repo being synced is neither held back nor at the limit, and that a pass
visits a repo once. For `NotSuspendedEarly` the account is `streak + allowIn`: time moves from
the second to the first, and each failure adds its backoff, so the sum is never below the
backoffs so far; the interval may change at any moment but is never below the shortest. For
`WaitIsBounded`, `Rest(r)` is the time a waiting repo may still have to wait, by where
main is: the syncs ahead of it in the pass, or the rest of the pass, the next tick, a
batch of manual syncs and a last round. No step increases `overdue + Rest` and time
moves from `Rest` to `overdue`. The subtle case is a batch that has just synced every other
repo: with two repos, the one it synced is not due in the round after it, which is why the
third term of `WaitBound` appears only with three. Repositories and intervals are finite sets.
The library's induction theorems take operators; where a proof needs induction (largest
element of a finite set, totals over a set of syncs) it takes the least element of a
well-founded order among the counterexamples instead. `Backoffs` is shown to satisfy its
recursive equation by its closed form (0, 2, then 8n - 10). `Factor` names the third
failure as the one at which 2^n meets the cap, as the provers know no powers.

Every invariant and action property the passing runs check is proved. Only
model-checked are the liveness properties (`Converges`, `RetriedOrSuspended`, `ApplyEnds`,
`PublishEnds`, `ViewSettles`, `ReadyAgain`, `OpensAgain`, `RowsSettle`, and `SessionTornDown`,
`EndsUnlessSilent` and `LogStreamEnds` of `Sessions`), since the prover handles neither
fairness nor ENABLED.

## Not modelled

* The dashboard's client code: one thread, polling; its forms and layout.
* Validators of names, URLs and refs, redaction, masking, placeholder rewriting: pure
  string processing, taken as passed by the requests of the models.
* Crypto (standard library), metrics (counters nothing depends on), process groups (an
  operating system matter: a cancelled command ends).
* The PAT of a row, which is copied like branch. `stacksDir` and the interval are not in
  `RepoSettings`, where no pull depends on them, but in `SyncEngine` and `Scheduler`.
* How compose makes a project name of a directory: `Deployment` and `Containers` take the
  result as a parameter.
* The time main spends between two passes (see Scheduler), and requests lost to a full
  trigger channel or delayed by an old due time: in the models, but no document
  says what should happen and no property speaks of them.
* The GET handlers, formatting, texts and logging.

## Plan

1. `SyncEngine` and its proofs, `Deployment`, `DashboardToken`, `Scheduler`, `ActivityBus`,
   `Containers`: done.
2. `RepoSettings`, `Sessions`, `Migrations` and `Startup` with their runs, `StartupProofs`,
   readiness in `Containers`: done.
3. `RepoSettingsProofs`: done.
4. `DeploymentProofs`, `ContainersProofs`, `SchedulerProofs`, `NoGaps` of the bus: done. No
   invariant of a run is left without a theorem.
5. An abstract specification of the engine (every commit that stays is applied, in
   order, at most once per process) for `SyncEngine` to refine.
