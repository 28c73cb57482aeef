------------------------------- MODULE Containers -------------------------------
(***************************************************************************)
(* What the dashboard shows of docker: the shared docker client and its    *)
(* reconnection (internal/docker/holder.go), and the three writers of a    *)
(* stack's entry in the state store.  applyStack replaces the entry, twice *)
(* per run; refreshContainers (main goroutine and apply goroutines) and    *)
(* refreshContainerState (after a container was started, stopped or        *)
(* restarted) ask docker and then replace its list of containers.  Nothing *)
(* keeps them apart between the question and the write.                    *)
(***************************************************************************)
CONSTANTS
    Keys,       \* entries <repo>/<stack> the store may have
    Project,    \* Project[k]: composeProjectName of the stack's directory
    Main,       \* the main goroutine
    Appliers,   \* goroutines of POST /api/stacks/{repo}/{stack}/apply
    Asyncs,     \* goroutines that run refreshContainerState
    Clients,    \* docker clients the process may create
    NoClient,   \* the nil client
    States,     \* states the containers of a project may be in
    Nothing,    \* no containers: the empty list
    Faults      \* which operations may fail: a subset of ContainerFaults

ContainerFaults == {"connect", "list", "compose"}

ASSUME ContainersAssumption ==
    /\ Keys # {} /\ Main \notin Appliers /\ NoClient \notin Clients /\ Nothing \notin States
    /\ Faults \subseteq ContainerFaults

VARIABLES
    docker,    \* docker[p]: state of the containers of project p
    holder,    \* ClientHolder.p
    opened, closed,  \* docker clients created, and those closed again
    status,    \* StackState.Status, "none" when the store has no entry
    view,      \* StackState.Containers
    \* locals of the goroutines that apply and refresh
    pc, key,   \* where it is, and the stack it is at
    held,      \* its entry in Server.applying, if it has one
    client,    \* the client it uses or has just created
    snap,      \* the Status fields of its GetAllStacks
    todo,      \* entries of snap it has not visited
    read,      \* what docker answered
    \* locals of the goroutines of container actions
    apc, akey, aproj, atodo, aread

dockVars  == <<holder, opened, closed>>
storeVars == <<status, view>>
goVars    == <<pc, key, held, client, snap, todo, read>>
asyncVars == <<apc, akey, aproj, atodo, aread>>
cvars == <<docker, dockVars, storeVars, goVars, asyncVars>>

Projects   == {Project[k] : k \in Keys}
Goroutines == {Main} \cup Appliers
Known      == {k \in Keys : status[k] # "none"}
Answers    == States \cup {Nothing}
Unknown    == [k \in Keys |-> "none"]

\* The client is made at start-up; without one the process starts all the same.
ContainersInit ==
    /\ docker \in [Projects -> Answers]
    /\ \/ \E c \in Clients : holder = c /\ opened = {c}
       \/ "connect" \in Faults /\ holder = NoClient /\ opened = {}
    /\ closed = {}
    /\ status = Unknown /\ view = [k \in Keys |-> Nothing]
    /\ pc = [g \in Goroutines |-> "idle"]
    /\ key \in [Goroutines -> {CHOOSE k \in Keys : TRUE}]
    /\ held = [g \in Goroutines |-> {}]
    /\ client = [g \in Goroutines |-> NoClient]
    /\ snap = [g \in Goroutines |-> Unknown]
    /\ todo = [g \in Goroutines |-> {}]
    /\ read = [g \in Goroutines |-> Nothing]
    /\ apc = [a \in Asyncs |-> "idle"]
    /\ akey \in [Asyncs -> {CHOOSE k \in Keys : TRUE}]
    /\ aproj \in [Asyncs -> {CHOOSE p \in Projects : TRUE}]
    /\ atodo = [a \in Asyncs |-> {}]
    /\ aread = [a \in Asyncs |-> Nothing]

Goto(g, l)      == pc' = [pc EXCEPT ![g] = l]
AsyncGoto(a, l) == apc' = [apc EXCEPT ![a] = l]

\* Containers die, are removed or restart by themselves.
DockerChanges(p, d) ==
    /\ d # docker[p]
    /\ docker' = [docker EXCEPT ![p] = d]
    /\ UNCHANGED <<dockVars, storeVars, goVars, asyncVars>>

-----------------------------------------------------------------------------
(***************************************************************************)
(* applyStack.                                                             *)
(***************************************************************************)

\* The main goroutine applies one stack after the other, an apply goroutine one
\* known stack that no other apply goroutine was started for.
MayApply(g, k) ==
    \/ g = Main /\ pc[g] \in {"idle", "applied"}
    \/ /\ g \in Appliers /\ pc[g] = "idle" /\ k \in Known
       /\ \A h \in Appliers : k \notin held[h]

\* UpdateStack: a fresh entry, without containers.
ApplyBegin(g, k) ==
    /\ MayApply(g, k)
    /\ Goto(g, "compose") /\ key' = [key EXCEPT ![g] = k]
    /\ held' = [held EXCEPT ![g] = IF g = Main THEN {} ELSE {k}]
    /\ status' = [status EXCEPT ![k] = "applying"]
    /\ view' = [view EXCEPT ![k] = Nothing]
    /\ UNCHANGED <<docker, dockVars, client, snap, todo, read, asyncVars>>

\* Mutant: a failed stack is taken out of the store.
ComposeFails_Removed(g) ==
    /\ pc[g] = "compose" /\ "compose" \in Faults
    /\ \E d \in Answers : docker' = [docker EXCEPT ![Project[key[g]]] = d]
    /\ status' = [status EXCEPT ![key[g]] = "none"]
    /\ view' = [view EXCEPT ![key[g]] = Nothing]
    /\ Goto(g, "applied")
    /\ UNCHANGED <<dockVars, key, held, client, snap, todo, read, asyncVars>>

\* docker compose up -d succeeds; with a client the new containers are looked up.
ComposeUp(g) ==
    /\ pc[g] = "compose"
    /\ \E d \in Answers : docker' = [docker EXCEPT ![Project[key[g]]] = d]
    /\ Goto(g, IF holder # NoClient THEN "lookup" ELSE "store")
    /\ UNCHANGED <<dockVars, storeVars, key, held, client, snap, todo, read, asyncVars>>

\* It fails, perhaps half way: the entry says so, without containers.
ComposeFails(g) ==
    /\ pc[g] = "compose" /\ "compose" \in Faults
    /\ \E d \in Answers : docker' = [docker EXCEPT ![Project[key[g]]] = d]
    /\ status' = [status EXCEPT ![key[g]] = "error"]
    /\ view' = [view EXCEPT ![key[g]] = Nothing]
    /\ Goto(g, "applied")
    /\ UNCHANGED <<dockVars, key, held, client, snap, todo, read, asyncVars>>

\* Mutant: an error leaves a nil slice, null in the JSON of /api/status.
ListAnswer_Nil(p) == {docker[p]} \cup (IF "list" \in Faults THEN {"nil"} ELSE {})

\* ListStackContainerDetails: all containers of the project, or an error, which
\* both callers here show as no containers.
ListAnswer(p) == {docker[p]} \cup (IF "list" \in Faults THEN {Nothing} ELSE {})

Lookup(g) ==
    /\ pc[g] = "lookup"
    /\ \E d \in ListAnswer(Project[key[g]]) : read' = [read EXCEPT ![g] = d]
    /\ Goto(g, "store")
    /\ UNCHANGED <<docker, dockVars, storeVars, key, held, client, snap, todo, asyncVars>>

ApplyStore(g) ==
    /\ pc[g] = "store"
    /\ status' = [status EXCEPT ![key[g]] = "ok"]
    /\ view' = [view EXCEPT ![key[g]] = read[g]]
    /\ read' = [read EXCEPT ![g] = Nothing]
    /\ Goto(g, "applied")
    /\ UNCHANGED <<docker, dockVars, key, held, client, snap, todo, asyncVars>>

-----------------------------------------------------------------------------
(***************************************************************************)
(* refreshContainers: at the end of every pass of the main goroutine and   *)
(* of every per-stack apply.                                               *)
(***************************************************************************)

\* An apply goroutine ends with it, and its entry in Server.applying goes.
RefreshReturn(g) ==
    /\ Goto(g, "idle")
    /\ held' = [held EXCEPT ![g] = {}]
    /\ client' = [client EXCEPT ![g] = NoClient]
    /\ snap' = [snap EXCEPT ![g] = Unknown]

RefreshBegin(g) ==
    /\ pc[g] = "applied" \/ (g = Main /\ pc[g] = "idle")
    /\ client' = [client EXCEPT ![g] = holder]
    /\ Goto(g, IF holder = NoClient THEN "connect" ELSE "snapshot")
    /\ UNCHANGED <<docker, dockVars, storeVars, key, held, snap, todo, read, asyncVars>>

Connect(g, c) ==
    /\ pc[g] = "connect" /\ c \notin opened
    /\ opened' = opened \cup {c}
    /\ client' = [client EXCEPT ![g] = c]
    /\ Goto(g, "publish")
    /\ UNCHANGED <<docker, holder, closed, storeVars, key, held, snap, todo, read, asyncVars>>

ConnectFails(g) ==
    /\ pc[g] = "connect" /\ "connect" \in Faults
    /\ RefreshReturn(g)
    /\ UNCHANGED <<docker, dockVars, storeVars, key, todo, read, asyncVars>>

\* Mutant: the client is published with Set.
Publish_Set(g) ==
    /\ pc[g] = "publish"
    /\ holder' = client[g]
    /\ Goto(g, "snapshot")
    /\ UNCHANGED <<docker, opened, closed, client, storeVars, key, held, snap, todo, read,
                   asyncVars>>

\* CompareAndSwap(nil, c): the loser of the race closes its client and takes the
\* winner's.
Publish(g) ==
    /\ pc[g] = "publish"
    /\ IF holder = NoClient
         THEN holder' = client[g] /\ UNCHANGED <<closed, client>>
         ELSE /\ closed' = closed \cup {client[g]}
              /\ client' = [client EXCEPT ![g] = holder]
              /\ UNCHANGED holder
    /\ Goto(g, "snapshot")
    /\ UNCHANGED <<docker, opened, storeVars, key, held, snap, todo, read, asyncVars>>

\* GetAllStacks: copies of all entries.
Snapshot(g) ==
    /\ pc[g] = "snapshot"
    /\ snap' = [snap EXCEPT ![g] = status]
    /\ todo' = [todo EXCEPT ![g] = Known]
    /\ Goto(g, "list")
    /\ UNCHANGED <<docker, dockVars, storeVars, key, held, client, read, asyncVars>>

RefreshList(g, k) ==
    /\ pc[g] = "list" /\ k \in todo[g]
    /\ key' = [key EXCEPT ![g] = k]
    /\ todo' = [todo EXCEPT ![g] = @ \ {k}]
    /\ \E d \in ListAnswer(Project[k]) : read' = [read EXCEPT ![g] = d]
    /\ Goto(g, "update")
    /\ UNCHANGED <<docker, dockVars, storeVars, held, client, snap, asyncVars>>

\* Mutant: the copy of the entry is written back, with the new containers.
RefreshUpdate_WholeEntry(g) ==
    /\ pc[g] = "update"
    /\ view' = [view EXCEPT ![key[g]] = read[g]]
    /\ status' = [status EXCEPT ![key[g]] = snap[g][key[g]]]
    /\ read' = [read EXCEPT ![g] = Nothing]
    /\ Goto(g, "list")
    /\ UNCHANGED <<docker, dockVars, key, held, client, snap, todo, asyncVars>>

\* UpdateStackContainers: only the list of containers, whatever became of the
\* entry since it was copied.
RefreshUpdate(g) ==
    /\ pc[g] = "update"
    /\ view' = [view EXCEPT ![key[g]] = read[g]]
    /\ read' = [read EXCEPT ![g] = Nothing]
    /\ Goto(g, "list")
    /\ UNCHANGED <<docker, dockVars, status, key, held, client, snap, todo, asyncVars>>

\* Mutant: refreshContainers is left with the first entry.
RefreshDone_Early(g) ==
    /\ pc[g] = "list"
    /\ RefreshReturn(g)
    /\ todo' = [todo EXCEPT ![g] = {}]
    /\ UNCHANGED <<docker, dockVars, storeVars, key, read, asyncVars>>

RefreshDone(g) ==
    /\ pc[g] = "list" /\ todo[g] = {}
    /\ RefreshReturn(g)
    /\ UNCHANGED <<docker, dockVars, storeVars, key, todo, read, asyncVars>>

-----------------------------------------------------------------------------
(***************************************************************************)
(* handleContainerAction and refreshContainerState.                        *)
(***************************************************************************)

\* A container of project p is started, stopped or restarted; then a goroutine
\* refreshes the stacks that contain it.  Without a client: 503.
ContainerAction(a, p, d) ==
    /\ apc[a] = "idle" /\ holder # NoClient
    /\ docker[p] # Nothing /\ d \in States
    /\ docker' = [docker EXCEPT ![p] = d]
    /\ aproj' = [aproj EXCEPT ![a] = p]
    /\ AsyncGoto(a, "snapshot")
    /\ UNCHANGED <<dockVars, storeVars, goVars, akey, atodo, aread>>

AsyncSnapshot(a) ==
    /\ apc[a] = "snapshot"
    /\ atodo' = [atodo EXCEPT ![a] = Known]
    /\ AsyncGoto(a, "list")
    /\ UNCHANGED <<docker, dockVars, storeVars, goVars, akey, aproj, aread>>

\* A stack that contains the container...
AsyncList(a, k) ==
    /\ apc[a] = "list" /\ k \in atodo[a]
    /\ Project[k] = aproj[a] /\ docker[aproj[a]] # Nothing
    /\ akey' = [akey EXCEPT ![a] = k]
    /\ aread' = [aread EXCEPT ![a] = docker[aproj[a]]]
    /\ atodo' = [atodo EXCEPT ![a] = @ \ {k}]
    /\ AsyncGoto(a, "update")
    /\ UNCHANGED <<docker, dockVars, storeVars, goVars, aproj>>

\* ... or not, or no longer; or docker does not answer.
AsyncSkip(a, k) ==
    /\ apc[a] = "list" /\ k \in atodo[a]
    /\ \/ Project[k] # aproj[a] \/ docker[aproj[a]] = Nothing \/ "list" \in Faults
    /\ atodo' = [atodo EXCEPT ![a] = @ \ {k}]
    /\ UNCHANGED <<docker, dockVars, storeVars, goVars, apc, akey, aproj, aread>>

AsyncUpdate(a) ==
    /\ apc[a] = "update"
    /\ view' = [view EXCEPT ![akey[a]] = aread[a]]
    /\ aread' = [aread EXCEPT ![a] = Nothing]
    /\ AsyncGoto(a, "list")
    /\ UNCHANGED <<docker, dockVars, status, goVars, akey, aproj, atodo>>

AsyncDone(a) ==
    /\ apc[a] = "list" /\ atodo[a] = {}
    /\ AsyncGoto(a, "idle")
    /\ UNCHANGED <<docker, dockVars, storeVars, goVars, akey, aproj, atodo, aread>>

-----------------------------------------------------------------------------
RunOn(g) ==
    \/ ComposeUp(g) \/ ComposeFails(g) \/ Lookup(g) \/ ApplyStore(g)
    \/ RefreshBegin(g) \/ ConnectFails(g) \/ \E c \in Clients : Connect(g, c)
    \/ Publish(g) \/ Snapshot(g) \/ RefreshUpdate(g) \/ RefreshDone(g)
    \/ \E k \in Keys : RefreshList(g, k)

AsyncRunOn(a) ==
    \/ AsyncSnapshot(a) \/ AsyncUpdate(a) \/ AsyncDone(a)
    \/ \E k \in Keys : AsyncList(a, k) \/ AsyncSkip(a, k)

ContainersNext ==
    \/ \E p \in Projects, d \in Answers : DockerChanges(p, d)
    \/ \E g \in Goroutines : RunOn(g) \/ \E k \in Keys : ApplyBegin(g, k)
    \/ \E a \in Asyncs :
          AsyncRunOn(a) \/ \E p \in Projects, d \in States : ContainerAction(a, p, d)

ContainersSpec == ContainersInit /\ [][ContainersNext]_cvars

\* A goroutine that runs goes on, and the main goroutine ends its passes: the base
\* ticker fires, and a pass has finitely many stacks.
ContainersFairSpec ==
    /\ ContainersSpec
    /\ \A g \in Goroutines : WF_cvars(RunOn(g))
    /\ SF_cvars(RefreshBegin(Main))
    /\ \A a \in Asyncs : WF_cvars(AsyncRunOn(a))

-----------------------------------------------------------------------------
(***************************************************************************)
(* Properties.                                                             *)
(***************************************************************************)

\* Types; the list of containers is never nil (state.go:191-193).
ContainersTypeOK ==
    /\ docker \in [Projects -> Answers]
    /\ holder \in Clients \cup {NoClient}
    /\ opened \subseteq Clients /\ closed \subseteq opened
    /\ status \in [Keys -> {"none", "applying", "ok", "error"}]
    /\ view \in [Keys -> Answers]
    /\ pc \in [Goroutines -> {"idle", "compose", "lookup", "store", "applied", "connect",
                              "publish", "snapshot", "list", "update"}]
    /\ key \in [Goroutines -> Keys] /\ held \in [Goroutines -> SUBSET Keys]
    /\ client \in [Goroutines -> Clients \cup {NoClient}]
    /\ todo \in [Goroutines -> SUBSET Keys] /\ read \in [Goroutines -> Answers]
    /\ apc \in [Asyncs -> {"idle", "snapshot", "list", "update"}]
    /\ akey \in [Asyncs -> Keys] /\ aproj \in [Asyncs -> Projects]
    /\ atodo \in [Asyncs -> SUBSET Keys] /\ aread \in [Asyncs -> Answers]

\* Reconnecting neither leaks a client nor takes one away that is in use: a client
\* is in the holder, or closed, or about to be published by the goroutine that made
\* it, and every goroutine asks docker through an open one (main.go:399-417).
ClientsAccounted ==
    /\ \A c \in opened \ closed :
          holder = c \/ \E g \in Goroutines : pc[g] = "publish" /\ client[g] = c
    /\ \A g \in Goroutines :
          pc[g] \in {"snapshot", "list", "update"} => client[g] \in opened \ closed

\* A refresh never undoes what an apply has stored since the refresh copied the
\* entry: "applying" is shown only while some apply of the stack runs
\* (state.go:184-196, main.go:418-441).
NotReverted ==
    \A k \in Keys : status[k] = "applying" =>
        \E g \in Goroutines : key[g] = k /\ pc[g] \in {"compose", "lookup", "store"}

\* GET /readyz: a docker client, and a stack with a LastApply, which the entry gets
\* when its apply ends and loses when the next one begins.
Ready == holder # NoClient /\ \E k \in Keys : status[k] \in {"ok", "error"}

\* Once a stack is known the probe always comes back to ready, although every apply
\* of a single stack makes it fail and failed applies are stored like good ones:
\* only a docker that is never reached keeps it down (server.go:187-211).
ReadyAgain ==
    (<>(Known # {})) => ([]<>Ready \/ <>[](holder = NoClient))

\* Stale answers do not stay: once the containers of a stack no longer change and
\* nobody applies it, its entry comes to show them and keeps doing so, although
\* writers may overtake each other between question and write, unless docker goes
\* on failing to answer (main.go:394-450, server.go:438-481).
ViewSettles ==
    \A k \in Keys, d \in States :
        (<>[](docker[Project[k]] = d /\ status[k] \in {"ok", "error"})) =>
            \/ <>[](view[k] = d)
            \/ []<>(view[k] = Nothing)
            \/ []<>(holder = NoClient)
=============================================================================
