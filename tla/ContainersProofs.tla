----------------------------- MODULE ContainersProofs -----------------------------
(***************************************************************************)
(* Proofs about Containers for any number of stacks, apply goroutines,     *)
(* container actions and docker clients, and any combination of faults.    *)
(***************************************************************************)
EXTENDS Containers, TLAPS

USE DEF dockVars, storeVars, goVars, asyncVars, Goto, AsyncGoto

\* The positions at which refreshContainers asks docker.
Using == {"snapshot", "list", "update"}

\* The positions at which an apply has its entry shown as "applying".
InApply == {"compose", "lookup", "store"}

\* ClientsAccounted is not inductive.  The holder is written once, by the winner of the
\* race for it, and from then on everybody uses its client; each of the others that
\* race has an open client of its own.
ClientInv ==
    /\ holder # NoClient => holder \in opened \ closed
    /\ \A g \in Goroutines : pc[g] \in Using => client[g] = holder /\ holder # NoClient
    /\ \A g \in Goroutines : pc[g] = "publish" => client[g] \in opened \ (closed \cup {holder})
    /\ \A g, h \in Goroutines :
          pc[g] = "publish" /\ pc[h] = "publish" /\ client[g] = client[h] => g = h
    /\ \A c \in opened \ closed :
          holder = c \/ \E g \in Goroutines : pc[g] = "publish" /\ client[g] = c

CInv == ContainersTypeOK /\ ClientInv

\* What the accounts of the clients say of them (main.go:399-417).
LEMMA AccountsAreKept == ClientInv => ClientsAccounted
  BY DEF ClientInv, ClientsAccounted, Using

\* There are entries and projects to begin with.
LEMMA SomeKey == (CHOOSE k \in Keys : TRUE) \in Keys /\ (CHOOSE p \in Projects : TRUE) \in Projects
<1>1. \E k \in Keys : TRUE
  BY ContainersAssumption
<1>2. \E p \in Projects : TRUE
  BY <1>1 DEF Projects
<1> QED
  BY <1>1, <1>2

\* A process that has just started, with or without a client.
LEMMA InitContainers == ContainersInit => CInv /\ NotReverted
<1> SUFFICES ASSUME ContainersInit PROVE CInv /\ NotReverted
  OBVIOUS
<1>1. /\ docker \in [Projects -> Answers] /\ view \in [Keys -> Answers]
      /\ read \in [Goroutines -> Answers] /\ aread \in [Asyncs -> Answers]
      /\ status \in [Keys -> {"none", "applying", "ok", "error"}]
      /\ \A k \in Keys : status[k] = "none"
  BY DEF ContainersInit, Answers, Unknown
<1>2. /\ pc \in [Goroutines -> {"idle", "compose", "lookup", "store", "applied", "connect",
                                "publish", "snapshot", "list", "update"}]
      /\ apc \in [Asyncs -> {"idle", "snapshot", "list", "update"}]
      /\ \A g \in Goroutines : pc[g] = "idle"
  BY DEF ContainersInit
<1>3. /\ key \in [Goroutines -> Keys] /\ akey \in [Asyncs -> Keys]
      /\ aproj \in [Asyncs -> Projects]
  BY SomeKey DEF ContainersInit
<1>4. /\ todo \in [Goroutines -> SUBSET Keys] /\ atodo \in [Asyncs -> SUBSET Keys]
      /\ held \in [Goroutines -> SUBSET Keys]
      /\ client \in [Goroutines -> Clients \cup {NoClient}]
  BY DEF ContainersInit
<1>5. /\ holder \in Clients \cup {NoClient} /\ opened \subseteq Clients /\ closed = {}
      /\ holder # NoClient => opened = {holder}
      /\ holder = NoClient => opened = {}
  BY ContainersAssumption DEF ContainersInit
<1>6. ContainersTypeOK
  BY <1>1, <1>2, <1>3, <1>4, <1>5 DEF ContainersTypeOK
<1>7. ClientInv
  BY <1>2, <1>5 DEF ClientInv, Using
<1>8. NotReverted
  BY <1>1 DEF NotReverted
<1> QED
  BY <1>6, <1>7, <1>8 DEF CInv

-----------------------------------------------------------------------------
(***************************************************************************)
(* Types.                                                                  *)
(***************************************************************************)

\* Whatever docker answers, an error included, is a list (state.go:191-193).
LEMMA AnswerTyped ==
    ASSUME ContainersTypeOK, NEW p \in Projects
    PROVE  docker[p] \in Answers /\ ListAnswer(p) \subseteq Answers
  BY DEF ContainersTypeOK, ListAnswer, Answers

\* The steps of applyStack keep the types (main.go:469-530).
LEMMA ApplyTyped ==
    ASSUME ContainersTypeOK, NEW g \in Goroutines,
           \/ \E k \in Keys : ApplyBegin(g, k)
           \/ ComposeUp(g) \/ ComposeFails(g) \/ Lookup(g) \/ ApplyStore(g)
    PROVE  ContainersTypeOK'
<1>0. key[g] \in Keys /\ Project[key[g]] \in Projects
  BY DEF ContainersTypeOK, Projects
<1>1. ASSUME NEW k \in Keys, ApplyBegin(g, k) PROVE ContainersTypeOK'
  BY <1>1 DEF ContainersTypeOK, ApplyBegin, Answers
<1>2. CASE ComposeUp(g)
  <2>1. pc' \in [Goroutines -> {"idle", "compose", "lookup", "store", "applied", "connect",
                                "publish", "snapshot", "list", "update"}]
    BY <1>2 DEF ContainersTypeOK, ComposeUp
  <2>2. docker' \in [Projects -> Answers]
    BY <1>0, <1>2 DEF ContainersTypeOK, ComposeUp
  <2> QED
    BY <1>2, <2>1, <2>2 DEF ContainersTypeOK, ComposeUp
<1>3. CASE ComposeFails(g)
  <2>1. docker' \in [Projects -> Answers]
    BY <1>0, <1>3 DEF ContainersTypeOK, ComposeFails
  <2> QED
    BY <1>3, <2>1 DEF ContainersTypeOK, ComposeFails, Answers
<1>4. CASE Lookup(g)
  BY <1>0, <1>4, AnswerTyped DEF ContainersTypeOK, Lookup
<1>5. CASE ApplyStore(g)
  <2>1. view' \in [Keys -> Answers] /\ read' \in [Goroutines -> Answers]
    BY <1>5 DEF ContainersTypeOK, ApplyStore, Answers
  <2> QED
    BY <1>5, <2>1 DEF ContainersTypeOK, ApplyStore
<1> QED
  BY <1>1, <1>2, <1>3, <1>4, <1>5

\* The steps of refreshContainers keep the types; that a client which is closed had
\* been opened needs the accounts (main.go:394-450).
LEMMA RefreshTyped ==
    ASSUME CInv, NEW g \in Goroutines,
           \/ RefreshBegin(g) \/ ConnectFails(g) \/ \E c \in Clients : Connect(g, c)
           \/ Publish(g) \/ Snapshot(g) \/ RefreshUpdate(g) \/ RefreshDone(g)
           \/ \E k \in Keys : RefreshList(g, k)
    PROVE  ContainersTypeOK'
<1>0. ContainersTypeOK
  BY DEF CInv
<1>1. CASE RefreshBegin(g)
  <2>1. pc' \in [Goroutines -> {"idle", "compose", "lookup", "store", "applied", "connect",
                                "publish", "snapshot", "list", "update"}]
    BY <1>0, <1>1 DEF ContainersTypeOK, RefreshBegin
  <2> QED
    BY <1>0, <1>1, <2>1 DEF ContainersTypeOK, RefreshBegin
<1>2. CASE ConnectFails(g) \/ RefreshDone(g)
  BY <1>0, <1>2 DEF ContainersTypeOK, ConnectFails, RefreshDone, RefreshReturn
<1>3. ASSUME NEW c \in Clients, Connect(g, c) PROVE ContainersTypeOK'
  BY <1>0, <1>3 DEF ContainersTypeOK, Connect
<1>4. CASE Publish(g)
  <2>1. client[g] \in opened
    BY <1>4 DEF Publish, CInv, ClientInv
  <2>2. closed' \subseteq opened' /\ holder' \in Clients \cup {NoClient}
    BY <1>0, <1>4, <2>1 DEF ContainersTypeOK, Publish
  <2> QED
    BY <1>0, <1>4, <2>2 DEF ContainersTypeOK, Publish
<1>5. CASE Snapshot(g)
  <2>1. Known \subseteq Keys
    BY DEF Known
  <2> QED
    BY <1>0, <1>5, <2>1 DEF ContainersTypeOK, Snapshot
<1>6. CASE RefreshUpdate(g)
  <2>1. view' \in [Keys -> Answers] /\ read' \in [Goroutines -> Answers]
    BY <1>0, <1>6 DEF ContainersTypeOK, RefreshUpdate, Answers
  <2> QED
    BY <1>0, <1>6, <2>1 DEF ContainersTypeOK, RefreshUpdate
<1>7. ASSUME NEW k \in Keys, RefreshList(g, k) PROVE ContainersTypeOK'
  <2>1. Project[k] \in Projects
    BY DEF Projects
  <2>2. read' \in [Goroutines -> Answers] /\ todo' \in [Goroutines -> SUBSET Keys]
    BY <1>0, <1>7, <2>1, AnswerTyped DEF ContainersTypeOK, RefreshList
  <2> QED
    BY <1>0, <1>7, <2>2 DEF ContainersTypeOK, RefreshList
<1> QED
  BY <1>1, <1>2, <1>3, <1>4, <1>5, <1>6, <1>7

\* So do docker itself and the goroutines of container actions (server.go:438-481).
LEMMA AsyncTyped ==
    ASSUME ContainersTypeOK,
           \/ \E p \in Projects, d \in Answers : DockerChanges(p, d)
           \/ \E a \in Asyncs : \/ AsyncRunOn(a)
                                \/ \E p \in Projects, d \in States : ContainerAction(a, p, d)
    PROVE  ContainersTypeOK'
<1>1. ASSUME NEW p \in Projects, NEW d \in Answers, DockerChanges(p, d) PROVE ContainersTypeOK'
  BY <1>1 DEF ContainersTypeOK, DockerChanges
<1>2. ASSUME NEW a \in Asyncs, NEW p \in Projects, NEW d \in States, ContainerAction(a, p, d)
      PROVE  ContainersTypeOK'
  <2>1. docker' \in [Projects -> Answers]
    BY <1>2 DEF ContainersTypeOK, ContainerAction, Answers
  <2> QED
    BY <1>2, <2>1 DEF ContainersTypeOK, ContainerAction
<1>3. ASSUME NEW a \in Asyncs, AsyncSnapshot(a) PROVE ContainersTypeOK'
  <2>1. Known \subseteq Keys
    BY DEF Known
  <2> QED
    BY <1>3, <2>1 DEF ContainersTypeOK, AsyncSnapshot
<1>4. ASSUME NEW a \in Asyncs, AsyncUpdate(a) PROVE ContainersTypeOK'
  <2>1. view' \in [Keys -> Answers] /\ aread' \in [Asyncs -> Answers]
    BY <1>4 DEF ContainersTypeOK, AsyncUpdate, Answers
  <2> QED
    BY <1>4, <2>1 DEF ContainersTypeOK, AsyncUpdate
<1>5. ASSUME NEW a \in Asyncs, AsyncDone(a) PROVE ContainersTypeOK'
  BY <1>5 DEF ContainersTypeOK, AsyncDone
<1>6. ASSUME NEW a \in Asyncs, NEW k \in Keys, AsyncList(a, k) PROVE ContainersTypeOK'
  <2>1. docker[aproj[a]] \in Answers
    BY AnswerTyped DEF ContainersTypeOK
  <2>2. aread' \in [Asyncs -> Answers] /\ atodo' \in [Asyncs -> SUBSET Keys]
    BY <1>6, <2>1 DEF ContainersTypeOK, AsyncList
  <2> QED
    BY <1>6, <2>2 DEF ContainersTypeOK, AsyncList
<1>7. ASSUME NEW a \in Asyncs, NEW k \in Keys, AsyncSkip(a, k) PROVE ContainersTypeOK'
  BY <1>7 DEF ContainersTypeOK, AsyncSkip
<1> QED
  BY <1>1, <1>2, <1>3, <1>4, <1>5, <1>6, <1>7 DEF AsyncRunOn

-----------------------------------------------------------------------------
(***************************************************************************)
(* The clients.                                                            *)
(***************************************************************************)

\* A goroutine that moves without touching a client keeps the accounts, unless it
\* comes to use one or gives up publishing one.
LEMMA QuietMove ==
    ASSUME CInv, NEW g \in Goroutines, NEW l, pc' = [pc EXCEPT ![g] = l],
           UNCHANGED <<client, holder, opened, closed>>,
           pc[g] # "publish", l # "publish", l \in Using => pc[g] \in Using
    PROVE  ClientInv'
<1>1. pc \in [Goroutines -> {"idle", "compose", "lookup", "store", "applied", "connect",
                             "publish", "snapshot", "list", "update"}]
  BY DEF CInv, ContainersTypeOK
<1>2. pc'[g] = l /\ \A h \in Goroutines \ {g} : pc'[h] = pc[h]
  BY <1>1
<1>3. \A h \in Goroutines : /\ pc'[h] = "publish" <=> pc[h] = "publish"
                            /\ pc'[h] \in Using => pc[h] \in Using
  BY <1>2
<1> QED
  BY <1>3 DEF CInv, ClientInv

\* refreshContainers returns and forgets the client it used.
LEMMA ReturnMove ==
    ASSUME CInv, NEW g \in Goroutines, RefreshReturn(g), UNCHANGED <<holder, opened, closed>>,
           pc[g] # "publish"
    PROVE  ClientInv'
<1>1. /\ pc'[g] = "idle" /\ \A h \in Goroutines \ {g} : pc'[h] = pc[h] /\ client'[h] = client[h]
  BY DEF RefreshReturn, CInv, ContainersTypeOK
<1> QED
  BY <1>1 DEF CInv, ClientInv, Using

\* Publishing: the first one fills the holder, the others close their own client and
\* use that one (holder.go:30-40, main.go:403-412).
LEMMA PublishMove ==
    ASSUME CInv, NEW g \in Goroutines, Publish(g)
    PROVE  ClientInv'
<1>0. client[g] \in opened \ (closed \cup {holder}) /\ pc[g] = "publish" /\ client[g] # NoClient
  BY ContainersAssumption DEF Publish, CInv, ClientInv, ContainersTypeOK
<1>1. pc'[g] = "snapshot" /\ (\A h \in Goroutines \ {g} : pc'[h] = pc[h]) /\ opened' = opened
  BY DEF Publish, CInv, ContainersTypeOK
<1>2. ASSUME NEW h \in Goroutines \ {g}, pc[h] = "publish"
      PROVE  client[h] \in opened \ (closed \cup {holder}) /\ client[h] # client[g]
  BY <1>0, <1>2 DEF CInv, ClientInv
<1>3. CASE holder = NoClient
  <2>1. holder' = client[g] /\ closed' = closed /\ client' = client
    BY <1>3 DEF Publish
  <2>2. \A h \in Goroutines : pc[h] \notin Using
    BY <1>3 DEF CInv, ClientInv
  <2>3. \A h \in Goroutines : pc'[h] \in Using => client'[h] = holder' /\ holder' # NoClient
    BY <1>0, <1>1, <2>1, <2>2
  <2>4. \A h \in Goroutines : pc'[h] = "publish" =>
           client'[h] \in opened' \ (closed' \cup {holder'})
    BY <1>1, <1>2, <2>1
  <2>5. \A h, i \in Goroutines :
           pc'[h] = "publish" /\ pc'[i] = "publish" /\ client'[h] = client'[i] => h = i
    BY <1>1, <2>1 DEF CInv, ClientInv
  <2>6. ASSUME NEW c \in opened' \ closed'
        PROVE  holder' = c \/ \E h \in Goroutines : pc'[h] = "publish" /\ client'[h] = c
    <3>1. \E h \in Goroutines : pc[h] = "publish" /\ client[h] = c
      BY <1>1, <1>3, <2>1, <2>6, ContainersAssumption DEF CInv, ClientInv, ContainersTypeOK
    <3> QED
      BY <1>1, <2>1, <3>1
  <2> QED
    BY <1>0, <1>1, <2>1, <2>3, <2>4, <2>5, <2>6 DEF ClientInv
<1>4. CASE holder # NoClient
  <2>1. /\ holder' = holder /\ closed' = closed \cup {client[g]}
        /\ client'[g] = holder /\ \A h \in Goroutines \ {g} : client'[h] = client[h]
    BY <1>4 DEF Publish, CInv, ContainersTypeOK
  <2>2. holder \in opened' \ closed'
    BY <1>0, <1>1, <1>4, <2>1 DEF CInv, ClientInv
  <2>3. \A h \in Goroutines : pc'[h] \in Using => client'[h] = holder' /\ holder' # NoClient
    BY <1>1, <1>4, <2>1 DEF CInv, ClientInv
  <2>4. \A h \in Goroutines : pc'[h] = "publish" =>
           client'[h] \in opened' \ (closed' \cup {holder'})
    BY <1>1, <1>2, <2>1
  <2>5. \A h, i \in Goroutines :
           pc'[h] = "publish" /\ pc'[i] = "publish" /\ client'[h] = client'[i] => h = i
    BY <1>1, <2>1 DEF CInv, ClientInv
  <2>6. ASSUME NEW c \in opened' \ closed'
        PROVE  holder' = c \/ \E h \in Goroutines : pc'[h] = "publish" /\ client'[h] = c
    <3>1. c \in opened \ closed /\ c # client[g]
      BY <1>1, <2>1, <2>6
    <3>2. holder = c \/ \E h \in Goroutines : pc[h] = "publish" /\ client[h] = c
      BY <3>1 DEF CInv, ClientInv
    <3> QED
      BY <1>1, <2>1, <3>1, <3>2
  <2> QED
    BY <1>4, <2>1, <2>2, <2>3, <2>4, <2>5, <2>6 DEF ClientInv
<1> QED
  BY <1>3, <1>4

\* A new client is nobody else's.
LEMMA ConnectMove ==
    ASSUME CInv, NEW g \in Goroutines, NEW c \in Clients, Connect(g, c)
    PROVE  ClientInv'
<1>1. /\ pc'[g] = "publish" /\ client'[g] = c /\ pc[g] = "connect" /\ c \notin opened
      /\ \A h \in Goroutines \ {g} : pc'[h] = pc[h] /\ client'[h] = client[h]
      /\ opened' = opened \cup {c} /\ UNCHANGED <<holder, closed>>
  BY DEF Connect, CInv, ContainersTypeOK
<1>2. c # holder /\ c \notin closed
  BY <1>1, ContainersAssumption DEF CInv, ClientInv, ContainersTypeOK
<1>3. \A h \in Goroutines \ {g} : pc[h] = "publish" => client[h] # c
  BY <1>1 DEF CInv, ClientInv
<1>4. \A h \in Goroutines : pc'[h] \in Using => client'[h] = holder' /\ holder' # NoClient
  BY <1>1 DEF CInv, ClientInv, Using
<1>5. \A h \in Goroutines : pc'[h] = "publish" =>
         client'[h] \in opened' \ (closed' \cup {holder'})
  BY <1>1, <1>2 DEF CInv, ClientInv
<1>6. \A h, i \in Goroutines :
         pc'[h] = "publish" /\ pc'[i] = "publish" /\ client'[h] = client'[i] => h = i
  BY <1>1, <1>3 DEF CInv, ClientInv
<1>7. ASSUME NEW x \in opened' \ closed'
      PROVE  holder' = x \/ \E h \in Goroutines : pc'[h] = "publish" /\ client'[h] = x
  <2>1. CASE x = c
    BY <1>1, <2>1
  <2>2. CASE x # c
    <3>1. holder = x \/ \E h \in Goroutines : pc[h] = "publish" /\ client[h] = x
      BY <1>1, <1>7, <2>2 DEF CInv, ClientInv
    <3> QED
      BY <1>1, <3>1
  <2> QED
    BY <2>1, <2>2
<1> QED
  BY <1>1, <1>4, <1>5, <1>6, <1>7 DEF CInv, ClientInv

\* Every step of an apply or a refresh keeps the accounts.
LEMMA ClientStep ==
    ASSUME CInv, NEW g \in Goroutines, RunOn(g) \/ \E k \in Keys : ApplyBegin(g, k)
    PROVE  ClientInv'
<1>1. ASSUME NEW k \in Keys, ApplyBegin(g, k) PROVE ClientInv'
  <2>1. pc[g] # "publish"
    BY <1>1 DEF ApplyBegin, MayApply
  <2> QED
    BY <1>1, <2>1, QuietMove DEF ApplyBegin, Using
<1>2. CASE ComposeUp(g)
  <2>1. PICK l \in {"lookup", "store"} : pc' = [pc EXCEPT ![g] = l]
    BY <1>2 DEF ComposeUp
  <2>2. pc[g] # "publish" /\ UNCHANGED <<client, holder, opened, closed>>
    BY <1>2 DEF ComposeUp
  <2> QED
    BY <2>1, <2>2, QuietMove DEF Using
<1>3. CASE ComposeFails(g)
  BY <1>3, QuietMove DEF ComposeFails, Using
<1>4. CASE Lookup(g)
  BY <1>4, QuietMove DEF Lookup, Using
<1>5. CASE ApplyStore(g)
  BY <1>5, QuietMove DEF ApplyStore, Using
<1>6. CASE RefreshBegin(g)
  <2>1. /\ client'[g] = holder /\ pc'[g] = IF holder = NoClient THEN "connect" ELSE "snapshot"
        /\ \A h \in Goroutines \ {g} : pc'[h] = pc[h] /\ client'[h] = client[h]
        /\ UNCHANGED <<holder, opened, closed>> /\ pc[g] # "publish"
    BY <1>6 DEF RefreshBegin, CInv, ContainersTypeOK
  <2>2. \A h \in Goroutines : pc'[h] \in Using => client'[h] = holder /\ holder # NoClient
    BY <2>1 DEF CInv, ClientInv, Using
  <2>3. \A h \in Goroutines : pc'[h] = "publish" <=> pc[h] = "publish"
    BY <2>1
  <2>4. \A h \in Goroutines : pc[h] = "publish" => client'[h] = client[h]
    BY <2>1
  <2> QED
    BY <2>1, <2>2, <2>3, <2>4 DEF CInv, ClientInv
<1>7. CASE ConnectFails(g) \/ RefreshDone(g)
  BY <1>7, ReturnMove DEF ConnectFails, RefreshDone
<1>8. CASE Snapshot(g)
  BY <1>8, QuietMove DEF Snapshot, Using
<1>9. CASE RefreshUpdate(g)
  BY <1>9, QuietMove DEF RefreshUpdate, Using
<1>10. ASSUME NEW k \in Keys, RefreshList(g, k) PROVE ClientInv'
  BY <1>10, QuietMove DEF RefreshList, Using
<1> QED
  BY <1>1, <1>2, <1>3, <1>4, <1>5, <1>6, <1>7, <1>8, <1>9, <1>10, PublishMove, ConnectMove
  DEF RunOn

-----------------------------------------------------------------------------
(***************************************************************************)
(* The status of an entry.                                                 *)
(***************************************************************************)

\* A step that leaves the entries' status alone and moves a goroutine that is not in
\* the middle of an apply, or that stays there with its stack, reverts nothing.
LEMMA StatusKept ==
    ASSUME ContainersTypeOK, NotReverted, UNCHANGED status,
           \A h \in Goroutines : pc[h] \in InApply => pc'[h] \in InApply /\ key'[h] = key[h]
    PROVE  NotReverted'
  BY DEF NotReverted, InApply

\* Only the apply that runs writes a status, and no refresh does (state.go:184-196).
LEMMA StatusStep ==
    ASSUME ContainersTypeOK, NotReverted, ContainersNext
    PROVE  NotReverted'
<1>0. /\ pc \in [Goroutines -> {"idle", "compose", "lookup", "store", "applied", "connect",
                                "publish", "snapshot", "list", "update"}]
      /\ key \in [Goroutines -> Keys]
      /\ status \in [Keys -> {"none", "applying", "ok", "error"}]
  BY DEF ContainersTypeOK
<1>1. ASSUME UNCHANGED <<status, pc, key>> PROVE NotReverted'
  BY <1>1, StatusKept
<1>2. ASSUME NEW g \in Goroutines, NEW k \in Keys, ApplyBegin(g, k) PROVE NotReverted'
  <2>1. /\ status' = [status EXCEPT ![k] = "applying"] /\ pc'[g] = "compose" /\ key'[g] = k
        /\ \A h \in Goroutines \ {g} : pc'[h] = pc[h] /\ key'[h] = key[h]
        /\ pc[g] \notin InApply
    BY <1>0, <1>2 DEF ApplyBegin, MayApply, InApply
  <2> SUFFICES ASSUME NEW j \in Keys, status'[j] = "applying"
               PROVE  \E h \in Goroutines : key'[h] = j /\ pc'[h] \in InApply
    BY DEF NotReverted, InApply
  <2>2. CASE j = k
    BY <2>1, <2>2 DEF InApply
  <2>3. CASE j # k
    <3>1. status[j] = "applying"
      BY <1>0, <2>1, <2>3
    <3>2. PICK h \in Goroutines : key[h] = j /\ pc[h] \in InApply
      BY <3>1 DEF NotReverted, InApply
    <3> QED
      BY <2>1, <3>2
  <2> QED
    BY <2>2, <2>3
<1>3. ASSUME NEW g \in Goroutines, ComposeFails(g) \/ ApplyStore(g) PROVE NotReverted'
  <2>1. PICK v \in {"ok", "error"} : status' = [status EXCEPT ![key[g]] = v]
    BY <1>3 DEF ComposeFails, ApplyStore
  <2>2. key' = key /\ \A h \in Goroutines \ {g} : pc'[h] = pc[h]
    BY <1>0, <1>3 DEF ComposeFails, ApplyStore
  <2> SUFFICES ASSUME NEW j \in Keys, status'[j] = "applying"
               PROVE  \E h \in Goroutines : key'[h] = j /\ pc'[h] \in InApply
    BY DEF NotReverted, InApply
  <2>3. j # key[g] /\ status[j] = "applying"
    BY <1>0, <2>1
  <2>4. PICK h \in Goroutines : key[h] = j /\ pc[h] \in InApply
    BY <2>3 DEF NotReverted, InApply
  <2> QED
    BY <2>2, <2>3, <2>4
<1>4. ASSUME NEW g \in Goroutines, ComposeUp(g) \/ Lookup(g) PROVE NotReverted'
  <2>1. key' = key /\ status' = status /\ pc'[g] \in InApply
        /\ \A h \in Goroutines \ {g} : pc'[h] = pc[h]
    BY <1>0, <1>4 DEF ComposeUp, Lookup, InApply
  <2> QED
    BY <2>1, StatusKept
<1>5. ASSUME NEW g \in Goroutines,
             \/ RefreshBegin(g) \/ ConnectFails(g) \/ \E c \in Clients : Connect(g, c)
             \/ Publish(g) \/ Snapshot(g) \/ RefreshUpdate(g) \/ RefreshDone(g)
             \/ \E k \in Keys : RefreshList(g, k)
      PROVE  NotReverted'
  <2>1. pc[g] \notin InApply /\ status' = status
    BY <1>5 DEF RefreshBegin, ConnectFails, Connect, Publish, Snapshot, RefreshUpdate,
                RefreshDone, RefreshList, InApply
  <2>2. \A h \in Goroutines \ {g} : pc'[h] = pc[h] /\ key'[h] = key[h]
    BY <1>0, <1>5 DEF RefreshBegin, ConnectFails, Connect, Publish, Snapshot, RefreshUpdate,
                      RefreshDone, RefreshList, RefreshReturn
  <2> QED
    BY <2>1, <2>2, StatusKept
<1>6. ASSUME \/ \E p \in Projects, d \in Answers : DockerChanges(p, d)
             \/ \E a \in Asyncs : \/ AsyncRunOn(a)
                                  \/ \E p \in Projects, d \in States : ContainerAction(a, p, d)
      PROVE  UNCHANGED <<status, pc, key>>
  BY <1>6 DEF DockerChanges, AsyncRunOn, AsyncSnapshot, AsyncUpdate, AsyncDone, AsyncList,
              AsyncSkip, ContainerAction
<1> QED
  BY <1>1, <1>2, <1>3, <1>4, <1>5, <1>6 DEF ContainersNext, RunOn

-----------------------------------------------------------------------------
\* The types and the accounts together are inductive, for any number of goroutines that
\* reconnect at the same time (main.go:394-450).
THEOREM ContainersInvariant == ContainersSpec => []CInv
<1>1. ASSUME CInv, ContainersNext PROVE CInv'
  <2>0. ContainersTypeOK /\ ClientInv
    BY <1>1 DEF CInv
  <2>1. ASSUME NEW g \in Goroutines, RunOn(g) \/ \E k \in Keys : ApplyBegin(g, k) PROVE CInv'
    <3>1. ContainersTypeOK'
      BY <1>1, <2>0, <2>1, ApplyTyped, RefreshTyped DEF RunOn
    <3>2. ClientInv'
      BY <1>1, <2>1, ClientStep
    <3> QED
      BY <3>1, <3>2 DEF CInv
  <2>2. ASSUME \/ \E p \in Projects, d \in Answers : DockerChanges(p, d)
               \/ \E a \in Asyncs : \/ AsyncRunOn(a)
                                    \/ \E p \in Projects, d \in States : ContainerAction(a, p, d)
        PROVE  CInv'
    <3>1. ContainersTypeOK'
      BY <2>0, <2>2, AsyncTyped
    <3>2. UNCHANGED <<pc, client, holder, opened, closed>>
      BY <2>2 DEF DockerChanges, AsyncRunOn, AsyncSnapshot, AsyncUpdate, AsyncDone, AsyncList,
                  AsyncSkip, ContainerAction
    <3> QED
      BY <2>0, <3>1, <3>2 DEF CInv, ClientInv
  <2> QED
    BY <1>1, <2>1, <2>2 DEF ContainersNext
<1>2. ASSUME CInv, UNCHANGED cvars PROVE CInv'
  BY <1>2 DEF cvars, CInv, ContainersTypeOK, ClientInv
<1> QED
  BY <1>1, <1>2, InitContainers, PTL DEF ContainersSpec

\* The list of containers is never nil, and every variable has its type
\* (state.go:191-193).
THEOREM ContainersTypes == ContainersSpec => []ContainersTypeOK
<1>1. CInv => ContainersTypeOK
  BY DEF CInv
<1> QED
  BY <1>1, ContainersInvariant, PTL

\* However many goroutines reconnect at the same time, no client leaks and nobody uses a
\* closed one (main.go:399-417).
THEOREM NoClientLeaks == ContainersSpec => []ClientsAccounted
<1>1. CInv => ClientsAccounted
  BY AccountsAreKept DEF CInv
<1> QED
  BY <1>1, ContainersInvariant, PTL

\* However refreshes and applies overlap, "applying" is shown only while an apply of the
\* stack runs (state.go:184-196, main.go:418-441).
THEOREM NeverReverted == ContainersSpec => []NotReverted
<1>1. ASSUME ContainersTypeOK, NotReverted, [ContainersNext]_cvars PROVE NotReverted'
  <2>1. CASE ContainersNext
    BY <1>1, <2>1, StatusStep
  <2>2. CASE UNCHANGED cvars
    BY <1>1, <2>2 DEF cvars, NotReverted
  <2> QED
    BY <1>1, <2>1, <2>2
<1> QED
  BY <1>1, InitContainers, ContainersTypes, PTL DEF ContainersSpec
=============================================================================
