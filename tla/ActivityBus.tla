------------------------------- MODULE ActivityBus ------------------------------
(***************************************************************************)
(* The activity bus (internal/state/state.go): the goroutines that publish *)
(* sync and apply events, the channel of every subscriber, and the SSE     *)
(* handlers of GET /api/activity that subscribe, receive and leave.  An    *)
(* event is its number.                                                    *)
(***************************************************************************)
EXTENDS Naturals, Sequences

CONSTANTS
    Publishers,   \* the main goroutine and the per-stack apply goroutines
    Subscribers,  \* handlers of GET /api/activity
    Cap,          \* capacity of a subscriber's channel (32 in the code)
    MaxEvents,    \* bound on the number of events
    Free,         \* the mutex is not held
    Off           \* the handler is not subscribed

ASSUME BusAssumption ==
    /\ Cap \in Nat \ {0} /\ MaxEvents \in Nat
    /\ Free \notin Publishers /\ Off \notin Nat

VARIABLES
    mu,       \* holder of ActivityBus.mu; Subscribe and cancel hold it for one step
    subs,     \* ActivityBus.subs
    chan,     \* chan[h]: the events in the channel of h
    closed,   \* closed[h]: the channel has been closed
    hpc,      \* where handler h is: "off", "on", "deleted"
    last,     \* last[h]: the last event written to the response of h
    count,    \* number of events published so far
    ev,       \* ev[p]: the event p is sending, 0 when p is not in Publish
    targets,  \* targets[p]: subscribers the range loop of p has not visited
    missed    \* history: the subscribed handlers for which an event was dropped

sendVars == <<mu, count, ev, targets>>
bvars == <<sendVars, subs, chan, closed, hpc, last, missed>>

BusInit ==
    /\ mu = Free /\ subs = {} /\ count = 0 /\ missed = {}
    /\ chan = [h \in Subscribers |-> << >>]
    /\ closed = [h \in Subscribers |-> FALSE]
    /\ hpc = [h \in Subscribers |-> "off"]
    /\ last = [h \in Subscribers |-> Off]
    /\ ev = [p \in Publishers |-> 0]
    /\ targets = [p \in Publishers |-> {}]

-----------------------------------------------------------------------------
(***************************************************************************)
(* Publish.                                                                *)
(***************************************************************************)

\* Mutant: Publish does not take the mutex.
PublishBegin_NoLock(p) ==
    /\ ev[p] = 0 /\ count < MaxEvents
    /\ mu' = p /\ count' = count + 1
    /\ ev' = [ev EXCEPT ![p] = count + 1]
    /\ targets' = [targets EXCEPT ![p] = subs]
    /\ UNCHANGED <<subs, chan, closed, hpc, last, missed>>

PublishBegin(p) ==
    /\ ev[p] = 0 /\ count < MaxEvents
    /\ mu = Free
    /\ mu' = p /\ count' = count + 1
    /\ ev' = [ev EXCEPT ![p] = count + 1]
    /\ targets' = [targets EXCEPT ![p] = subs]
    /\ UNCHANGED <<subs, chan, closed, hpc, last, missed>>

\* Mutant: the send blocks until there is room.
PublishSend_Blocking(p, h) ==
    /\ ev[p] # 0 /\ h \in targets[p]
    /\ Len(chan[h]) < Cap
    /\ chan' = [chan EXCEPT ![h] = Append(@, ev[p])]
    /\ targets' = [targets EXCEPT ![p] = @ \ {h}]
    /\ UNCHANGED <<mu, count, ev, subs, closed, hpc, last, missed>>

\* Mutant: the last place of the channel is not used.
PublishSend_OffByOne(p, h) ==
    /\ ev[p] # 0 /\ h \in targets[p]
    /\ chan' = IF Len(chan[h]) + 1 < Cap
                 THEN [chan EXCEPT ![h] = Append(@, ev[p])] ELSE chan
    /\ missed' = IF Len(chan[h]) < Cap THEN missed ELSE missed \cup {h}
    /\ targets' = [targets EXCEPT ![p] = @ \ {h}]
    /\ UNCHANGED <<mu, count, ev, subs, closed, hpc, last>>

\* Mutant: the channel is taken to be unbounded.
PublishSend_Unbounded(p, h) ==
    /\ ev[p] # 0 /\ h \in targets[p]
    /\ chan' = [chan EXCEPT ![h] = Append(@, ev[p])]
    /\ targets' = [targets EXCEPT ![p] = @ \ {h}]
    /\ UNCHANGED <<mu, count, ev, subs, closed, hpc, last, missed>>

\* One iteration of the range loop: a non-blocking send, dropped when h is slow.
PublishSend(p, h) ==
    /\ ev[p] # 0 /\ h \in targets[p]
    /\ IF Len(chan[h]) < Cap
         THEN chan' = [chan EXCEPT ![h] = Append(@, ev[p])] /\ UNCHANGED missed
         ELSE missed' = missed \cup {h} /\ UNCHANGED chan
    /\ targets' = [targets EXCEPT ![p] = @ \ {h}]
    /\ UNCHANGED <<mu, count, ev, subs, closed, hpc, last>>

PublishEnd(p) ==
    /\ ev[p] # 0 /\ targets[p] = {}
    /\ mu' = Free
    /\ ev' = [ev EXCEPT ![p] = 0]
    /\ UNCHANGED <<count, targets, subs, chan, closed, hpc, last, missed>>

-----------------------------------------------------------------------------
(***************************************************************************)
(* The handler.                                                            *)
(***************************************************************************)

\* Subscribe makes a new channel and registers it.
Subscribe(h) ==
    /\ hpc[h] = "off" /\ mu = Free
    /\ chan' = [chan EXCEPT ![h] = << >>]
    /\ closed' = [closed EXCEPT ![h] = FALSE]
    /\ subs' = subs \cup {h}
    /\ hpc' = [hpc EXCEPT ![h] = "on"]
    /\ last' = [last EXCEPT ![h] = count]
    /\ missed' = missed \ {h}
    /\ UNCHANGED sendVars

\* select receives an event and writes it to the response.
Receive(h) ==
    /\ hpc[h] = "on" /\ chan[h] # << >>
    /\ last' = [last EXCEPT ![h] = Head(chan[h])]
    /\ chan' = [chan EXCEPT ![h] = Tail(@)]
    /\ UNCHANGED <<sendVars, subs, closed, hpc, missed>>

\* Mutant: cancel closes the channel before it takes it out of the map.
Cancel_CloseFirst(h) ==
    /\ hpc[h] = "on"
    /\ closed' = [closed EXCEPT ![h] = TRUE]
    /\ hpc' = [hpc EXCEPT ![h] = "deleted"]
    /\ last' = [last EXCEPT ![h] = Off]
    /\ UNCHANGED <<sendVars, subs, chan, missed>>

\* The client has gone: the deferred cancel takes the channel out of the map...
Cancel(h) ==
    /\ hpc[h] = "on" /\ mu = Free
    /\ subs' = subs \ {h}
    /\ hpc' = [hpc EXCEPT ![h] = "deleted"]
    /\ last' = [last EXCEPT ![h] = Off]
    /\ UNCHANGED <<sendVars, chan, closed, missed>>

\* ... and closes it, after the mutex has been released.
CloseChannel(h) ==
    /\ hpc[h] = "deleted"
    /\ closed' = [closed EXCEPT ![h] = TRUE]
    /\ hpc' = [hpc EXCEPT ![h] = "off"]
    /\ UNCHANGED <<sendVars, subs, chan, last, missed>>

-----------------------------------------------------------------------------
PublishNext(p) == PublishEnd(p) \/ \E h \in Subscribers : PublishSend(p, h)

BusNext ==
    \/ \E p \in Publishers : PublishBegin(p) \/ PublishNext(p)
    \/ \E h \in Subscribers : Subscribe(h) \/ Receive(h) \/ Cancel(h) \/ CloseChannel(h)

BusSpec == BusInit /\ [][BusNext]_bvars

\* A goroutine inside Publish runs on; nothing is assumed of the clients.
BusFairSpec == BusSpec /\ \A p \in Publishers : WF_bvars(PublishNext(p))

-----------------------------------------------------------------------------
(***************************************************************************)
(* Properties.                                                             *)
(***************************************************************************)

\* Types; a channel never holds more than its capacity.
BusTypeOK ==
    /\ mu \in Publishers \cup {Free} /\ subs \subseteq Subscribers
    /\ count \in 0 .. MaxEvents /\ missed \subseteq Subscribers
    /\ chan \in [Subscribers -> Seq(Nat)]
    /\ \A h \in Subscribers : Len(chan[h]) <= Cap
    /\ closed \in [Subscribers -> BOOLEAN]
    /\ hpc \in [Subscribers -> {"off", "on", "deleted"}]
    /\ last \in [Subscribers -> Nat \cup {Off}]
    /\ ev \in [Publishers -> 0 .. MaxEvents]
    /\ targets \in [Publishers -> SUBSET Subscribers]

\* No send on a closed channel, which would end the process: cancel closes outside
\* the mutex, while another goroutine may be in the middle of its loop
\* (state.go:33-40, 50-55).
NoSendOnClosed ==
    \A p \in Publishers : \A h \in targets[p] : ~closed[h]

\* Drops come from full channels only: as long as its channel has not been full, a
\* handler gets every event from its subscription on, the one being sent aside
\* (state.go:35-40).
NoGaps ==
    \A h \in subs \ missed :
        LET next == last[h] + Len(chan[h]) + 1
        IN  /\ \A i \in DOMAIN chan[h] : chan[h][i] = last[h] + i
            /\ \/ next = count + 1
               \/ next = count /\ \E p \in Publishers : h \in targets[p]

\* A slow or stuck client holds nobody up: Publish ends although nothing is ever
\* received (state.go:36-39).
PublishEnds == \A p \in Publishers : ev[p] # 0 ~> ev[p] = 0

\* The bus implements the feed the clients are promised.
Feed == INSTANCE ActivityFeed WITH published <- count, seen <- last
FeedImplemented == Feed!FeedSpec
=============================================================================
