--------------------------- MODULE ActivityBusProofs ----------------------------
(***************************************************************************)
(* Proofs about ActivityBus, for any number of publishers, subscribers and *)
(* events and any channel capacity: no send on a closed channel, no event  *)
(* lost but to a full channel, and the bus implements ActivityFeed.        *)
(***************************************************************************)
EXTENDS ActivityBus, TLAPS

\* The mutex: a publisher in its loop holds it, sends the newest event, and has
\* only registered handlers left to visit.
MutexInv ==
    \A p \in Publishers :
        /\ ev[p] # 0 => mu = p /\ ev[p] = count
        /\ ev[p] = 0 => targets[p] = {}
        /\ targets[p] \subseteq subs

\* Registered, running, connected and not closed go together.
HandlerInv ==
    \A h \in Subscribers :
        /\ h \in subs <=> hpc[h] = "on"
        /\ last[h] # Off <=> h \in subs
        /\ closed[h] => hpc[h] = "off"

\* What a handler has shown and what waits in its channel are published events in
\* increasing order, and the event being sent is newer.
OrderInv ==
    \A h \in subs :
        /\ last[h] <= count
        /\ \A i \in DOMAIN chan[h] : last[h] < chan[h][i] /\ chan[h][i] <= count
        /\ \A i, j \in DOMAIN chan[h] : i < j => chan[h][i] < chan[h][j]
        /\ (\E p \in Publishers : h \in targets[p]) =>
              last[h] < count /\ \A i \in DOMAIN chan[h] : chan[h][i] < count

BusInv == BusTypeOK /\ MutexInv /\ HandlerInv /\ OrderInv

\* The initial state satisfies the invariant.
LEMMA BusInitInv == BusInit => BusInv
  BY BusAssumption DEF BusInit, BusInv, BusTypeOK, MutexInv, HandlerInv, OrderInv

\* A publisher enters its loop: every earlier event is older than the new one.
LEMMA PublishBeginInv ==
    ASSUME BusInv, NEW p \in Publishers, PublishBegin(p)
    PROVE  BusInv'
<1> USE BusAssumption
<1>1. BusTypeOK'
  BY DEF BusInv, BusTypeOK, PublishBegin
<1>2. \A q \in Publishers : ev[q] = 0
  BY DEF BusInv, BusTypeOK, MutexInv, PublishBegin
<1>3. MutexInv'
  BY <1>2 DEF BusInv, BusTypeOK, MutexInv, PublishBegin
<1>4. HandlerInv'
  BY DEF BusInv, HandlerInv, PublishBegin
<1>5. OrderInv'
  <2> SUFFICES ASSUME NEW h \in subs
               PROVE  /\ last[h] < count' /\ last[h] <= count'
                      /\ \A i \in DOMAIN chan[h] :
                            last[h] < chan[h][i] /\ chan[h][i] <= count' /\ chan[h][i] < count'
                      /\ \A i, j \in DOMAIN chan[h] : i < j => chan[h][i] < chan[h][j]
    BY DEF OrderInv, PublishBegin
  <2>1. last[h] \in Nat /\ chan[h] \in Seq(Nat) /\ count \in Nat /\ count' = count + 1
    BY DEF BusInv, BusTypeOK, HandlerInv, PublishBegin
  <2> QED
    BY <2>1 DEF BusInv, OrderInv
<1> QED
  BY <1>1, <1>3, <1>4, <1>5 DEF BusInv

\* A send appends the newest event, or drops it.
LEMMA PublishSendInv ==
    ASSUME BusInv, NEW p \in Publishers, NEW h \in Subscribers, PublishSend(p, h)
    PROVE  BusInv'
<1> USE BusAssumption
<1>a. /\ ev[p] = count /\ count \in Nat /\ h \in subs /\ last[h] \in Nat
      /\ chan[h] \in Seq(Nat) /\ Len(chan[h]) \in Nat
  BY DEF BusInv, BusTypeOK, MutexInv, HandlerInv, PublishSend
<1>b. /\ \A g \in Subscribers \ {h} : chan'[g] = chan[g]
      /\ \/ chan'[h] = chan[h]
         \/ chan'[h] = Append(chan[h], count) /\ Len(chan[h]) < Cap
  BY <1>a DEF BusInv, BusTypeOK, PublishSend
<1>c. \A q \in Publishers : h \notin targets'[q]
  <2>1. \A q \in Publishers \ {p} : targets[q] = {}
    BY DEF BusInv, BusTypeOK, MutexInv, PublishSend
  <2> QED
    BY <2>1 DEF BusInv, BusTypeOK, PublishSend
<1>d. \A q \in Publishers : targets'[q] \subseteq targets[q]
  BY DEF BusInv, BusTypeOK, PublishSend
<1>1. BusTypeOK'
  <2>a. /\ Append(chan[h], count) \in Seq(Nat)
        /\ Len(Append(chan[h], count)) = Len(chan[h]) + 1
    BY <1>a
  <2>b. chan' = chan \/ chan' = [chan EXCEPT ![h] = Append(chan[h], count)]
    BY <1>a DEF BusInv, BusTypeOK, PublishSend
  <2>1. chan' \in [Subscribers -> Seq(Nat)]
    BY <2>a, <2>b DEF BusInv, BusTypeOK
  <2>2. \A g \in Subscribers : Len(chan'[g]) <= Cap
    <3>1. Len(chan'[h]) <= Cap
      BY <1>a, <1>b, <2>a DEF BusInv, BusTypeOK
    <3>2. \A g \in Subscribers \ {h} : Len(chan'[g]) <= Cap
      BY <1>b DEF BusInv, BusTypeOK
    <3> QED
      BY <3>1, <3>2
  <2> QED
    BY <2>1, <2>2 DEF BusInv, BusTypeOK, PublishSend
<1>2. MutexInv'
  BY <1>d DEF BusInv, BusTypeOK, MutexInv, PublishSend
<1>3. HandlerInv'
  BY DEF BusInv, HandlerInv, PublishSend
<1>4. OrderInv'
  <2>0. UNCHANGED <<subs, last, count>>
    BY DEF PublishSend
  <2>1. ASSUME NEW g \in subs, g # h
        PROVE  /\ last[g] <= count
               /\ \A i \in DOMAIN chan'[g] : last[g] < chan'[g][i] /\ chan'[g][i] <= count
               /\ \A i, j \in DOMAIN chan'[g] : i < j => chan'[g][i] < chan'[g][j]
               /\ (\E q \in Publishers : g \in targets'[q]) =>
                     last[g] < count /\ \A i \in DOMAIN chan'[g] : chan'[g][i] < count
    <3>1. chan'[g] = chan[g]
      BY <1>b, <2>1 DEF BusInv, BusTypeOK
    <3> QED
      BY <1>d, <2>1, <3>1 DEF BusInv, OrderInv
  <2>2. /\ last[h] <= count
        /\ \A i \in DOMAIN chan'[h] : last[h] < chan'[h][i] /\ chan'[h][i] <= count
        /\ \A i, j \in DOMAIN chan'[h] : i < j => chan'[h][i] < chan'[h][j]
    <3>1. /\ last[h] < count
          /\ \A i \in DOMAIN chan[h] : last[h] < chan[h][i] /\ chan[h][i] < count
          /\ \A i, j \in DOMAIN chan[h] : i < j => chan[h][i] < chan[h][j]
      BY <1>a DEF BusInv, OrderInv, PublishSend
    <3>2. CASE chan'[h] = chan[h]
      BY <1>a, <3>1, <3>2
    <3>3. CASE chan'[h] = Append(chan[h], count)
      <4>1. /\ chan[h] \in Seq(Nat) /\ DOMAIN chan'[h] = 1 .. (Len(chan[h]) + 1)
            /\ DOMAIN chan[h] = 1 .. Len(chan[h]) /\ Len(chan[h]) \in Nat
        BY <1>a, <3>3
      <4>2. /\ chan'[h][Len(chan[h]) + 1] = count
            /\ \A i \in DOMAIN chan[h] : chan'[h][i] = chan[h][i]
        BY <1>a, <3>3, <4>1
      <4>3. \A i \in DOMAIN chan'[h] : i \in DOMAIN chan[h] \/ i = Len(chan[h]) + 1
        BY <4>1
      <4>4. \A i \in DOMAIN chan'[h] : last[h] < chan'[h][i] /\ chan'[h][i] <= count
        BY <1>a, <3>1, <4>1, <4>2, <4>3
      <4>5. ASSUME NEW i \in DOMAIN chan'[h], NEW j \in DOMAIN chan'[h], i < j
            PROVE  chan'[h][i] < chan'[h][j]
        <5>1. i \in DOMAIN chan[h]
          BY <4>1, <4>5
        <5> QED
          BY <3>1, <4>2, <4>3, <4>5, <5>1
      <4> QED
        BY <1>a, <3>1, <4>4, <4>5
    <3> QED
      BY <1>b, <3>2, <3>3
  <2> QED
    BY <1>c, <2>0, <2>1, <2>2 DEF OrderInv
<1> QED
  BY <1>1, <1>2, <1>3, <1>4 DEF BusInv

\* The loop ends.
LEMMA PublishEndInv ==
    ASSUME BusInv, NEW p \in Publishers, PublishEnd(p)
    PROVE  BusInv'
  BY BusAssumption DEF BusInv, BusTypeOK, MutexInv, HandlerInv, OrderInv, PublishEnd

\* A new subscription has an empty channel, and nobody is sending.
LEMMA SubscribeInv ==
    ASSUME BusInv, NEW h \in Subscribers, Subscribe(h)
    PROVE  BusInv'
<1> USE BusAssumption
<1>a. \A p \in Publishers : targets[p] = {}
  BY DEF BusInv, BusTypeOK, MutexInv, Subscribe
<1>1. BusTypeOK'
  BY DEF BusInv, BusTypeOK, Subscribe, sendVars
<1>2. MutexInv'
  BY DEF BusInv, MutexInv, Subscribe, sendVars
<1>3. HandlerInv'
  BY DEF BusInv, BusTypeOK, HandlerInv, Subscribe, sendVars
<1>4. OrderInv'
  <2>1. chan'[h] = << >> /\ last'[h] = count /\ count' = count /\ count \in Nat
    BY DEF BusInv, BusTypeOK, Subscribe, sendVars
  <2>2. \A g \in subs \ {h} : chan'[g] = chan[g] /\ last'[g] = last[g]
    BY DEF BusInv, BusTypeOK, Subscribe
  <2>3. subs' = subs \cup {h} /\ targets' = targets
    BY DEF Subscribe, sendVars
  <2> QED
    BY <1>a, <2>1, <2>2, <2>3 DEF BusInv, OrderInv
<1> QED
  BY <1>1, <1>2, <1>3, <1>4 DEF BusInv

\* The head of the channel is shown: it is newer than what was shown before and
\* older than the rest.
LEMMA ReceiveInv ==
    ASSUME BusInv, NEW h \in Subscribers, Receive(h)
    PROVE  /\ BusInv'
           /\ h \in subs /\ last[h] < Head(chan[h]) /\ Head(chan[h]) <= count
           /\ Head(chan[h]) \in 1 .. MaxEvents
<1> USE BusAssumption
<1>a. /\ h \in subs /\ last[h] \in Nat /\ count \in Nat /\ count <= MaxEvents
      /\ chan[h] \in Seq(Nat) /\ chan[h] # << >>
      /\ Len(chan[h]) \in Nat /\ Len(chan[h]) > 0 /\ Len(chan[h]) <= Cap
  BY DEF BusInv, BusTypeOK, HandlerInv, Receive
<1>b. /\ Head(chan[h]) = chan[h][1] /\ chan[h][1] \in Nat /\ 1 \in DOMAIN chan[h]
      /\ Tail(chan[h]) \in Seq(Nat) /\ Len(Tail(chan[h])) = Len(chan[h]) - 1
      /\ \A i \in DOMAIN Tail(chan[h]) :
            /\ i + 1 \in DOMAIN chan[h] /\ i \in Nat \ {0}
            /\ Tail(chan[h])[i] = chan[h][i + 1]
  BY <1>a
<1>c. last[h] < chan[h][1] /\ chan[h][1] <= count
  BY <1>a, <1>b DEF BusInv, OrderInv
<1>d. last'[h] = chan[h][1] /\ chan'[h] = Tail(chan[h])
  BY <1>b DEF BusInv, BusTypeOK, Receive
<1>e. \A g \in Subscribers \ {h} : chan'[g] = chan[g] /\ last'[g] = last[g]
  BY DEF BusInv, BusTypeOK, Receive
<1>f. UNCHANGED <<sendVars, subs, closed, hpc, missed>>
  BY DEF Receive
<1>1. BusTypeOK'
  <2>1. chan' \in [Subscribers -> Seq(Nat)] /\ last' \in [Subscribers -> Nat \cup {Off}]
    BY <1>b DEF BusInv, BusTypeOK, Receive
  <2>2. \A g \in Subscribers : Len(chan'[g]) <= Cap
    BY <1>a, <1>b, <1>d, <1>e DEF BusInv, BusTypeOK
  <2> QED
    BY <1>f, <2>1, <2>2 DEF BusInv, BusTypeOK, sendVars
<1>2. MutexInv'
  BY <1>f DEF BusInv, MutexInv, sendVars
<1>3. HandlerInv'
  <2>1. last'[h] # Off
    BY <1>b, <1>d
  <2> QED
    BY <1>a, <1>e, <1>f, <2>1 DEF BusInv, HandlerInv
<1>4. OrderInv'
  <2>1. /\ last'[h] <= count
        /\ \A i \in DOMAIN chan'[h] : last'[h] < chan'[h][i] /\ chan'[h][i] <= count
        /\ \A i, j \in DOMAIN chan'[h] : i < j => chan'[h][i] < chan'[h][j]
    <3>1. \A i \in DOMAIN chan'[h] :
             i \in Nat \ {0} /\ i + 1 \in DOMAIN chan[h] /\ chan'[h][i] = chan[h][i + 1]
      BY <1>b, <1>d
    <3>2. \A i, j \in DOMAIN chan[h] : i < j => chan[h][i] < chan[h][j]
      BY <1>a DEF BusInv, OrderInv
    <3>3. \A i \in DOMAIN chan[h] : chan[h][i] <= count
      BY <1>a DEF BusInv, OrderInv
    <3>4. \A i \in DOMAIN chan'[h] : last'[h] < chan'[h][i] /\ chan'[h][i] <= count
      <4> SUFFICES ASSUME NEW i \in DOMAIN chan'[h]
                   PROVE  chan[h][1] < chan[h][i + 1] /\ chan[h][i + 1] <= count
        BY <1>d, <3>1
      <4> QED
        BY <1>b, <3>1, <3>2, <3>3
    <3>5. \A i, j \in DOMAIN chan'[h] : i < j => chan'[h][i] < chan'[h][j]
      <4> SUFFICES ASSUME NEW i \in DOMAIN chan'[h], NEW j \in DOMAIN chan'[h], i < j
                   PROVE  chan[h][i + 1] < chan[h][j + 1]
        BY <3>1
      <4> QED
        BY <3>1, <3>2
    <3> QED
      BY <1>c, <1>d, <3>4, <3>5
  <2>2. (\E p \in Publishers : h \in targets[p]) =>
           last'[h] < count /\ \A i \in DOMAIN chan'[h] : chan'[h][i] < count
    BY <1>a, <1>b, <1>d DEF BusInv, OrderInv
  <2>3. subs \subseteq Subscribers
    BY DEF BusInv, BusTypeOK
  <2> QED
    BY <1>e, <1>f, <2>1, <2>2, <2>3 DEF BusInv, OrderInv, sendVars
<1> QED
  BY <1>1, <1>2, <1>3, <1>4, <1>a, <1>b, <1>c DEF BusInv

\* A handler leaves while nobody is sending; its channel is closed afterwards.
LEMMA LeaveInv ==
    ASSUME BusInv, NEW h \in Subscribers, Cancel(h) \/ CloseChannel(h)
    PROVE  BusInv'
<1> USE BusAssumption
<1>1. CASE Cancel(h)
  <2>a. \A p \in Publishers : targets[p] = {}
    BY <1>1 DEF BusInv, BusTypeOK, MutexInv, Cancel
  <2>1. BusTypeOK' /\ MutexInv'
    BY <1>1, <2>a DEF BusInv, BusTypeOK, MutexInv, Cancel, sendVars
  <2>2. HandlerInv'
    BY <1>1 DEF BusInv, BusTypeOK, HandlerInv, Cancel
  <2>3. OrderInv'
    BY <1>1 DEF BusInv, BusTypeOK, OrderInv, Cancel, sendVars
  <2> QED
    BY <2>1, <2>2, <2>3 DEF BusInv
<1>2. CASE CloseChannel(h)
  <2>1. BusTypeOK' /\ MutexInv' /\ OrderInv'
    BY <1>2 DEF BusInv, BusTypeOK, MutexInv, OrderInv, CloseChannel, sendVars
  <2>2. HandlerInv'
    BY <1>2 DEF BusInv, BusTypeOK, HandlerInv, CloseChannel
  <2> QED
    BY <2>1, <2>2 DEF BusInv
<1> QED
  BY <1>1, <1>2

\* The invariant is inductive.
THEOREM BusInvariant == BusSpec => []BusInv
<1>1. BusInv /\ [BusNext]_bvars => BusInv'
  <2>1. ASSUME BusInv, BusNext PROVE BusInv'
    BY <2>1, PublishBeginInv, PublishSendInv, PublishEndInv, SubscribeInv, ReceiveInv, LeaveInv
       DEF BusNext, PublishNext
  <2>2. ASSUME BusInv, UNCHANGED bvars PROVE BusInv'
    BY <2>2 DEF bvars, sendVars, BusInv, BusTypeOK, MutexInv, HandlerInv, OrderInv
  <2> QED
    BY <2>1, <2>2
<1> QED
  BY <1>1, BusInitInv, PTL DEF BusSpec

\* No goroutine ever sends on a closed channel.
THEOREM SendsToOpen == BusSpec => []NoSendOnClosed
<1>1. BusInv => NoSendOnClosed
  BY DEF BusInv, BusTypeOK, MutexInv, HandlerInv, NoSendOnClosed
<1> QED
  BY <1>1, BusInvariant, PTL

\* Channels keep to their capacity and every variable has its type, for any capacity.
THEOREM BusTypes == BusSpec => []BusTypeOK
<1>1. BusInv => BusTypeOK
  BY DEF BusInv
<1> QED
  BY <1>1, BusInvariant, PTL

-----------------------------------------------------------------------------
(***************************************************************************)
(* Nothing is lost except by a full channel.  NoGaps is inductive relative *)
(* to BusInv; GapFree is what it says of one handler.                      *)
(***************************************************************************)
GapFree(h) ==
    /\ \A i \in DOMAIN chan[h] : chan[h][i] = last[h] + i
    /\ \/ last[h] + Len(chan[h]) = count
       \/ last[h] + Len(chan[h]) + 1 = count /\ \E p \in Publishers : h \in targets[p]

\* NoGaps says of every handler that missed nothing that it is free of gaps.
LEMMA NoGapsIs ==
    ASSUME BusTypeOK, HandlerInv
    PROVE  NoGaps <=> \A h \in subs \ missed : GapFree(h)
<1>1. \A h \in subs : last[h] \in Nat /\ Len(chan[h]) \in Nat
  BY DEF BusTypeOK, HandlerInv
<1>2. count \in Nat
  BY DEF BusTypeOK
<1>3. \A h \in subs : last[h] + Len(chan[h]) + 1 = count + 1 <=> last[h] + Len(chan[h]) = count
  BY <1>1, <1>2
<1> QED
  BY <1>3 DEF NoGaps, GapFree

\* A handler that the loop has not visited yet lacks exactly the event being sent
\* (state.go:35-40).
LEMMA UnsentIsNext ==
    ASSUME BusInv, NEW h \in subs, GapFree(h), NEW p \in Publishers, h \in targets[p]
    PROVE  last[h] + Len(chan[h]) + 1 = count
<1>1. /\ last[h] \in Nat /\ chan[h] \in Seq(Nat) /\ Len(chan[h]) \in Nat /\ count \in Nat
  BY DEF BusInv, BusTypeOK, HandlerInv
<1>2. last[h] < count /\ \A i \in DOMAIN chan[h] : chan[h][i] < count
  BY DEF BusInv, OrderInv
<1> SUFFICES ASSUME last[h] + Len(chan[h]) = count PROVE FALSE
  BY DEF GapFree
<1>3. Len(chan[h]) # 0
  BY <1>1, <1>2
<1>4. Len(chan[h]) \in DOMAIN chan[h]
  BY <1>1, <1>3
<1>5. chan[h][Len(chan[h])] = last[h] + Len(chan[h])
  BY <1>4 DEF GapFree
<1> QED
  BY <1>1, <1>2, <1>4, <1>5

\* Every step keeps a handler that has missed nothing free of gaps.
LEMMA GapStep ==
    ASSUME BusInv, BusNext, \A h \in subs \ missed : GapFree(h),
           NEW h \in subs' \ missed'
    PROVE  GapFree(h)'
<1> USE BusAssumption
<1>0. h \in Subscribers /\ count \in Nat /\ subs \subseteq Subscribers
  BY DEF BusInv, BusTypeOK, BusNext, PublishNext, PublishBegin, PublishSend, PublishEnd, Subscribe,
         Receive, Cancel, CloseChannel
<1>1. ASSUME NEW p \in Publishers, PublishBegin(p) PROVE GapFree(h)'
  <2>1. UNCHANGED <<subs, missed, chan, last>> /\ count' = count + 1
    BY <1>1 DEF PublishBegin
  <2>2. h \in targets'[p]
    BY <1>1, <2>1 DEF PublishBegin, BusInv, BusTypeOK
  <2>3. \A q \in Publishers : targets[q] = {}
    BY <1>1 DEF BusInv, BusTypeOK, MutexInv, PublishBegin
  <2>4. last[h] \in Nat /\ Len(chan[h]) \in Nat
    BY <2>1 DEF BusInv, BusTypeOK, HandlerInv
  <2>5. last[h] + Len(chan[h]) = count /\ \A i \in DOMAIN chan[h] : chan[h][i] = last[h] + i
    BY <2>1, <2>3 DEF GapFree
  <2> QED
    BY <1>0, <2>1, <2>2, <2>4, <2>5 DEF GapFree
<1>2. ASSUME NEW p \in Publishers, NEW g \in Subscribers, PublishSend(p, g) PROVE GapFree(h)'
  <2>1. /\ UNCHANGED <<subs, last, count>> /\ missed \subseteq missed' /\ h \in subs \ missed
        /\ g \in targets[p] /\ ev[p] = count /\ GapFree(h)
    BY <1>2 DEF PublishSend, BusInv, MutexInv
  <2>2. last[h] \in Nat /\ Len(chan[h]) \in Nat /\ chan[h] \in Seq(Nat)
    BY <2>1 DEF BusInv, BusTypeOK, HandlerInv
  <2>3. CASE g # h
    <3>1. chan'[h] = chan[h]
      BY <1>0, <1>2, <2>3 DEF PublishSend, BusInv, BusTypeOK
    <3>2. \A q \in Publishers : h \in targets[q] => h \in targets'[q]
      BY <1>2, <2>3 DEF PublishSend, BusInv, BusTypeOK
    <3> QED
      BY <2>1, <3>1, <3>2 DEF GapFree
  <2>4. CASE g = h
    <3>1. chan'[h] = Append(chan[h], count)
      BY <1>0, <1>2, <2>1, <2>4 DEF PublishSend, BusInv, BusTypeOK
    <3>2. last[h] + Len(chan[h]) + 1 = count
      BY <2>1, <2>4, UnsentIsNext
    <3>3. Len(chan'[h]) = Len(chan[h]) + 1
      BY <1>0, <2>2, <3>1
    <3>4. \A i \in DOMAIN chan'[h] : chan'[h][i] = last[h] + i
      <4> SUFFICES ASSUME NEW i \in DOMAIN chan'[h] PROVE chan'[h][i] = last[h] + i
        OBVIOUS
      <4>1. i \in DOMAIN chan[h] \/ i = Len(chan[h]) + 1
        BY <1>0, <2>2, <3>1
      <4>2. CASE i \in DOMAIN chan[h]
        BY <1>0, <2>1, <2>2, <3>1, <4>2 DEF GapFree
      <4>3. CASE i = Len(chan[h]) + 1
        BY <1>0, <2>2, <3>1, <3>2, <4>3
      <4> QED
        BY <4>1, <4>2, <4>3
    <3>5. last'[h] + Len(chan'[h]) = count'
      BY <1>0, <2>1, <2>2, <3>2, <3>3
    <3> QED
      BY <2>1, <3>4, <3>5 DEF GapFree
  <2> QED
    BY <2>3, <2>4
<1>3. ASSUME NEW p \in Publishers, PublishEnd(p) PROVE GapFree(h)'
  BY <1>3 DEF PublishEnd, GapFree
<1>4. ASSUME NEW g \in Subscribers, Subscribe(g) PROVE GapFree(h)'
  <2>1. UNCHANGED <<count, targets>>
    BY <1>4 DEF Subscribe, sendVars
  <2>2. CASE g = h
    <3>1. chan'[h] = << >> /\ last'[h] = count
      BY <1>0, <1>4, <2>2 DEF Subscribe, BusInv, BusTypeOK
    <3> QED
      BY <1>0, <2>1, <3>1 DEF GapFree
  <2>3. CASE g # h
    <3>1. chan'[h] = chan[h] /\ last'[h] = last[h] /\ h \in subs \ missed
      BY <1>0, <1>4, <2>3 DEF Subscribe, BusInv, BusTypeOK
    <3> QED
      BY <2>1, <3>1 DEF GapFree
  <2> QED
    BY <2>2, <2>3
<1>5. ASSUME NEW g \in Subscribers, Receive(g) PROVE GapFree(h)'
  <2>1. UNCHANGED <<count, targets, subs, missed>> /\ GapFree(h)
    BY <1>5 DEF Receive, sendVars
  <2>2. CASE g # h
    <3>1. chan'[h] = chan[h] /\ last'[h] = last[h]
      BY <1>0, <1>5, <2>2 DEF Receive, BusInv, BusTypeOK
    <3> QED
      BY <2>1, <3>1 DEF GapFree
  <2>3. CASE g = h
    <3>1. /\ last[h] \in Nat /\ chan[h] \in Seq(Nat) /\ chan[h] # << >>
          /\ Len(chan[h]) \in Nat /\ Len(chan[h]) > 0
      BY <1>5, <2>1, <2>3 DEF Receive, BusInv, BusTypeOK, HandlerInv
    <3>2. last'[h] = Head(chan[h]) /\ chan'[h] = Tail(chan[h])
      BY <1>0, <1>5, <2>3 DEF Receive, BusInv, BusTypeOK
    <3>3. 1 \in DOMAIN chan[h] /\ Head(chan[h]) = chan[h][1]
      BY <3>1
    <3>4. last'[h] = last[h] + 1
      BY <2>1, <3>2, <3>3 DEF GapFree
    <3>5. Len(chan'[h]) = Len(chan[h]) - 1
      BY <3>1, <3>2
    <3>6. ASSUME NEW i \in DOMAIN chan'[h] PROVE chan'[h][i] = last'[h] + i
      <4>1. i \in Nat /\ i + 1 \in DOMAIN chan[h] /\ chan'[h][i] = chan[h][i + 1]
        BY <3>1, <3>2
      <4>2. chan[h][i + 1] = last[h] + (i + 1)
        BY <2>1, <4>1 DEF GapFree
      <4>3. last[h] + (i + 1) = (last[h] + 1) + i
        BY <3>1, <4>1
      <4> QED
        BY <3>4, <4>1, <4>2, <4>3
    <3>7. last'[h] + Len(chan'[h]) = last[h] + Len(chan[h])
      BY <3>1, <3>4, <3>5
    <3> QED
      BY <2>1, <3>6, <3>7 DEF GapFree
  <2> QED
    BY <2>2, <2>3
<1>6. ASSUME NEW g \in Subscribers, Cancel(g) \/ CloseChannel(g) PROVE GapFree(h)'
  <2>1. UNCHANGED <<count, targets, missed, chan>> /\ h \in subs \ missed /\ last'[h] = last[h]
    BY <1>0, <1>6 DEF Cancel, CloseChannel, sendVars, BusInv, BusTypeOK
  <2> QED
    BY <2>1 DEF GapFree
<1> QED
  BY <1>1, <1>2, <1>3, <1>4, <1>5, <1>6 DEF BusNext, PublishNext

\* A handler whose channel was never full gets every event from its subscription on,
\* for any capacity and any number of publishers and handlers (state.go:35-40).
THEOREM DropsOnlyWhenFull == BusSpec => []NoGaps
<1>1. BusInit => NoGaps
  BY DEF BusInit, NoGaps
<1>2. BusInv /\ BusInv' /\ NoGaps /\ [BusNext]_bvars => NoGaps'
  <2>1. CASE BusNext
    <3>1. BusInv /\ NoGaps => \A h \in subs \ missed : GapFree(h)
      BY NoGapsIs DEF BusInv
    <3>2. BusInv' /\ (\A h \in subs \ missed : GapFree(h))' => NoGaps'
      <4>1. BusInv /\ (\A h \in subs \ missed : GapFree(h)) => NoGaps
        BY NoGapsIs DEF BusInv
      <4> QED
        BY <4>1, PTL
    <3> QED
      BY <2>1, <3>1, <3>2, GapStep
  <2>2. CASE UNCHANGED bvars
    BY <2>2 DEF NoGaps, bvars, sendVars
  <2> QED
    BY <2>1, <2>2
<1> QED
  BY <1>1, <1>2, BusInvariant, PTL DEF BusSpec

\* Every client of the bus sees a feed in publication order, without duplicates,
\* beginning at its subscription.
THEOREM ImplementsFeed == BusSpec => FeedImplemented
<1>1. BusInit => Feed!FeedInit
  BY DEF BusInit, Feed!FeedInit
<1>2. ASSUME BusInv, [BusNext]_bvars PROVE [Feed!FeedNext]_(Feed!feedVars)
  <2> SUFFICES ASSUME BusNext PROVE Feed!FeedNext \/ UNCHANGED <<count, last>>
    BY <1>2 DEF bvars, sendVars, Feed!feedVars
  <2>1. ASSUME NEW p \in Publishers, PublishBegin(p) PROVE Feed!FeedNext
    BY <1>2, <2>1 DEF PublishBegin, Feed!FeedNext, Feed!NewEvent
  <2>2. ASSUME NEW p \in Publishers, PublishNext(p) PROVE UNCHANGED <<count, last>>
    BY <2>2 DEF PublishNext, PublishEnd, PublishSend
  <2>3. ASSUME NEW h \in Subscribers, Subscribe(h) PROVE Feed!FeedNext
    <3>1. last[h] = Off
      BY <1>2, <2>3 DEF BusInv, HandlerInv, Subscribe
    <3> QED
      BY <2>3, <3>1 DEF Subscribe, sendVars, Feed!FeedNext, Feed!Connect
  <2>4. ASSUME NEW h \in Subscribers, Receive(h) PROVE Feed!FeedNext
    <3>1. /\ last[h] # Off /\ last[h] < Head(chan[h]) /\ Head(chan[h]) <= count
          /\ Head(chan[h]) \in 1 .. MaxEvents
      BY <1>2, <2>4, ReceiveInv DEF BusInv, HandlerInv
    <3>2. Feed!Show(h, Head(chan[h]))
      BY <2>4, <3>1 DEF Receive, sendVars, Feed!Show
    <3> QED
      BY <3>1, <3>2 DEF Feed!FeedNext
  <2>5. ASSUME NEW h \in Subscribers, Cancel(h) PROVE Feed!FeedNext
    <3>1. last[h] # Off
      BY <1>2, <2>5 DEF BusInv, HandlerInv, Cancel
    <3> QED
      BY <2>5, <3>1 DEF Cancel, sendVars, Feed!FeedNext, Feed!Hangup
  <2>6. ASSUME NEW h \in Subscribers, CloseChannel(h) PROVE UNCHANGED <<count, last>>
    BY <2>6 DEF CloseChannel, sendVars
  <2> QED
    BY <2>1, <2>2, <2>3, <2>4, <2>5, <2>6 DEF BusNext
<1> QED
  BY <1>1, <1>2, BusInvariant, PTL DEF BusSpec, FeedImplemented, Feed!FeedSpec
=============================================================================
