------------------------------ MODULE ActivityFeed ------------------------------
(***************************************************************************)
(* What GET /api/activity promises its clients: a live feed of the events  *)
(* published from the moment they connect, in the order of publication and *)
(* without duplicates.  Events may be left out; those of one client say    *)
(* nothing about another's.                                                *)
(***************************************************************************)
EXTENDS Naturals

CONSTANTS
    Subscribers,  \* clients
    MaxEvents,    \* bound on the number of events
    Off           \* the client is not connected

VARIABLES
    published,    \* how many events there have been; they are numbered from 1
    seen          \* seen[h]: the last event client h was shown, or when it connected

feedVars == <<published, seen>>

FeedInit == published = 0 /\ seen = [h \in Subscribers |-> Off]

NewEvent ==
    /\ published < MaxEvents
    /\ published' = published + 1
    /\ UNCHANGED seen

Connect(h) ==
    /\ seen[h] = Off
    /\ seen' = [seen EXCEPT ![h] = published]
    /\ UNCHANGED published

Show(h, e) ==
    /\ seen[h] # Off /\ seen[h] < e /\ e <= published
    /\ seen' = [seen EXCEPT ![h] = e]
    /\ UNCHANGED published

Hangup(h) ==
    /\ seen[h] # Off
    /\ seen' = [seen EXCEPT ![h] = Off]
    /\ UNCHANGED published

FeedNext ==
    \/ NewEvent
    \/ \E h \in Subscribers :
          Connect(h) \/ Hangup(h) \/ \E e \in 1 .. MaxEvents : Show(h, e)

FeedSpec == FeedInit /\ [][FeedNext]_feedVars
=============================================================================
