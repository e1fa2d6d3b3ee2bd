---------------------------- MODULE EventStream ----------------------------
(***************************************************************************)
(* What the daemon promises a connection that subscribed (docs/IPC.md, 3   *)
(* and 4): one Event per relevant change, in the order of the changes, and *)
(* an EventsDropped in the place of those a slow connection missed.        *)
(*                                                                         *)
(* log holds every event sent on DaemonState.events, by kind.  frames[s]   *)
(* is what subscription s has put on the connection so far; a frame speaks *)
(* of the events first to last: of one event, or of a run of dropped ones. *)
(***************************************************************************)
EXTENDS Naturals, Sequences

CONSTANTS
  Kind,       \* event kinds
  Sub,        \* subscriptions, in no particular order
  RingCap,    \* events the broadcast channel retains (EVENT_CHANNEL_CAP): positive
  MaxEvents   \* bound: events published

VARIABLES
  log,      \* kinds of the events published
  started,  \* subscriptions made so far
  filter,   \* the kinds each subscription asked for
  from,     \* events published before each subscription
  upto,     \* events each subscription has dealt with
  frames    \* frames each subscription has sent

streamVars == <<log, started, filter, from, upto, frames>>

EventFrame(n)       == [type |-> "Event", first |-> n, last |-> n]
DroppedFrame(a, b)  == [type |-> "EventsDropped", first |-> a, last |-> b]
Frame == [type : {"Event", "EventsDropped"}, first : Nat, last : Nat]

StreamTypeOK ==
  /\ log \in Seq(Kind) /\ Len(log) <= MaxEvents
  /\ started \subseteq Sub
  /\ filter \in [Sub -> SUBSET Kind]
  /\ from \in [Sub -> Nat]
  /\ upto \in [Sub -> Nat]
  /\ frames \in [Sub -> Seq(Frame)]

Init ==
  /\ log = <<>>
  /\ started = {}
  /\ filter = [s \in Sub |-> {}]
  /\ from = [s \in Sub |-> 0]
  /\ upto = [s \in Sub |-> 0]
  /\ frames = [s \in Sub |-> <<>>]

Publish(kind) ==
  /\ Len(log) < MaxEvents
  /\ log' = Append(log, kind)
  /\ UNCHANGED <<started, filter, from, upto, frames>>

Start(s, kinds) ==
  /\ s \notin started
  /\ started' = started \cup {s}
  /\ filter' = [filter EXCEPT ![s] = kinds]
  /\ from' = [from EXCEPT ![s] = Len(log)]
  /\ upto' = [upto EXCEPT ![s] = Len(log)]
  /\ UNCHANGED <<log, frames>>

Deliver(s) ==
  LET n == upto[s] + 1
  IN  /\ s \in started
      /\ n <= Len(log)
      /\ log[n] \in filter[s]
      /\ upto' = [upto EXCEPT ![s] = n]
      /\ frames' = [frames EXCEPT ![s] = Append(frames[s], EventFrame(n))]
      /\ UNCHANGED <<log, started, filter, from>>

PassOver(s) ==
  LET n == upto[s] + 1
  IN  /\ s \in started
      /\ n <= Len(log)
      /\ log[n] \notin filter[s]
      /\ upto' = [upto EXCEPT ![s] = n]
      /\ UNCHANGED <<log, started, filter, from, frames>>

\* Only events the channel no longer retains may be dropped.
Drop(s, last) ==
  /\ s \in started
  /\ upto[s] < last
  /\ last + RingCap <= Len(log)
  /\ upto' = [upto EXCEPT ![s] = last]
  /\ frames' = [frames EXCEPT ![s] = Append(frames[s], DroppedFrame(upto[s] + 1, last))]
  /\ UNCHANGED <<log, started, filter, from>>

Next ==
  \/ \E kind \in Kind : Publish(kind)
  \/ \E s \in Sub, kinds \in SUBSET Kind : Start(s, kinds)
  \/ \E s \in Sub : Deliver(s) \/ PassOver(s)
  \/ \E s \in Sub, last \in 1..MaxEvents : Drop(s, last)

Spec == Init /\ [][Next]_streamVars

-----------------------------------------------------------------------------
Covers(frame, n) == frame.first <= n /\ n <= frame.last

Accounted(s) ==
  \A n \in from[s] + 1 .. upto[s] :
    log[n] \in filter[s] => \E i \in DOMAIN frames[s] : Covers(frames[s][i], n)

FrameOK(s, frame) ==
  /\ from[s] < frame.first
  /\ frame.first <= frame.last
  /\ frame.last <= upto[s]
  /\ frame.type = "Event" => frame.first = frame.last /\ log[frame.first] \in filter[s]

Ordered(s) ==
  /\ \A i \in DOMAIN frames[s] : FrameOK(s, frames[s][i])
  /\ \A i, j \in DOMAIN frames[s] : i < j => frames[s][i].last < frames[s][j].first

\* Every event a subscription asked for and dealt with is in one of its
\* frames, as itself or among the dropped (do_subscribe, Lagged).
NothingUnaccounted == \A s \in started : Accounted(s)

\* Frames speak of events after the subscription, in order, of no event
\* twice, and an event frame only of an event asked for.
InOrderOnce == \A s \in started : Ordered(s)

=============================================================================
