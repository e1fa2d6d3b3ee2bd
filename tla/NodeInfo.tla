------------------------------ MODULE NodeInfo ------------------------------
(***************************************************************************)
(* The node-info listener of the PipeWire backend                          *)
(* (crates/pipewire-backend/src/lib.rs): latency samples and xruns taken   *)
(* from the properties a node advertises, against baselines kept by node   *)
(* id.  The baselines outlive the node; PipeWire (external) may give its   *)
(* id to another.  PwBackend has the rest of that backend.                 *)
(***************************************************************************)
EXTENDS DeviceEvents

CONSTANTS
  MaxXruns,  \* bound: the xrun counter a node advertises
  Unheard    \* stands for a map without an entry

ASSUME NodeInfoAssumption == MaxXruns \in Nat \ {0} /\ Unheard \notin Nat

VARIABLES
  counter,    \* xrun-count of each node
  latency,    \* node.latency of each node
  news,       \* nodes whose properties the listener has yet to be told
  lastXrun,   \* last_xrun
  lastLat,    \* last_latency
  baseline,   \* history: the first counter the listener was told of
  reused      \* history: ids more than one node has had

nodeInfo == <<counter, latency, news, lastXrun, lastLat, baseline, reused>>

NodeInfoOK ==
  /\ counter \in [Device -> 0..MaxXruns]
  /\ latency \in [Device -> Level]
  /\ news \subseteq Device
  /\ lastXrun \in [Device -> 0..MaxXruns \cup {Unheard}]
  /\ lastLat \in [Device -> Level \cup {Unheard}]
  /\ baseline \in [Device -> 0..MaxXruns \cup {Unheard}]
  /\ reused \subseteq Device

\* The registry replays the nodes that are there when the loop starts: they
\* are "absent" until their first callback.
NodeInfoInit ==
  /\ counter = [d \in Device |-> 0]
  /\ latency = [d \in Device |-> 0]
  /\ news = {}
  /\ lastXrun = [d \in Device |-> Unheard]
  /\ lastLat = [d \in Device |-> Unheard]
  /\ baseline = [d \in Device |-> Unheard]
  /\ reused = {}

\* The loop thread starts; new returns at once.
StartLoop ==
  /\ platform = "linux"
  /\ backend = "new"
  /\ backend' = "listening"
  /\ UNCHANGED <<machine, channel, nodeInfo>>

\* A node appears, perhaps under an id that was free again, with a counter
\* and a latency of its own; its first info follows.
NodeGlobal(d) ==
  /\ platform = "linux"
  /\ backend = "listening"
  /\ CallbackIdle
  /\ Becomes(d, {"absent", "gone"}, "active")
  /\ Announce(<<Appeared(d)>>)
  /\ \E c \in 0..1, ms \in Level :
       /\ counter' = [counter EXCEPT ![d] = c]
       /\ latency' = [latency EXCEPT ![d] = ms]
  /\ news' = news \cup {d}
  /\ reused' = IF device[d] = "gone" THEN reused \cup {d} ELSE reused
  /\ UNCHANGED <<backend, lost, lastXrun, lastLat, baseline>>

NodeGone(d) ==
  /\ platform = "linux"
  /\ backend = "listening"
  /\ CallbackIdle
  /\ Becomes(d, {"active"}, "gone")
  /\ Announce(<<Removed(d)>>)
  /\ news' = news \ {d}
  /\ UNCHANGED <<backend, lost, counter, latency, lastXrun, lastLat, baseline, reused>>

\* The node misses its deadline, or settles for another latency.
PropertyChange(d) ==
  /\ platform = "linux"
  /\ d \in Active
  /\ changes > 0
  /\ changes' = changes - 1
  /\ \/ counter[d] < MaxXruns /\ counter' = [counter EXCEPT ![d] = @ + 1] /\ UNCHANGED latency
     \/ \E ms \in Level \ {latency[d]} :
          latency' = [latency EXCEPT ![d] = ms] /\ UNCHANGED counter
  /\ news' = news \cup {d}
  /\ UNCHANGED <<platform, device, faults, backend, channel, lastXrun, lastLat, baseline, reused>>

\* Slip: the first latency is only the baseline, as for xruns.
LatencyEventsAfterFirst(d) ==
  IF lastLat[d] \in {Unheard, latency[d]} THEN <<>> ELSE <<Sample(d, latency[d])>>

LatencyEvents(d) == IF lastLat[d] = latency[d] THEN <<>> ELSE <<Sample(d, latency[d])>>

\* Slip: the first counter counts from zero.
NewXrunsFromZero(d) ==
  IF lastXrun[d] = Unheard THEN counter[d]
  ELSE IF counter[d] > lastXrun[d] THEN counter[d] - lastXrun[d] ELSE 0

\* The first counter is only the baseline; a smaller one changes nothing.
NewXruns(d) ==
  IF lastXrun[d] = Unheard \/ counter[d] <= lastXrun[d] THEN 0 ELSE counter[d] - lastXrun[d]

\* The info callback, with the properties as they are by then.
Info(d) ==
  /\ d \in news
  /\ CallbackIdle
  /\ Announce(LatencyEvents(d) \o [i \in 1..NewXruns(d) |-> Xrun(d)])
  /\ news' = news \ {d}
  /\ lastLat' = [lastLat EXCEPT ![d] = latency[d]]
  /\ lastXrun' = [lastXrun EXCEPT ![d] = IF @ = Unheard \/ counter[d] > @ THEN counter[d] ELSE @]
  /\ baseline' = [baseline EXCEPT ![d] = IF @ = Unheard THEN counter[d] ELSE @]
  /\ UNCHANGED <<machine, backend, lost, counter, latency, reused>>

=============================================================================
