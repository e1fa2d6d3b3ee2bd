------------------------------ MODULE Endpoints ------------------------------
(***************************************************************************)
(* The daemon on each of its platforms: start-up (main.rs), the event pump *)
(* (state.rs) with its rules and its measurements, and volume calls, over  *)
(* the callbacks of CoreAudio, Wasapi and NodeInfo.                        *)
(*                                                                         *)
(* The pump's handling of an event is one step here: EventPump has it in   *)
(* detail, with ports, links and routes, none of which exist on macOS and  *)
(* Windows.  There a Route verdict waits for ports that never come, and is *)
(* left out like Deny and Notify, which change no state.                   *)
(***************************************************************************)
EXTENDS CoreAudio, Wasapi, NodeInfo, RulesEngine, FiniteSets, FiniteSetsExt

CONSTANTS
  NodeOf,    \* NodeOf[d]: what rules see of a device
  RuleFile,  \* the rules of the file main loads, in its order
  Asked,     \* volumes clients ask for, in or out of range
  RingLen    \* XrunLog::CAP

ASSUME EndpointsAssumption ==
  /\ RuleFile \in Seq(ToSet(RuleFile))
  /\ \A i \in DOMAIN RuleFile :
       /\ RuleFile[i].priority \in Int
       /\ RuleFile[i].action.type = "SetVolume" => RuleFile[i].action.volume \in Int
  /\ RingLen \in Nat \ {0}
  /\ Asked \subseteq Int

VARIABLES
  main,     \* start-up: "boot", "seeded", "pumping", "ready"
  engine,   \* DaemonState.rules
  graph,    \* the nodes of DaemonState.graph
  xruns,    \* DaemonState.xruns: ring, counts by node, total
  metrics,  \* DaemonState.metrics: samples by node and latency
  tasks,    \* spawned set_volume calls that have not run yet
  volume,   \* volume of each device
  owed      \* history: devices announced since the rules were loaded, and since
            \* then neither gone, nor adjusted by a client, nor refusing a rule's call

daemon == <<main, engine, graph, xruns, metrics, tasks, volume, owed>>
vars   == <<machine, backend, channel, coreAudio, wasapi, nodeInfo, daemon>>

\* The file's rules as load_toml orders them; a file that is missing or does
\* not parse leaves the engine empty.
Ordered == LoadToml(RuleFile)

DaemonOK ==
  /\ main \in {"boot", "seeded", "pumping", "ready"}
  /\ engine \in {<<>>, Ordered}
  /\ graph \subseteq Device
  /\ xruns = [ring |-> xruns.ring, counts |-> xruns.counts, total |-> xruns.total]
  /\ xruns.ring \in Seq(Device) /\ Len(xruns.ring) <= RingLen
  /\ xruns.counts \in [Device -> Nat]
  /\ xruns.total \in Nat
  /\ metrics \in [Device -> [Level -> Nat]]
  /\ \A t \in tasks : t.dev \in Device /\ t.volume \in Int
  /\ volume \in [Device -> Level]
  /\ owed \subseteq Device

TypeOK == DevicesOK /\ CoreAudioOK /\ WasapiOK /\ NodeInfoOK /\ DaemonOK

Init ==
  /\ DevicesInit /\ CoreAudioInit /\ WasapiInit /\ NodeInfoInit
  /\ main = "boot"
  /\ engine = <<>>
  /\ graph = {}
  /\ xruns = [ring |-> <<>>, counts |-> [d \in Device |-> 0], total |-> 0]
  /\ metrics = [d \in Device |-> [ms \in Level |-> 0]]
  /\ tasks = {}
  /\ volume = [d \in Device |-> 0]
  /\ owed = {}

-----------------------------------------------------------------------------
(***************************************************************************)
(* Start-up.                                                               *)
(***************************************************************************)
\* enumerate_nodes: what the platform lists; on Linux the shared map, from
\* which nodes that went are never taken out.
Listed(seen) ==
  \/ platform = "macos" /\ HalDevices(seen)
  \/ platform = "windows" /\ \/ seen = Nodes(Active) /\ UNCHANGED machine
                             \/ seen = {} /\ Fault
  \/ platform = "linux" /\ seen = {d \in Device : device[d] # "absent"} /\ UNCHANGED machine

\* history: the devices enumeration misreads, and on macOS those on which it
\* disagrees with the list the listener will compare with.
Disagreement(seen) ==
  Misread(seen) \cup IF platform = "macos"
                    THEN {"gap"} \X ((seen \ prev) \cup (prev \ seen)) ELSE {}

\* What events were lost before does not matter now.
EnumerateNodes ==
  /\ main = "boot"
  /\ backend = "listening"
  /\ main' = "seeded"
  /\ \E seen \in SUBSET Device :
       /\ Listed(seen)
       /\ graph' = seen
       /\ lost' = {l \in lost : l[1] # "node"} \cup Disagreement(seen)
  /\ UNCHANGED <<backend, sink, queue, outgoing, coreAudio, wasapi, nodeInfo, engine, xruns,
                 metrics, tasks, volume, owed>>

StartEventPump ==
  /\ main = "seeded"
  /\ main' = "pumping"
  /\ SubscribeDevices
  /\ UNCHANGED <<coreAudio, wasapi, nodeInfo, engine, graph, xruns, metrics, tasks, volume,
                 owed>>

LoadRules ==
  /\ main = "pumping"
  /\ main' = "ready"
  /\ engine' \in {<<>>, Ordered}
  /\ UNCHANGED <<machine, backend, channel, coreAudio, wasapi, nodeInfo, graph, xruns,
                 metrics, tasks, volume, owed>>

-----------------------------------------------------------------------------
(***************************************************************************)
(* The pump.                                                               *)
(***************************************************************************)
\* Slip: the newest xrun is dropped instead of the oldest.
RecordKeepingOldest(log, d) ==
  [ring   |-> IF Len(log.ring) = RingLen THEN log.ring ELSE Append(log.ring, d),
   counts |-> IF Len(log.ring) = RingLen THEN log.counts ELSE [log.counts EXCEPT ![d] = @ + 1],
   total  |-> IF Len(log.ring) = RingLen THEN log.total ELSE log.total + 1]

\* XrunLog::record.
RecordXrun(log, d) ==
  [ring   |-> Append(IF Len(log.ring) = RingLen THEN Tail(log.ring) ELSE log.ring, d),
   counts |-> [log.counts EXCEPT ![d] = @ + 1],
   total  |-> log.total + 1]

RecordLatency(m, d, ms) == [m EXCEPT ![d][ms] = @ + 1]

\* Slip: nodes already in the graph are not evaluated.
VolumeRuledNew(d) ==
  LET action == EvaluateNode(engine, NodeOf[d])
  IN  IF action.type = "SetVolume" /\ d \notin graph
      THEN {[dev |-> d, volume |-> action.volume]} ELSE {}

\* evaluate_node and handle_action for a node that appears.
VolumeRuled(d) ==
  LET action == EvaluateNode(engine, NodeOf[d])
  IN  IF action.type = "SetVolume" THEN {[dev |-> d, volume |-> action.volume]} ELSE {}

\* One event: measurements, rules, graph.
PumpEvent ==
  /\ queue # <<>>
  /\ queue' = Tail(queue)
  /\ LET ev == Head(queue)
     IN  /\ xruns' = IF ev.type = "Xrun" THEN RecordXrun(xruns, ev.dev) ELSE xruns
         /\ metrics' = IF ev.type = "LatencySample"
                       THEN RecordLatency(metrics, ev.dev, ev.ms) ELSE metrics
         /\ tasks' = IF ev.type = "NodeAppeared" THEN tasks \cup VolumeRuled(ev.dev) ELSE tasks
         /\ graph' = IF ev.type = "NodeAppeared" THEN graph \cup {ev.dev}
                     ELSE IF ev.type = "NodeRemoved" THEN graph \ {ev.dev} ELSE graph
  /\ UNCHANGED <<machine, backend, sink, outgoing, lost, coreAudio, wasapi, nodeInfo, main,
                 engine, volume, owed>>

-----------------------------------------------------------------------------
(***************************************************************************)
(* Volumes.  A call succeeds only on an active device, and on macOS only   *)
(* on an output; even there it may fail: a device with per-stream volume   *)
(* only (macOS), no COM object or interface (Windows), any refusal of the  *)
(* system's.  On Linux the call queues a command for the loop (PwBackend), *)
(* and is one step here.                                                   *)
(***************************************************************************)
Clamp(v) == IF v > Full THEN Full ELSE IF v < 0 THEN 0 ELSE v

Turn(d, v) ==
  /\ d \in Active
  /\ platform = "macos" => Kind[d] = "Sink"
  /\ volume' = [volume EXCEPT ![d] = Clamp(v)]

\* The spawned future of a rule; an error is logged, and that is all.
RunTask(t) ==
  /\ t \in tasks
  /\ tasks' = tasks \ {t}
  /\ \/ Turn(t.dev, t.volume) /\ UNCHANGED owed
     \/ owed' = owed \ {t.dev} /\ UNCHANGED volume
  /\ UNCHANGED <<machine, backend, channel, coreAudio, wasapi, nodeInfo, main, engine, graph,
                 xruns, metrics>>

\* Op::SetVolume of a client; one that fails changes nothing.
ClientVolume(d, v) ==
  /\ main = "ready"
  /\ platform # "linux"
  /\ Turn(d, v)
  /\ owed' = owed \ {d}
  /\ UNCHANGED <<machine, backend, channel, coreAudio, wasapi, nodeInfo, main, engine, graph,
                 xruns, metrics, tasks>>

-----------------------------------------------------------------------------
\* A device that becomes active comes with a volume of its own.
Adjusts(d) ==
  /\ volume' = IF device'[d] = "active" /\ device[d] # "active"
               THEN [volume EXCEPT ![d] = 0] ELSE volume
  /\ owed' = IF device'[d] # device[d] THEN owed \ {d} ELSE owed

\* An announcement on its way to a daemon that has its rules.
Owes ==
  owed' = IF /\ main = "ready"
             /\ Len(queue') > Len(queue)
             /\ Head(outgoing).type = "NodeAppeared"
             /\ Head(outgoing).dev \in Active
          THEN owed \cup {Head(outgoing).dev} ELSE owed

rest == <<main, engine, graph, xruns, metrics, tasks>>

Hardware ==
  \/ \E d \in Device : HalChange(d) /\ Adjusts(d) /\ UNCHANGED <<wasapi, nodeInfo, rest>>
  \/ \E d \in Device : EndpointChange(d) /\ Adjusts(d) /\ UNCHANGED <<coreAudio, nodeInfo, rest>>
  \/ \E d \in Device : /\ NodeGlobal(d) \/ NodeGone(d) \/ PropertyChange(d)
                       /\ Adjusts(d)
                       /\ UNCHANGED <<coreAudio, wasapi, rest>>

Callbacks ==
  \/ DevicesChanged /\ UNCHANGED <<wasapi, nodeInfo, daemon>>
  \/ Callback /\ UNCHANGED <<coreAudio, nodeInfo, daemon>>
  \/ \E d \in Device : Info(d) /\ UNCHANGED <<coreAudio, wasapi, daemon>>
  \/ BroadcastNext /\ Owes /\ UNCHANGED <<coreAudio, wasapi, nodeInfo, volume, rest>>

Startup ==
  \/ (ReadInitial \/ AddListener) /\ UNCHANGED <<wasapi, nodeInfo, daemon>>
  \/ Register /\ UNCHANGED <<coreAudio, nodeInfo, daemon>>
  \/ StartLoop /\ UNCHANGED <<coreAudio, wasapi, daemon>>
  \/ EnumerateNodes \/ StartEventPump \/ LoadRules

Next ==
  \/ Hardware \/ Callbacks \/ Startup \/ PumpEvent
  \/ \E d \in Device, v \in Asked : ClientVolume(d, v)
  \/ \E t \in tasks : RunTask(t)

Spec == Init /\ [][Next]_vars

-----------------------------------------------------------------------------
(***************************************************************************)
(* Properties.  They speak of a daemon that has caught up, and leave out   *)
(* what it could not know (lost): what came or went while nobody listened, *)
(* between the first list and the listener on macOS, and between           *)
(* enumeration and subscription everywhere.                                *)
(***************************************************************************)
CaughtUp ==
  /\ sink = "open"
  /\ outgoing = <<>> /\ queue = <<>> /\ tasks = {}
  /\ ~dirty /\ notices = <<>> /\ news = {}

Knows(topic, d) == <<topic, d>> \notin lost

\* The graph of a daemon that caught up holds the devices that are there and
\* usable, whatever lists, comparisons and callbacks (devices_changed_proc,
\* NotifyClient) it went through; on Windows also an inactive endpoint that
\* OnDeviceAdded announced.
GraphMirrorsDevices ==
  CaughtUp => \A d \in Device : Knows("node", d) /\ Knows("gap", d) =>
                \/ d \in graph <=> d \in Nodes(Active)
                \/ d \in early /\ d \in graph

\* A device announced to a daemon with rules has the volume of the winning
\* rule (load_toml, evaluate_node, handle_action), unless it went away, a client
\* adjusted it, or the system refused a rule's call for it since; if that rule
\* sets none, or none matches, it has its own or one a client asked for.  What
\* wins is what the code takes for a match, which is not all rules.md says.
RulesReachDevices ==
  CaughtUp /\ engine # <<>> => \A d \in owed :
    /\ \A i \in DOMAIN RuleFile :
         /\ Winner(RuleFile, NodeOf[d], i)
         /\ RuleFile[i].action.type = "SetVolume"
         => volume[d] = Clamp(RuleFile[i].action.volume)
    /\ (\A i \in DOMAIN RuleFile :
          Winner(RuleFile, NodeOf[d], i) => RuleFile[i].action.type # "SetVolume")
         => volume[d] \in {0} \cup {Clamp(v) : v \in Asked}

\* GetMetrics counts every xrun a node reported since its first info and no
\* other, and keeps the latest (XrunLog), as long as the node's id is its own.
XrunsCounted ==
  /\ \A d \in Active \ reused :
       baseline[d] # Unheard => xruns.counts[d] <= counter[d] - baseline[d]
  /\ CaughtUp /\ platform = "linux" => \A d \in Active \ reused :
       Knows("Xrun", d) => xruns.counts[d] = counter[d] - baseline[d]
  /\ xruns.total = MapThenSumSet(LAMBDA d : xruns.counts[d], Device)
  /\ Len(xruns.ring) = Min({xruns.total, RingLen})

\* The latency a node advertises is among the samples GetMetrics summarises,
\* debounced as they are; also for a node that inherited an id.
LatencyRecorded ==
  CaughtUp /\ platform = "linux" => \A d \in Active :
    Knows("LatencySample", d) => metrics[d][latency[d]] > 0

=============================================================================
