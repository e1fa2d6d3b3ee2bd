----------------------------- MODULE EventPump -----------------------------
(***************************************************************************)
(* The daemon's core (crates/daemon/src/state.rs and main.rs): start-up,   *)
(* the event-pump thread that moves backend events into the shared graph,  *)
(* the policy chain it runs for every node that appears, the routes it     *)
(* keeps pending until both ends have ports, and the tasks it spawns for   *)
(* backend calls.  Composed with the PipeWire backend of PwBackend.        *)
(*                                                                         *)
(* The pump takes one event through several critical sections: the rules   *)
(* lock, the graph and script locks, the graph lock (apply), the IPC       *)
(* broadcast, the graph lock again (fire).  Each is a step of its own, so  *)
(* that rule reloads and everything else interleaves with them.            *)
(***************************************************************************)
EXTENDS PwBackend

CONSTANTS
  RuleTables,    \* what the rules may say; NoRules stands for no file
  ScriptTables,  \* what the script may say; NoScript stands for no script
  MaxLoads       \* bound: rule or script loads after start-up

Route(target) == [type |-> "Route", target |-> target]
Verdict ==
  [type : {"Route"}, target : Name]
    \cup [type : {"SetVolume"}, volume : Volume]
    \cup [type : {"Deny", "Notify", "NoMatch"}]
NoMatch == [type |-> "NoMatch"]
\* A script can only route, deny or leave the node alone.
ScriptVerdict == {v \in Verdict : v.type \in {"Route", "Deny", "NoMatch"}}

RuleTable   == [Node -> Verdict]
ScriptTable == [Node -> [SUBSET Name -> ScriptVerdict]]

NoRules  == [n \in Node |-> NoMatch]
NoScript == [n \in Node |-> [sinks \in SUBSET Name |-> NoMatch]]

ASSUME PumpAssumption ==
  /\ RuleTables \subseteq RuleTable
  /\ ScriptTables \subseteq ScriptTable
  /\ MaxLoads \in Nat

VARIABLES
  main,      \* start-up: "boot", "seeded", "pumping", "rules", "ready"
  seeded,    \* history: ids main put into the graph by enumeration
  rules,     \* DaemonState.rules, as the verdict for every node
  script,    \* DaemonState.script, likewise
  loads,     \* loads left
  graph,     \* DaemonState.graph
  pc,        \* where the pump is: "recv", "script", "apply", "publish", "fire"
  ev,        \* <<>> or <<event>> the pump is working on
  pending,   \* routes waiting for ports: node id -> target, node matched
  tasks,     \* spawned backend calls that have not run yet
  fires,     \* history: fire rounds so far, to tell equal tasks apart
  view,      \* history: nodes and links live according to the IPC events
  clash      \* history: names two nodes of the graph had at the same time

config   == <<rules, script, loads>>
pumpVars == <<graph, pc, ev, pending, tasks, fires, view, clash>>
vars     == <<backendVars, main, seeded, config, pumpVars>>

PendingRoute == [target : Name, node : Node]
Task ==
  [type : {"link"}, for : Id, link : Link, no : Nat]
    \cup [type : {"volume"}, for : Id, volume : Volume, no : Nat]

TypeOK ==
  /\ BackendTypeOK
  /\ main \in {"boot", "seeded", "pumping", "rules", "ready"}
  /\ seeded \subseteq Id
  /\ rules \in RuleTable
  /\ script \in ScriptTable
  /\ loads \in 0..MaxLoads
  /\ IsGraph(graph)
  /\ pc \in {"recv", "script", "apply", "publish", "fire"}
  /\ ev \in Seq(BackendEvent) /\ Len(ev) <= 1
  /\ (ev = <<>>) = (pc = "recv")
  /\ pc = "script" => ev[1].type = "NodeAppeared"
  /\ IsMap(pending, Id, PendingRoute)
  /\ tasks \subseteq Task
  /\ fires \in Nat
  /\ view = [nodes |-> view.nodes, links |-> view.links]
  /\ view.nodes \subseteq Id /\ view.links \subseteq Id
  /\ clash \subseteq Name

Init ==
  /\ BackendInit
  /\ main = "boot"
  /\ seeded = {}
  /\ rules = NoRules
  /\ script = NoScript
  /\ loads = MaxLoads
  /\ graph = EmptyGraph
  /\ pc = "recv"
  /\ ev = <<>>
  /\ pending = NoEntries
  /\ tasks = {}
  /\ fires = 0
  /\ view = [nodes |-> {}, links |-> {}]
  /\ clash = {}

-----------------------------------------------------------------------------
(***************************************************************************)
(* Start-up (main).  The backend thread is already running.                *)
(***************************************************************************)
Clashing(g) ==
  {g.nodes[i].name : i \in {j \in DOMAIN g.nodes :
      \E k \in DOMAIN g.nodes : k # j /\ g.nodes[k].name = g.nodes[j].name}}

\* enumerate_nodes clones the shared map; add_node puts each into the graph.
\* Ports and links are not enumerated.
EnumerateNodes ==
  /\ main = "boot"
  /\ main' = "seeded"
  /\ graph' = WithNodes(graph, shared)
  /\ seeded' = DOMAIN shared
  /\ clash' = Clashing(graph')
  /\ UNCHANGED <<backendVars, config, pc, ev, pending, tasks, fires, view>>

StartEventPump ==
  /\ main = "seeded"
  /\ main' = "pumping"
  /\ Subscribe
  /\ UNCHANGED <<registry, cmds, seeded, config, pumpVars>>

\* The rules file and the script are optional; one that is absent or does not
\* load leaves the default, which the tables then have to contain.
LoadRulesAtStart ==
  /\ main = "pumping"
  /\ main' = "rules"
  /\ rules' \in RuleTables
  /\ UNCHANGED <<backendVars, seeded, script, loads, pumpVars>>

LoadScriptAtStart ==
  /\ main = "rules"
  /\ main' = "ready"
  /\ script' \in ScriptTables
  /\ UNCHANGED <<backendVars, seeded, rules, loads, pumpVars>>

Startup == EnumerateNodes \/ StartEventPump \/ LoadRulesAtStart \/ LoadScriptAtStart

\* LoadRules, ReloadRules, LoadScript, ReloadScript and the script watcher
\* replace the engine under its lock; what they read from where is the
\* business of ConfigReload.
Reload ==
  /\ main = "ready"
  /\ loads > 0
  /\ loads' = loads - 1
  /\ \/ rules' \in RuleTables \ {rules} /\ UNCHANGED script
     \/ script' \in ScriptTables \ {script} /\ UNCHANGED rules
  /\ UNCHANGED <<backendVars, main, seeded, pumpVars>>

-----------------------------------------------------------------------------
(***************************************************************************)
(* The pump.                                                               *)
(***************************************************************************)
Event == ev[1]

\* handle_action: a route is only recorded; the other actions are done at
\* once, SetVolume by a task of its own.  Deny and Notify change nothing.
HandleAction(e, verdict) ==
  /\ pending' = IF verdict.type = "Route"
                THEN Insert(pending, e.id, [target |-> verdict.target, node |-> e.node])
                ELSE pending
  /\ tasks' = IF verdict.type = "SetVolume"
              THEN tasks \cup {[type |-> "volume", for |-> e.id,
                                volume |-> verdict.volume, no |-> fires]}
              ELSE tasks

\* Take the next event and consult the rules; on no match the script is next.
ReceiveEvent ==
  /\ main # "boot" /\ main # "seeded"
  /\ pc = "recv"
  /\ Receive
  /\ ev' = <<Head(queue)>>
  /\ LET e == Head(queue)
     IN  IF e.type = "NodeAppeared"
         THEN IF rules[e.node].type = "NoMatch"
              THEN pc' = "script" /\ UNCHANGED <<pending, tasks>>
              ELSE pc' = "apply" /\ HandleAction(e, rules[e.node])
         ELSE pc' = "apply" /\ UNCHANGED <<pending, tasks>>
  /\ UNCHANGED <<registry, cmds, main, seeded, config, graph, fires, view, clash>>

\* The script sees the names of the sinks in the graph, which does not hold
\* the new node yet.  Allow and None both mean no action.
SinkNames == {graph.nodes[i].name : i \in {j \in DOMAIN graph.nodes :
                                            graph.nodes[j].kind = "Sink"}}

EvaluateScript ==
  /\ pc = "script"
  /\ pc' = "apply"
  /\ HandleAction(Event, script[Event.node][SinkNames])
  /\ UNCHANGED <<backendVars, main, seeded, config, graph, ev, fires, view, clash>>

ApplyToGraph ==
  /\ pc = "apply"
  /\ pc' = "publish"
  /\ graph' = ApplyEvent(graph, Event)
  /\ clash' = clash \cup Clashing(graph')
  /\ UNCHANGED <<backendVars, main, seeded, config, ev, pending, tasks, fires, view>>

\* Slip: clients are not told of nodes that go.
HearNoRemoval(v, e) ==
  [nodes |-> IF e.type = "NodeAppeared" THEN v.nodes \cup {e.id} ELSE v.nodes,
   links |-> IF e.type = "LinkAppeared" THEN v.links \cup {e.id}
             ELSE IF e.type = "LinkRemoved" THEN v.links \ {e.id} ELSE v.links]

\* to_ipc_event and the send: what a client hears.  Port events are not
\* forwarded.  Only appearances of nodes and ports go on to fire.
Hear(v, e) ==
  [nodes |-> IF e.type = "NodeAppeared" THEN v.nodes \cup {e.id}
             ELSE IF e.type = "NodeRemoved" THEN v.nodes \ {e.id} ELSE v.nodes,
   links |-> IF e.type = "LinkAppeared" THEN v.links \cup {e.id}
             ELSE IF e.type = "LinkRemoved" THEN v.links \ {e.id} ELSE v.links]

\* Slip: pending routes are not tried again when a port shows up.
EvaluatedNodesOnly(e) == e.type = "NodeAppeared"

Evaluated(e) == e.type \in {"NodeAppeared", "PortAppeared"}

PublishEvent ==
  /\ pc = "publish"
  /\ view' = Hear(view, Event)
  /\ IF Evaluated(Event)
     THEN pc' = "fire" /\ UNCHANGED ev
     ELSE pc' = "recv" /\ ev' = <<>>
  /\ UNCHANGED <<backendVars, main, seeded, config, graph, pending, tasks, fires, clash>>

\* Every link a pending route may resolve to, the node found by name and the
\* first port of each side being arbitrary.
LinksFor(i) ==
  {[src |-> o, sink |-> s] : o \in OutputPortsOf(graph, i),
     s \in UNION {InputPortsOf(graph, t) : t \in NodesNamed(graph, pending[i].target)}}

\* The lookup may come back empty: no source port, no such node, or the node
\* it found among those of that name has no input port.
MayMiss(i) ==
  \/ OutputPortsOf(graph, i) = {}
  \/ NodesNamed(graph, pending[i].target) = {}
  \/ \E t \in NodesNamed(graph, pending[i].target) : InputPortsOf(graph, t) = {}

\* Slip: routes that fired stay pending.
ForgetNothing(fired) == pending

Forget(fired) == Without(pending, fired)

\* try_fire_pending: resolve all pending routes under one graph lock, spawn a
\* task for each resolved one and forget it.
FirePending ==
  /\ pc = "fire"
  /\ pc' = "recv"
  /\ ev' = <<>>
  /\ \E fired \in SUBSET DOMAIN pending :
       /\ \A i \in fired : LinksFor(i) # {}
       /\ \A i \in DOMAIN pending \ fired : MayMiss(i)
       /\ \E link \in [fired -> UNION {LinksFor(i) : i \in fired}] :
            /\ \A i \in fired : link[i] \in LinksFor(i)
            /\ tasks' = tasks \cup {[type |-> "link", for |-> i, link |-> link[i],
                                     no |-> fires] : i \in fired}
       /\ fires' = IF fired = {} THEN fires ELSE fires + 1
       /\ pending' = Forget(fired)
  /\ UNCHANGED <<backendVars, main, seeded, config, graph, view, clash>>

\* The spawned futures: create_link and set_volume only queue a command, in
\* whatever order the runtime polls them.  RulesApplied follows at once.
RunTask(t) ==
  /\ t \in tasks
  /\ tasks' = tasks \ {t}
  /\ Send(IF t.type = "link" THEN CreateLink(t.link) ELSE SetVolume(t.for, t.volume))
  /\ UNCHANGED <<registry, channel, main, seeded, config, graph, pc, ev, pending, fires,
                 view, clash>>

Pump == ReceiveEvent \/ EvaluateScript \/ ApplyToGraph \/ PublishEvent \/ FirePending

Next ==
  \/ ServerStep /\ UNCHANGED <<main, seeded, config, pumpVars>>
  \/ Startup
  \/ Reload
  \/ Pump
  \/ \E t \in tasks : RunTask(t)

Spec == Init /\ [][Next]_vars

-----------------------------------------------------------------------------
(***************************************************************************)
(* Invariants.                                                             *)
(***************************************************************************)
\* What a client heard, counting the event already applied but not yet sent.
Heard == IF pc = "publish" THEN Hear(view, Event) ELSE view

\* The IPC event stream (start_event_pump sends after it applies) describes
\* the graph that ListNodes and ListLinks return: the links exactly, the nodes
\* up to those main enumerated before the stream began.
EventsFollowGraph ==
  /\ Heard.links = DOMAIN graph.links
  /\ Heard.nodes \subseteq DOMAIN graph.nodes
  /\ DOMAIN graph.nodes \subseteq Heard.nodes \cup seeded

\* Whenever the pump waits for an event, no pending route is left that
\* try_fire_pending is sure to resolve, unless two nodes of the target's name
\* have been in the graph at once.
NoStalledRoute ==
  pc = "recv" => \A i \in DOMAIN pending : pending[i].target \in clash \/ MayMiss(i)

=============================================================================
