-------------------------- MODULE EventPump_proofs --------------------------
(***************************************************************************)
(* Proofs about EventPump, for every set of ids, nodes, rules and scripts, *)
(* every channel capacity and every bound.                                 *)
(***************************************************************************)
EXTENDS EventPump, TLAPS

(***************************************************************************)
(* Maps and graphs.                                                        *)
(***************************************************************************)
\* Inserting an entry, whether or not it overwrites, keeps a map a map.
LEMMA MapInsert ==
  ASSUME NEW Key, NEW Value, NEW m, IsMap(m, Key, Value), NEW k \in Key, NEW v \in Value
  PROVE  /\ IsMap(Insert(m, k, v), Key, Value)
         /\ DOMAIN Insert(m, k, v) = DOMAIN m \cup {k}
         /\ IsMap(OrInsert(m, k, v), Key, Value)
         /\ DOMAIN OrInsert(m, k, v) = DOMAIN m \cup {k}
BY DEF IsMap, Insert, OrInsert

\* Dropping entries keeps a map a map.
LEMMA MapWithout ==
  ASSUME NEW Key, NEW Value, NEW m, IsMap(m, Key, Value), NEW keys
  PROVE  /\ IsMap(Without(m, keys), Key, Value)
         /\ DOMAIN Without(m, keys) = DOMAIN m \ keys
         /\ \A k \in DOMAIN m \ keys : Without(m, keys)[k] = m[k]
BY DEF IsMap, Without, Restrict

\* The map without entries.
LEMMA MapNoEntries == \A Key, Value : IsMap(NoEntries, Key, Value)
BY DEF IsMap, NoEntries

\* apply_event keeps a graph well-formed, whatever the event.
LEMMA ApplyEventType ==
  ASSUME NEW g, IsGraph(g), NEW e \in BackendEvent
  PROVE  IsGraph(ApplyEvent(g, e))
BY MapInsert, MapWithout
   DEF IsGraph, ApplyEvent, BackendEvent, RemoveNode, RemovePort, RemoveLink,
       RemovalKind, WithNodes, WithPorts, WithLinks

\* An id of the 64 bits clients have is cut to one PipeWire can have, and one
\* PipeWire has is left as it is.
LEMMA CutToPwId == \A i \in Nat : Cut(i) \in PwId
BY BackendAssumption DEF Cut, PwId

LEMMA CutId == \A i \in Id : Cut(i) = i /\ i \in PwId
<1>1. \A w \in Nat \ {0} : \A i \in 0..(w - 1) : i % w = i
  OBVIOUS
<1> QED
  BY <1>1, BackendAssumption DEF Cut, PwId

LEMMA CutLink == \A l \in Link : [src |-> Cut(l.src), sink |-> Cut(l.sink)] = l
BY CutId DEF Link

-----------------------------------------------------------------------------
(***************************************************************************)
(* Type correctness.                                                       *)
(***************************************************************************)
\* The constructors build backend events.
LEMMA EventTypes ==
  /\ \A i \in Id, n \in Node : NodeAppeared(i, n) \in BackendEvent
  /\ \A i \in Id, p \in Port : PortAppeared(i, p) \in BackendEvent
  /\ \A i \in Id, l \in Link : LinkAppeared(i, l) \in BackendEvent
  /\ \A i \in Id, kind \in RemovalKind : Removed(kind, i) \in BackendEvent
BY DEF NodeAppeared, PortAppeared, LinkAppeared, Removed, BackendEvent

\* A broadcast keeps the channel well-formed and within its capacity.
LEMMA BroadcastType ==
  ASSUME BackendTypeOK, NEW e \in BackendEvent, Broadcast(e)
  PROVE  /\ queue' \in Seq(BackendEvent) /\ Len(queue') <= EventCap
         /\ sub' \in {"none", "open", "pruned"}
         /\ told' \subseteq Id
<1>1. e.id \in Id
  BY DEF BackendEvent
<1>2. EventCap \in Nat
  BY BackendAssumption
<1>. QED
  BY <1>1, <1>2 DEF BackendTypeOK, Broadcast

\* Dropping a global keeps everything the registry callback writes
\* well-formed.
LEMMA DropGlobalType ==
  ASSUME BackendTypeOK, NEW i \in Live, DropGlobal(i)
  PROVE  /\ IsGraph(server') /\ IsMap(gain', Id, Volume)
         /\ queue' \in Seq(BackendEvent) /\ Len(queue') <= EventCap
         /\ sub' \in {"none", "open", "pruned"}
         /\ told' \subseteq Id
<1>1. i \in Id
  BY DEF BackendTypeOK, IsGraph, IsMap, Live, LiveNodes, LivePorts, LiveLinks
<1>2. Removed(KindRemoved(i), i) \in BackendEvent
  BY <1>1, EventTypes DEF KindRemoved, RemovalKind
<1>3. IsGraph(server') /\ IsMap(gain', Id, Volume)
  BY MapWithout DEF DropGlobal, BackendTypeOK, IsGraph
<1>. QED
  BY <1>2, <1>3, BroadcastType DEF DropGlobal

\* Every step of the backend keeps its state well-formed.
LEMMA ServerStepType == BackendTypeOK /\ ServerStep => BackendTypeOK'
<1> SUFFICES ASSUME BackendTypeOK, ServerStep PROVE BackendTypeOK'
  OBVIOUS
<1> USE DEF BackendTypeOK
<1>. EventCap \in Nat /\ MaxChanges \in Nat
  BY BackendAssumption
<1>1. ASSUME NEW i \in Id, NEW n \in Node, NodeGlobal(i, n)
      PROVE  BackendTypeOK'
  <2>1. IsGraph(server') /\ IsMap(shared', Id, Node)
    BY <1>1, MapInsert DEF NodeGlobal, AddNode, WithNodes, IsGraph
  <2>2. calling' \in Seq(BackendEvent) /\ Len(calling') <= 1
    BY <1>1, EventTypes DEF NodeGlobal
  <2>3. budget' \in 0..MaxChanges /\ used' \subseteq Id
    BY <1>1 DEF NodeGlobal, Spend
  <2>. QED
    BY <1>1, <2>1, <2>2, <2>3 DEF NodeGlobal, channel
<1>2. CASE BroadcastNode
  <2>1. Head(calling) \in BackendEvent
    BY <1>2 DEF BroadcastNode
  <2>. QED
    BY <1>2, <2>1, BroadcastType DEF BroadcastNode
<1>3. ASSUME NEW n \in LiveNodes, NEW dir \in PortDirs[server.nodes[n]], NEW i \in Id,
             PortGlobal(i, n, dir)
      PROVE  BackendTypeOK'
  <2>1. n \in Id /\ dir \in Direction
    BY BackendAssumption DEF LiveNodes, IsGraph, IsMap
  <2>2. [node |-> n, dir |-> dir] \in Port
    BY <2>1 DEF Port
  <2>3. IsGraph(server')
    BY <1>3, <2>2, MapInsert DEF PortGlobal, AddPort, WithPorts, IsGraph
  <2>4. budget' \in 0..MaxChanges /\ used' \subseteq Id
    BY <1>3 DEF PortGlobal, Spend
  <2>. QED
    BY <1>3, <2>2, <2>3, <2>4, EventTypes, BroadcastType DEF PortGlobal
<1>4. ASSUME NEW l \in Linkable, NEW i \in Id, LinkGlobal(i, l)
      PROVE  BackendTypeOK'
  <2>1. l \in Link
    BY DEF Linkable, LivePorts, Link, IsGraph, IsMap
  <2>2. IsGraph(server')
    BY <1>4, <2>1, MapInsert DEF LinkGlobal, WithLinks, IsGraph
  <2>3. budget' \in 0..MaxChanges /\ used' \subseteq Id /\ requested' \subseteq Link
    BY <1>4 DEF LinkGlobal, Spend
  <2>. QED
    BY <1>4, <2>1, <2>2, <2>3, EventTypes, BroadcastType DEF LinkGlobal
<1>5. ASSUME NEW l \in requested, LinkRefused(l)
      PROVE  BackendTypeOK'
  BY <1>5 DEF LinkRefused, channel
<1>6. ASSUME NEW i \in Live, GlobalRemove(i)
      PROVE  BackendTypeOK'
  <2>1. budget' \in 0..MaxChanges
    BY <1>6 DEF GlobalRemove, Spend
  <2>. QED
    BY <1>6, <2>1, DropGlobalType DEF GlobalRemove
<1>7. CASE FactoryGlobal
  BY <1>7 DEF FactoryGlobal, channel
<1>8. CASE RunCommand
  <2> DEFINE c == Head(cmds)
  <2>1. c \in PwCmd /\ cmds' \in Seq(PwCmd)
    BY <1>8 DEF RunCommand
  <2>2. CASE c.type = "CreateLink" /\ RunCreateLink(c.link)
    <3>1. c.link \in Link
      BY <2>1, <2>2 DEF PwCmd
    <3>. QED
      BY <1>8, <2>1, <2>2, <3>1 DEF RunCommand, RunCreateLink, channel
  <2>3. CASE c.type = "DestroyLink" /\ RunDestroyLink(c.id)
    <3>1. CASE c.id \in Live
      <4>1. DropGlobal(c.id)
        BY <2>3, <3>1 DEF RunDestroyLink
      <4>. QED
        BY <1>8, <2>1, <2>3, <3>1, <4>1, DropGlobalType DEF RunCommand, RunDestroyLink
    <3>2. CASE c.id \notin Live
      BY <1>8, <2>1, <2>3, <3>2 DEF RunCommand, RunDestroyLink, channel
    <3>. QED
      BY <3>1, <3>2
  <2>4. CASE c.type = "SetVolume" /\ RunSetVolume(c.id, c.volume)
    <3>1. c.volume \in Volume
      BY <2>1, <2>4 DEF PwCmd
    <3>2. IsMap(gain', Id, Volume)
      <4>1. LiveNodes \subseteq Id /\ IsMap(gain, Id, Volume)
        BY DEF LiveNodes, BackendTypeOK, IsGraph, IsMap
      <4>2. CASE c.id \in LiveNodes
        BY <2>4, <3>1, <4>1, <4>2, MapInsert DEF RunSetVolume
      <4>3. CASE c.id \notin LiveNodes
        BY <2>4, <4>1, <4>3 DEF RunSetVolume
      <4> QED
        BY <4>2, <4>3
    <3>. QED
      BY <1>8, <2>1, <2>4, <3>2 DEF RunCommand, RunSetVolume, channel
  <2>. QED
    BY <1>8, <2>2, <2>3, <2>4 DEF RunCommand
<1>. QED
  BY <1>1, <1>2, <1>3, <1>4, <1>5, <1>6, <1>7, <1>8 DEF ServerStep

\* Names that clash are names.
LEMMA ClashingType ==
  ASSUME NEW g, IsGraph(g)
  PROVE  Clashing(g) \subseteq Name
BY GraphAssumption DEF Clashing, IsGraph, IsMap

\* handle_action keeps pending and tasks well-formed.
LEMMA HandleActionType ==
  ASSUME TypeOK, NEW e \in BackendEvent, e.type = "NodeAppeared",
         NEW verdict \in Verdict, HandleAction(e, verdict)
  PROVE  IsMap(pending', Id, PendingRoute) /\ tasks' \subseteq Task
<1>1. e.id \in Id /\ e.node \in Node
  BY DEF BackendEvent, RemovalKind
<1>2. CASE verdict.type = "Route"
  <2>1. [target |-> verdict.target, node |-> e.node] \in PendingRoute
    BY <1>1, <1>2 DEF Verdict, PendingRoute
  <2>. QED
    BY <1>1, <1>2, <2>1, MapInsert DEF HandleAction, TypeOK
<1>3. CASE verdict.type = "SetVolume"
  <2>1. verdict.volume \in Volume
    BY <1>3 DEF Verdict
  <2>. QED
    BY <1>1, <1>3, <2>1 DEF HandleAction, TypeOK, Task
<1>4. CASE verdict.type \notin {"Route", "SetVolume"}
  BY <1>4 DEF HandleAction, TypeOK
<1>. QED
  BY <1>2, <1>3, <1>4

\* A link a route resolves to joins two port ids.
LEMMA LinksForType ==
  ASSUME IsGraph(graph), NEW i
  PROVE  LinksFor(i) \subseteq Link
BY DEF LinksFor, OutputPortsOf, InputPortsOf, PortsOf, IsGraph, IsMap, Link

\* The initial state is well-formed.
LEMMA InitType == Init => TypeOK
<1> SUFFICES ASSUME Init PROVE TypeOK
  OBVIOUS
<1>1. IsGraph(EmptyGraph)
  BY MapNoEntries DEF IsGraph, EmptyGraph
<1>2. BackendTypeOK
  <2>1. IsMap(NoEntries, Id, Node) /\ IsMap(NoEntries, Id, Volume)
    BY MapNoEntries
  <2>2. MaxChanges \in 0..MaxChanges /\ EventCap >= 0
    BY BackendAssumption
  <2>. QED
    <3>1. calling \in Seq(BackendEvent) /\ Len(calling) <= 1
      BY DEF Init, BackendInit
    <3>2. queue \in Seq(BackendEvent) /\ Len(queue) <= EventCap
      BY <2>2 DEF Init, BackendInit
    <3>3. cmds \in Seq(PwCmd)
      BY DEF Init, BackendInit
    <3>. QED
      BY <1>1, <2>1, <2>2, <3>1, <3>2, <3>3 DEF Init, BackendInit, BackendTypeOK
<1>3. NoRules \in RuleTable /\ NoScript \in ScriptTable
  BY DEF NoRules, NoScript, NoMatch, RuleTable, ScriptTable, ScriptVerdict, Verdict
<1>. QED
  BY <1>1, <1>2, <1>3, MapNoEntries, PumpAssumption DEF Init, TypeOK

\* Every step keeps the state well-formed.
LEMMA NextType == TypeOK /\ [Next]_vars => TypeOK'
<1> SUFFICES ASSUME TypeOK, [Next]_vars PROVE TypeOK'
  OBVIOUS
<1> USE DEF config, pumpVars
<1>a. BackendTypeOK /\ IsGraph(graph)
  BY DEF TypeOK
<1>1. CASE ServerStep /\ UNCHANGED <<main, seeded, config, pumpVars>>
  BY <1>1, <1>a, ServerStepType DEF TypeOK
<1>2. CASE EnumerateNodes
  <2>1. IsGraph(graph')
    BY <1>2, <1>a DEF EnumerateNodes, WithNodes, IsGraph, BackendTypeOK
  <2>2. clash' \subseteq Name /\ seeded' \subseteq Id
    BY <1>2, <1>a, <2>1, ClashingType DEF EnumerateNodes, BackendTypeOK, IsMap
  <2>. QED
    BY <1>2, <2>1, <2>2 DEF EnumerateNodes, TypeOK, BackendTypeOK, backendVars, registry, channel
<1>3. CASE StartEventPump
  BY <1>3 DEF StartEventPump, Subscribe, TypeOK, BackendTypeOK, registry
<1>4. CASE LoadRulesAtStart
  BY <1>4, PumpAssumption DEF LoadRulesAtStart, TypeOK, BackendTypeOK, backendVars, registry, channel
<1>5. CASE LoadScriptAtStart
  BY <1>5, PumpAssumption
     DEF LoadScriptAtStart, TypeOK, BackendTypeOK, backendVars, registry, channel
<1>6. CASE Reload
  BY <1>6, PumpAssumption
     DEF Reload, TypeOK, BackendTypeOK, backendVars, registry, channel
<1>7. CASE ReceiveEvent
  <2> DEFINE e == Head(queue)
  <2>1. e \in BackendEvent /\ queue' \in Seq(BackendEvent) /\ Len(queue') <= EventCap
    BY <1>7, <1>a, BackendAssumption DEF ReceiveEvent, Receive, BackendTypeOK
  <2>2. BackendTypeOK'
    BY <1>7, <2>1 DEF ReceiveEvent, Receive, TypeOK, BackendTypeOK, registry
  <2>3. IsMap(pending', Id, PendingRoute) /\ tasks' \subseteq Task
    <3>1. CASE e.type = "NodeAppeared" /\ rules[e.node].type # "NoMatch"
      <4>1. e.node \in Node
        BY <2>1, <3>1 DEF BackendEvent, RemovalKind
      <4>2. rules[e.node] \in Verdict
        BY <4>1 DEF TypeOK, RuleTable
      <4>3. HandleAction(e, rules[e.node])
        BY <1>7, <3>1 DEF ReceiveEvent
      <4>. QED
        BY <2>1, <3>1, <4>2, <4>3, HandleActionType
    <3>2. CASE ~(e.type = "NodeAppeared" /\ rules[e.node].type # "NoMatch")
      BY <1>7, <3>2 DEF ReceiveEvent, TypeOK
    <3>. QED
      BY <3>1, <3>2
  <2>4. /\ pc' \in {"script", "apply"} /\ ev' = <<e>>
        /\ pc' = "script" => e.type = "NodeAppeared"
    BY <1>7 DEF ReceiveEvent
  <2>. QED
    BY <1>7, <2>1, <2>2, <2>3, <2>4 DEF ReceiveEvent, TypeOK
<1>8. CASE EvaluateScript
  <2>1. Event \in BackendEvent /\ Event.type = "NodeAppeared" /\ Event.node \in Node
    BY <1>8 DEF EvaluateScript, TypeOK, Event, BackendEvent, RemovalKind
  <2>2. SinkNames \subseteq Name
    BY <1>a, GraphAssumption DEF SinkNames, IsGraph, IsMap
  <2>3. script[Event.node][SinkNames] \in Verdict
    BY <2>1, <2>2 DEF TypeOK, ScriptTable, ScriptVerdict
  <2>4. IsMap(pending', Id, PendingRoute) /\ tasks' \subseteq Task
    BY <1>8, <2>1, <2>3, HandleActionType DEF EvaluateScript
  <2>. QED
    BY <1>8, <2>4 DEF EvaluateScript, TypeOK, BackendTypeOK, backendVars, registry, channel
<1>9. CASE ApplyToGraph
  <2>1. Event \in BackendEvent
    BY <1>9 DEF ApplyToGraph, TypeOK, Event
  <2>2. IsGraph(graph')
    BY <1>9, <1>a, <2>1, ApplyEventType DEF ApplyToGraph
  <2>3. clash' \subseteq Name
    BY <1>9, <2>2, ClashingType DEF ApplyToGraph, TypeOK
  <2>. QED
    BY <1>9, <2>2, <2>3 DEF ApplyToGraph, TypeOK, BackendTypeOK, backendVars, registry, channel
<1>10. CASE PublishEvent
  <2>1. Event.id \in Id
    BY <1>10 DEF PublishEvent, TypeOK, Event, BackendEvent
  <2>2. /\ view' = [nodes |-> view'.nodes, links |-> view'.links]
        /\ view'.nodes \subseteq Id /\ view'.links \subseteq Id
    BY <1>10, <2>1 DEF PublishEvent, Hear, TypeOK
  <2>3. /\ ev' \in Seq(BackendEvent) /\ Len(ev') <= 1
        /\ pc' \in {"recv", "fire"} /\ (ev' = <<>>) = (pc' = "recv")
    <3>1. CASE Evaluated(Event)
      BY <1>10, <3>1 DEF PublishEvent, TypeOK
    <3>2. CASE ~Evaluated(Event)
      BY <1>10, <3>2 DEF PublishEvent, TypeOK
    <3>. QED
      BY <3>1, <3>2
  <2>. QED
    BY <1>10, <2>2, <2>3 DEF PublishEvent, TypeOK, BackendTypeOK, backendVars, registry, channel
<1>11. CASE FirePending
  <2>1. PICK fired \in SUBSET DOMAIN pending :
        \E link \in [fired -> UNION {LinksFor(i) : i \in fired}] :
          /\ \A i \in fired : link[i] \in LinksFor(i)
          /\ tasks' = tasks \cup {[type |-> "link", for |-> i, link |-> link[i], no |-> fires] : i \in fired}
          /\ fires' = (IF fired = {} THEN fires ELSE fires + 1)
          /\ pending' = Forget(fired)
    BY <1>11 DEF FirePending
  <2>2. PICK link :
          /\ \A i \in fired : link[i] \in LinksFor(i)
          /\ tasks' = tasks \cup {[type |-> "link", for |-> i, link |-> link[i], no |-> fires] : i \in fired}
    BY <2>1
  <2>3. \A i \in fired : i \in Id /\ link[i] \in Link
    BY <2>2, <1>a, LinksForType DEF TypeOK, IsMap
  <2>4. tasks' \subseteq Task /\ fires' \in Nat
    BY <2>1, <2>2, <2>3 DEF TypeOK, Task
  <2>5. IsMap(pending', Id, PendingRoute)
    <3>1. pending' = Without(pending, fired)
      BY <2>1 DEF Forget
    <3>. QED
      BY <3>1, MapWithout DEF TypeOK
  <2>. QED
    BY <1>11, <2>4, <2>5 DEF FirePending, TypeOK, BackendTypeOK, backendVars, registry, channel
<1>12. ASSUME NEW t \in tasks, RunTask(t)
       PROVE  TypeOK'
  <2>1. CASE t.type = "link"
    <3>1. CreateLink(t.link) \in PwCmd
      BY <2>1, CutLink DEF CreateLink, PwCmd, TypeOK, Task
    <3> QED
      BY <1>12, <2>1, <3>1 DEF RunTask, Send, TypeOK, BackendTypeOK, registry, channel
  <2>2. CASE t.type # "link"
    <3>1. SetVolume(t.for, t.volume) \in PwCmd
      BY <2>2, CutId DEF SetVolume, PwCmd, TypeOK, Task
    <3> QED
      BY <1>12, <2>2, <3>1 DEF RunTask, Send, TypeOK, BackendTypeOK, registry, channel
  <2>. QED
    BY <2>1, <2>2
<1>13. CASE UNCHANGED vars
  BY <1>13 DEF vars, TypeOK, BackendTypeOK, backendVars, registry, channel
<1>. QED
  BY <1>1, <1>2, <1>3, <1>4, <1>5, <1>6, <1>7, <1>8, <1>9, <1>10, <1>11, <1>12, <1>13
     DEF Next, Startup, Pump

\* Type correctness of the daemon's core: in particular the event channel
\* never holds more than EventCap events and the pump never works on a script
\* verdict for anything but a node that appeared.
THEOREM TypeCorrect == Spec => []TypeOK
BY InitType, NextType, PTL DEF Spec

-----------------------------------------------------------------------------
(***************************************************************************)
(* The event stream describes the graph.                                   *)
(*                                                                         *)
(* EventsFollowGraph is inductive but for one step: EnumerateNodes replaces*)
(* the graph's nodes, which is harmless only because the pump has not run  *)
(* yet.  Booting says so.                                                  *)
(***************************************************************************)
Booting == main = "boot" => /\ pc = "recv"
                            /\ view.nodes = {}
                            /\ DOMAIN pending = {}

\* apply_event and the published event change the same entries.
LEMMA ApplyMatchesHear ==
  ASSUME NEW g, IsGraph(g), NEW e \in BackendEvent, NEW v
  PROVE  /\ DOMAIN ApplyEvent(g, e).links
              = IF e.type = "LinkAppeared" THEN DOMAIN g.links \cup {e.id}
                ELSE IF e.type = "LinkRemoved" THEN DOMAIN g.links \ {e.id}
                ELSE DOMAIN g.links
         /\ DOMAIN ApplyEvent(g, e).nodes
              = IF e.type = "NodeAppeared" THEN DOMAIN g.nodes \cup {e.id}
                ELSE IF e.type = "NodeRemoved" THEN DOMAIN g.nodes \ {e.id}
                ELSE DOMAIN g.nodes
<1> USE DEF ApplyEvent, WithNodes, WithPorts, WithLinks
<1>1. CASE e.type = "NodeAppeared"
  BY <1>1 DEF OrInsert, Insert
<1>2. CASE e.type = "LinkAppeared"
  BY <1>2 DEF OrInsert, Insert
<1>3. CASE e.type = "NodeRemoved"
  BY <1>3 DEF RemoveNode, Without, Restrict
<1>4. CASE e.type = "LinkRemoved"
  BY <1>4 DEF RemoveLink, Without, Restrict
<1>5. CASE e.type \notin {"NodeAppeared", "LinkAppeared", "NodeRemoved", "LinkRemoved"}
  BY <1>5 DEF RemovePort
<1>. QED
  BY <1>1, <1>2, <1>3, <1>4, <1>5

FollowInv == EventsFollowGraph /\ Booting

\* It holds initially.
LEMMA FollowInit == Init => FollowInv
BY DEF Init, FollowInv, EventsFollowGraph, Booting, Heard, EmptyGraph, NoEntries

\* Every step keeps it.
LEMMA FollowNext == TypeOK /\ FollowInv /\ [Next]_vars => FollowInv'
<1> SUFFICES ASSUME TypeOK, FollowInv, [Next]_vars PROVE FollowInv'
  OBVIOUS
<1> USE DEF config, pumpVars, FollowInv
<1>1. CASE UNCHANGED <<main, seeded, pumpVars>>
  BY <1>1 DEF EventsFollowGraph, Booting, Heard, Hear, Event
<1>2. CASE EnumerateNodes
  <2>1. DOMAIN graph'.nodes = seeded' /\ graph'.links = graph.links
    BY <1>2 DEF EnumerateNodes, WithNodes
  <2>2. Heard.nodes = {} /\ Heard' = Heard
    BY <1>2 DEF EnumerateNodes, Booting, Heard
  <2>. QED
    BY <1>2, <2>1, <2>2 DEF EnumerateNodes, EventsFollowGraph, Booting
<1>3. CASE StartEventPump \/ LoadRulesAtStart \/ LoadScriptAtStart \/ Reload
  <2>1. UNCHANGED <<seeded, pumpVars>> /\ main' # "boot"
    BY <1>3 DEF StartEventPump, LoadRulesAtStart, LoadScriptAtStart, Reload
  <2>. QED
    BY <2>1 DEF EventsFollowGraph, Booting, Heard, Hear, Event
<1>4. CASE ReceiveEvent
  <2>1. main' # "boot" /\ pc # "publish" /\ pc' # "publish"
    BY <1>4 DEF ReceiveEvent
  <2>. QED
    BY <1>4, <2>1 DEF ReceiveEvent, EventsFollowGraph, Booting, Heard
<1>5. CASE EvaluateScript
  BY <1>5 DEF EvaluateScript, EventsFollowGraph, Booting, Heard
<1>6. CASE ApplyToGraph
  <2>1. Event \in BackendEvent
    BY <1>6 DEF ApplyToGraph, TypeOK, Event
  <2>2. Heard' = Hear(view, Event) /\ Heard = view
    BY <1>6 DEF ApplyToGraph, Heard, Hear, Event
  <2>3. EventsFollowGraph'
    <3>1. /\ Heard'.links = (IF Event.type = "LinkAppeared" THEN view.links \cup {Event.id}
                             ELSE IF Event.type = "LinkRemoved" THEN view.links \ {Event.id}
                             ELSE view.links)
          /\ Heard'.nodes = (IF Event.type = "NodeAppeared" THEN view.nodes \cup {Event.id}
                             ELSE IF Event.type = "NodeRemoved" THEN view.nodes \ {Event.id}
                             ELSE view.nodes)
      BY <2>2 DEF Hear
    <3>2. IsGraph(graph) /\ graph' = ApplyEvent(graph, Event) /\ seeded' = seeded
      BY <1>6 DEF ApplyToGraph, TypeOK
    <3>3. /\ DOMAIN graph'.links = (IF Event.type = "LinkAppeared" THEN DOMAIN graph.links \cup {Event.id}
                             ELSE IF Event.type = "LinkRemoved" THEN DOMAIN graph.links \ {Event.id}
                             ELSE DOMAIN graph.links)
          /\ DOMAIN graph'.nodes = (IF Event.type = "NodeAppeared" THEN DOMAIN graph.nodes \cup {Event.id}
                             ELSE IF Event.type = "NodeRemoved" THEN DOMAIN graph.nodes \ {Event.id}
                             ELSE DOMAIN graph.nodes)
      BY <2>1, <3>2, ApplyMatchesHear
    <3>4. /\ view.links = DOMAIN graph.links
          /\ view.nodes \subseteq DOMAIN graph.nodes
          /\ DOMAIN graph.nodes \subseteq view.nodes \cup seeded
      BY <2>2 DEF EventsFollowGraph
    <3>5. Heard'.links = DOMAIN graph'.links
      BY <3>1, <3>3, <3>4
    <3>6. Heard'.nodes \subseteq DOMAIN graph'.nodes
      BY <3>1, <3>3, <3>4
    <3>7. DOMAIN graph'.nodes \subseteq Heard'.nodes \cup seeded'
      BY <3>1, <3>2, <3>3, <3>4
    <3>. QED
      BY <3>5, <3>6, <3>7 DEF EventsFollowGraph
  <2>. QED
    BY <1>6, <2>3 DEF ApplyToGraph, Booting
<1>7. CASE PublishEvent
  <2>1. Heard' = Heard
    BY <1>7 DEF PublishEvent, Heard
  <2>. QED
    BY <1>7, <2>1 DEF PublishEvent, EventsFollowGraph, Booting
<1>8. CASE FirePending
  BY <1>8 DEF FirePending, EventsFollowGraph, Booting, Heard
<1>9. ASSUME NEW t \in tasks, RunTask(t)
      PROVE  FollowInv'
  BY <1>9 DEF RunTask, EventsFollowGraph, Booting, Heard, Hear, Event
<1>. QED
  BY <1>1, <1>2, <1>3, <1>4, <1>5, <1>6, <1>7, <1>8, <1>9 DEF Next, Startup, Pump, vars

\* What a client can reconstruct from the events start_event_pump sends is
\* what ListNodes and ListLinks would tell it, at every moment.
THEOREM StreamDescribesGraph == Spec => []EventsFollowGraph
<1>1. FollowInv => EventsFollowGraph
  BY DEF FollowInv
<1>. QED
  BY <1>1, TypeCorrect, FollowInit, FollowNext, PTL DEF Spec

-----------------------------------------------------------------------------
(***************************************************************************)
(* No route is left behind.                                                *)
(*                                                                         *)
(* Between two events all pending routes are unresolvable; the invariant   *)
(* has to carry that through the events try_fire_pending is not run for,   *)
(* which may only take nodes and ports away.                               *)
(***************************************************************************)
Settled  == \A i \in DOMAIN pending : pending[i].target \in clash \/ MayMiss(i)
RouteInv == /\ (pc = "recv" \/ ~Evaluated(Event)) => Settled
            /\ Clashing(graph) \subseteq clash
            /\ Booting

\* It holds initially.
LEMMA RouteInit == Init => RouteInv
BY DEF Init, RouteInv, Settled, Clashing, Booting, EmptyGraph, NoEntries

\* An event that is not an appearance of a node or port takes nodes and ports
\* away, if it touches them at all.
LEMMA OnlyAppearancesAdd ==
  ASSUME NEW g, IsGraph(g), NEW e \in BackendEvent, ~Evaluated(e)
  PROVE  /\ DOMAIN ApplyEvent(g, e).nodes \subseteq DOMAIN g.nodes
         /\ \A i \in DOMAIN ApplyEvent(g, e).nodes : ApplyEvent(g, e).nodes[i] = g.nodes[i]
         /\ DOMAIN ApplyEvent(g, e).ports \subseteq DOMAIN g.ports
         /\ \A i \in DOMAIN ApplyEvent(g, e).ports : ApplyEvent(g, e).ports[i] = g.ports[i]
<1> USE DEF ApplyEvent, WithNodes, WithPorts, WithLinks
<1>1. CASE e.type = "NodeRemoved"
  BY <1>1 DEF RemoveNode, Without, Restrict
<1>2. CASE e.type = "PortRemoved"
  BY <1>2 DEF RemovePort, Without, Restrict
<1>3. CASE e.type \notin {"NodeRemoved", "PortRemoved"}
  BY <1>3 DEF RemoveLink, Evaluated
<1>. QED
  BY <1>1, <1>2, <1>3

\* Such an event leaves an unresolvable route unresolvable, unless the target
\* found was one of two nodes of that name.
LEMMA ApplyKeepsSettled ==
  ASSUME TypeOK, RouteInv, ApplyToGraph, ~Evaluated(Event)
  PROVE  Settled'
<1>1. /\ DOMAIN graph'.nodes \subseteq DOMAIN graph.nodes
      /\ \A i \in DOMAIN graph'.nodes : graph'.nodes[i] = graph.nodes[i]
      /\ DOMAIN graph'.ports \subseteq DOMAIN graph.ports
      /\ \A i \in DOMAIN graph'.ports : graph'.ports[i] = graph.ports[i]
  BY OnlyAppearancesAdd DEF ApplyToGraph, TypeOK, Event
<1>2. \A n : /\ OutputPortsOf(graph', n) \subseteq OutputPortsOf(graph, n)
             /\ InputPortsOf(graph', n) \subseteq InputPortsOf(graph, n)
  BY <1>1 DEF OutputPortsOf, InputPortsOf, PortsOf
<1>3. \A name : NodesNamed(graph', name) = NodesNamed(graph, name) \cap DOMAIN graph'.nodes
  BY <1>1 DEF NodesNamed
<1>4. pending' = pending /\ clash \subseteq clash' /\ Clashing(graph) \subseteq clash'
  BY DEF ApplyToGraph, RouteInv
<1>5. SUFFICES ASSUME NEW i \in DOMAIN pending,
                      pending[i].target \notin clash'
               PROVE  MayMiss(i)'
  BY <1>4 DEF Settled
<1>6. MayMiss(i)
  BY <1>4, <1>5 DEF RouteInv, Settled
<1> DEFINE target == pending[i].target
<1>7. CASE OutputPortsOf(graph, i) = {}
  BY <1>2, <1>7 DEF MayMiss
<1>8. CASE NodesNamed(graph, target) = {}
  BY <1>3, <1>4, <1>8 DEF MayMiss
<1>9. ASSUME NEW t \in NodesNamed(graph, target), InputPortsOf(graph, t) = {}
      PROVE  MayMiss(i)'
  <2>1. CASE t \in DOMAIN graph'.nodes
    BY <1>2, <1>3, <1>4, <1>9, <2>1 DEF MayMiss
  <2>2. CASE t \notin DOMAIN graph'.nodes
    <3>1. ASSUME NEW u \in NodesNamed(graph', target)
          PROVE  FALSE
      <4>1. u # t /\ u \in NodesNamed(graph, target)
        BY <1>3, <2>2, <3>1
      <4>2. target \in Clashing(graph)
        BY <1>9, <4>1 DEF Clashing, NodesNamed
      <4>. QED
        BY <1>4, <1>5, <4>2
    <3>2. NodesNamed(graph', target) = {}
      BY <3>1
    <3>. QED
      BY <1>4, <3>2 DEF MayMiss
  <2>. QED
    BY <2>1, <2>2
<1>. QED
  BY <1>6, <1>7, <1>8, <1>9 DEF MayMiss

\* Every step keeps the invariant.
LEMMA RouteNext == TypeOK /\ RouteInv /\ FollowInv' /\ [Next]_vars => RouteInv'
<1> SUFFICES ASSUME TypeOK, RouteInv, FollowInv', [Next]_vars PROVE RouteInv'
  OBVIOUS
<1> USE DEF config, pumpVars
<1>0. Booting'
  BY DEF FollowInv
<1>1. CASE UNCHANGED <<graph, pc, ev, pending, clash>>
  BY <1>0, <1>1 DEF RouteInv, Settled, MayMiss, Event
<1>2. CASE EnumerateNodes
  <2>1. DOMAIN pending' = {} /\ Clashing(graph') \subseteq clash'
    BY <1>2 DEF EnumerateNodes, RouteInv, Booting
  <2>. QED
    BY <1>0, <2>1 DEF RouteInv, Settled
<1>3. CASE ReceiveEvent
  <2>1. CASE Evaluated(Event')
    BY <1>0, <1>3, <2>1 DEF ReceiveEvent, RouteInv, Event
  <2>2. CASE ~Evaluated(Event')
    <3>1. pending' = pending
      BY <1>3, <2>2 DEF ReceiveEvent, Evaluated, Event
    <3>2. Settled
      BY <1>3 DEF ReceiveEvent, RouteInv
    <3>. QED
      BY <1>0, <1>3, <3>1, <3>2 DEF ReceiveEvent, RouteInv, Settled, MayMiss
  <2>. QED
    BY <2>1, <2>2
<1>4. CASE EvaluateScript
  BY <1>0, <1>4 DEF EvaluateScript, RouteInv, TypeOK, Event, Evaluated
<1>5. CASE ApplyToGraph
  <2>1. Clashing(graph') \subseteq clash' /\ ev' = ev /\ pc' # "recv"
    BY <1>5 DEF ApplyToGraph
  <2>. QED
    BY <1>0, <1>5, <2>1, ApplyKeepsSettled DEF RouteInv, Event
<1>6. CASE PublishEvent
  <2>1. CASE Evaluated(Event)
    BY <1>0, <1>6, <2>1 DEF PublishEvent, RouteInv, Event
  <2>2. CASE ~Evaluated(Event)
    BY <1>0, <1>6, <2>2 DEF PublishEvent, RouteInv, Settled, MayMiss
  <2>. QED
    BY <2>1, <2>2
<1>7. CASE FirePending
  <2>1. PICK fired \in SUBSET DOMAIN pending :
          /\ \A i \in DOMAIN pending \ fired : MayMiss(i)
          /\ pending' = Forget(fired)
    BY <1>7 DEF FirePending
  <2>2. /\ DOMAIN pending' = DOMAIN pending \ fired
        /\ \A i \in DOMAIN pending \ fired : pending'[i] = pending[i]
    BY <2>1 DEF Forget, Without, Restrict
  <2>3. Settled'
    BY <1>7, <2>1, <2>2 DEF FirePending, Settled, MayMiss
  <2>. QED
    BY <1>0, <1>7, <2>3 DEF FirePending, RouteInv
<1>. QED
  BY <1>1, <1>2, <1>3, <1>4, <1>5, <1>6, <1>7
     DEF Next, Startup, Pump, vars, StartEventPump, LoadRulesAtStart, LoadScriptAtStart,
         Reload, RunTask

\* Whenever the pump waits for its next event, try_fire_pending has left no
\* route that is sure to resolve, unless two nodes shared the target's name.
THEOREM RoutesFireWhenReady == Spec => []NoStalledRoute
<1>1. RouteInv => NoStalledRoute
  BY DEF RouteInv, Settled, NoStalledRoute
<1>. QED
  BY <1>1, TypeCorrect, FollowInit, FollowNext, RouteInit, RouteNext, PTL DEF Spec

=============================================================================
