----------------------------- MODULE AudioGraph -----------------------------
(***************************************************************************)
(* The in-memory audio graph of crates/graph/src/lib.rs: three maps keyed  *)
(* by id, and the operations on them, as pure operators on a graph value.  *)
(*                                                                         *)
(* A HashMap is a function on the set of its keys: Insert is `insert`,     *)
(* OrInsert is `entry(k).or_insert(v)` (the entry already there wins).     *)
(*                                                                         *)
(* Data kept of a node: its name, its kind and its media kind, which is    *)
(* what the routing code branches on.  Channel counts, sample rates,       *)
(* property maps and display names are left out.                           *)
(***************************************************************************)
EXTENDS Naturals, Functions

CONSTANTS
  Id,     \* ids of backend globals; one space for nodes, ports and links
  Name,   \* node names
  Node    \* the nodes considered

NodeKind  == {"Source", "Sink", "Filter", "Virtual"}
MediaKind == {"Audio", "Midi", "Video", "Other"}
Direction == {"Input", "Output"}

ASSUME GraphAssumption ==
  /\ Id \subseteq Nat
  /\ Node \subseteq [name : Name, kind : NodeKind, media : MediaKind]

Port == [node : Id, dir : Direction]
Link == [src : Id, sink : Id]

NodeAppeared(i, n) == [type |-> "NodeAppeared", id |-> i, node |-> n]
PortAppeared(i, p) == [type |-> "PortAppeared", id |-> i, port |-> p]
LinkAppeared(i, l) == [type |-> "LinkAppeared", id |-> i, link |-> l]
Removed(kind, i)   == [type |-> kind, id |-> i]

RemovalKind == {"NodeRemoved", "PortRemoved", "LinkRemoved"}

\* What an AudioBackend may deliver (core/src/event.rs).  Xrun and
\* LatencySample never touch the graph; they are one kind here.
BackendEvent ==
  [type : {"NodeAppeared"}, id : Id, node : Node]
    \cup [type : {"PortAppeared"}, id : Id, port : Port]
    \cup [type : {"LinkAppeared"}, id : Id, link : Link]
    \cup [type : RemovalKind \cup {"Measurement"}, id : Id]

(***************************************************************************)
(* Graph values.                                                           *)
(***************************************************************************)
IsMap(m, Key, Value) == DOMAIN m \subseteq Key /\ m \in [DOMAIN m -> Value]

IsGraph(g) ==
  /\ g = [nodes |-> g.nodes, ports |-> g.ports, links |-> g.links]
  /\ IsMap(g.nodes, Id, Node)
  /\ IsMap(g.ports, Id, Port)
  /\ IsMap(g.links, Id, Link)

NoEntries == [i \in {} |-> {}]

EmptyGraph == [nodes |-> NoEntries, ports |-> NoEntries, links |-> NoEntries]

Insert(m, k, v)   == [x \in DOMAIN m \cup {k} |-> IF x = k THEN v ELSE m[x]]
OrInsert(m, k, v) == IF k \in DOMAIN m THEN m ELSE Insert(m, k, v)
Without(m, keys)  == Restrict(m, DOMAIN m \ keys)

(***************************************************************************)
(* Queries.  find_node_by_name and "the first output port" walk a HashMap, *)
(* whose order is arbitrary: they are sets to choose from.                 *)
(***************************************************************************)
NodesNamed(g, name)   == {i \in DOMAIN g.nodes : g.nodes[i].name = name}
PortsOf(g, node)      == {p \in DOMAIN g.ports : g.ports[p].node = node}
OutputPortsOf(g, node) == {p \in PortsOf(g, node) : g.ports[p].dir = "Output"}
InputPortsOf(g, node)  == {p \in PortsOf(g, node) : g.ports[p].dir = "Input"}

(***************************************************************************)
(* Updates.                                                                *)
(***************************************************************************)
WithNodes(g, m) == [nodes |-> m, ports |-> g.ports, links |-> g.links]
WithPorts(g, m) == [nodes |-> g.nodes, ports |-> m, links |-> g.links]
WithLinks(g, m) == [nodes |-> g.nodes, ports |-> g.ports, links |-> m]

AddNode(g, i, n) == WithNodes(g, Insert(g.nodes, i, n))
AddPort(g, i, p) == WithPorts(g, Insert(g.ports, i, p))

\* Slip: the cascade goes on to the links of the node's ports.
RemoveNodeAndLinks(g, i) ==
  [nodes |-> Without(g.nodes, {i}),
   ports |-> Without(g.ports, PortsOf(g, i)),
   links |-> Without(g.links, {l \in DOMAIN g.links :
                                 {g.links[l].src, g.links[l].sink} \cap PortsOf(g, i) # {}})]

\* Drops the node and its ports; links to those ports stay until their own
\* LinkRemoved.
RemoveNode(g, i) == [nodes |-> Without(g.nodes, {i}),
                     ports |-> Without(g.ports, PortsOf(g, i)),
                     links |-> g.links]
RemovePort(g, i) == WithPorts(g, Without(g.ports, {i}))
RemoveLink(g, i) == WithLinks(g, Without(g.links, {i}))

\* apply_event: the first appearance of an id wins, removal is idempotent.
ApplyEvent(g, ev) ==
  IF ev.type = "NodeAppeared" THEN WithNodes(g, OrInsert(g.nodes, ev.id, ev.node))
  ELSE IF ev.type = "PortAppeared" THEN WithPorts(g, OrInsert(g.ports, ev.id, ev.port))
  ELSE IF ev.type = "LinkAppeared" THEN WithLinks(g, OrInsert(g.links, ev.id, ev.link))
  ELSE IF ev.type = "NodeRemoved" THEN RemoveNode(g, ev.id)
  ELSE IF ev.type = "PortRemoved" THEN RemovePort(g, ev.id)
  ELSE IF ev.type = "LinkRemoved" THEN RemoveLink(g, ev.id)
  ELSE g

=============================================================================
