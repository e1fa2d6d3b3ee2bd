------------------------- MODULE PumpProperties_proofs -------------------------
(***************************************************************************)
(* Proofs about the event pump and its backend: that one matched node      *)
(* leads to one link where ids are not reused, and that the graph the pump *)
(* is heading for is PipeWire's own whether they are or not.               *)
(*                                                                         *)
(* The argument for the links is one of age.  A fresh id is none that      *)
(* anybody has heard of; so whatever the daemon once learned of an id (in  *)
(* an event, in the graph, in the shared map) is true of the global with   *)
(* that id for as long as there is one.                                    *)
(*                                                                         *)
(* The argument for the graph is one of order.  Whatever has been said of  *)
(* an id and is no longer so is about to be undone, by an event behind the *)
(* one that said it and ahead of any that says something new of that id.   *)
(***************************************************************************)
EXTENDS PumpProperties, EventPump_proofs, WellFoundedInduction

-----------------------------------------------------------------------------
(***************************************************************************)
(* What is known of a registry s that has handed out the ids u.            *)
(***************************************************************************)
IsNode(s, u, i, n) ==
  /\ i \in u
  /\ i \notin DOMAIN s.ports /\ i \notin DOMAIN s.links
  /\ i \in DOMAIN s.nodes => s.nodes[i] = n

IsPort(s, u, i, p) ==
  /\ i \in u /\ p.node \in u
  /\ i \notin DOMAIN s.nodes /\ i \notin DOMAIN s.links
  /\ i \in DOMAIN s.ports => s.ports[i] = p

IsLink(s, u, i, l) ==
  /\ i \in u
  /\ i \notin DOMAIN s.nodes /\ i \notin DOMAIN s.ports
  /\ i \in DOMAIN s.links => s.links[i] = l

IsGone(s, u, i) ==
  i \in u /\ i \notin DOMAIN s.nodes /\ i \notin DOMAIN s.ports /\ i \notin DOMAIN s.links

Truthful(s, u, e) ==
  /\ e.type = "NodeAppeared" => IsNode(s, u, e.id, e.node)
  /\ e.type = "PortAppeared" => IsPort(s, u, e.id, e.port)
  /\ e.type = "LinkAppeared" => IsLink(s, u, e.id, e.link)
  /\ e.type \in RemovalKind  => IsGone(s, u, e.id)

TrueNodes(s, u, m) == \A i \in DOMAIN m : IsNode(s, u, i, m[i])

TrueGraph(s, u, g) ==
  /\ TrueNodes(s, u, g.nodes)
  /\ \A i \in DOMAIN g.ports : IsPort(s, u, i, g.ports[i])
  /\ \A i \in DOMAIN g.links : IsLink(s, u, i, g.links[i])

\* From one registry to a later one: ids in use keep their meaning or go.
Ages(s, u, s2, u2) ==
  /\ u \subseteq u2
  /\ \A i \in u : /\ i \in DOMAIN s2.nodes => i \in DOMAIN s.nodes /\ s2.nodes[i] = s.nodes[i]
                  /\ i \in DOMAIN s2.ports => i \in DOMAIN s.ports /\ s2.ports[i] = s.ports[i]
                  /\ i \in DOMAIN s2.links => i \in DOMAIN s.links /\ s2.links[i] = s.links[i]

(***************************************************************************)
(* The invariant: everything the backend and the pump hold is true.        *)
(***************************************************************************)
BackendTruth ==
  /\ TrueGraph(server, used, server)
  /\ TrueNodes(server, used, shared)
  /\ \A k \in DOMAIN queue : Truthful(server, used, queue[k])
  /\ \A k \in DOMAIN calling : Truthful(server, used, calling[k])

PumpTruth ==
  /\ \A k \in DOMAIN ev : Truthful(server, used, ev[k])
  /\ TrueGraph(server, used, graph)

Truth == BackendTruth /\ PumpTruth

-----------------------------------------------------------------------------
(***************************************************************************)
(* What is true stays true as the registry ages.                           *)
(***************************************************************************)
LEMMA TruthAges ==
  ASSUME NEW s, NEW u, NEW s2, NEW u2, Ages(s, u, s2, u2)
  PROVE  /\ \A i, n : IsNode(s, u, i, n) => IsNode(s2, u2, i, n)
         /\ \A i, p : IsPort(s, u, i, p) => IsPort(s2, u2, i, p)
         /\ \A i, l : IsLink(s, u, i, l) => IsLink(s2, u2, i, l)
         /\ \A i : IsGone(s, u, i) => IsGone(s2, u2, i)
BY DEF Ages, IsNode, IsPort, IsLink, IsGone

LEMMA EventAges ==
  ASSUME NEW s, NEW u, NEW s2, NEW u2, Ages(s, u, s2, u2), NEW e, Truthful(s, u, e)
  PROVE  Truthful(s2, u2, e)
BY TruthAges DEF Truthful

LEMMA GraphAges ==
  ASSUME NEW s, NEW u, NEW s2, NEW u2, Ages(s, u, s2, u2), NEW g
  PROVE  /\ \A m : TrueNodes(s, u, m) => TrueNodes(s2, u2, m)
         /\ TrueGraph(s, u, g) => TrueGraph(s2, u2, g)
BY TruthAges DEF TrueGraph, TrueNodes

\* A registry that describes itself has handed out every id it holds.
LEMMA OwnIds ==
  ASSUME NEW s, NEW u, TrueGraph(s, u, s)
  PROVE  /\ DOMAIN s.nodes \subseteq u /\ DOMAIN s.ports \subseteq u /\ DOMAIN s.links \subseteq u
         /\ \A p \in DOMAIN s.ports : s.ports[p].node \in u
BY DEF TrueGraph, TrueNodes, IsNode, IsPort, IsLink

\* A fresh id, for a node, a port or a link.
LEMMA NewNode ==
  ASSUME NEW s, NEW u, TrueGraph(s, u, s), NEW i, i \notin u, NEW n
  PROVE  /\ Ages(s, u, AddNode(s, i, n), u \cup {i})
         /\ IsNode(AddNode(s, i, n), u \cup {i}, i, n)
         /\ TrueGraph(AddNode(s, i, n), u \cup {i}, AddNode(s, i, n))
<1> DEFINE s2 == AddNode(s, i, n)
           u2 == u \cup {i}
<1>1. /\ DOMAIN s2.nodes = DOMAIN s.nodes \cup {i} /\ s2.ports = s.ports /\ s2.links = s.links
      /\ s2.nodes[i] = n /\ \A j \in DOMAIN s.nodes : j # i => s2.nodes[j] = s.nodes[j]
  <2>1. s2.nodes = Insert(s.nodes, i, n) /\ s2.ports = s.ports /\ s2.links = s.links
    BY DEF AddNode, WithNodes
  <2> QED
    BY <2>1 DEF Insert
<1>2. Ages(s, u, s2, u2)
  BY <1>1 DEF Ages
<1>3. IsNode(s2, u2, i, n)
  BY <1>1, OwnIds DEF IsNode
<1> HIDE DEF s2, u2
<1>4. TrueGraph(s2, u2, s)
  BY <1>2, GraphAges
<1>5. TrueGraph(s2, u2, s2)
  <2>1. \A j \in DOMAIN s2.nodes : IsNode(s2, u2, j, s2.nodes[j])
    BY <1>1, <1>3, <1>4 DEF TrueGraph, TrueNodes
  <2> QED
    BY <1>1, <1>4, <2>1 DEF TrueGraph, TrueNodes
<1> QED
  BY <1>2, <1>3, <1>5 DEF s2, u2

LEMMA NewPort ==
  ASSUME NEW s, NEW u, TrueGraph(s, u, s), NEW i, i \notin u, NEW p, p.node \in u
  PROVE  /\ Ages(s, u, AddPort(s, i, p), u \cup {i})
         /\ IsPort(AddPort(s, i, p), u \cup {i}, i, p)
         /\ TrueGraph(AddPort(s, i, p), u \cup {i}, AddPort(s, i, p))
<1> DEFINE s2 == AddPort(s, i, p)
           u2 == u \cup {i}
<1>1. /\ DOMAIN s2.ports = DOMAIN s.ports \cup {i} /\ s2.nodes = s.nodes /\ s2.links = s.links
      /\ s2.ports[i] = p /\ \A j \in DOMAIN s.ports : j # i => s2.ports[j] = s.ports[j]
  <2>1. s2.ports = Insert(s.ports, i, p) /\ s2.nodes = s.nodes /\ s2.links = s.links
    BY DEF AddPort, WithPorts
  <2> QED
    BY <2>1 DEF Insert
<1>2. Ages(s, u, s2, u2)
  BY <1>1 DEF Ages
<1>3. IsPort(s2, u2, i, p)
  BY <1>1, OwnIds DEF IsPort
<1> HIDE DEF s2, u2
<1>4. TrueGraph(s2, u2, s)
  BY <1>2, GraphAges
<1>5. TrueGraph(s2, u2, s2)
  <2>1. \A j \in DOMAIN s2.ports : IsPort(s2, u2, j, s2.ports[j])
    BY <1>1, <1>3, <1>4 DEF TrueGraph
  <2> QED
    BY <1>1, <1>4, <2>1 DEF TrueGraph
<1> QED
  BY <1>2, <1>3, <1>5 DEF s2, u2

LEMMA NewLink ==
  ASSUME NEW s, NEW u, TrueGraph(s, u, s), NEW i, i \notin u, NEW l,
         NEW s2, s2 = WithLinks(s, Insert(s.links, i, l)), NEW u2, u2 = u \cup {i}
  PROVE  /\ Ages(s, u, s2, u2)
         /\ IsLink(s2, u2, i, l)
         /\ TrueGraph(s2, u2, s2)
<1>1. /\ DOMAIN s2.links = DOMAIN s.links \cup {i} /\ s2.nodes = s.nodes /\ s2.ports = s.ports
      /\ s2.links[i] = l /\ \A j \in DOMAIN s.links : j # i => s2.links[j] = s.links[j]
  <2>1. s2.links = Insert(s.links, i, l) /\ s2.nodes = s.nodes /\ s2.ports = s.ports
    BY DEF WithLinks
  <2> QED
    BY <2>1 DEF Insert
<1>2. Ages(s, u, s2, u2)
  BY <1>1 DEF Ages
<1>3. IsLink(s2, u2, i, l)
  BY <1>1, OwnIds DEF IsLink
<1>4. TrueGraph(s2, u2, s)
  BY <1>2, GraphAges
<1>5. \A j \in DOMAIN s2.links : IsLink(s2, u2, j, s2.links[j])
  BY <1>1, <1>3, <1>4 DEF TrueGraph
<1>6. TrueGraph(s2, u2, s2)
  BY <1>1, <1>4, <1>5 DEF TrueGraph
<1> QED
  BY <1>2, <1>3, <1>6

\* A global that goes.
LEMMA GlobalGone ==
  ASSUME NEW s, NEW u, TrueGraph(s, u, s), NEW i \in u, NEW s2,
         s2 = [nodes |-> Without(s.nodes, {i}), ports |-> Without(s.ports, {i}),
               links |-> Without(s.links, {i})]
  PROVE  /\ Ages(s, u, s2, u)
         /\ IsGone(s2, u, i)
         /\ TrueGraph(s2, u, s2)
<1>1. \A m : /\ DOMAIN Without(m, {i}) = DOMAIN m \ {i}
             /\ \A j \in DOMAIN m \ {i} : Without(m, {i})[j] = m[j]
  BY DEF Without, Restrict
<1>2. /\ DOMAIN s2.nodes = DOMAIN s.nodes \ {i}
      /\ DOMAIN s2.ports = DOMAIN s.ports \ {i}
      /\ DOMAIN s2.links = DOMAIN s.links \ {i}
  BY <1>1
<1>3. /\ \A j \in DOMAIN s2.nodes : s2.nodes[j] = s.nodes[j]
      /\ \A j \in DOMAIN s2.ports : s2.ports[j] = s.ports[j]
      /\ \A j \in DOMAIN s2.links : s2.links[j] = s.links[j]
  BY <1>1
<1>4. Ages(s, u, s2, u)
  BY <1>2, <1>3 DEF Ages
<1>5. TrueGraph(s2, u, s)
  BY <1>4, GraphAges
<1> QED
  BY <1>2, <1>3, <1>4, <1>5 DEF TrueGraph, TrueNodes, IsGone

-----------------------------------------------------------------------------
(***************************************************************************)
(* The backend tells the truth.                                            *)
(***************************************************************************)
\* Ids are not handed out again.
LEMMA FreshId ==
  ASSUME ~ReuseIds, NEW i \in Id, Free(i)
  PROVE  i \notin used
BY DEF Free

LEMMA BroadcastTruth ==
  ASSUME BackendTypeOK, BackendTruth, NEW e, Broadcast(e),
         Ages(server, used, server', used'), Truthful(server', used', e)
  PROVE  \A k \in DOMAIN queue' : Truthful(server', used', queue'[k])
<1> TAKE k \in DOMAIN queue'
<1>1. queue' = queue \/ queue' = Append(queue, e)
  BY DEF Broadcast
<1>2. queue \in Seq(BackendEvent)
  BY DEF BackendTypeOK
<1>3. queue'[k] = e \/ (k \in DOMAIN queue /\ queue'[k] = queue[k])
  BY <1>1, <1>2
<1>4. k \in DOMAIN queue => Truthful(server', used', queue[k])
  BY EventAges DEF BackendTruth
<1> QED
  BY <1>3, <1>4

\* What the daemon holds already.
LEMMA HeldTruth ==
  ASSUME BackendTruth, Ages(server, used, server', used')
  PROVE  /\ TrueNodes(server', used', shared)
         /\ \A k \in DOMAIN queue : Truthful(server', used', queue[k])
         /\ \A k \in DOMAIN calling : Truthful(server', used', calling[k])
BY GraphAges, EventAges DEF BackendTruth

LEMMA DropTruth ==
  ASSUME BackendTypeOK, BackendTruth, NEW i \in Live, DropGlobal(i), used' = used,
         UNCHANGED <<shared, calling>>
  PROVE  Ages(server, used, server', used') /\ BackendTruth'
<1>1. i \in used
  BY OwnIds DEF BackendTruth, Live, LiveNodes, LivePorts, LiveLinks
<1>2. /\ Ages(server, used, server', used')
      /\ IsGone(server', used', i)
      /\ TrueGraph(server', used', server')
  BY <1>1, GlobalGone DEF DropGlobal, BackendTruth
<1>3. Truthful(server', used', Removed(KindRemoved(i), i))
  BY <1>2 DEF Truthful, Removed, KindRemoved
<1>4. \A k \in DOMAIN queue' : Truthful(server', used', queue'[k])
  BY <1>2, <1>3, BroadcastTruth DEF DropGlobal
<1> QED
  BY <1>2, <1>4, HeldTruth DEF BackendTruth

LEMMA BackendTruthNext ==
  ASSUME ~ReuseIds, BackendTypeOK, BackendTruth, ServerStep
  PROVE  Ages(server, used, server', used') /\ BackendTruth'
<1> DEFINE Goal == Ages(server, used, server', used') /\ BackendTruth'
<1>0. TrueGraph(server, used, server)
  BY DEF BackendTruth
<1>a. ASSUME UNCHANGED <<server, used>> PROVE Ages(server, used, server', used')
  BY <1>a DEF Ages
<1>b. ASSUME UNCHANGED <<server, used, shared, calling, queue>> PROVE Goal
  BY <1>a, <1>b DEF BackendTruth
<1>1. ASSUME NEW i \in Id, NEW n \in Node, NodeGlobal(i, n) PROVE Goal
  <2>1. /\ Ages(server, used, server', used')
        /\ IsNode(server', used', i, n)
        /\ TrueGraph(server', used', server')
    BY <1>0, <1>1, NewNode, FreshId DEF NodeGlobal
  <2>2. TrueNodes(server', used', shared')
    <3>1. shared' = Insert(shared, i, n) /\ TrueNodes(server', used', shared)
      BY <1>1, <2>1, HeldTruth DEF NodeGlobal
    <3> QED
      BY <2>1, <3>1 DEF TrueNodes, Insert
  <2>3. Truthful(server', used', NodeAppeared(i, n))
    BY <2>1 DEF Truthful, NodeAppeared, RemovalKind
  <2>4. \A k \in DOMAIN calling' : Truthful(server', used', calling'[k])
    BY <1>1, <2>3 DEF NodeGlobal
  <2>5. queue' = queue
    BY <1>1 DEF NodeGlobal, channel
  <2> QED
    BY <2>1, <2>2, <2>4, <2>5, HeldTruth DEF BackendTruth
<1>2. CASE BroadcastNode
  <2>1. UNCHANGED <<server, used, shared>> /\ Ages(server, used, server', used')
    BY <1>2, <1>a DEF BroadcastNode
  <2>2. calling # <<>> /\ calling \in Seq(BackendEvent)
    BY <1>2 DEF BroadcastNode, BackendTypeOK
  <2>3. Truthful(server', used', Head(calling))
    BY <2>1, <2>2 DEF BackendTruth
  <2>4. \A k \in DOMAIN queue' : Truthful(server', used', queue'[k])
    BY <1>2, <2>1, <2>3, BroadcastTruth DEF BroadcastNode
  <2>5. calling' = <<>>
    BY <1>2 DEF BroadcastNode
  <2> QED
    BY <2>1, <2>4, <2>5 DEF BackendTruth
<1>3. ASSUME NEW n \in LiveNodes, NEW dir \in PortDirs[server.nodes[n]], NEW i \in Id,
             PortGlobal(i, n, dir)
      PROVE  Goal
  <2> DEFINE p == [node |-> n, dir |-> dir]
  <2>0. p.node \in used
    BY <1>0, OwnIds DEF LiveNodes
  <2>1. /\ Ages(server, used, server', used')
        /\ IsPort(server', used', i, p)
        /\ TrueGraph(server', used', server')
    BY <1>0, <1>3, <2>0, NewPort, FreshId DEF PortGlobal
  <2>2. Truthful(server', used', PortAppeared(i, p))
    BY <2>1 DEF Truthful, PortAppeared, RemovalKind
  <2>3. \A k \in DOMAIN queue' : Truthful(server', used', queue'[k])
    BY <1>3, <2>1, <2>2, BroadcastTruth DEF PortGlobal
  <2>4. UNCHANGED <<shared, calling>>
    BY <1>3 DEF PortGlobal
  <2> QED
    BY <2>1, <2>3, <2>4, HeldTruth DEF BackendTruth
<1>4. ASSUME NEW l \in Linkable, NEW i \in Id, LinkGlobal(i, l) PROVE Goal
  <2>1. /\ Ages(server, used, server', used')
        /\ IsLink(server', used', i, l)
        /\ TrueGraph(server', used', server')
    BY <1>0, <1>4, NewLink, FreshId DEF LinkGlobal
  <2>2. Truthful(server', used', LinkAppeared(i, l))
    BY <2>1 DEF Truthful, LinkAppeared, RemovalKind
  <2>3. \A k \in DOMAIN queue' : Truthful(server', used', queue'[k])
    BY <1>4, <2>1, <2>2, BroadcastTruth DEF LinkGlobal
  <2>4. UNCHANGED <<shared, calling>>
    BY <1>4 DEF LinkGlobal
  <2> QED
    BY <2>1, <2>3, <2>4, HeldTruth DEF BackendTruth
<1>5. ASSUME NEW l \in requested, LinkRefused(l) PROVE Goal
  BY <1>5, <1>b DEF LinkRefused, channel
<1>6. ASSUME NEW i \in Live, GlobalRemove(i) PROVE Goal
  BY <1>6, DropTruth DEF GlobalRemove
<1>7. CASE FactoryGlobal
  BY <1>7, <1>b DEF FactoryGlobal, channel
<1>8. CASE RunCommand
  <2>1. UNCHANGED <<used, shared, calling>>
    BY <1>8 DEF RunCommand
  <2>2. ASSUME NEW i \in Live, DropGlobal(i) PROVE Goal
    BY <2>1, <2>2, DropTruth
  <2>3. CASE UNCHANGED <<server, channel>>
    BY <2>1, <2>3, <1>b DEF channel
  <2> QED
    BY <1>8, <2>2, <2>3 DEF RunCommand, RunCreateLink, RunDestroyLink, RunSetVolume
<1> QED
  BY <1>1, <1>2, <1>3, <1>4, <1>5, <1>6, <1>7, <1>8 DEF ServerStep

-----------------------------------------------------------------------------
(***************************************************************************)
(* The pump believes nothing else.                                         *)
(***************************************************************************)
LEMMA ApplyTruth ==
  ASSUME NEW s, NEW u, NEW g, TrueGraph(s, u, g), NEW e, Truthful(s, u, e)
  PROVE  TrueGraph(s, u, ApplyEvent(g, e))
<1> DEFINE g2 == ApplyEvent(g, e)
<1> USE DEF TrueGraph, TrueNodes, Truthful, ApplyEvent, WithNodes, WithPorts, WithLinks
<1>1. CASE e.type = "NodeAppeared"
  BY <1>1 DEF OrInsert, Insert
<1>2. CASE e.type = "PortAppeared"
  BY <1>2 DEF OrInsert, Insert
<1>3. CASE e.type = "LinkAppeared"
  BY <1>3 DEF OrInsert, Insert
<1>4. CASE e.type = "NodeRemoved"
  BY <1>4 DEF RemoveNode, Without, Restrict
<1>5. CASE e.type = "PortRemoved"
  BY <1>5 DEF RemovePort, Without, Restrict
<1>6. CASE e.type = "LinkRemoved"
  BY <1>6 DEF RemoveLink, Without, Restrict
<1>7. CASE e.type \notin RemovalKind \cup {"NodeAppeared", "PortAppeared", "LinkAppeared"}
  BY <1>7 DEF RemovalKind
<1> QED
  BY <1>1, <1>2, <1>3, <1>4, <1>5, <1>6, <1>7 DEF RemovalKind

LEMMA TruthInit == Init => Truth
BY DEF Init, BackendInit, Truth, BackendTruth, PumpTruth, TrueGraph, TrueNodes, EmptyGraph,
       NoEntries

LEMMA TruthNext ==
  ASSUME ~ReuseIds, TypeOK, Truth, [Next]_vars
  PROVE  Ages(server, used, server', used') /\ Truth'
<1> DEFINE Goal == Ages(server, used, server', used') /\ Truth'
<1>a. BackendTypeOK
  BY DEF TypeOK
<1>b. ASSUME UNCHANGED <<server, used>> PROVE Ages(server, used, server', used')
  BY <1>b DEF Ages
<1>c. ASSUME UNCHANGED backendVars, UNCHANGED <<graph, ev>> PROVE Goal
  BY <1>b, <1>c DEF Truth, BackendTruth, PumpTruth, backendVars, registry, channel
<1>d. ASSUME UNCHANGED <<server, used, shared, calling, queue, graph, ev>> PROVE Goal
  BY <1>b, <1>d DEF Truth, BackendTruth, PumpTruth
<1>1. CASE ServerStep /\ UNCHANGED <<main, seeded, config, pumpVars>>
  <2>1. Ages(server, used, server', used') /\ BackendTruth'
    BY <1>a, <1>1, BackendTruthNext DEF Truth
  <2>2. UNCHANGED <<graph, ev>>
    BY <1>1 DEF pumpVars
  <2>3. PumpTruth'
    BY <2>1, <2>2, GraphAges, EventAges DEF Truth, PumpTruth
  <2> QED
    BY <2>1, <2>3 DEF Truth
<1>2. CASE EnumerateNodes
  <2>1. UNCHANGED <<server, used, shared, calling, queue, ev>> /\ graph' = WithNodes(graph, shared)
    BY <1>2 DEF EnumerateNodes, backendVars, registry, channel
  <2>2. TrueGraph(server, used, graph')
    BY <2>1 DEF WithNodes, TrueGraph, Truth, BackendTruth, PumpTruth
  <2> QED
    BY <2>1, <2>2, <1>b DEF Truth, BackendTruth, PumpTruth
<1>3. CASE StartEventPump \/ LoadRulesAtStart \/ LoadScriptAtStart \/ Reload
  BY <1>3, <1>d DEF StartEventPump, LoadRulesAtStart, LoadScriptAtStart, Reload, Subscribe,
                    backendVars, registry, channel, pumpVars
<1>4. CASE ReceiveEvent
  <2>1. /\ UNCHANGED <<server, used, shared, calling, graph>>
        /\ queue # <<>> /\ queue' = Tail(queue) /\ ev' = <<Head(queue)>>
    BY <1>4 DEF ReceiveEvent, Receive, registry
  <2>2. queue \in Seq(BackendEvent)
    BY <1>a DEF BackendTypeOK
  <2>3. \A k \in DOMAIN queue' : k + 1 \in DOMAIN queue /\ queue'[k] = queue[k + 1]
    BY <2>1, <2>2
  <2>4. 1 \in DOMAIN queue /\ ev'[1] = queue[1] /\ DOMAIN ev' = {1}
    BY <2>1, <2>2
  <2> QED
    BY <2>1, <2>3, <2>4, <1>b DEF Truth, BackendTruth, PumpTruth
<1>5. CASE EvaluateScript
  BY <1>5, <1>c DEF EvaluateScript
<1>6. CASE ApplyToGraph
  <2>1. UNCHANGED <<server, used, shared, calling, queue, ev>> /\ graph' = ApplyEvent(graph, Event)
    BY <1>6 DEF ApplyToGraph, backendVars, registry, channel
  <2>2. Truthful(server, used, Event)
    BY <1>6 DEF ApplyToGraph, TypeOK, Truth, PumpTruth, Event
  <2>3. TrueGraph(server, used, graph')
    BY <2>1, <2>2, ApplyTruth DEF Truth, PumpTruth
  <2> QED
    BY <2>1, <2>3, <1>b DEF Truth, BackendTruth, PumpTruth
<1>7. CASE PublishEvent \/ FirePending
  <2>1. UNCHANGED <<server, used, shared, calling, queue, graph>> /\ (ev' = ev \/ ev' = <<>>)
    BY <1>7 DEF PublishEvent, FirePending, backendVars, registry, channel
  <2> QED
    BY <2>1, <1>b DEF Truth, BackendTruth, PumpTruth
<1>8. ASSUME NEW t \in tasks, RunTask(t) PROVE Goal
  BY <1>8, <1>d DEF RunTask, registry, channel
<1>9. CASE UNCHANGED vars
  BY <1>9, <1>c DEF vars, pumpVars
<1> QED
  BY <1>1, <1>2, <1>3, <1>4, <1>5, <1>6, <1>7, <1>8, <1>9 DEF Next, Startup, Pump

-----------------------------------------------------------------------------
(***************************************************************************)
(* The second invariant: a node is matched once, when it is taken off the  *)
(* channel, so none that is still to come has a route.                     *)
(***************************************************************************)
Matched(n) == n \in DOMAIN pending \/ \E t \in tasks : t.type = "link" /\ t.for = n

Unmatched(n) == ~Matched(n) /\ ~(pc = "script" /\ ev[1].id = n)

NodesAnnounced == {k \in DOMAIN queue : queue[k].type = "NodeAppeared"}

MatchedOnce ==
  /\ OneLinkPerMatch
  /\ DOMAIN pending \subseteq used /\ \A t \in tasks : t.for \in used
  /\ \A j, k \in NodesAnnounced : queue[j].id = queue[k].id => j = k
  /\ \A k \in NodesAnnounced : Unmatched(queue[k].id)
  /\ calling # <<>> => /\ Unmatched(calling[1].id)
                       /\ \A k \in NodesAnnounced : queue[k].id # calling[1].id
  /\ pc = "script" => ~Matched(ev[1].id)

\* What a step of the server or the loop does to the node events on their way.
LEMMA ServerStepEvents ==
  ASSUME ~ReuseIds, BackendTypeOK, ServerStep
  PROVE  /\ used \subseteq used'
         /\ \/ /\ calling' = calling
               /\ \/ queue' = queue
                  \/ \E e : e.type # "NodeAppeared" /\ queue' = Append(queue, e)
            \/ /\ queue' = queue
               /\ \E i \in Id \ used, n \in Node : calling' = <<NodeAppeared(i, n)>>
            \/ /\ calling # <<>> /\ calling' = <<>>
               /\ queue' = queue \/ queue' = Append(queue, calling[1])
<1> DEFINE Quiet == /\ used \subseteq used' /\ calling' = calling
                    /\ \/ queue' = queue
                       \/ \E e : e.type # "NodeAppeared" /\ queue' = Append(queue, e)
<1>a. ASSUME NEW e, Broadcast(e) PROVE queue' = queue \/ queue' = Append(queue, e)
  BY <1>a DEF Broadcast
<1>b. ASSUME NEW e, Broadcast(e), e.type # "NodeAppeared", calling' = calling, used \subseteq used'
      PROVE  Quiet
  BY <1>a, <1>b
<1>c. ASSUME NEW i, DropGlobal(i), calling' = calling, used \subseteq used' PROVE Quiet
  <2>1. Removed(KindRemoved(i), i).type # "NodeAppeared"
    BY DEF Removed, KindRemoved
  <2> QED
    BY <1>b, <1>c, <2>1 DEF DropGlobal
<1>1. ASSUME NEW i \in Id, NEW n \in Node, NodeGlobal(i, n)
      PROVE  /\ used \subseteq used' /\ queue' = queue
             /\ i \in Id \ used /\ calling' = <<NodeAppeared(i, n)>>
  BY <1>1, FreshId DEF NodeGlobal, channel
<1>2. CASE BroadcastNode
  <2>1. /\ used' = used /\ calling # <<>> /\ calling' = <<>>
        /\ queue' = queue \/ queue' = Append(queue, Head(calling))
    BY <1>2, <1>a DEF BroadcastNode
  <2>2. Head(calling) = calling[1]
    BY <2>1 DEF BackendTypeOK
  <2> QED
    BY <2>1, <2>2
<1>3. ASSUME NEW n, NEW dir, NEW i, PortGlobal(i, n, dir) PROVE Quiet
  <2>1. PortAppeared(i, [node |-> n, dir |-> dir]).type # "NodeAppeared"
    BY DEF PortAppeared
  <2> QED
    BY <1>3, <1>b, <2>1 DEF PortGlobal
<1>4. ASSUME NEW l, NEW i, LinkGlobal(i, l) PROVE Quiet
  <2>1. LinkAppeared(i, l).type # "NodeAppeared"
    BY DEF LinkAppeared
  <2> QED
    BY <1>4, <1>b, <2>1 DEF LinkGlobal
<1>5. ASSUME NEW l, LinkRefused(l) PROVE Quiet
  BY <1>5 DEF LinkRefused, channel
<1>6. ASSUME NEW i, GlobalRemove(i) PROVE Quiet
  BY <1>6, <1>c DEF GlobalRemove
<1>7. CASE FactoryGlobal
  BY <1>7 DEF FactoryGlobal, channel
<1>8. CASE RunCommand
  <2>1. UNCHANGED <<used, calling>>
    BY <1>8 DEF RunCommand
  <2>2. (\E i : DropGlobal(i)) \/ UNCHANGED queue
    BY <1>8 DEF RunCommand, RunCreateLink, RunDestroyLink, RunSetVolume, channel
  <2> QED
    BY <2>1, <2>2, <1>c
<1> QED
  BY <1>1, <1>2, <1>3, <1>4, <1>5, <1>6, <1>7, <1>8 DEF ServerStep

LEMMA MatchedOnceServer ==
  ASSUME ~ReuseIds, TypeOK, Truth, MatchedOnce,
         ServerStep /\ UNCHANGED <<main, seeded, config, pumpVars>>
  PROVE  MatchedOnce'
<1>0. /\ UNCHANGED <<pending, tasks, pc, ev>> /\ queue \in Seq(BackendEvent)
      /\ BackendTypeOK
  BY DEF pumpVars, TypeOK, BackendTypeOK
<1>1. \A n : /\ Matched(n)' <=> Matched(n)
             /\ Unmatched(n)' <=> Unmatched(n)
  BY <1>0 DEF Matched, Unmatched
<1>2. /\ OneLinkPerMatch'
      /\ DOMAIN pending' \subseteq used' /\ \A t \in tasks' : t.for \in used'
      /\ pc' = "script" => ~Matched(ev[1].id)
  BY <1>0, ServerStepEvents DEF MatchedOnce, OneLinkPerMatch
<1> DEFINE Rest == /\ \A j, k \in NodesAnnounced' : queue'[j].id = queue'[k].id => j = k
                   /\ \A k \in NodesAnnounced' : Unmatched(queue'[k].id)
                   /\ calling' # <<>> =>
                        /\ Unmatched(calling'[1].id)
                        /\ \A k \in NodesAnnounced' : queue'[k].id # calling'[1].id
<1>a. /\ \A j, k \in NodesAnnounced : queue[j].id = queue[k].id => j = k
      /\ \A k \in NodesAnnounced : Unmatched(queue[k].id)
      /\ calling # <<>> => Unmatched(calling[1].id)
      /\ calling # <<>> => \A k \in NodesAnnounced : queue[k].id # calling[1].id
  BY DEF MatchedOnce
<1>3. ASSUME calling' = calling, queue' = queue PROVE Rest
  BY <1>a, <1>3 DEF NodesAnnounced
<1>4. ASSUME NEW e, e.type # "NodeAppeared", queue' = Append(queue, e), calling' = calling
      PROVE  Rest
  <2>1. NodesAnnounced' = NodesAnnounced /\ \A k \in NodesAnnounced : queue'[k] = queue[k]
    BY <1>0, <1>4 DEF NodesAnnounced
  <2>2. \A k \in NodesAnnounced' : k \in NodesAnnounced /\ queue'[k].id = queue[k].id
    BY <2>1
  <2>3. calling' = calling
    BY <1>4
  <2> QED
    BY <1>a, <2>2, <2>3
<1>5. ASSUME NEW i \in Id \ used, NEW n \in Node, calling' = <<NodeAppeared(i, n)>>, queue' = queue
      PROVE  Rest
  <2>1. calling'[1].id = i
    BY <1>5 DEF NodeAppeared
  <2>2. NodesAnnounced' = NodesAnnounced /\ \A k \in NodesAnnounced : queue[k].id \in used
    BY <1>5 DEF NodesAnnounced, Truth, BackendTruth, Truthful, IsNode
  <2>3. ~Matched(i)
    BY <1>5 DEF Matched, MatchedOnce
  <2>4. pc = "script" => ev[1].id \in used
    BY DEF TypeOK, Truth, PumpTruth, Truthful, IsNode
  <2> QED
    BY <1>5, <2>1, <2>2, <2>3, <2>4 DEF MatchedOnce, Unmatched
<1>6. ASSUME calling # <<>>, calling' = <<>>, queue' = queue \/ queue' = Append(queue, calling[1])
      PROVE  Rest
  <2>1. \A k \in NodesAnnounced' :
          \/ k \in NodesAnnounced /\ queue'[k] = queue[k]
          \/ k = Len(queue) + 1 /\ queue'[k] = calling[1]
    BY <1>0, <1>6 DEF NodesAnnounced
  <2>2. \A k \in NodesAnnounced' :
          \/ k \in NodesAnnounced /\ queue'[k].id = queue[k].id
          \/ k = Len(queue) + 1 /\ queue'[k].id = calling[1].id
    BY <2>1
  <2> QED
    BY <1>a, <1>6, <2>2
<1>7. Rest
  BY <1>0, <1>3, <1>4, <1>5, <1>6, ServerStepEvents
<1> HIDE DEF Rest
<1>8. MatchedOnce' <=> Rest /\ OneLinkPerMatch'
        /\ DOMAIN pending' \subseteq used' /\ (\A t \in tasks' : t.for \in used')
        /\ (pc' = "script" => ~Matched(ev[1].id))
  BY <1>0, <1>1 DEF MatchedOnce, Rest
<1> QED
  BY <1>2, <1>7, <1>8

\* handle_action on a node without a route: it may get its one route.
LEMMA ActionMatchesOnce ==
  ASSUME MatchedOnce, NEW e, NEW verdict, HandleAction(e, verdict), ~Matched(e.id), e.id \in used
  PROVE  /\ \A n : Matched(n)' => Matched(n) \/ n = e.id
         /\ OneLinkPerMatch'
         /\ DOMAIN pending' \subseteq used /\ \A t \in tasks' : t.for \in used
<1>1. DOMAIN pending' = DOMAIN pending \/ DOMAIN pending' = DOMAIN pending \cup {e.id}
  BY DEF HandleAction, Insert
<1>2. \A t \in tasks' : t \in tasks \/ (t.type = "volume" /\ t.for = e.id)
  BY DEF HandleAction
<1> QED
  BY <1>1, <1>2 DEF MatchedOnce, OneLinkPerMatch, Matched

LEMMA MatchedOnceReceive ==
  ASSUME TypeOK, Truth, MatchedOnce, ReceiveEvent
  PROVE  MatchedOnce'
<1> DEFINE e == Head(queue)
<1>1. /\ UNCHANGED <<calling, used>> /\ pc = "recv" /\ queue # <<>>
      /\ queue' = Tail(queue) /\ ev' = <<e>>
      /\ pc' = "script" => e.type = "NodeAppeared" /\ UNCHANGED <<pending, tasks>>
      /\ \/ e.type = "NodeAppeared" /\ \E verdict : HandleAction(e, verdict)
         \/ UNCHANGED <<pending, tasks>>
  BY DEF ReceiveEvent, Receive, registry
<1>2. queue \in Seq(BackendEvent)
  BY DEF TypeOK, BackendTypeOK
<1>3. /\ 1 \in DOMAIN queue /\ e = queue[1]
      /\ \A k \in DOMAIN queue' : k + 1 \in DOMAIN queue /\ k + 1 # 1 /\ queue'[k] = queue[k + 1]
  BY <1>1, <1>2
<1>4. ev'[1] = e
  BY <1>1
<1> HIDE DEF e
<1>5. \A j, k \in DOMAIN queue' : j + 1 = k + 1 => j = k
  BY <1>1, <1>2
<1>6. e.type = "NodeAppeared" => ~Matched(e.id) /\ e.id \in used
  BY <1>3 DEF MatchedOnce, NodesAnnounced, Unmatched, Truth, BackendTruth, Truthful, IsNode
<1>7. /\ \A n : Matched(n)' => Matched(n) \/ (n = e.id /\ e.type = "NodeAppeared")
      /\ OneLinkPerMatch'
      /\ DOMAIN pending' \subseteq used /\ \A t \in tasks' : t.for \in used
  <2>1. CASE UNCHANGED <<pending, tasks>>
    BY <2>1 DEF Matched, MatchedOnce, OneLinkPerMatch
  <2>2. ASSUME e.type = "NodeAppeared", NEW verdict, HandleAction(e, verdict)
        PROVE  /\ \A n : Matched(n)' => Matched(n) \/ n = e.id
               /\ OneLinkPerMatch'
               /\ DOMAIN pending' \subseteq used /\ \A t \in tasks' : t.for \in used
    BY <1>6, <2>2, ActionMatchesOnce
  <2> QED
    BY <1>1, <2>1, <2>2
<1>8. \A n : Unmatched(n) /\ (e.type = "NodeAppeared" => n # e.id) => Unmatched(n)'
  BY <1>1, <1>4, <1>7 DEF Unmatched
<1>9. \A k \in NodesAnnounced' :
        /\ k \in DOMAIN queue' /\ k + 1 \in NodesAnnounced /\ queue'[k] = queue[k + 1]
        /\ Unmatched(queue[k + 1].id)
        /\ e.type = "NodeAppeared" => queue[k + 1].id # e.id
  BY <1>3 DEF NodesAnnounced, MatchedOnce
<1>10. \A j, k \in NodesAnnounced' : queue'[j].id = queue'[k].id => j = k
  BY <1>5, <1>9 DEF MatchedOnce
<1>11. \A k \in NodesAnnounced' : \A n : n = queue'[k].id => Unmatched(n)'
  BY <1>8, <1>9
<1>12. calling' # <<>> => /\ \A n : n = calling'[1].id => Unmatched(n)'
                         /\ \A k \in NodesAnnounced' : queue'[k].id # calling'[1].id
  <2>1. calling # <<>> /\ e.type = "NodeAppeared" => calling[1].id # e.id
    BY <1>3 DEF MatchedOnce, NodesAnnounced
  <2>2. calling # <<>> => Unmatched(calling[1].id)
    BY DEF MatchedOnce
  <2>3. calling # <<>> => \A k \in NodesAnnounced' : queue'[k].id # calling[1].id
    BY <1>9 DEF MatchedOnce
  <2> QED
    BY <1>1, <1>8, <2>1, <2>2, <2>3
<1>13. pc' = "script" => \A n : n = ev'[1].id => ~Matched(n)'
  BY <1>1, <1>4, <1>6 DEF Matched
<1>14. used' = used
  BY <1>1
<1> QED
  BY <1>7, <1>10, <1>11, <1>12, <1>13, <1>14 DEF MatchedOnce

\* The script's turn.
LEMMA MatchedOnceScript ==
  ASSUME TypeOK, Truth, MatchedOnce, EvaluateScript
  PROVE  MatchedOnce'
<1>1. /\ UNCHANGED <<calling, used, queue, ev>> /\ pc = "script" /\ pc' = "apply"
      /\ \E verdict : HandleAction(ev[1], verdict)
  BY DEF EvaluateScript, Event, backendVars, registry, channel
<1>2. ~Matched(ev[1].id) /\ ev[1].id \in used
  BY <1>1 DEF MatchedOnce, TypeOK, Truth, PumpTruth, Truthful, IsNode
<1>3. /\ \A n : Matched(n)' => Matched(n) \/ n = ev[1].id
      /\ OneLinkPerMatch'
      /\ DOMAIN pending' \subseteq used /\ \A t \in tasks' : t.for \in used
  BY <1>1, <1>2, ActionMatchesOnce
<1>4. \A n : Unmatched(n) => Unmatched(n)'
  BY <1>1, <1>3 DEF Unmatched
<1> QED
  BY <1>1, <1>3, <1>4 DEF MatchedOnce, NodesAnnounced

\* try_fire_pending turns routes into tasks.
LEMMA MatchedOnceFire ==
  ASSUME MatchedOnce, FirePending
  PROVE  MatchedOnce'
<1>1. /\ UNCHANGED <<calling, used, queue>> /\ pc = "fire" /\ pc' = "recv"
  BY DEF FirePending, backendVars, registry, channel
<1>2. PICK fired \in SUBSET DOMAIN pending :
        /\ \E link \in [fired -> UNION {LinksFor(i) : i \in fired}] :
             tasks' = tasks \cup {[type |-> "link", for |-> i, link |-> link[i],
                                   no |-> fires] : i \in fired}
        /\ pending' = Forget(fired)
  BY DEF FirePending
<1>3. DOMAIN pending' = DOMAIN pending \ fired
  BY <1>2 DEF Forget, Without, Restrict
<1>4. PICK link : tasks' = tasks \cup {[type |-> "link", for |-> i, link |-> link[i],
                                        no |-> fires] : i \in fired}
  BY <1>2
<1>5. /\ \A t \in tasks' : t \in tasks \/ t.for \in fired
      /\ \A t, u \in tasks' \ tasks : t.for = u.for => t = u
  BY <1>4
<1>6. OneLinkPerMatch'
  <2> SUFFICES ASSUME NEW t \in tasks', t.type = "link"
               PROVE  /\ t.for \notin DOMAIN pending'
                      /\ \A u \in tasks' : u.type = "link" /\ u.for = t.for => u = t
    BY DEF OneLinkPerMatch
  <2>1. \A u \in tasks : u.type = "link" => u.for \notin fired
    BY DEF MatchedOnce, OneLinkPerMatch
  <2>2. CASE t \in tasks
    BY <1>3, <1>5, <2>1, <2>2 DEF MatchedOnce, OneLinkPerMatch
  <2>3. CASE t \notin tasks
    BY <1>3, <1>5, <2>1, <2>3
  <2> QED
    BY <2>2, <2>3
<1>7. \A n : Matched(n)' => Matched(n)
  BY <1>3, <1>5 DEF Matched
<1>8. DOMAIN pending' \subseteq used /\ \A t \in tasks' : t.for \in used
  BY <1>3, <1>5 DEF MatchedOnce
<1> QED
  BY <1>1, <1>6, <1>7, <1>8 DEF MatchedOnce, NodesAnnounced, Unmatched

LEMMA MatchedOnceInit == Init => MatchedOnce
BY DEF Init, BackendInit, MatchedOnce, OneLinkPerMatch, NodesAnnounced, NoEntries

LEMMA MatchedOnceNext ==
  ASSUME ~ReuseIds, TypeOK, Truth, MatchedOnce, [Next]_vars
  PROVE  MatchedOnce'
<1>a. ASSUME UNCHANGED <<used, calling, queue, pending>>, tasks' \subseteq tasks,
             UNCHANGED <<ev, pc>> \/ pc' # "script"
      PROVE  MatchedOnce'
  <2>1. \A n : Matched(n)' => Matched(n)
    BY <1>a DEF Matched
  <2>2. \A n : Unmatched(n) => Unmatched(n)'
    BY <1>a, <2>1 DEF Unmatched
  <2>3. OneLinkPerMatch'
    BY <1>a DEF MatchedOnce, OneLinkPerMatch
  <2> QED
    BY <1>a, <2>1, <2>2, <2>3 DEF MatchedOnce, NodesAnnounced
<1>1. CASE ServerStep /\ UNCHANGED <<main, seeded, config, pumpVars>>
  BY <1>1, MatchedOnceServer
<1>2. CASE Startup \/ Reload
  BY <1>2, <1>a DEF Startup, EnumerateNodes, StartEventPump, Subscribe, LoadRulesAtStart,
                    LoadScriptAtStart, Reload, backendVars, registry, channel, pumpVars
<1>3. CASE ReceiveEvent
  BY <1>3, MatchedOnceReceive
<1>4. CASE EvaluateScript
  BY <1>4, MatchedOnceScript
<1>5. CASE ApplyToGraph \/ PublishEvent
  BY <1>5, <1>a DEF ApplyToGraph, PublishEvent, backendVars, registry, channel
<1>6. CASE FirePending
  BY <1>6, MatchedOnceFire
<1>7. ASSUME NEW t \in tasks, RunTask(t) PROVE MatchedOnce'
  BY <1>7, <1>a DEF RunTask, registry, channel
<1>8. CASE UNCHANGED vars
  BY <1>8, <1>a DEF vars, backendVars, registry, channel, pumpVars
<1> QED
  BY <1>1, <1>2, <1>3, <1>4, <1>5, <1>6, <1>7, <1>8 DEF Next, Pump

\* A node that appeared is matched once, by the rules or the script, and asks
\* for one link at most: try_fire_pending takes a route out of the pending ones
\* in the step that spawns its task, and no id that once had a route, a task or
\* an event on its way is announced again.
THEOREM OneMatchOneLink ==
  ASSUME ~ReuseIds
  PROVE  Spec => []OneLinkPerMatch
<1> DEFINE Inv == TypeOK /\ Truth /\ MatchedOnce
<1>1. Init => Inv
  BY InitType, TruthInit, MatchedOnceInit
<1>2. Inv /\ [Next]_vars => Inv'
  BY NextType, TruthNext, MatchedOnceNext
<1>3. Inv => OneLinkPerMatch
  BY DEF MatchedOnce
<1> QED
  BY <1>1, <1>2, <1>3, PTL DEF Spec

-----------------------------------------------------------------------------
(***************************************************************************)
(* The third invariant, for ids that are reused as well: the graph and    *)
(* the channel, as claims about globals.                                   *)
(***************************************************************************)
Claims(g) ==
  {NodeAppeared(i, g.nodes[i]) : i \in DOMAIN g.nodes}
    \cup {PortAppeared(i, g.ports[i]) : i \in DOMAIN g.ports}
    \cup {LinkAppeared(i, g.links[i]) : i \in DOMAIN g.links}

Appears(e) == e.type \in {"NodeAppeared", "PortAppeared", "LinkAppeared"}

\* The pump was told of a global that is still there; a port with its node.
Holds(e) ==
  /\ e \in Claims(server)
  /\ e.id \in told
  /\ e.type = "PortAppeared" => e.port.node \in LiveNodes

\* Applying f ends what e said.
Undoes(f, e) ==
  \/ f.type = "NodeRemoved" /\ e.type = "NodeAppeared" /\ f.id = e.id
  \/ f.type = "PortRemoved" /\ e.type = "PortAppeared" /\ f.id = e.id
  \/ f.type = "LinkRemoved" /\ e.type = "LinkAppeared" /\ f.id = e.id
  \/ f.type = "NodeRemoved" /\ e.type = "PortAppeared" /\ f.id = e.port.node

Seeded(e) == e.type = "NodeAppeared" /\ e.id \in seeded

\* What x and e say of the same id.
Alike(x, e) == x.type = e.type /\ x.id = e.id

\* The graph h says x, with the events of out after the k-th still to be
\* applied (l = k), or the l-th of them says it.
Said(h, out, k, l, x) ==
  \/ l = k /\ x \in Claims(h)
  \/ l > k /\ l \in DOMAIN out /\ x = out[l] /\ Appears(x)

UndoneAfter(out, l, x)      == \E j \in DOMAIN out : j > l /\ Undoes(out[j], x)
UndoneBetween(out, l, i, x) == \E j \in DOMAIN out : j > l /\ j < i /\ Undoes(out[j], x)

\* What is said and does not hold is about to be undone; what holds is said,
\* and not about to be undone; and before an id is given out again, what was
\* said of it is undone: the first to appear wins in the graph.
Heading(h, out, k) ==
  /\ \A l \in Nat : \A x : Said(h, out, k, l, x) =>
       Holds(x) \/ Seeded(x) \/ UndoneAfter(out, l, x)
  /\ \A e : Holds(e) => \E l \in Nat : \E x :
       /\ Said(h, out, k, l, x) /\ ~UndoneAfter(out, l, x)
       /\ Alike(x, e) /\ (x = e \/ Seeded(e))
  /\ \A l, i \in Nat : \A x, y :
       Said(h, out, k, l, x) /\ Said(h, out, k, i, y) /\ l < i /\ Alike(x, y) =>
         Seeded(x) \/ UndoneBetween(out, l, i, x)

\* The registry: ids of one kind at a time, and no news of what is gone.
Standing ==
  /\ LiveNodes \cap LivePorts = {} /\ LiveNodes \cap LiveLinks = {} /\ LivePorts \cap LiveLinks = {}
  /\ Live \subseteq used /\ \A p \in LivePorts : server.ports[p].node \in used
  /\ told \subseteq Live
  /\ calling # <<>> => /\ calling[1].type = "NodeAppeared" /\ calling[1] \in Claims(server)
                       /\ calling[1].id \notin told

Before ==
  /\ main \in {"boot", "seeded"} <=> sub = "none"
  /\ sub = "none" => /\ told = {} /\ queue = <<>> /\ pc = "recv"
                     /\ \A e \in Claims(graph) : Seeded(e)

Mirrored == Standing /\ Before /\ (sub = "open" => Heading(graph, Outstanding, 0))

-----------------------------------------------------------------------------
(***************************************************************************)
(* Claims.                                                                 *)
(***************************************************************************)
LEMMA ClaimFields ==
  /\ \A i, n : /\ NodeAppeared(i, n).type = "NodeAppeared"
               /\ NodeAppeared(i, n).id = i /\ NodeAppeared(i, n).node = n
  /\ \A i, p : /\ PortAppeared(i, p).type = "PortAppeared"
               /\ PortAppeared(i, p).id = i /\ PortAppeared(i, p).port = p
  /\ \A i, l : /\ LinkAppeared(i, l).type = "LinkAppeared"
               /\ LinkAppeared(i, l).id = i /\ LinkAppeared(i, l).link = l
BY DEF NodeAppeared, PortAppeared, LinkAppeared

\* What is claimed of an id is of one kind, and is what the graph has for it.
LEMMA ClaimsOf ==
  ASSUME NEW g
  PROVE  /\ \A i \in DOMAIN g.nodes : NodeAppeared(i, g.nodes[i]) \in Claims(g)
         /\ \A i \in DOMAIN g.ports : PortAppeared(i, g.ports[i]) \in Claims(g)
         /\ \A i \in DOMAIN g.links : LinkAppeared(i, g.links[i]) \in Claims(g)
         /\ \A e \in Claims(g) :
              /\ e.type \in {"NodeAppeared", "PortAppeared", "LinkAppeared"}
              /\ e.type = "NodeAppeared"
                   => e.id \in DOMAIN g.nodes /\ e = NodeAppeared(e.id, g.nodes[e.id])
              /\ e.type = "PortAppeared"
                   => /\ e.id \in DOMAIN g.ports /\ e = PortAppeared(e.id, g.ports[e.id])
                      /\ e.port = g.ports[e.id]
              /\ e.type = "LinkAppeared"
                   => e.id \in DOMAIN g.links /\ e = LinkAppeared(e.id, g.links[e.id])
BY ClaimFields DEF Claims

\* The registry claims one thing of an id.
LEMMA OneClaim ==
  ASSUME Standing, NEW e \in Claims(server), NEW f \in Claims(server), e.id = f.id
  PROVE  e = f
BY ClaimsOf DEF Standing, LiveNodes, LivePorts, LiveLinks

\* The event of a global that goes ends what held of it and of its ports.
LEMMA DropUndoes ==
  ASSUME Standing, NEW i, NEW e, Holds(e),
         e.id = i \/ (e.type = "PortAppeared" /\ e.port.node = i)
  PROVE  Undoes(Removed(KindRemoved(i), i), e)
<1>1. /\ e.type \in {"NodeAppeared", "PortAppeared", "LinkAppeared"}
      /\ e.type = "NodeAppeared" => e.id \in LiveNodes
      /\ e.type = "PortAppeared" => e.id \in LivePorts /\ e.port.node \in LiveNodes
      /\ e.type = "LinkAppeared" => e.id \in LiveLinks
  BY ClaimsOf DEF Holds, LiveNodes, LivePorts, LiveLinks
<1>2. /\ e.type = "PortAppeared" => e.id \notin LiveNodes
      /\ e.type = "LinkAppeared" => e.id \notin LiveNodes /\ e.id \notin LivePorts
  BY <1>1 DEF Standing
<1>3. Removed(KindRemoved(i), i).type = KindRemoved(i) /\ Removed(KindRemoved(i), i).id = i
  BY DEF Removed
<1> QED
  BY <1>1, <1>2, <1>3 DEF KindRemoved, Undoes

\* Nobody refers to a new id.
LEMMA NobodysId ==
  ASSUME Standing, NEW i, Free(i)
  PROVE  i \notin Live /\ \A p \in LivePorts : server.ports[p].node # i
BY DEF Free, Referenced, Standing

\* A claim more.
LEMMA ClaimsAdded ==
  ASSUME NEW g, NEW i
  PROVE  /\ \A n : i \notin DOMAIN g.nodes
                 => Claims(AddNode(g, i, n)) = Claims(g) \cup {NodeAppeared(i, n)}
         /\ \A p : i \notin DOMAIN g.ports
                 => Claims(AddPort(g, i, p)) = Claims(g) \cup {PortAppeared(i, p)}
         /\ \A l : i \notin DOMAIN g.links
                 => Claims(WithLinks(g, Insert(g.links, i, l))) = Claims(g) \cup {LinkAppeared(i, l)}
<1>1. \A m, v : i \notin DOMAIN m =>
        /\ DOMAIN Insert(m, i, v) = DOMAIN m \cup {i}
        /\ Insert(m, i, v)[i] = v
        /\ \A j \in DOMAIN m : Insert(m, i, v)[j] = m[j]
  BY DEF Insert
<1>2. ASSUME NEW n, i \notin DOMAIN g.nodes
      PROVE  Claims(AddNode(g, i, n)) = Claims(g) \cup {NodeAppeared(i, n)}
  <2> DEFINE h == AddNode(g, i, n)
  <2>1. h.nodes = Insert(g.nodes, i, n) /\ h.ports = g.ports /\ h.links = g.links
    BY DEF AddNode, WithNodes
  <2>2. /\ DOMAIN h.nodes = DOMAIN g.nodes \cup {i} /\ h.nodes[i] = n
        /\ \A j \in DOMAIN g.nodes : h.nodes[j] = g.nodes[j]
    BY <1>1, <1>2, <2>1
  <2> HIDE DEF h
  <2> QED
    BY <2>1, <2>2 DEF Claims, h
<1>3. ASSUME NEW p, i \notin DOMAIN g.ports
      PROVE  Claims(AddPort(g, i, p)) = Claims(g) \cup {PortAppeared(i, p)}
  <2> DEFINE h == AddPort(g, i, p)
  <2>1. h.ports = Insert(g.ports, i, p) /\ h.nodes = g.nodes /\ h.links = g.links
    BY DEF AddPort, WithPorts
  <2>2. /\ DOMAIN h.ports = DOMAIN g.ports \cup {i} /\ h.ports[i] = p
        /\ \A j \in DOMAIN g.ports : h.ports[j] = g.ports[j]
    BY <1>1, <1>3, <2>1
  <2> HIDE DEF h
  <2> QED
    BY <2>1, <2>2 DEF Claims, h
<1>4. ASSUME NEW l, i \notin DOMAIN g.links
      PROVE  Claims(WithLinks(g, Insert(g.links, i, l))) = Claims(g) \cup {LinkAppeared(i, l)}
  <2> DEFINE h == WithLinks(g, Insert(g.links, i, l))
  <2>1. h.links = Insert(g.links, i, l) /\ h.nodes = g.nodes /\ h.ports = g.ports
    BY DEF WithLinks
  <2>2. /\ DOMAIN h.links = DOMAIN g.links \cup {i} /\ h.links[i] = l
        /\ \A j \in DOMAIN g.links : h.links[j] = g.links[j]
    BY <1>1, <1>4, <2>1
  <2> HIDE DEF h
  <2> QED
    BY <2>1, <2>2 DEF Claims, h
<1> QED
  BY <1>2, <1>3, <1>4

\* Some entries of g are left in h.
Within(h, g) ==
  /\ DOMAIN h.nodes \subseteq DOMAIN g.nodes /\ \A j \in DOMAIN h.nodes : h.nodes[j] = g.nodes[j]
  /\ DOMAIN h.ports \subseteq DOMAIN g.ports /\ \A j \in DOMAIN h.ports : h.ports[j] = g.ports[j]
  /\ DOMAIN h.links \subseteq DOMAIN g.links /\ \A j \in DOMAIN h.links : h.links[j] = g.links[j]

LEMMA ClaimsLeft ==
  ASSUME NEW g, NEW h, Within(h, g)
  PROVE  /\ Claims(h) \subseteq Claims(g)
         /\ \A e \in Claims(h) : /\ e.type = "NodeAppeared" => e.id \in DOMAIN h.nodes
                                 /\ e.type = "PortAppeared" => e.id \in DOMAIN h.ports
                                 /\ e.type = "LinkAppeared" => e.id \in DOMAIN h.links
         /\ \A e \in Claims(g) : /\ e.type = "NodeAppeared" => e.id \in DOMAIN g.nodes
                                 /\ e.type = "PortAppeared" => e.id \in DOMAIN g.ports
                                 /\ e.type = "LinkAppeared" => e.id \in DOMAIN g.links
         /\ \A e \in Claims(g) :
              \/ e \in Claims(h)
              \/ e.type = "NodeAppeared" /\ e.id \notin DOMAIN h.nodes
              \/ e.type = "PortAppeared" /\ e.id \notin DOMAIN h.ports
              \/ e.type = "LinkAppeared" /\ e.id \notin DOMAIN h.links
<1>1. Claims(h) \subseteq Claims(g)
  BY DEF Claims, Within
<1>2. ASSUME NEW e \in Claims(g),
             /\ e.type = "NodeAppeared" => e.id \in DOMAIN h.nodes
             /\ e.type = "PortAppeared" => e.id \in DOMAIN h.ports
             /\ e.type = "LinkAppeared" => e.id \in DOMAIN h.links
      PROVE  e \in Claims(h)
  <2>1. CASE e.type = "NodeAppeared"
    <3>1. e = NodeAppeared(e.id, g.nodes[e.id]) /\ h.nodes[e.id] = g.nodes[e.id]
      BY <1>2, <2>1, ClaimsOf DEF Within
    <3> QED
      BY <1>2, <2>1, <3>1, ClaimsOf
  <2>2. CASE e.type = "PortAppeared"
    <3>1. e = PortAppeared(e.id, g.ports[e.id]) /\ h.ports[e.id] = g.ports[e.id]
      BY <1>2, <2>2, ClaimsOf DEF Within
    <3> QED
      BY <1>2, <2>2, <3>1, ClaimsOf
  <2>3. CASE e.type = "LinkAppeared"
    <3>1. e = LinkAppeared(e.id, g.links[e.id]) /\ h.links[e.id] = g.links[e.id]
      BY <1>2, <2>3, ClaimsOf DEF Within
    <3> QED
      BY <1>2, <2>3, <3>1, ClaimsOf
  <2> QED
    BY <2>1, <2>2, <2>3, ClaimsOf
<1> QED
  BY <1>1, <1>2, ClaimsOf

\* A global's claim goes with it, and the others stay.
LEMMA ClaimsDropped ==
  ASSUME NEW s, NEW i, NEW s2,
         s2.nodes = Without(s.nodes, {i}), s2.ports = Without(s.ports, {i}),
         s2.links = Without(s.links, {i})
  PROVE  \A e : e \in Claims(s2) <=> e \in Claims(s) /\ e.id # i
<1>1. \A m : /\ DOMAIN Without(m, {i}) = DOMAIN m \ {i}
             /\ \A j \in DOMAIN m \ {i} : Without(m, {i})[j] = m[j]
  BY DEF Without, Restrict
<1>2. /\ DOMAIN s2.nodes = DOMAIN s.nodes \ {i}
      /\ DOMAIN s2.ports = DOMAIN s.ports \ {i}
      /\ DOMAIN s2.links = DOMAIN s.links \ {i}
      /\ \A j \in DOMAIN s2.nodes : s2.nodes[j] = s.nodes[j]
      /\ \A j \in DOMAIN s2.ports : s2.ports[j] = s.ports[j]
      /\ \A j \in DOMAIN s2.links : s2.links[j] = s.links[j]
  BY <1>1
<1>3. Within(s2, s)
  BY <1>2 DEF Within
<1>4. \A e \in Claims(s2) : e \in Claims(s) /\ e.id # i
  <2> SUFFICES ASSUME NEW e \in Claims(s2) PROVE e \in Claims(s) /\ e.id # i
    OBVIOUS
  <2>1. /\ e \in Claims(s)
        /\ \/ e.id \in DOMAIN s2.nodes
           \/ e.id \in DOMAIN s2.ports
           \/ e.id \in DOMAIN s2.links
    BY <1>3, ClaimsLeft, ClaimsOf
  <2> QED
    BY <1>2, <2>1
<1>5. \A e \in Claims(s) : e.id = i \/ e \in Claims(s2)
  <2> SUFFICES ASSUME NEW e \in Claims(s), e \notin Claims(s2) PROVE e.id = i
    OBVIOUS
  <2>1. \/ e.id \in DOMAIN s.nodes \ DOMAIN s2.nodes
        \/ e.id \in DOMAIN s.ports \ DOMAIN s2.ports
        \/ e.id \in DOMAIN s.links \ DOMAIN s2.links
    BY <1>3, ClaimsLeft
  <2> QED
    BY <1>2, <2>1
<1> QED
  BY <1>4, <1>5

\* Every claim of the registry is of a live global.
LEMMA ClaimIds ==
  ASSUME NEW e \in Claims(server)
  PROVE  /\ e.id \in Live
         /\ e.type = "PortAppeared" => e.id \in LivePorts /\ e.port = server.ports[e.id]
BY ClaimsOf DEF Live, LiveNodes, LivePorts, LiveLinks

\* What is announced of a global that appears, or removed with one that goes.
News(f) ==
  /\ Appears(f) => Holds(f)' /\ \A x : Holds(x) => ~Alike(x, f)
  /\ \A x : Holds(x) => Holds(x)' \/ Undoes(f, x)
  /\ \A x : Holds(x)' => ~Undoes(f, x) /\ (Holds(x) \/ (x = f /\ Appears(f)))

LEMMA ServerStepClaims ==
  ASSUME BackendTypeOK, Standing, ServerStep, sub' = "open"
  PROVE  \/ UNCHANGED queue /\ \A x : Holds(x)' <=> Holds(x)
         \/ \E f : queue' = Append(queue, f) /\ News(f)
<1> DEFINE Quiet == UNCHANGED queue /\ \A x : Holds(x)' <=> Holds(x)
           More == \E f : queue' = Append(queue, f) /\ News(f)
           Goal == Quiet \/ More
<1>a. ASSUME NEW e, Broadcast(e)
      PROVE  /\ queue' = Append(queue, e)
             /\ told' = IF e.type \in RemovalKind THEN told \ {e.id} ELSE told \cup {e.id}
  BY <1>a DEF Broadcast
<1>b. ASSUME UNCHANGED <<server, told, queue>> PROVE Goal
  BY <1>b DEF Holds, LiveNodes
<1>c. ASSUME NEW e, Claims(server') = Claims(server) \cup {e}, queue' = Append(queue, e),
             told' = told \cup {e.id}, UNCHANGED server.nodes, Appears(e),
             e \in Claims(server) \/ e.id \notin Live, e.id \notin told,
             e.type = "PortAppeared" => e.port.node \in LiveNodes
      PROVE  Goal
  <2>1. Holds(e)'
    BY <1>c DEF Holds, LiveNodes
  <2>2. ASSUME NEW x, Holds(x)', x # e PROVE Holds(x)
    <3>1. x \in Claims(server)
      BY <1>c, <2>2 DEF Holds
    <3>2. x.id # e.id
      BY <1>c, <2>2, <3>1, ClaimIds, OneClaim
    <3> QED
      BY <1>c, <2>2, <3>1, <3>2 DEF Holds, LiveNodes
  <2>3. ASSUME NEW x, Holds(x) PROVE Holds(x)' /\ ~Alike(x, e)
    BY <1>c, <2>3 DEF Holds, LiveNodes, Alike
  <2>4. \A x : ~Undoes(e, x)
    BY <1>c DEF Appears, Undoes
  <2>5. News(e)
    BY <1>c, <2>1, <2>2, <2>3, <2>4 DEF News
  <2> QED
    BY <1>c, <2>5
<1>d. ASSUME NEW i, DropGlobal(i) PROVE Goal
  <2> DEFINE f == Removed(KindRemoved(i), i)
  <2>1. f.type \in RemovalKind /\ f.id = i
    BY DEF Removed, KindRemoved, RemovalKind
  <2>2. queue' = Append(queue, f) /\ told' = told \ {i}
    BY <1>d, <1>a, <2>1 DEF DropGlobal
  <2>3. \A e : e \in Claims(server') <=> e \in Claims(server) /\ e.id # i
    <3>1. /\ server'.nodes = Without(server.nodes, {i})
          /\ server'.ports = Without(server.ports, {i})
          /\ server'.links = Without(server.links, {i})
      BY <1>d DEF DropGlobal
    <3> QED
      BY <3>1, ClaimsDropped
  <2>4. \A n : n \in LiveNodes' <=> n \in LiveNodes /\ n # i
    BY <1>d DEF DropGlobal, LiveNodes, Without, Restrict
  <2>5. \A x : Holds(x) => Holds(x)' \/ Undoes(f, x)
    BY <2>2, <2>3, <2>4, DropUndoes DEF Holds
  <2>6. \A x : Holds(x)' => Holds(x) /\ x.id # i /\ (x.type = "PortAppeared" => x.port.node # i)
    BY <2>2, <2>3, <2>4 DEF Holds
  <2>7. \A x : Holds(x)' => ~Undoes(f, x)
    BY <2>1, <2>6 DEF Undoes
  <2>8. ~Appears(f)
    BY <2>1 DEF RemovalKind, Appears
  <2>9. News(f)
    BY <2>5, <2>6, <2>7, <2>8 DEF News
  <2> QED
    BY <2>2, <2>9
<1>1. ASSUME NEW i \in Id, NEW n \in Node, NodeGlobal(i, n) PROVE Goal
  <2>1. Free(i) /\ UNCHANGED <<told, queue>> /\ server' = AddNode(server, i, n)
    BY <1>1 DEF NodeGlobal, channel
  <2>2. i \notin Live /\ i \notin DOMAIN server.nodes
    BY <2>1, NobodysId DEF Live, LiveNodes
  <2>3. Claims(server') = Claims(server) \cup {NodeAppeared(i, n)}
    BY <2>1, <2>2, ClaimsAdded
  <2>4. LiveNodes' = LiveNodes \cup {i}
    BY <2>1 DEF LiveNodes, AddNode, WithNodes, Insert
  <2>5. \A x \in Claims(server) : x.type = "PortAppeared" => x.port.node # i
    BY <2>1, ClaimIds, NobodysId
  <2>6. NodeAppeared(i, n).id = i /\ i \notin told
    BY <2>2, ClaimFields DEF Standing
  <2>7. \A x : Holds(x)' <=> Holds(x)
    BY <2>1, <2>3, <2>4, <2>5, <2>6 DEF Holds
  <2> QED
    BY <2>1, <2>7
<1>2. ASSUME BroadcastNode PROVE Goal
  <2> DEFINE e == calling[1]
  <2>1. calling # <<>> /\ UNCHANGED server /\ Broadcast(e)
    BY <1>2 DEF BroadcastNode, BackendTypeOK
  <2>2. /\ e.type = "NodeAppeared" /\ e \in Claims(server) /\ e.type \notin RemovalKind
        /\ e.id \notin told /\ Appears(e)
    BY <2>1 DEF RemovalKind, Standing, Appears
  <2>3. queue' = Append(queue, e) /\ told' = told \cup {e.id}
    BY <1>a, <2>1, <2>2
  <2> HIDE DEF e
  <2>4. UNCHANGED server.nodes /\ Claims(server') = Claims(server) \cup {e}
    BY <2>1, <2>2
  <2> QED
    BY <1>c, <2>2, <2>3, <2>4
<1>3. ASSUME NEW n \in LiveNodes, NEW dir \in PortDirs[server.nodes[n]], NEW i \in Id,
             PortGlobal(i, n, dir)
      PROVE  Goal
  <2> DEFINE p == [node |-> n, dir |-> dir]
             e == PortAppeared(i, p)
  <2>1. Free(i) /\ server' = AddPort(server, i, p) /\ Broadcast(e)
    BY <1>3 DEF PortGlobal
  <2>2. i \notin Live /\ i \notin DOMAIN server.ports /\ i \notin told
    BY <2>1, NobodysId DEF Live, LivePorts, Standing
  <2>3. Claims(server') = Claims(server) \cup {e} /\ server'.nodes = server.nodes
    BY <2>1, <2>2, ClaimsAdded DEF AddPort, WithPorts
  <2>4. e.id = i /\ e.port.node \in LiveNodes /\ e.type \notin RemovalKind /\ Appears(e)
    BY ClaimFields DEF RemovalKind, Appears
  <2>5. queue' = Append(queue, e) /\ told' = told \cup {e.id}
    BY <1>a, <2>1, <2>4
  <2> HIDE DEF e
  <2> QED
    BY <1>c, <2>2, <2>3, <2>4, <2>5
<1>4. ASSUME NEW l \in Linkable, NEW i \in Id, LinkGlobal(i, l) PROVE Goal
  <2> DEFINE e == LinkAppeared(i, l)
  <2>1. /\ Free(i) /\ Broadcast(e)
        /\ server' = WithLinks(server, Insert(server.links, i, l))
    BY <1>4 DEF LinkGlobal
  <2>2. i \notin Live /\ i \notin DOMAIN server.links /\ i \notin told
    BY <2>1, NobodysId DEF Live, LiveLinks, Standing
  <2>3. Claims(server') = Claims(server) \cup {e} /\ server'.nodes = server.nodes
    BY <2>1, <2>2, ClaimsAdded DEF WithLinks
  <2>4. e.id = i /\ e.type # "PortAppeared" /\ e.type \notin RemovalKind /\ Appears(e)
    BY ClaimFields DEF RemovalKind, Appears
  <2>5. queue' = Append(queue, e) /\ told' = told \cup {e.id}
    BY <1>a, <2>1, <2>4
  <2> HIDE DEF e
  <2> QED
    BY <1>c, <2>2, <2>3, <2>4, <2>5
<1>5. ASSUME NEW l, LinkRefused(l) PROVE Goal
  BY <1>5, <1>b DEF LinkRefused, channel
<1>6. ASSUME NEW i, GlobalRemove(i) PROVE Goal
  BY <1>6, <1>d DEF GlobalRemove
<1>7. ASSUME FactoryGlobal PROVE Goal
  BY <1>7, <1>b DEF FactoryGlobal, channel
<1>8. ASSUME RunCommand PROVE Goal
  <2>1. (\E i : DropGlobal(i)) \/ UNCHANGED <<server, told, queue>>
    BY <1>8 DEF RunCommand, RunCreateLink, RunDestroyLink, RunSetVolume, channel
  <2> QED
    BY <2>1, <1>b, <1>d
<1> HIDE DEF Quiet, More
<1>9. Goal
  BY <1>1, <1>2, <1>3, <1>4, <1>5, <1>6, <1>7, <1>8 DEF ServerStep
<1> QED
  BY <1>9 DEF Quiet, More

LEMMA StandingServer ==
  ASSUME BackendTypeOK, Standing, ServerStep
  PROVE  Standing'
<1> USE DEF Live, LiveNodes, LivePorts, LiveLinks
<1>0. calling \in Seq(BackendEvent) /\ Len(calling) <= 1
  BY DEF BackendTypeOK
<1>a. ASSUME NEW e, Broadcast(e)
      PROVE  /\ told' \subseteq told \cup {e.id}
             /\ e.type \in RemovalKind => told' = told \ {e.id}
  BY <1>a DEF Broadcast
<1>b. ASSUME UNCHANGED <<server, told, calling>>, used' = used PROVE Standing'
  BY <1>b DEF Standing
<1>d. ASSUME NEW i, DropGlobal(i), used' = used, calling' = <<>> PROVE Standing'
  <2>1. /\ server'.nodes = Without(server.nodes, {i}) /\ server'.ports = Without(server.ports, {i})
        /\ server'.links = Without(server.links, {i})
    BY <1>d DEF DropGlobal
  <2>2. /\ DOMAIN server'.nodes = DOMAIN server.nodes \ {i}
        /\ DOMAIN server'.ports = DOMAIN server.ports \ {i}
        /\ DOMAIN server'.links = DOMAIN server.links \ {i}
        /\ \A p \in DOMAIN server'.ports : server'.ports[p] = server.ports[p]
    BY <2>1 DEF Without, Restrict
  <2>3. told' = told \ {i}
    <3>1. Removed(KindRemoved(i), i).type \in RemovalKind /\ Removed(KindRemoved(i), i).id = i
      BY DEF Removed, KindRemoved, RemovalKind
    <3> QED
      BY <1>a, <1>d, <3>1 DEF DropGlobal
  <2> QED
    BY <1>d, <2>2, <2>3 DEF Standing
<1>1. ASSUME NEW i \in Id, NEW n \in Node, NodeGlobal(i, n) PROVE Standing'
  <2>1. /\ i \notin Live /\ i \notin told /\ UNCHANGED told /\ used' = used \cup {i}
        /\ calling' = <<NodeAppeared(i, n)>>
        /\ server'.nodes = Insert(server.nodes, i, n)
        /\ server'.ports = server.ports /\ server'.links = server.links
    BY <1>1, NobodysId DEF NodeGlobal, AddNode, WithNodes, channel, Standing
  <2>2. DOMAIN server'.nodes = DOMAIN server.nodes \cup {i} /\ server'.nodes[i] = n
    BY <2>1 DEF Insert
  <2>3. calling'[1] = NodeAppeared(i, n) /\ NodeAppeared(i, n) \in Claims(server')
    BY <2>1, <2>2, ClaimsOf
  <2>4. calling'[1].type = "NodeAppeared" /\ calling'[1].id = i
    BY <2>3, ClaimFields
  <2> QED
    BY <2>1, <2>2, <2>3, <2>4 DEF Standing
<1>2. ASSUME BroadcastNode PROVE Standing'
  <2>1. /\ calling # <<>> /\ Broadcast(calling[1]) /\ used' = used /\ calling' = <<>>
        /\ UNCHANGED server
    BY <1>0, <1>2 DEF BroadcastNode
  <2>2. calling[1].id \in Live
    BY <2>1, ClaimIds DEF Standing
  <2> QED
    BY <1>a, <2>1, <2>2 DEF Standing
<1>3. ASSUME NEW n \in LiveNodes, NEW dir, NEW i, PortGlobal(i, n, dir) PROVE Standing'
  <2> DEFINE p == [node |-> n, dir |-> dir]
  <2>1. /\ i \notin Live /\ Broadcast(PortAppeared(i, p)) /\ used' = used \cup {i}
        /\ calling = <<>> /\ calling' = calling
        /\ server'.ports = Insert(server.ports, i, p)
        /\ server'.nodes = server.nodes /\ server'.links = server.links
    BY <1>3, NobodysId DEF PortGlobal, LoopIdle, AddPort, WithPorts
  <2>2. /\ DOMAIN server'.ports = DOMAIN server.ports \cup {i} /\ server'.ports[i] = p
        /\ \A q \in DOMAIN server.ports : q # i => server'.ports[q] = server.ports[q]
    BY <2>1 DEF Insert
  <2>3. told' \subseteq told \cup {i} /\ p.node = n
    BY <1>a, <2>1, ClaimFields
  <2> HIDE DEF p
  <2> QED
    BY <2>1, <2>2, <2>3 DEF Standing
<1>4. ASSUME NEW l, NEW i, LinkGlobal(i, l) PROVE Standing'
  <2>1. /\ i \notin Live /\ Broadcast(LinkAppeared(i, l)) /\ used' = used \cup {i}
        /\ calling = <<>> /\ calling' = calling
        /\ server'.links = Insert(server.links, i, l)
        /\ server'.nodes = server.nodes /\ server'.ports = server.ports
    BY <1>4, NobodysId DEF LinkGlobal, LoopIdle, WithLinks
  <2>2. DOMAIN server'.links = DOMAIN server.links \cup {i}
    BY <2>1 DEF Insert
  <2>3. told' \subseteq told \cup {i}
    BY <1>a, <2>1, ClaimFields
  <2> QED
    BY <2>1, <2>2, <2>3 DEF Standing
<1>5. ASSUME NEW l, LinkRefused(l) PROVE Standing'
  BY <1>5, <1>b DEF LinkRefused, channel
<1>6. ASSUME NEW i, GlobalRemove(i) PROVE Standing'
  BY <1>6, <1>d DEF GlobalRemove, LoopIdle
<1>7. ASSUME FactoryGlobal PROVE Standing'
  BY <1>7, <1>b DEF FactoryGlobal, channel
<1>8. ASSUME RunCommand PROVE Standing'
  <2>1. used' = used /\ calling' = <<>> /\ UNCHANGED calling
    BY <1>8 DEF RunCommand, LoopIdle
  <2>2. (\E i : DropGlobal(i)) \/ UNCHANGED <<server, told>>
    BY <1>8 DEF RunCommand, RunCreateLink, RunDestroyLink, RunSetVolume, channel
  <2> QED
    BY <2>1, <2>2, <1>b, <1>d
<1> QED
  BY <1>1, <1>2, <1>3, <1>4, <1>5, <1>6, <1>7, <1>8 DEF ServerStep

\* Before anybody subscribes, nobody is told.
LEMMA SilentServer ==
  ASSUME ServerStep, told = {} \/ sub # "none"
  PROVE  /\ sub' = "none" <=> sub = "none"
         /\ sub = "none" => told' = {} /\ UNCHANGED queue
         /\ sub' = "open" => sub = "open"
BY DEF ServerStep, BroadcastNode, PortGlobal, NodeGlobal, LinkGlobal, LinkRefused, GlobalRemove,
       FactoryGlobal, RunCommand, RunCreateLink, RunDestroyLink, RunSetVolume, DropGlobal,
       Broadcast, channel

LEMMA StandingNext ==
  ASSUME TypeOK, Standing, Before, [Next]_vars
  PROVE  Standing' /\ Before'
<1>a. ASSUME UNCHANGED <<told, used, calling, server>> PROVE Standing'
  BY <1>a DEF Standing, Live, LiveNodes, LivePorts, LiveLinks
<1>b. ASSUME UNCHANGED sub, sub # "none", main' \notin {"boot", "seeded"} PROVE Before'
  BY <1>b DEF Before
<1>1. CASE ServerStep /\ UNCHANGED <<main, seeded, config, pumpVars>>
  <2>1. Standing'
    BY <1>1, StandingServer DEF TypeOK
  <2>2. UNCHANGED <<main, seeded, graph, pc>> /\ (told = {} \/ sub # "none")
    BY <1>1 DEF pumpVars, Before
  <2>3. Before'
    BY <1>1, <2>2, SilentServer DEF Before, Seeded
  <2> QED
    BY <2>1, <2>3
<1>2. CASE EnumerateNodes
  <2>1. /\ UNCHANGED <<told, used, calling, server, sub, queue, pc>>
        /\ main = "boot" /\ main' = "seeded"
        /\ graph' = WithNodes(graph, shared) /\ seeded' = DOMAIN shared
    BY <1>2 DEF EnumerateNodes, backendVars, registry, channel
  <2>2. ASSUME NEW e \in Claims(graph') PROVE Seeded(e)'
    <3>1. \A f \in Claims(graph) : f.type = "NodeAppeared"
      BY <2>1 DEF Before, Seeded
    <3>2. DOMAIN graph.ports = {} /\ DOMAIN graph.links = {}
      BY <3>1, ClaimsOf, ClaimFields
    <3>3. graph'.nodes = shared /\ DOMAIN graph'.ports = {} /\ DOMAIN graph'.links = {}
      BY <2>1, <3>2 DEF WithNodes
    <3> QED
      BY <2>1, <3>3, ClaimsOf DEF Seeded
  <2> QED
    BY <1>a, <2>1, <2>2 DEF Before
<1>3. CASE StartEventPump
  BY <1>3, <1>a DEF StartEventPump, Subscribe, registry, Before
<1>4. CASE LoadRulesAtStart \/ LoadScriptAtStart \/ Reload
  BY <1>4, <1>a, <1>b DEF LoadRulesAtStart, LoadScriptAtStart, Reload, Before, backendVars, registry, channel
<1>5. CASE ReceiveEvent
  BY <1>5, <1>a, <1>b DEF ReceiveEvent, Receive, registry, Before, TypeOK
<1>6. CASE EvaluateScript \/ ApplyToGraph \/ PublishEvent \/ FirePending
  BY <1>6, <1>a, <1>b DEF EvaluateScript, ApplyToGraph, PublishEvent, FirePending, Before,
                    backendVars, registry, channel
<1>7. ASSUME NEW t \in tasks, RunTask(t) PROVE Standing' /\ Before'
  BY <1>7, <1>a DEF RunTask, registry, channel, Before, Seeded
<1>8. CASE UNCHANGED vars
  BY <1>8, <1>a DEF vars, backendVars, registry, channel, pumpVars, Before, Seeded
<1> QED
  BY <1>1, <1>2, <1>3, <1>4, <1>5, <1>6, <1>7, <1>8 DEF Next, Startup, Pump

-----------------------------------------------------------------------------
(***************************************************************************)
(* The graph heads for the registry.                                       *)
(***************************************************************************)
LEMMA OutstandingType ==
  ASSUME TypeOK
  PROVE  Outstanding \in Seq(BackendEvent)
BY DEF TypeOK, BackendTypeOK, Outstanding

\* What the channel takes comes last.
LEMMA OutstandingAppend ==
  ASSUME NEW S, NEW p \in Seq(S), NEW q \in Seq(S), NEW f \in S
  PROVE  /\ DOMAIN (p \o Append(q, f)) = DOMAIN (p \o q) \cup {Len(p) + Len(q) + 1}
         /\ \A k \in DOMAIN (p \o q) : (p \o Append(q, f))[k] = (p \o q)[k] /\ k < Len(p) + Len(q) + 1
         /\ (p \o Append(q, f))[Len(p) + Len(q) + 1] = f
OBVIOUS

\* More is announced.
LEMMA HeadingServer ==
  ASSUME TypeOK, Standing, Before, sub = "open" => Heading(graph, Outstanding, 0), sub' = "open",
         ServerStep /\ UNCHANGED <<main, seeded, config, pumpVars>>
  PROVE  Heading(graph, Outstanding, 0)'
<1>0. /\ UNCHANGED <<main, graph, seeded, pc, ev>> /\ BackendTypeOK
      /\ queue \in Seq(BackendEvent)
  BY DEF pumpVars, TypeOK, BackendTypeOK
<1>1. Heading(graph, Outstanding, 0)
  <2>1. told = {} \/ sub # "none"
    BY DEF Before
  <2> QED
    BY <2>1, SilentServer
<1>2. \A e : Seeded(e)' <=> Seeded(e)
  BY <1>0 DEF Seeded
<1>3. CASE UNCHANGED queue /\ \A x : Holds(x)' <=> Holds(x)
  <2>1. Outstanding' = Outstanding
    BY <1>0, <1>3 DEF Outstanding
  <2> QED
    BY <1>0, <1>1, <1>2, <1>3, <2>1 DEF Heading
<1>4. ASSUME NEW f, queue' = Append(queue, f), News(f)
      PROVE  Heading(graph, Outstanding, 0)'
  <2> DEFINE pre == IF pc \in {"script", "apply"} THEN ev ELSE <<>>
  <2>1. PICK out : out = Outstanding
    OBVIOUS
  <2>2. PICK new : new = Outstanding'
    OBVIOUS
  <2>3. PICK last : last = Len(pre) + Len(queue) + 1
    OBVIOUS
  <2>4. /\ pre \in Seq(BackendEvent) /\ pre' = pre
        /\ out = pre \o queue /\ new = pre \o queue'
    BY <1>0, <2>1, <2>2 DEF Outstanding, TypeOK
  <2> HIDE DEF pre
  <2>5. f \in BackendEvent
    <3>1. queue' \in Seq(BackendEvent)
      BY <1>0, ServerStepType DEF BackendTypeOK
    <3>2. Len(queue) + 1 \in DOMAIN queue' /\ queue'[Len(queue) + 1] = f
      BY <1>0, <1>4
    <3> QED
      BY <3>1, <3>2
  <2>6. /\ DOMAIN new = DOMAIN out \cup {last}
        /\ \A k \in DOMAIN out : new[k] = out[k] /\ k < last /\ k \in Nat \ {0}
        /\ new[last] = f /\ last \in Nat \ {0}
    BY <1>0, <1>4, <2>3, <2>4, <2>5, OutstandingAppend
  <2>7. ASSUME NEW l \in Nat, NEW x
        PROVE  /\ Said(graph, out, 0, l, x) => Said(graph, new, 0, l, x) /\ l < last
               /\ Said(graph, new, 0, l, x) => \/ Said(graph, out, 0, l, x)
                                               \/ l = last /\ x = f /\ Appears(f)
    BY <2>6 DEF Said
  <2>8. ASSUME NEW l \in Nat, NEW x, l < last
        PROVE  UndoneAfter(new, l, x) <=> UndoneAfter(out, l, x) \/ Undoes(f, x)
    BY <2>6, <2>8 DEF UndoneAfter
  <2>9. \A x : ~UndoneAfter(new, last, x)
    BY <2>6 DEF UndoneAfter
  <2>10. ASSUME NEW l \in Nat, NEW i \in Nat, NEW x, i < last \/ i = last, l < i
         PROVE  /\ UndoneBetween(out, l, i, x) => UndoneBetween(new, l, i, x)
                /\ i = last /\ UndoneAfter(out, l, x) => UndoneBetween(new, l, i, x)
    BY <2>6, <2>10 DEF UndoneBetween, UndoneAfter
  <2>11. ASSUME NEW l \in Nat, NEW x, Said(graph, new, 0, l, x)
         PROVE  Holds(x)' \/ Seeded(x) \/ UndoneAfter(new, l, x)
    <3>1. CASE Said(graph, out, 0, l, x)
      <4>1. Holds(x) \/ Seeded(x) \/ UndoneAfter(out, l, x)
        BY <1>1, <2>1, <3>1 DEF Heading
      <4> QED
        BY <1>4, <2>7, <2>8, <3>1, <4>1 DEF News
    <3>2. CASE x = f /\ Appears(f)
      BY <1>4, <3>2 DEF News
    <3> QED
      BY <2>7, <2>11, <3>1, <3>2
  <2>12. ASSUME NEW e, Holds(e)'
         PROVE  \E l \in Nat : \E x :
                  /\ Said(graph, new, 0, l, x) /\ ~UndoneAfter(new, l, x)
                  /\ Alike(x, e) /\ (x = e \/ Seeded(e))
    <3>1. CASE Holds(e)
      <4>1. PICK l, x : /\ l \in Nat /\ Said(graph, out, 0, l, x) /\ ~UndoneAfter(out, l, x)
                                /\ Alike(x, e) /\ (x = e \/ Seeded(e))
        BY <1>1, <2>1, <3>1 DEF Heading
      <4>2. ~Undoes(f, x)
        <5>1. ~Undoes(f, e)
          BY <1>4, <2>12 DEF News
        <5> QED
          BY <4>1, <5>1 DEF Undoes, Alike, Seeded
      <4> QED
        BY <2>7, <2>8, <4>1, <4>2
    <3>2. CASE e = f /\ Appears(f)
      <4>1. Said(graph, new, 0, last, f)
        BY <2>6, <3>2 DEF Said
      <4> QED
        BY <2>6, <2>9, <3>2, <4>1 DEF Alike
    <3> QED
      BY <1>4, <2>12, <3>1, <3>2 DEF News
  <2>13. ASSUME NEW l \in Nat, NEW i \in Nat, NEW x, NEW y,
                Said(graph, new, 0, l, x), Said(graph, new, 0, i, y), l < i, Alike(x, y)
         PROVE  Seeded(x) \/ UndoneBetween(new, l, i, x)
    <3>1. i < last \/ i = last
      BY <2>7, <2>13
    <3>2. Said(graph, out, 0, l, x)
      BY <2>7, <2>13, <3>1
    <3>3. CASE Said(graph, out, 0, i, y)
      <4>1. Seeded(x) \/ UndoneBetween(out, l, i, x)
        BY <1>1, <2>1, <2>13, <3>2, <3>3 DEF Heading
      <4> QED
        BY <2>10, <2>13, <3>1, <4>1
    <3>4. CASE i = last /\ y = f /\ Appears(f)
      <4>1. Holds(x) \/ Seeded(x) \/ UndoneAfter(out, l, x)
        BY <1>1, <2>1, <3>2 DEF Heading
      <4>2. ~Holds(x)
        BY <1>4, <2>13, <3>4 DEF News
      <4> QED
        BY <2>10, <2>13, <3>1, <3>4, <4>1, <4>2
    <3> QED
      BY <2>7, <2>13, <3>3, <3>4
  <2> QED
    BY <1>0, <1>2, <2>2, <2>11, <2>12, <2>13 DEF Heading
<1> QED
  BY <1>0, <1>3, <1>4, ServerStepClaims

\* The claims of a graph an event was applied to.
LEMMA AppliedClaims ==
  ASSUME NEW g, NEW f \in BackendEvent
  PROVE  /\ \A e \in Claims(ApplyEvent(g, f)) : (e \in Claims(g) \/ e = f) /\ ~Undoes(f, e)
         /\ \A e \in Claims(g) : e \in Claims(ApplyEvent(g, f)) \/ Undoes(f, e)
         /\ f.type \in {"NodeAppeared", "PortAppeared", "LinkAppeared"}
              => \E e \in Claims(ApplyEvent(g, f)) : e.type = f.type /\ e.id = f.id
<1> DEFINE h == ApplyEvent(g, f)
           Goal == /\ \A e \in Claims(h) : (e \in Claims(g) \/ e = f) /\ ~Undoes(f, e)
                   /\ \A e \in Claims(g) : e \in Claims(h) \/ Undoes(f, e)
                   /\ f.type \in {"NodeAppeared", "PortAppeared", "LinkAppeared"}
                        => \E e \in Claims(h) : e.type = f.type /\ e.id = f.id
<1>1. ASSUME f.type = "NodeAppeared" PROVE Goal
  <2>1. /\ h.ports = g.ports /\ h.links = g.links
        /\ h.nodes = OrInsert(g.nodes, f.id, f.node) /\ f = NodeAppeared(f.id, f.node)
    BY <1>1 DEF ApplyEvent, WithNodes, BackendEvent, NodeAppeared, RemovalKind
  <2>2. /\ DOMAIN h.nodes = DOMAIN g.nodes \cup {f.id}
        /\ \A j \in DOMAIN g.nodes : h.nodes[j] = g.nodes[j]
        /\ f.id \notin DOMAIN g.nodes => h.nodes[f.id] = f.node
    BY <2>1 DEF OrInsert, Insert
  <2>3. \A e : ~Undoes(f, e)
    BY <1>1 DEF Undoes
  <2> HIDE DEF h
  <2>4. \A e \in Claims(h) : e \in Claims(g) \/ e = f
    BY <2>1, <2>2, ClaimsOf
  <2>5. \A e \in Claims(g) : e \in Claims(h)
    BY <2>1, <2>2, ClaimsOf
  <2>6. NodeAppeared(f.id, h.nodes[f.id]) \in Claims(h)
    BY <2>2, ClaimsOf
  <2> QED
    BY <1>1, <2>3, <2>4, <2>5, <2>6, ClaimFields
<1>2. ASSUME f.type = "PortAppeared" PROVE Goal
  <2>1. /\ h.nodes = g.nodes /\ h.links = g.links
        /\ h.ports = OrInsert(g.ports, f.id, f.port) /\ f = PortAppeared(f.id, f.port)
    BY <1>2 DEF ApplyEvent, WithPorts, BackendEvent, PortAppeared, RemovalKind
  <2>2. /\ DOMAIN h.ports = DOMAIN g.ports \cup {f.id}
        /\ \A j \in DOMAIN g.ports : h.ports[j] = g.ports[j]
        /\ f.id \notin DOMAIN g.ports => h.ports[f.id] = f.port
    BY <2>1 DEF OrInsert, Insert
  <2>3. \A e : ~Undoes(f, e)
    BY <1>2 DEF Undoes
  <2> HIDE DEF h
  <2>4. \A e \in Claims(h) : e \in Claims(g) \/ e = f
    BY <2>1, <2>2, ClaimsOf
  <2>5. \A e \in Claims(g) : e \in Claims(h)
    BY <2>1, <2>2, ClaimsOf
  <2>6. PortAppeared(f.id, h.ports[f.id]) \in Claims(h)
    BY <2>2, ClaimsOf
  <2> QED
    BY <1>2, <2>3, <2>4, <2>5, <2>6, ClaimFields
<1>3. ASSUME f.type = "LinkAppeared" PROVE Goal
  <2>1. /\ h.nodes = g.nodes /\ h.ports = g.ports
        /\ h.links = OrInsert(g.links, f.id, f.link) /\ f = LinkAppeared(f.id, f.link)
    BY <1>3 DEF ApplyEvent, WithLinks, BackendEvent, LinkAppeared, RemovalKind
  <2>2. /\ DOMAIN h.links = DOMAIN g.links \cup {f.id}
        /\ \A j \in DOMAIN g.links : h.links[j] = g.links[j]
        /\ f.id \notin DOMAIN g.links => h.links[f.id] = f.link
    BY <2>1 DEF OrInsert, Insert
  <2>3. \A e : ~Undoes(f, e)
    BY <1>3 DEF Undoes
  <2> HIDE DEF h
  <2>4. \A e \in Claims(h) : e \in Claims(g) \/ e = f
    BY <2>1, <2>2, ClaimsOf
  <2>5. \A e \in Claims(g) : e \in Claims(h)
    BY <2>1, <2>2, ClaimsOf
  <2>6. LinkAppeared(f.id, h.links[f.id]) \in Claims(h)
    BY <2>2, ClaimsOf
  <2> QED
    BY <1>3, <2>3, <2>4, <2>5, <2>6, ClaimFields
<1>4. ASSUME f.type = "NodeRemoved" PROVE Goal
  <2>1. /\ h.nodes = Without(g.nodes, {f.id}) /\ h.ports = Without(g.ports, PortsOf(g, f.id))
        /\ h.links = g.links
    BY <1>4 DEF ApplyEvent, RemoveNode
  <2>2. /\ DOMAIN h.nodes = DOMAIN g.nodes \ {f.id}
        /\ \A j \in DOMAIN h.nodes : h.nodes[j] = g.nodes[j]
        /\ \A j : j \in DOMAIN h.ports <=> j \in DOMAIN g.ports /\ g.ports[j].node # f.id
        /\ \A j \in DOMAIN h.ports : h.ports[j] = g.ports[j]
    BY <2>1 DEF Without, Restrict, PortsOf
  <2> HIDE DEF h
  <2>5. /\ Claims(h) \subseteq Claims(g)
        /\ \A e \in Claims(h) : /\ e.type = "NodeAppeared" => e.id \in DOMAIN h.nodes
                                /\ e.type = "PortAppeared" => e.id \in DOMAIN h.ports
                                /\ e.type = "LinkAppeared" => e.id \in DOMAIN h.links
        /\ \A e \in Claims(g) :
             \/ e \in Claims(h)
             \/ e.type = "NodeAppeared" /\ e.id \in DOMAIN g.nodes \ DOMAIN h.nodes
             \/ e.type = "PortAppeared" /\ e.id \in DOMAIN g.ports \ DOMAIN h.ports
             \/ e.type = "LinkAppeared" /\ e.id \in DOMAIN g.links \ DOMAIN h.links
    <3>1. Within(h, g)
      BY <2>1, <2>2 DEF Within
    <3> QED
      BY <3>1, ClaimsLeft
  <2>3. \A e \in Claims(h) : e \in Claims(g) /\ ~Undoes(f, e)
    BY <1>4, <2>1, <2>2, <2>5, ClaimsOf DEF Undoes
  <2>4. \A e \in Claims(g) : e \in Claims(h) \/ Undoes(f, e)
    BY <1>4, <2>1, <2>2, <2>5, ClaimsOf DEF Undoes
  <2> QED
    BY <1>4, <2>3, <2>4
<1>5. ASSUME f.type = "PortRemoved" PROVE Goal
  <2>1. /\ h.nodes = g.nodes /\ h.links = g.links
        /\ h.ports = Without(g.ports, {f.id})
    BY <1>5 DEF ApplyEvent, RemovePort, WithPorts
  <2>2. /\ DOMAIN h.ports = DOMAIN g.ports \ {f.id}
        /\ \A j \in DOMAIN h.ports : h.ports[j] = g.ports[j]
    BY <2>1 DEF Without, Restrict
  <2> HIDE DEF h
  <2>5. /\ Claims(h) \subseteq Claims(g)
        /\ \A e \in Claims(h) : /\ e.type = "NodeAppeared" => e.id \in DOMAIN h.nodes
                                /\ e.type = "PortAppeared" => e.id \in DOMAIN h.ports
                                /\ e.type = "LinkAppeared" => e.id \in DOMAIN h.links
        /\ \A e \in Claims(g) :
             \/ e \in Claims(h)
             \/ e.type = "NodeAppeared" /\ e.id \in DOMAIN g.nodes \ DOMAIN h.nodes
             \/ e.type = "PortAppeared" /\ e.id \in DOMAIN g.ports \ DOMAIN h.ports
             \/ e.type = "LinkAppeared" /\ e.id \in DOMAIN g.links \ DOMAIN h.links
    <3>1. Within(h, g)
      BY <2>1, <2>2 DEF Within
    <3> QED
      BY <3>1, ClaimsLeft
  <2>3. \A e \in Claims(h) : e \in Claims(g) /\ ~Undoes(f, e)
    BY <1>5, <2>1, <2>2, <2>5 DEF Undoes
  <2>4. \A e \in Claims(g) : e \in Claims(h) \/ Undoes(f, e)
    BY <1>5, <2>1, <2>2, <2>5 DEF Undoes
  <2> QED
    BY <1>5, <2>3, <2>4
<1>6. ASSUME f.type = "LinkRemoved" PROVE Goal
  <2>1. /\ h.nodes = g.nodes /\ h.ports = g.ports
        /\ h.links = Without(g.links, {f.id})
    BY <1>6 DEF ApplyEvent, RemoveLink, WithLinks
  <2>2. /\ DOMAIN h.links = DOMAIN g.links \ {f.id}
        /\ \A j \in DOMAIN h.links : h.links[j] = g.links[j]
    BY <2>1 DEF Without, Restrict
  <2> HIDE DEF h
  <2>5. /\ Claims(h) \subseteq Claims(g)
        /\ \A e \in Claims(h) : /\ e.type = "NodeAppeared" => e.id \in DOMAIN h.nodes
                                /\ e.type = "PortAppeared" => e.id \in DOMAIN h.ports
                                /\ e.type = "LinkAppeared" => e.id \in DOMAIN h.links
        /\ \A e \in Claims(g) :
             \/ e \in Claims(h)
             \/ e.type = "NodeAppeared" /\ e.id \in DOMAIN g.nodes \ DOMAIN h.nodes
             \/ e.type = "PortAppeared" /\ e.id \in DOMAIN g.ports \ DOMAIN h.ports
             \/ e.type = "LinkAppeared" /\ e.id \in DOMAIN g.links \ DOMAIN h.links
    <3>1. Within(h, g)
      BY <2>1, <2>2 DEF Within
    <3> QED
      BY <3>1, ClaimsLeft
  <2>3. \A e \in Claims(h) : e \in Claims(g) /\ ~Undoes(f, e)
    BY <1>6, <2>1, <2>2, <2>5 DEF Undoes
  <2>4. \A e \in Claims(g) : e \in Claims(h) \/ Undoes(f, e)
    BY <1>6, <2>1, <2>2, <2>5 DEF Undoes
  <2> QED
    BY <1>6, <2>3, <2>4
<1>7. ASSUME f.type = "Measurement" PROVE Goal
  <2>1. h = g
    BY <1>7 DEF ApplyEvent
  <2>2. \A e : ~Undoes(f, e)
    BY <1>7 DEF Undoes
  <2> QED
    BY <1>7, <2>1, <2>2
<1>8. f.type \in {"NodeAppeared", "PortAppeared", "LinkAppeared", "Measurement"} \cup RemovalKind
  BY DEF BackendEvent
<1> HIDE DEF Goal
<1>9. Goal
  BY <1>1, <1>2, <1>3, <1>4, <1>5, <1>6, <1>7, <1>8 DEF RemovalKind
<1> QED
  BY <1>9 DEF Goal

\* Applying one more event changes nothing about where the graph is heading.
LEMMA HeadingOneMore ==
  ASSUME NEW out \in Seq(BackendEvent), NEW h, NEW k \in Nat, k + 1 \in DOMAIN out,
         Heading(h, out, k)
  PROVE  Heading(ApplyEvent(h, out[k + 1]), out, k + 1)
<1>1. PICK f : f = out[k + 1]
  OBVIOUS
<1>2. PICK g : g = ApplyEvent(h, f)
  OBVIOUS
<1>3. PICK n : n = k + 1
  OBVIOUS
<1>4. f \in BackendEvent /\ n \in Nat /\ n \in DOMAIN out /\ f = out[n]
  BY <1>1, <1>3
<1>5. \A j \in DOMAIN out : j \in Nat /\ (j > k => j = n \/ j > n) /\ (j > n => j > k)
  BY <1>3
<1>6. ASSUME NEW l \in Nat, NEW x, Said(g, out, n, l, x)
      PROVE  \/ Said(h, out, k, l, x) /\ l > k
             \/ l = n /\ Said(h, out, k, k, x) /\ ~Undoes(f, x)
  <2>1. CASE l = n /\ x \in Claims(g)
    <3>1. (x \in Claims(h) \/ x = f) /\ ~Undoes(f, x)
      BY <1>2, <1>4, <2>1, AppliedClaims
    <3>2. Appears(x)
      BY <2>1, ClaimsOf DEF Appears
    <3> QED
      BY <1>3, <1>4, <2>1, <3>1, <3>2 DEF Said
  <2>2. CASE l > n /\ l \in DOMAIN out /\ x = out[l] /\ Appears(x)
    BY <1>5, <2>2 DEF Said
  <2> QED
    BY <1>6, <2>1, <2>2 DEF Said
<1>7. ASSUME NEW x, ~Undoes(f, x)
      PROVE  /\ UndoneAfter(out, k, x) => UndoneAfter(out, n, x)
             /\ \A i \in Nat : UndoneBetween(out, k, i, x) => UndoneBetween(out, n, i, x)
  BY <1>4, <1>5, <1>7 DEF UndoneAfter, UndoneBetween
<1>8. ASSUME NEW l \in Nat, NEW x, Said(g, out, n, l, x)
      PROVE  Holds(x) \/ Seeded(x) \/ UndoneAfter(out, l, x)
  BY <1>6, <1>7, <1>8 DEF Heading
<1>9. ASSUME NEW e, Holds(e)
      PROVE  \E l, x : /\ l \in Nat /\ Said(g, out, n, l, x) /\ ~UndoneAfter(out, l, x)
                               /\ Alike(x, e) /\ (x = e \/ Seeded(e))
  <2>1. PICK l, x : /\ l \in Nat /\ Said(h, out, k, l, x) /\ ~UndoneAfter(out, l, x)
                            /\ Alike(x, e) /\ (x = e \/ Seeded(e))
    BY <1>9 DEF Heading
  <2>2. CASE l > n
    <3>1. Said(g, out, n, l, x)
      BY <1>3, <2>1, <2>2 DEF Said
    <3> QED
      BY <2>1, <3>1
  <2>3. CASE l = k
    <3>1. x \in Claims(h)
      BY <2>1, <2>3 DEF Said
    <3>2. ~Undoes(f, x)
      BY <1>3, <1>4, <2>1, <2>3 DEF UndoneAfter
    <3>3. x \in Claims(g)
      BY <1>2, <1>4, <3>1, <3>2, AppliedClaims
    <3>4. Said(g, out, n, n, x) /\ ~UndoneAfter(out, n, x)
      BY <1>5, <2>1, <2>3, <3>3 DEF Said, UndoneAfter
    <3> QED
      BY <1>4, <2>1, <3>4
  <2>4. CASE l = n
    <3>1. x = f /\ Appears(f) /\ Said(h, out, k, n, f)
      BY <1>3, <1>4, <2>1, <2>4 DEF Said
    <3>2. PICK y \in Claims(g) : y.type = f.type /\ y.id = f.id
      BY <1>2, <1>4, <3>1, AppliedClaims DEF Appears
    <3>3. Said(g, out, n, n, y)
      BY <3>2 DEF Said
    <3>4. CASE y = f
      BY <1>4, <2>1, <2>4, <3>1, <3>3, <3>4
    <3>5. CASE y # f
      <4>1. y \in Claims(h)
        BY <1>2, <1>4, <3>2, <3>5, AppliedClaims
      <4>2. Said(h, out, k, k, y) /\ Alike(y, f) /\ k < n
        BY <1>3, <3>2, <4>1 DEF Said, Alike
      <4>3. ~UndoneBetween(out, k, n, y)
        BY <1>3, <1>5 DEF UndoneBetween
      <4>4. Seeded(y)
        BY <1>4, <3>1, <4>2, <4>3 DEF Heading
      <4>5. /\ Seeded(e) /\ Alike(y, e)
            /\ \A j \in DOMAIN out : Undoes(out[j], y) => Undoes(out[j], f)
        BY <2>1, <3>1, <4>2, <4>4 DEF Seeded, Alike, Undoes
      <4>6. ~UndoneAfter(out, n, y)
        BY <2>1, <2>4, <3>1, <4>5 DEF UndoneAfter
      <4> QED
        BY <1>4, <3>3, <4>5, <4>6
    <3> QED
      BY <3>4, <3>5
  <2>5. l > n \/ l = k \/ l = n
    BY <1>3, <2>1 DEF Said
  <2> QED
    BY <2>2, <2>3, <2>4, <2>5
<1>10. ASSUME NEW l \in Nat, NEW i \in Nat, NEW x, NEW y,
              Said(g, out, n, l, x), Said(g, out, n, i, y), l < i, Alike(x, y)
       PROVE  Seeded(x) \/ UndoneBetween(out, l, i, x)
  <2>1. l = n \/ l > n
    BY <1>3, <1>10 DEF Said
  <2>2. Said(h, out, k, i, y) /\ i # n
    BY <1>4, <1>6, <1>10, <2>1
  <2>3. CASE Said(h, out, k, l, x)
    BY <1>10, <2>2, <2>3 DEF Heading
  <2>4. CASE l = n /\ Said(h, out, k, k, x) /\ ~Undoes(f, x)
    <3>1. k < i
      BY <1>3, <1>10, <2>4
    <3>2. Seeded(x) \/ UndoneBetween(out, k, i, x)
      BY <1>10, <2>2, <2>4, <3>1 DEF Heading
    <3> QED
      BY <1>7, <2>4, <3>2
  <2> QED
    BY <1>6, <1>10, <2>3, <2>4
<1>11. Heading(g, out, n)
  BY <1>8, <1>9, <1>10 DEF Heading
<1> QED
  BY <1>1, <1>2, <1>3, <1>11

\* An event that is applied may be forgotten.
LEMMA HeadingShift ==
  ASSUME NEW f \in BackendEvent, NEW q \in Seq(BackendEvent), NEW g, Heading(g, <<f>> \o q, 1)
  PROVE  Heading(g, q, 0)
<1>1. PICK out : out = <<f>> \o q
  OBVIOUS
<1>2. /\ \A l \in DOMAIN out : l \in Nat \ {0}
      /\ \A l \in DOMAIN q : l \in Nat \ {0} /\ l + 1 \in DOMAIN out /\ out[l + 1] = q[l]
      /\ \A l \in DOMAIN out : l = 1 \/ (l > 1 /\ l - 1 \in DOMAIN q /\ q[l - 1] = out[l])
  BY <1>1
<1>3. ASSUME NEW l \in Nat, NEW x
      PROVE  /\ Said(g, q, 0, l, x) <=> Said(g, out, 1, l + 1, x)
             /\ UndoneAfter(q, l, x) <=> UndoneAfter(out, l + 1, x)
             /\ \A i \in Nat : UndoneBetween(q, l, i, x) <=> UndoneBetween(out, l + 1, i + 1, x)
  <2>1. Said(g, q, 0, l, x) <=> Said(g, out, 1, l + 1, x)
    <3>1. (l = 0 <=> l + 1 = 1) /\ (l > 0 <=> l + 1 > 1)
      OBVIOUS
    <3>2. l > 0 => (l \in DOMAIN q <=> l + 1 \in DOMAIN out)
      BY <1>2
    <3>3. l \in DOMAIN q => out[l + 1] = q[l]
      BY <1>2
    <3> QED
      BY <3>1, <3>2, <3>3 DEF Said
  <2>2. UndoneAfter(q, l, x) <=> UndoneAfter(out, l + 1, x)
    <3>1. ASSUME NEW j \in DOMAIN q, j > l PROVE j + 1 \in DOMAIN out /\ j + 1 > l + 1 /\ out[j + 1] = q[j]
      BY <1>2, <3>1
    <3>2. ASSUME NEW j \in DOMAIN out, j > l + 1 PROVE j - 1 \in DOMAIN q /\ j - 1 > l /\ q[j - 1] = out[j]
      BY <1>2, <3>2
    <3> QED
      BY <3>1, <3>2 DEF UndoneAfter
  <2>3. ASSUME NEW i \in Nat
        PROVE  UndoneBetween(q, l, i, x) <=> UndoneBetween(out, l + 1, i + 1, x)
    <3>1. ASSUME NEW j \in DOMAIN q, j > l, j < i
          PROVE  j + 1 \in DOMAIN out /\ j + 1 > l + 1 /\ j + 1 < i + 1 /\ out[j + 1] = q[j]
      BY <1>2, <3>1
    <3>2. ASSUME NEW j \in DOMAIN out, j > l + 1, j < i + 1
          PROVE  j - 1 \in DOMAIN q /\ j - 1 > l /\ j - 1 < i /\ q[j - 1] = out[j]
      BY <1>2, <3>2
    <3> QED
      BY <3>1, <3>2 DEF UndoneBetween
  <2> QED
    BY <2>1, <2>2, <2>3
<1>4. \A l \in Nat : l + 1 \in Nat
  OBVIOUS
<1>5. Heading(g, out, 1)
  BY <1>1
<1>6. ASSUME NEW l \in Nat, NEW x, Said(g, q, 0, l, x)
      PROVE  Holds(x) \/ Seeded(x) \/ UndoneAfter(q, l, x)
  BY <1>3, <1>4, <1>5, <1>6 DEF Heading
<1>7. ASSUME NEW e, Holds(e)
      PROVE  \E l, x : /\ l \in Nat /\ Said(g, q, 0, l, x) /\ ~UndoneAfter(q, l, x)
                               /\ Alike(x, e) /\ (x = e \/ Seeded(e))
  <2>1. PICK l, x : /\ l \in Nat /\ Said(g, out, 1, l, x) /\ ~UndoneAfter(out, l, x)
                            /\ Alike(x, e) /\ (x = e \/ Seeded(e))
    BY <1>5, <1>7 DEF Heading
  <2>2. PICK m \in Nat : l = m + 1
    <3>1. l \in Nat /\ l >= 1
      BY <2>1 DEF Said
    <3>2. l - 1 \in Nat /\ l = (l - 1) + 1
      BY <2>1, <3>1
    <3> QED
      BY <3>2
  <2>3. Said(g, q, 0, m, x) /\ ~UndoneAfter(q, m, x)
    BY <1>3, <2>1, <2>2
  <2> QED
    BY <2>1, <2>3
<1>8. ASSUME NEW l \in Nat, NEW i \in Nat, NEW x, NEW y,
             Said(g, q, 0, l, x), Said(g, q, 0, i, y), l < i, Alike(x, y)
      PROVE  Seeded(x) \/ UndoneBetween(q, l, i, x)
  <2>1. l + 1 < i + 1 /\ l + 1 \in Nat /\ i + 1 \in Nat
    BY <1>8
  <2>2. Said(g, out, 1, l + 1, x) /\ Said(g, out, 1, i + 1, y)
    BY <1>3, <1>8
  <2>3. Seeded(x) \/ UndoneBetween(out, l + 1, i + 1, x)
    BY <1>5, <1>8, <2>1, <2>2 DEF Heading
  <2> QED
    BY <1>3, <2>3
<1> QED
  BY <1>6, <1>7, <1>8 DEF Heading

LEMMA OneEntry ==
  ASSUME NEW S, NEW s \in Seq(S), Len(s) <= 1, s # <<>>
  PROVE  s[1] \in S /\ s = <<s[1]>>
<1>1. Len(s) \in Nat /\ Len(s) # 0
  OBVIOUS
<1>2. Len(s) = 1
  BY <1>1
<1> QED
  BY <1>2

\* The first outstanding event is applied.
LEMMA HeadingApply ==
  ASSUME TypeOK, Heading(graph, Outstanding, 0), ApplyToGraph
  PROVE  Heading(graph, Outstanding, 0)'
<1> DEFINE f == ev[1]
<1>1. /\ UNCHANGED <<server, told, queue, seeded>>
      /\ pc = "apply" /\ pc' = "publish" /\ graph' = ApplyEvent(graph, f)
  BY DEF ApplyToGraph, Event, backendVars, registry, channel
<1>2. queue \in Seq(BackendEvent) /\ ev = <<f>> /\ f \in BackendEvent
  <2>1. queue \in Seq(BackendEvent) /\ ev \in Seq(BackendEvent) /\ Len(ev) <= 1 /\ ev # <<>>
    BY <1>1 DEF TypeOK, BackendTypeOK
  <2> QED
    BY <2>1, OneEntry
<1>3. Outstanding = <<f>> \o queue /\ Outstanding' = queue
  <2>1. Outstanding = ev \o queue
    BY <1>1 DEF Outstanding
  <2>2. Outstanding' = <<>> \o queue' /\ queue' = queue
    BY <1>1 DEF Outstanding
  <2>3. <<>> \o queue = queue
    BY <1>2
  <2> QED
    BY <1>2, <2>1, <2>2, <2>3
<1> HIDE DEF f
<1>4. PICK out : out = <<f>> \o queue
  OBVIOUS
<1>5. out \in Seq(BackendEvent) /\ 0 + 1 \in DOMAIN out /\ out[0 + 1] = f /\ 0 + 1 = 1
  BY <1>2, <1>4
<1>6. PICK g : g = graph'
  OBVIOUS
<1>7. Heading(g, out, 1)
  BY <1>1, <1>3, <1>4, <1>5, <1>6, HeadingOneMore
<1>8. Heading(g, queue, 0)
  BY <1>2, <1>4, <1>7, HeadingShift
<1>9. \A e : (Holds(e)' <=> Holds(e)) /\ (Seeded(e)' <=> Seeded(e))
  BY <1>1 DEF Holds, Seeded, LiveNodes
<1> QED
  BY <1>3, <1>6, <1>8, <1>9 DEF Heading

LEMMA MirroredInit == Init => Mirrored
BY DEF Init, BackendInit, Mirrored, Standing, Before, Claims, EmptyGraph, NoEntries, Live,
       LiveNodes, LivePorts, LiveLinks

LEMMA MirroredNext ==
  ASSUME TypeOK, Mirrored, [Next]_vars
  PROVE  Mirrored'
<1>1. Standing /\ Before /\ Standing' /\ Before'
  BY StandingNext DEF Mirrored
<1> DEFINE Goal == sub' = "open" => Heading(graph, Outstanding, 0)'
<1>a. ASSUME UNCHANGED <<server, told, graph, seeded, sub>>, Outstanding' = Outstanding
      PROVE  Goal
  <2>1. \A e : (Holds(e)' <=> Holds(e)) /\ (Seeded(e)' <=> Seeded(e))
    BY <1>a DEF Holds, Seeded, LiveNodes
  <2> QED
    BY <1>a, <2>1 DEF Mirrored, Heading
<1>b. queue \in Seq(BackendEvent) /\ ev \in Seq(BackendEvent) /\ Len(ev) <= 1
  BY DEF TypeOK, BackendTypeOK
<1>c. ASSUME UNCHANGED <<queue, ev, pc>> PROVE Outstanding' = Outstanding
  BY <1>c DEF Outstanding
<1>2. ASSUME ServerStep /\ UNCHANGED <<main, seeded, config, pumpVars>>
      PROVE  Goal
  BY <1>1, <1>2, HeadingServer DEF Mirrored
<1>3. ASSUME EnumerateNodes PROVE Goal
  BY <1>1, <1>3 DEF EnumerateNodes, Before, backendVars, channel
<1>4. ASSUME StartEventPump PROVE Goal
  <2>1. /\ UNCHANGED <<server, told, graph, seeded, queue, ev, pc>> /\ sub = "none"
    BY <1>4 DEF StartEventPump, Subscribe, registry, pumpVars
  <2>2. /\ told' = {} /\ queue = <<>> /\ pc = "recv"
        /\ \A e \in Claims(graph) : Seeded(e)
    BY <1>1, <2>1 DEF Before
  <2>3. PICK none : none = <<>>
    OBVIOUS
  <2>4. Outstanding' = none
    BY <2>1, <2>2, <2>3 DEF Outstanding
  <2>5. DOMAIN none = {}
    BY <2>3
  <2>6. ASSUME NEW l, NEW x, Said(graph, none, 0, l, x) PROVE l = 0 /\ Seeded(x)
    BY <2>2, <2>5, <2>6 DEF Said
  <2>7. \A e : ~Holds(e)' /\ (Seeded(e)' <=> Seeded(e))
    BY <2>1, <2>2 DEF Holds, Seeded
  <2> QED
    BY <2>1, <2>4, <2>6, <2>7 DEF Heading
<1>5. ASSUME LoadRulesAtStart \/ LoadScriptAtStart \/ Reload
      PROVE  Goal
  <2>1. UNCHANGED <<server, told, graph, seeded, sub, queue, ev, pc>>
    BY <1>5 DEF LoadRulesAtStart, LoadScriptAtStart, Reload, backendVars, registry, channel, pumpVars
  <2> QED
    BY <1>a, <1>c, <2>1
<1>6. ASSUME ReceiveEvent PROVE Goal
  <2>1. /\ UNCHANGED <<server, told, graph, seeded, sub>> /\ pc = "recv"
        /\ pc' \in {"script", "apply"} /\ queue # <<>>
        /\ queue' = Tail(queue) /\ ev' = <<Head(queue)>>
    BY <1>6 DEF ReceiveEvent, Receive, registry
  <2>2. Outstanding' = <<Head(queue)>> \o Tail(queue) /\ Outstanding = <<>> \o queue
    BY <2>1 DEF Outstanding
  <2>3. Outstanding' = Outstanding
    BY <1>b, <2>1, <2>2
  <2> QED
    BY <1>a, <2>1, <2>3
<1>7. ASSUME EvaluateScript PROVE Goal
  <2>1. /\ UNCHANGED <<server, told, graph, seeded, sub, queue, ev>>
        /\ pc = "script" /\ pc' = "apply"
    BY <1>7 DEF EvaluateScript, backendVars, registry, channel
  <2>2. Outstanding' = Outstanding
    BY <2>1 DEF Outstanding
  <2> QED
    BY <1>a, <2>1, <2>2
<1>8. ASSUME ApplyToGraph PROVE Goal
  <2>1. sub' = sub
    BY <1>8 DEF ApplyToGraph, backendVars, channel
  <2> QED
    BY <1>8, <2>1, HeadingApply DEF Mirrored
<1>9. ASSUME PublishEvent \/ FirePending PROVE Goal
  <2>1. /\ UNCHANGED <<server, told, graph, seeded, sub, queue>>
        /\ pc \notin {"script", "apply"} /\ pc' \notin {"script", "apply"}
    BY <1>9 DEF PublishEvent, FirePending, backendVars, registry, channel
  <2>2. Outstanding' = Outstanding
    BY <2>1 DEF Outstanding
  <2> QED
    BY <1>a, <2>1, <2>2
<1>10. ASSUME NEW t \in tasks, RunTask(t) PROVE Goal
  <2>1. UNCHANGED <<server, told, graph, seeded, sub, queue, ev, pc>>
    BY <1>10 DEF RunTask, registry, channel
  <2> QED
    BY <1>a, <1>c, <2>1
<1>11. ASSUME UNCHANGED vars PROVE Goal
  <2>1. UNCHANGED <<server, told, graph, seeded, sub, queue, ev, pc>>
    BY <1>11 DEF vars, backendVars, registry, channel, pumpVars
  <2> QED
    BY <1>a, <1>c, <2>1
<1> HIDE DEF Goal
<1>12. Goal
  BY <1>2, <1>3, <1>4, <1>5, <1>6, <1>7, <1>8, <1>9, <1>10, <1>11 DEF Next, Startup, Pump
<1> QED
  BY <1>1, <1>12 DEF Mirrored, Goal

-----------------------------------------------------------------------------
(***************************************************************************)
(* What applying the events of a channel amounts to.                       *)
(***************************************************************************)
\* The least number of a set, for what an induction would show.
LEMMA LeastNatural ==
  ASSUME NEW T \in SUBSET Nat, T # {}
  PROVE  \E m \in T : \A k \in T : m <= k
<1>1. PICK m \in T : \A k \in T : ~ (<<k, m>> \in OpToRel(<, Nat))
  BY NatLessThanWellFounded, WFMin
<1>2. \A k \in T : k < m => <<k, m>> \in OpToRel(<, Nat)
  BY DEF OpToRel
<1>3. \A k \in T : ~(k < m)
  BY <1>1, <1>2, Zenon
<1>. QED
  BY <1>3

LEMMA MaxOf ==
  ASSUME NEW n \in Nat, NEW s \in SUBSET (1..n), s # {}
  PROVE  Max(s) \in s /\ \A k \in s : k <= Max(s)
<1> DEFINE T == {m \in Nat : s \subseteq 1..m}
<1>1. PICK m \in T : \A k \in T : m <= k
  <2>1. n \in T
    OBVIOUS
  <2>. QED
    BY <2>1, LeastNatural
<1>2. m \in s
  <2>1. m # 0
    <3>1. m \in Nat /\ s \subseteq 1..m /\ 1..0 = {}
      BY <1>1
    <3>. QED
      BY <3>1
  <2>2. m - 1 \notin T /\ m - 1 \in Nat
    BY <1>1, <2>1
  <2>3. PICK k \in s : k \notin 1..(m - 1)
    BY <2>2
  <2>. QED
    BY <1>1, <2>1, <2>3
<1>3. \A k \in s : m >= k
  BY <1>1
<1>4. (CHOOSE x \in s : \A y \in s : x >= y) \in s
      /\ \A k \in s : (CHOOSE x \in s : \A y \in s : x >= y) >= k
  BY <1>2, <1>3
<1>. QED
  BY <1>4 DEF Max

\* What the fold computes, on the subsets of the places of out.
Folds(g, out, it) ==
  it = [s \in SUBSET DOMAIN out |->
          IF s = {} THEN g
          ELSE LET x == Max(s) IN ApplyEvent(it[s \ {x}], out[x])]

FoldsUpTo(g, out, m) ==
  \E h : \A s \in SUBSET DOMAIN out :
    s \subseteq 1..m => h[s] = IF s = {} THEN g ELSE ApplyEvent(h[s \ {Max(s)}], out[Max(s)])

LEMMA FoldOneMore ==
  ASSUME NEW g, NEW S, NEW out \in Seq(S), NEW m \in Nat, FoldsUpTo(g, out, m)
  PROVE  FoldsUpTo(g, out, m + 1)
<1>1. PICK h : \A s \in SUBSET DOMAIN out :
        s \subseteq 1..m => h[s] = IF s = {} THEN g ELSE ApplyEvent(h[s \ {Max(s)}], out[Max(s)])
  BY DEF FoldsUpTo
<1> DEFINE j == [s \in SUBSET DOMAIN out |->
                   IF m + 1 \in s THEN ApplyEvent(h[s \ {m + 1}], out[m + 1]) ELSE h[s]]
<1>2. \A s \in SUBSET DOMAIN out :
        j[s] = IF m + 1 \in s THEN ApplyEvent(h[s \ {m + 1}], out[m + 1]) ELSE h[s]
  OBVIOUS
<1> HIDE DEF j
<1>3. ASSUME NEW s \in SUBSET DOMAIN out, s \subseteq 1..(m + 1)
      PROVE  j[s] = IF s = {} THEN g ELSE ApplyEvent(j[s \ {Max(s)}], out[Max(s)])
  <2>1. CASE m + 1 \in s
    <3>1. PICK x : x = Max(s)
      OBVIOUS
    <3>2. x \in s /\ \A k \in s : k <= x
      <4>1. m + 1 \in Nat /\ s \in SUBSET (1..(m + 1)) /\ s # {}
        BY <1>3, <2>1
      <4>. QED
        BY <3>1, <4>1, MaxOf
    <3>3. x = m + 1
      BY <1>3, <2>1, <3>2
    <3>4. PICK r : r = s \ {m + 1}
      OBVIOUS
    <3>5. r \in SUBSET DOMAIN out /\ m + 1 \notin r
      BY <3>4
    <3>6. j[r] = h[r] /\ j[s] = ApplyEvent(h[r], out[m + 1])
      BY <1>2, <2>1, <3>4, <3>5
    <3>. QED
      BY <2>1, <3>1, <3>3, <3>4, <3>6
  <2>2. CASE m + 1 \notin s
    <3>1. s \subseteq 1..m
      BY <1>3, <2>2
    <3>2. j[s] = h[s] /\ h[s] = IF s = {} THEN g ELSE ApplyEvent(h[s \ {Max(s)}], out[Max(s)])
      BY <1>1, <1>2, <2>2, <3>1
    <3>3. PICK r : r = s \ {Max(s)}
      OBVIOUS
    <3>4. j[r] = h[r]
      BY <1>2, <2>2, <3>3
    <3>. QED
      BY <3>2, <3>3, <3>4
  <2>. QED
    BY <2>1, <2>2
<1>. QED
  BY <1>3 DEF FoldsUpTo

LEMMA FoldExists ==
  ASSUME NEW g, NEW S, NEW out \in Seq(S)
  PROVE  \E it : Folds(g, out, it)
<1>1. FoldsUpTo(g, out, 0)
  <2> DEFINE h == [s \in SUBSET DOMAIN out |-> g]
  <2>1. \A s \in SUBSET DOMAIN out : h[s] = g
    OBVIOUS
  <2> HIDE DEF h
  <2>2. 1..0 = {}
    OBVIOUS
  <2>. QED
    BY <2>1, <2>2 DEF FoldsUpTo
<1> DEFINE T == {n \in Nat : ~FoldsUpTo(g, out, n)}
<1>2. ASSUME T # {} PROVE FALSE
  <2>1. PICK n \in T : \A k \in T : n <= k
    BY <1>2, LeastNatural
  <2>2. n # 0 /\ n \in Nat
    BY <1>1
  <2>3. n - 1 \in Nat /\ n - 1 \notin T /\ (n - 1) + 1 = n
    BY <2>1, <2>2
  <2>4. FoldsUpTo(g, out, n)
    BY <2>3, FoldOneMore
  <2>. QED
    BY <2>4
<1>3. Len(out) \in Nat /\ DOMAIN out = 1..Len(out) /\ FoldsUpTo(g, out, Len(out))
  BY <1>2
<1>4. PICK h : \A s \in SUBSET DOMAIN out :
        h[s] = IF s = {} THEN g ELSE ApplyEvent(h[s \ {Max(s)}], out[Max(s)])
  BY <1>3 DEF FoldsUpTo
<1> DEFINE it == [s \in SUBSET DOMAIN out |-> h[s]]
<1>5. \A s \in SUBSET DOMAIN out :
        it[s] = IF s = {} THEN g ELSE ApplyEvent(it[s \ {Max(s)}], out[Max(s)])
  <2>1. \A s \in SUBSET DOMAIN out : s \ {Max(s)} \in SUBSET DOMAIN out
    OBVIOUS
  <2>. QED
    BY <1>4, <2>1
<1>6. it = [s \in SUBSET DOMAIN out |-> it[s]]
  OBVIOUS
<1> HIDE DEF it
<1>7. it = [s \in SUBSET DOMAIN out |->
              IF s = {} THEN g ELSE ApplyEvent(it[s \ {Max(s)}], out[Max(s)])]
  BY <1>5, <1>6
<1>. QED
  BY <1>7 DEF Folds

\* The fold applies the events one after the other.
Steps(g, out, step) ==
  /\ step[0] = g
  /\ \A k \in 1..Len(out) : step[k] = ApplyEvent(step[k - 1], out[k])
  /\ step[Len(out)] = FoldLeft(ApplyEvent, g, out)

LEMMA FoldSteps ==
  ASSUME NEW g, NEW S, NEW out \in Seq(S)
  PROVE  \E step : Steps(g, out, step)
<1>1. PICK it : it = CHOOSE h : Folds(g, out, h)
  OBVIOUS
<1>2. Folds(g, out, it)
  BY <1>1, FoldExists
<1>3. FoldLeft(ApplyEvent, g, out) = it[DOMAIN out]
  BY <1>1 DEF FoldLeft, MapThenFoldSet, Folds
<1>4. /\ it[{}] = g
      /\ \A s \in SUBSET DOMAIN out :
           s # {} => it[s] = ApplyEvent(it[s \ {Max(s)}], out[Max(s)])
  BY <1>2 DEF Folds
<1> DEFINE step == [k \in 0..Len(out) |-> it[1..k]]
<1>5. Len(out) \in Nat /\ DOMAIN out = 1..Len(out)
  OBVIOUS
<1>6. ASSUME NEW k \in 1..Len(out) PROVE step[k] = ApplyEvent(step[k - 1], out[k])
  <2>1. PICK x : x = Max(1..k)
    OBVIOUS
  <2> DEFINE s == 1..k
  <2>a. k \in Nat /\ s \in SUBSET (1..k) /\ s \in SUBSET DOMAIN out /\ k \in s
    BY <1>5
  <2>2. x \in 1..k /\ \A j \in 1..k : j <= x
    <3>1. x = Max(s) /\ s # {}
      BY <2>1, <2>a
    <3> HIDE DEF s
    <3>2. x \in s /\ \A j \in s : j <= x
      BY <2>a, <3>1, MaxOf
    <3>. QED
      BY <3>2 DEF s
  <2>3. x = k /\ (1..k) \ {k} = 1..(k - 1)
    BY <2>2
  <2>4. it[1..k] = ApplyEvent(it[(1..k) \ {Max(1..k)}], out[Max(1..k)])
    <3> HIDE DEF s
    <3>1. it[s] = ApplyEvent(it[s \ {Max(s)}], out[Max(s)])
      BY <1>4, <2>a
    <3>. QED
      BY <3>1 DEF s
  <2>5. it[1..k] = ApplyEvent(it[1..(k - 1)], out[k])
    BY <2>1, <2>3, <2>4
  <2>6. step[k] = it[1..k] /\ step[k - 1] = it[1..(k - 1)]
    BY <1>5
  <2>. QED
    BY <2>5, <2>6
<1>7. step[0] = g /\ step[Len(out)] = it[DOMAIN out]
  <2>1. 1..0 = {}
    OBVIOUS
  <2>. QED
    BY <1>4, <1>5, <2>1
<1> HIDE DEF step
<1>. QED
  BY <1>3, <1>6, <1>7 DEF Steps


-----------------------------------------------------------------------------
(***************************************************************************)
(* The graph the pump is heading for.                                      *)
(***************************************************************************)
LEMMA DrainedHeading ==
  ASSUME TypeOK, Heading(graph, Outstanding, 0)
  PROVE  Heading(Drained, Outstanding, Len(Outstanding))
<1>0. PICK out : out = Outstanding
  OBVIOUS
<1> DEFINE n == Len(out)
<1>1. out \in Seq(BackendEvent) /\ n \in Nat /\ DOMAIN out = 1..n
  BY <1>0, OutstandingType
<1>2. PICK step : Steps(graph, out, step)
  BY <1>1, FoldSteps
<1>3. Heading(step[0], out, 0)
  BY <1>0, <1>2 DEF Steps
<1> DEFINE T == {k \in 0..n : ~Heading(step[k], out, k)}
<1>4. ASSUME T # {} PROVE FALSE
  <2>1. T \in SUBSET Nat
    BY <1>1
  <2>2. PICK k \in T : \A j \in T : k <= j
    BY <1>4, <2>1, LeastNatural
  <2>3. k \in 0..n /\ k # 0
    BY <1>3
  <2>4. k - 1 \in 0..n /\ k - 1 \notin T /\ k - 1 \in Nat /\ (k - 1) + 1 = k /\ k \in 1..n
    BY <1>1, <2>2, <2>3
  <2>5. Heading(step[k - 1], out, k - 1)
    BY <2>4
  <2>6. PICK l \in Nat : l = k - 1
    BY <2>4
  <2>7. /\ l + 1 = k /\ l + 1 \in DOMAIN out /\ Heading(step[l], out, l)
        /\ step[k] = ApplyEvent(step[l], out[l + 1])
    BY <1>1, <1>2, <2>4, <2>5, <2>6 DEF Steps
  <2>8. Heading(step[k], out, k)
    BY <1>1, <2>7, HeadingOneMore
  <2> QED
    BY <2>8
<1>5. Heading(step[n], out, n)
  BY <1>1, <1>4
<1>6. step[n] = Drained
  BY <1>0, <1>2 DEF Steps, Drained
<1> QED
  BY <1>0, <1>5, <1>6

LEMMA HeadingMirrors ==
  ASSUME TypeOK, Heading(graph, Outstanding, 0)
  PROVE  GraphMirrorsServer
<1>1. PICK d : d = Drained
  OBVIOUS
<1>2. PICK out : out = Outstanding
  OBVIOUS
<1>3. PICK n : n = Len(out)
  OBVIOUS
<1>4. n \in Nat /\ \A j \in DOMAIN out : ~(j > n)
  BY <1>2, <1>3, OutstandingType
<1>5. Heading(d, out, n)
  BY <1>1, <1>2, <1>3, DrainedHeading
<1>6. \A l, x : /\ Said(d, out, n, l, x) <=> l = n /\ x \in Claims(d)
                /\ ~UndoneAfter(out, n, x)
  BY <1>4 DEF Said, UndoneAfter
<1>7. /\ \A e \in Claims(d) : Holds(e) \/ Seeded(e)
      /\ \A e \in Claims(d) : e.type # "NodeAppeared" => Holds(e)
  BY <1>4, <1>5, <1>6 DEF Heading, Seeded
<1>8. ASSUME NEW e, Holds(e)
      PROVE  \E x \in Claims(d) : Alike(x, e) /\ (x = e \/ Seeded(e))
  BY <1>4, <1>5, <1>6, <1>8 DEF Heading
<1>9. ASSUME NEW i \in DOMAIN d.links
      PROVE  i \in told \cap LiveLinks /\ d.links[i] = server.links[i]
  <2> DEFINE e == LinkAppeared(i, d.links[i])
  <2>1. e \in Claims(d) /\ e.type = "LinkAppeared" /\ e.id = i /\ e.link = d.links[i]
    BY <1>9, ClaimsOf, ClaimFields
  <2>2. Holds(e)
    BY <1>7, <2>1
  <2> HIDE DEF e
  <2>3. i \in DOMAIN server.links /\ e = LinkAppeared(i, server.links[i]) /\ i \in told
    BY <2>1, <2>2, ClaimsOf DEF Holds
  <2> QED
    BY <2>1, <2>3, ClaimFields DEF LiveLinks
<1>10. ASSUME NEW i \in told \cap LiveLinks PROVE i \in DOMAIN d.links
  <2> DEFINE e == LinkAppeared(i, server.links[i])
  <2>1. e \in Claims(server) /\ e.type = "LinkAppeared" /\ e.id = i
    BY <1>10, ClaimsOf, ClaimFields DEF LiveLinks
  <2> HIDE DEF e
  <2>2. Holds(e)
    BY <1>10, <2>1 DEF Holds
  <2>3. PICK x \in Claims(d) : Alike(x, e)
    BY <1>8, <2>2
  <2> QED
    BY <2>1, <2>3, ClaimsOf DEF Alike
<1>11. ASSUME NEW i \in DOMAIN d.ports
       PROVE  /\ i \in told \cap LivePorts /\ server.ports[i].node \in LiveNodes
              /\ d.ports[i] = server.ports[i]
  <2> DEFINE e == PortAppeared(i, d.ports[i])
  <2>1. e \in Claims(d) /\ e.type = "PortAppeared" /\ e.id = i /\ e.port = d.ports[i]
    BY <1>11, ClaimsOf, ClaimFields
  <2>2. Holds(e)
    BY <1>7, <2>1
  <2> HIDE DEF e
  <2>3. i \in DOMAIN server.ports /\ e.port = server.ports[i]
    BY <2>1, <2>2, ClaimsOf DEF Holds
  <2>4. i \in told /\ e.port.node \in LiveNodes
    BY <2>1, <2>2 DEF Holds
  <2> QED
    BY <2>1, <2>3, <2>4 DEF LivePorts
<1>12. ASSUME NEW i \in told \cap LivePorts, server.ports[i].node \in LiveNodes
       PROVE  i \in DOMAIN d.ports
  <2> DEFINE e == PortAppeared(i, server.ports[i])
  <2>1. e \in Claims(server) /\ e.type = "PortAppeared" /\ e.id = i /\ e.port = server.ports[i]
    BY <1>12, ClaimsOf, ClaimFields DEF LivePorts
  <2> HIDE DEF e
  <2>2. Holds(e)
    BY <1>12, <2>1 DEF Holds
  <2>3. PICK x \in Claims(d) : Alike(x, e)
    BY <1>8, <2>2
  <2> QED
    BY <2>1, <2>3, ClaimsOf DEF Alike
<1>13. ASSUME NEW i \in told \cap LiveNodes
       PROVE  i \in DOMAIN d.nodes /\ (i \notin seeded => d.nodes[i] = server.nodes[i])
  <2> DEFINE e == NodeAppeared(i, server.nodes[i])
  <2>1. /\ e \in Claims(server) /\ e.type = "NodeAppeared" /\ e.id = i
        /\ e.node = server.nodes[i]
    BY <1>13, ClaimsOf, ClaimFields DEF LiveNodes
  <2> HIDE DEF e
  <2>2. Holds(e)
    BY <1>13, <2>1 DEF Holds
  <2>3. PICK x \in Claims(d) : Alike(x, e) /\ (x = e \/ Seeded(e))
    BY <1>8, <2>2
  <2>4. i \in DOMAIN d.nodes /\ x = NodeAppeared(i, d.nodes[i])
    BY <2>1, <2>3, ClaimsOf DEF Alike
  <2> QED
    BY <2>1, <2>3, <2>4, ClaimFields DEF Seeded
<1>14. ASSUME NEW i \in DOMAIN d.nodes PROVE i \in (told \cap LiveNodes) \cup seeded
  <2> DEFINE e == NodeAppeared(i, d.nodes[i])
  <2>1. e \in Claims(d) /\ e.type = "NodeAppeared" /\ e.id = i
    BY <1>14, ClaimsOf, ClaimFields
  <2> HIDE DEF e
  <2>2. Holds(e) \/ Seeded(e)
    BY <1>7, <2>1
  <2>3. Holds(e) => i \in told \cap LiveNodes
    BY <2>1, ClaimsOf DEF Holds, LiveNodes
  <2> QED
    BY <2>1, <2>2, <2>3 DEF Seeded
<1>15. DOMAIN d.links = told \cap LiveLinks
  BY <1>9, <1>10
<1>16. DOMAIN d.ports = {p \in told \cap LivePorts : server.ports[p].node \in LiveNodes}
  BY <1>11, <1>12
<1> QED
  BY <1>1, <1>9, <1>11, <1>13, <1>14, <1>15, <1>16 DEF GraphMirrorsServer, Same

\* Whatever is still under way in the event channel, the graph the pump is
\* heading for is PipeWire's own, reused ids or not: nothing that broadcast
\* got into the channel was lost or misordered, and no late event resurrects
\* what has gone.
THEOREM PumpMirrorsServer == Spec => []GraphMirrorsServer
<1> DEFINE Inv == TypeOK /\ Mirrored
<1>1. Init => Inv
  BY InitType, MirroredInit
<1>2. Inv /\ [Next]_vars => Inv'
  BY NextType, MirroredNext
<1>3. Inv => GraphMirrorsServer
  BY HeadingMirrors DEF Mirrored, GraphMirrorsServer
<1> QED
  BY <1>1, <1>2, <1>3, PTL DEF Spec

================================================================================
