--------------------------- MODULE PumpProperties ---------------------------
(***************************************************************************)
(* Properties of the event pump composed with the backend that fold over   *)
(* the event channel, look at the spawned tasks or need fairness.          *)
(***************************************************************************)
EXTENDS EventPump, SequencesExt

\* The events announced to the pump that it has not applied yet.
Outstanding == (IF pc \in {"script", "apply"} THEN ev ELSE <<>>) \o queue

\* The graph the pump will have once it has worked off the channel.
Drained == FoldLeft(ApplyEvent, graph, Outstanding)

Same(m, n, keys) == \A i \in keys : m[i] = n[i]

\* As long as the pump has not been cut off, the graph it is heading for is
\* PipeWire's own: every global announced to it and still live is there with
\* the right data, and nothing is there that PipeWire dropped, except nodes
\* main enumerated (whose removal may have gone by unseen).  A port whose node
\* is gone is dropped with it.
GraphMirrorsServer ==
  sub = "open" =>
    LET d == Drained
    IN  /\ DOMAIN d.links = told \cap LiveLinks
        /\ Same(d.links, server.links, DOMAIN d.links)
        /\ DOMAIN d.ports = {p \in told \cap LivePorts : server.ports[p].node \in LiveNodes}
        /\ Same(d.ports, server.ports, DOMAIN d.ports)
        /\ told \cap LiveNodes \subseteq DOMAIN d.nodes
        /\ DOMAIN d.nodes \subseteq (told \cap LiveNodes) \cup seeded
        /\ Same(d.nodes, server.nodes, (told \cap LiveNodes) \ seeded)

\* One matched node leads to one create_link: no two spawned tasks, and no
\* task and a pending route, are for the same node.  A second node of one id may
\* have one of its own: proved for ids that are not reused.
OneLinkPerMatch ==
  \A t \in tasks : t.type = "link" =>
    /\ t.for \notin DOMAIN pending
    /\ \A u \in tasks : u.type = "link" /\ u.for = t.for => u = t

\* docs/rules.md: Deny blocks auto-routing for the node.  No route is waiting
\* for a node of the graph that the rules in force deny.
DenyBlocksRouting ==
  pc = "recv" => \A i \in DOMAIN pending \cap DOMAIN graph.nodes :
                   rules[graph.nodes[i]].type # "Deny"

\* broadcast's comment: only dead subscribers are pruned.  The pump never
\* drops its receiver, so its sender stays.
LiveSubscriberKept == sub # "pruned"

-----------------------------------------------------------------------------
(***************************************************************************)
(* Liveness.  The pump thread, the loop thread's callbacks and commands,   *)
(* main's start-up and each spawned task are threads or futures the        *)
(* runtime schedules: weak fairness.  PipeWire and its clients owe nothing.*)
(***************************************************************************)
ThreadsRun ==
  /\ WF_vars(Pump)
  /\ WF_vars((BroadcastNode \/ RunCommand) /\ UNCHANGED <<main, seeded, config, pumpVars>>)

Fairness == ThreadsRun /\ WF_vars(Startup) /\ WF_vars(\E t \in tasks : RunTask(t))

FairSpec == Spec /\ Fairness

\* Both ends of a pending route have their ports up in PipeWire, the pump was
\* told of them, and the target's name is not ambiguous.
BothEndsReady(i) ==
  /\ sub = "open"
  /\ i \in DOMAIN pending
  /\ pending[i].target \notin clash
  /\ \E p \in told \cap LivePorts :
       server.ports[p] = [node |-> i, dir |-> "Output"]
  /\ \E t \in told \cap LiveNodes, p \in told \cap LivePorts :
       /\ server.nodes[t].name = pending[i].target
       /\ server.ports[p] = [node |-> t, dir |-> "Input"]
  /\ i \in LiveNodes

\* A route does not stay pending while both its ends keep having ports.
NoRouteWaitsForever == \A i \in Id : []<>~BothEndsReady(i)

=============================================================================
