----------------------------- MODULE PwBackend -----------------------------
(***************************************************************************)
(* The PipeWire backend (crates/pipewire-backend/src/lib.rs): the thread   *)
(* that runs the PipeWire main loop, the shared node map, the list of      *)
(* event sinks with its bounded channel, and the command channel.          *)
(*                                                                         *)
(* The PipeWire server is external.  Its registry is the variable server;  *)
(* a change of the registry and the callback that reports it are one step, *)
(* because everything the server sends reaches the single-threaded loop in *)
(* order: the delay that matters is the event channel behind it.  With     *)
(* that, the thread's own maps global_kinds, port_to_node and node_proxies *)
(* always describe exactly the live globals and are read off server.       *)
(*                                                                         *)
(* A callback for a node inserts into the shared map under one lock and    *)
(* broadcasts under another; main can run between the two, so they are two *)
(* steps and calling holds the event of the unfinished callback.           *)
(***************************************************************************)
EXTENDS AudioGraph, Sequences

CONSTANTS
  PortDirs,    \* PortDirs[n]: directions of the ports a node like n has
  Volume,      \* perceptual volumes a caller may set
  EventCap,    \* capacity of the event channel (256 in subscribe)
  MaxChanges,  \* bound: registry changes made by other PipeWire clients
  MaxEarly,    \* bound: of those, changes before the pump subscribes
  ReuseIds,    \* whether the server hands a freed id out again
  IdWidth      \* ids PipeWire has (2^32); the daemon's own are 64 bits wide

ASSUME BackendAssumption ==
  /\ PortDirs \in [Node -> SUBSET Direction]
  /\ EventCap \in Nat \ {0}
  /\ MaxChanges \in Nat
  /\ MaxEarly \in 0..MaxChanges
  /\ ReuseIds \in BOOLEAN
  /\ IdWidth \in Nat \ {0}
  /\ Id \subseteq 0..(IdWidth - 1)

VARIABLES
  server,     \* the live globals: a graph value
  used,       \* history: ids the server has handed out
  budget,     \* registry changes left
  shared,     \* PipeWireBackend.nodes
  calling,    \* <<>> or <<ev>>: node event inserted but not yet broadcast
  factory,    \* whether a link factory has been seen
  told,       \* history: ids of live globals whose appearance got into queue
  sub,        \* the pump's sender in event_sinks: "none", "open", "pruned"
  queue,      \* contents of the event channel
  cmds,       \* contents of the pw::channel
  requested,  \* create_object calls the server has not answered
  gain        \* volume set on live nodes through set_param

registry == <<server, used, budget, shared, calling, factory, requested, gain>>
channel  == <<sub, queue, told>>
backendVars == <<registry, channel, cmds>>

\* `as u32`: an id that PipeWire does not have is cut to one it may have.
Cut(i) == i % IdWidth

CreateLink(l)   == [type |-> "CreateLink", link |-> [src |-> Cut(l.src), sink |-> Cut(l.sink)]]
DestroyLink(i)  == [type |-> "DestroyLink", id |-> Cut(i)]
SetVolume(i, v) == [type |-> "SetVolume", id |-> Cut(i), volume |-> v]

PwId == 0..(IdWidth - 1)

PwCmd ==
  [type : {"CreateLink"}, link : Link]
    \cup [type : {"DestroyLink"}, id : PwId]
    \cup [type : {"SetVolume"}, id : PwId, volume : Volume]

BackendTypeOK ==
  /\ IsGraph(server)
  /\ used \subseteq Id
  /\ budget \in 0..MaxChanges
  /\ IsMap(shared, Id, Node)
  /\ calling \in Seq(BackendEvent) /\ Len(calling) <= 1
  /\ factory \in BOOLEAN
  /\ told \subseteq Id
  /\ sub \in {"none", "open", "pruned"}
  /\ queue \in Seq(BackendEvent) /\ Len(queue) <= EventCap
  /\ cmds \in Seq(PwCmd)
  /\ requested \subseteq Link
  /\ IsMap(gain, Id, Volume)

\* A server may already hold nodes, ports and links when the daemon starts:
\* the callbacks for them come first, before anybody subscribes.
BackendInit ==
  /\ server = EmptyGraph
  /\ used = {}
  /\ budget = MaxChanges
  /\ shared = NoEntries
  /\ calling = <<>>
  /\ factory = FALSE
  /\ told = {}
  /\ sub = "none"
  /\ queue = <<>>
  /\ cmds = <<>>
  /\ requested = {}
  /\ gain = NoEntries

-----------------------------------------------------------------------------
LiveNodes == DOMAIN server.nodes
LivePorts == DOMAIN server.ports
LiveLinks == DOMAIN server.links
Live == LiveNodes \cup LivePorts \cup LiveLinks

\* New globals take ids in increasing order; a freed id may come back, but
\* not while a live global still refers to it.
Referenced ==
  Live \cup {server.ports[p].node : p \in LivePorts}
       \cup UNION {{server.links[l].src, server.links[l].sink} : l \in LiveLinks}
Free(i) == IF i \in used THEN ReuseIds /\ i \notin Referenced
           ELSE \A j \in Id : j < i => j \in used

\* Slip: a send that never finds the channel full.
BroadcastUnbounded(ev) ==
  LET taken == sub = "open"
  IN  /\ queue' = IF taken THEN Append(queue, ev) ELSE queue
      /\ UNCHANGED sub
      /\ told' = IF ev.type \in RemovalKind THEN told \ {ev.id} ELSE told \cup {ev.id}

\* broadcast: try_send to the sink; a full channel is treated like a dead one
\* and the sender is dropped from the list for good.
Broadcast(ev) ==
  LET taken == sub = "open" /\ Len(queue) < EventCap
  IN  /\ queue' = IF taken THEN Append(queue, ev) ELSE queue
      /\ sub' = IF sub = "open" /\ ~taken THEN "pruned" ELSE sub
      /\ told' = IF ev.type \in RemovalKind THEN told \ {ev.id}
                 ELSE IF taken THEN told \cup {ev.id} ELSE told

\* Every callback runs on the loop thread, so none starts inside another.
LoopIdle == calling = <<>>

Spend ==
  /\ budget > 0
  /\ sub = "none" => budget > MaxChanges - MaxEarly
  /\ budget' = budget - 1

NodeGlobal(i, n) ==
  /\ LoopIdle
  /\ Spend
  /\ Free(i)
  /\ server' = AddNode(server, i, n)
  /\ used' = used \cup {i}
  /\ shared' = Insert(shared, i, n)
  /\ calling' = <<NodeAppeared(i, n)>>
  /\ UNCHANGED <<factory, requested, gain, channel, cmds>>

BroadcastNode ==
  /\ calling # <<>>
  /\ Broadcast(Head(calling))
  /\ calling' = <<>>
  /\ UNCHANGED <<server, used, budget, shared, factory, requested, gain, cmds>>

PortGlobal(i, n, dir) ==
  /\ LoopIdle
  /\ Spend
  /\ Free(i)
  /\ server' = AddPort(server, i, [node |-> n, dir |-> dir])
  /\ used' = used \cup {i}
  /\ Broadcast(PortAppeared(i, [node |-> n, dir |-> dir]))
  /\ UNCHANGED <<shared, calling, factory, requested, gain, cmds>>

Linkable ==
  {[src |-> o, sink |-> s] : o \in {p \in LivePorts : server.ports[p].dir = "Output"},
                             s \in {p \in LivePorts : server.ports[p].dir = "Input"}}
    \ {server.links[k] : k \in LiveLinks}

\* A link appears: the answer to one of our create_object calls, or the work
\* of another PipeWire client.
LinkGlobal(i, l) ==
  /\ LoopIdle
  /\ \/ l \in requested /\ UNCHANGED budget
     \/ l \notin requested /\ Spend
  /\ Free(i)
  /\ server' = WithLinks(server, Insert(server.links, i, l))
  /\ used' = used \cup {i}
  /\ requested' = requested \ {l}
  /\ Broadcast(LinkAppeared(i, l))
  /\ UNCHANGED <<shared, calling, factory, gain, cmds>>

\* The server turns a create_object down: format mismatch, duplicate link,
\* a port that went away meanwhile.  Nothing reports it.
LinkRefused(l) ==
  /\ l \in requested
  /\ requested' = requested \ {l}
  /\ UNCHANGED <<server, used, budget, shared, calling, factory, gain, channel, cmds>>

\* Slip: every removal reported as that of a node.
AlwaysNodeRemoved(i) == "NodeRemoved"

KindRemoved(i) ==
  IF i \in LiveNodes THEN "NodeRemoved"
  ELSE IF i \in LivePorts THEN "PortRemoved" ELSE "LinkRemoved"

\* global_remove: dispatches on the kind recorded for the id.  The shared
\* node map keeps the entry of a removed node.
DropGlobal(i) ==
  /\ server' = [nodes |-> Without(server.nodes, {i}),
                ports |-> Without(server.ports, {i}),
                links |-> Without(server.links, {i})]
  /\ gain' = Without(gain, {i})
  /\ Broadcast(Removed(KindRemoved(i), i))

GlobalRemove(i) ==
  /\ LoopIdle
  /\ Spend
  /\ DropGlobal(i)
  /\ UNCHANGED <<used, shared, calling, factory, requested, cmds>>

FactoryGlobal ==
  /\ LoopIdle
  /\ ~factory
  /\ factory' = TRUE
  /\ UNCHANGED <<server, used, budget, shared, calling, requested, gain, channel, cmds>>

-----------------------------------------------------------------------------
(***************************************************************************)
(* The command handler.  Commands for a global that is gone are dropped    *)
(* with a warning; nobody who sent them is told.                           *)
(***************************************************************************)
RunCreateLink(l) ==
  /\ requested' = IF factory /\ l.src \in LivePorts /\ l.sink \in LivePorts
                  THEN requested \cup {l} ELSE requested
  /\ UNCHANGED <<server, gain, channel>>

\* destroy_global takes any global id, whatever kind it is now.
RunDestroyLink(i) ==
  /\ IF i \in Live THEN DropGlobal(i) ELSE UNCHANGED <<server, gain, channel>>
  /\ UNCHANGED requested

RunSetVolume(i, v) ==
  /\ gain' = IF i \in LiveNodes THEN Insert(gain, i, v) ELSE gain
  /\ UNCHANGED <<server, requested, channel>>

RunCommand ==
  /\ LoopIdle
  /\ cmds # <<>>
  /\ LET c == Head(cmds)
     IN  \/ c.type = "CreateLink" /\ RunCreateLink(c.link)
         \/ c.type = "DestroyLink" /\ RunDestroyLink(c.id)
         \/ c.type = "SetVolume" /\ RunSetVolume(c.id, c.volume)
  /\ cmds' = Tail(cmds)
  /\ UNCHANGED <<used, budget, shared, calling, factory>>

(***************************************************************************)
(* What the rest of the daemon does with the backend.                      *)
(***************************************************************************)
Subscribe == sub = "none" /\ sub' = "open" /\ UNCHANGED <<queue, told>>
Receive   == queue # <<>> /\ queue' = Tail(queue) /\ UNCHANGED <<sub, told>>
Send(c)   == cmds' = Append(cmds, c)

ServerStep ==
  \/ \E i \in Id, n \in Node : NodeGlobal(i, n)
  \/ BroadcastNode
  \/ \E n \in LiveNodes : \E dir \in PortDirs[server.nodes[n]], i \in Id : PortGlobal(i, n, dir)
  \/ \E l \in Linkable, i \in Id : LinkGlobal(i, l)
  \/ \E l \in requested : LinkRefused(l)
  \/ \E i \in Live : GlobalRemove(i)
  \/ FactoryGlobal
  \/ RunCommand

=============================================================================
