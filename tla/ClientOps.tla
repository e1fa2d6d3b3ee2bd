----------------------------- MODULE ClientOps -----------------------------
(***************************************************************************)
(* What IPC clients do to the graph: Link, Unlink and SetVolume            *)
(* (crates/daemon/src/ipc_server.rs, do_link, wait_for_link, do_unlink and *)
(* dispatch; resolve_port of state.rs), composed with the event pump and   *)
(* the backend.                                                            *)
(*                                                                         *)
(* A connection handles one request at a time.  Link resolves both ports   *)
(* under one graph lock, lets go of it, queues the command, and then polls *)
(* the graph for the link: three steps that everything else interleaves    *)
(* with.  The other requests take one step that changes or reads state.    *)
(***************************************************************************)
EXTENDS PumpProperties

CONSTANTS
  Client,     \* connections
  ClientId,   \* ids clients name in Unlink and SetVolume: any u64
  Polls,      \* polls of wait_for_link (50)
  MaxCalls    \* bound: Link, Unlink and SetVolume requests of all clients

ASSUME ClientAssumption ==
  /\ ClientId \subseteq Nat
  /\ Polls \in Nat \ {0}
  /\ MaxCalls \in Nat
  /\ 0 \notin Id

VARIABLES
  call,     \* what each connection is doing
  answer,   \* history: the last Link response each client got
  calls     \* requests left

opVars  == <<call, answer, calls>>
allVars == <<vars, opVars>>

NoPort == 0    \* resolve_port fails; also the placeholder id of an answer
AnyKind == "any"

Idle == [at |-> "idle"]
Call == {Idle} \cup [at : {"resolved"}, link : Link]
               \cup [at : {"waiting"}, link : Link, left : 1..Polls]
NoAnswer == [id |-> NoPort, link |-> [src |-> NoPort, sink |-> NoPort]]

OpsTypeOK ==
  /\ TypeOK
  /\ call \in [Client -> Call]
  /\ answer \in [Client -> {NoAnswer} \cup [id : Id, link : Link]]
  /\ calls \in 0..MaxCalls

OpsInit ==
  /\ Init
  /\ call = [c \in Client |-> Idle]
  /\ answer = [c \in Client |-> NoAnswer]
  /\ calls = MaxCalls

-----------------------------------------------------------------------------
(***************************************************************************)
(* resolve_port.  A port given by id is not checked for its direction; the *)
(* media kind is checked when one is required, and then the owner has to   *)
(* be known.  A node given by name stands for its first port, whatever     *)
(* port name came with it.                                                 *)
(***************************************************************************)
PortId(p)    == [by |-> "id", port |-> p]
Named(node)  == [by |-> "name", node |-> node]
PortRef == {PortId(p) : p \in Id} \cup {Named(node) : node \in Name}

\* media_kind of the node that owns a port, when both are in the graph.
KindOf(g, p) ==
  IF p \in DOMAIN g.ports /\ g.ports[p].node \in DOMAIN g.nodes
  THEN g.nodes[g.ports[p].node].media ELSE AnyKind

Fits(required, kind) == required = AnyKind \/ kind = required

PortsTowards(g, node, dir) ==
  IF dir = "Output" THEN OutputPortsOf(g, node) ELSE InputPortsOf(g, node)

OrNoPort(ports) == IF ports = {} THEN {NoPort} ELSE ports

\* What the reference may resolve to: a port, or NoPort for an error.
ResolvePort(g, ref, dir, required) ==
  IF ref.by = "id"
  THEN OrNoPort({p \in {ref.port} \cap DOMAIN g.ports : Fits(required, KindOf(g, p))})
  ELSE IF NodesNamed(g, ref.node) = {} THEN {NoPort}
  ELSE UNION {IF Fits(required, g.nodes[n].media)
              THEN OrNoPort(PortsTowards(g, n, dir)) ELSE {NoPort} : n \in NodesNamed(g, ref.node)}

-----------------------------------------------------------------------------
(***************************************************************************)
(* Requests.  The IPC server is up once start-up is over.                  *)
(***************************************************************************)
Request(c) ==
  /\ main = "ready"
  /\ call[c] = Idle
  /\ calls > 0
  /\ calls' = calls - 1

\* do_link under the graph lock: the sink first, its kind constrains the
\* source.  An error answers at once.
ResolveLink(c, source, sink) ==
  /\ Request(c)
  /\ \E s \in ResolvePort(graph, sink, "Input", AnyKind) :
       \E o \in IF s = NoPort THEN {NoPort}
                ELSE ResolvePort(graph, source, "Output", KindOf(graph, s)) :
         call' = IF o = NoPort THEN call
                 ELSE [call EXCEPT ![c] = [at |-> "resolved",
                                           link |-> [src |-> o, sink |-> s]]]
  /\ UNCHANGED <<vars, answer>>

\* create_link, after the graph lock is released.
QueueLink(c) ==
  /\ call[c].at = "resolved"
  /\ Send(CreateLink(call[c].link))
  /\ call' = [call EXCEPT ![c] = [at |-> "waiting", link |-> call[c].link, left |-> Polls]]
  /\ UNCHANGED <<registry, channel, main, seeded, config, pumpVars, answer, calls>>

\* Slip: the source port alone identifies the link.
FindBySource(g, link) == {i \in DOMAIN g.links : g.links[i].src = link.src}

FindLink(g, link) == {i \in DOMAIN g.links : g.links[i] = link}

Reply(c, response) ==
  /\ answer' = [answer EXCEPT ![c] = response]
  /\ call' = [call EXCEPT ![c] = Idle]

\* Slip: polls until the link shows up.
PollForever(c) ==
  /\ call[c].at = "waiting"
  /\ \E i \in FindLink(graph, call[c].link) : Reply(c, [id |-> i, link |-> call[c].link])
  /\ UNCHANGED <<vars, calls>>

\* One round of wait_for_link.  Any link between the two ports will do, also
\* one that was there before; after the last round the answer is id 0.
PollLink(c) ==
  /\ call[c].at = "waiting"
  /\ LET found == FindLink(graph, call[c].link)
     IN  \/ \E i \in found : Reply(c, [id |-> i, link |-> call[c].link])
         \/ found = {} /\ call[c].left = 1 /\ Reply(c, NoAnswer)
         \/ /\ found = {} /\ call[c].left > 1
            /\ call' = [call EXCEPT ![c].left = @ - 1]
            /\ UNCHANGED answer
  /\ UNCHANGED <<vars, calls>>

\* do_unlink: the id is not looked up; it need not be a link's.
Unlink(c, i) ==
  /\ Request(c)
  /\ Send(DestroyLink(i))
  /\ UNCHANGED <<registry, channel, main, seeded, config, pumpVars, call, answer>>

SetNodeVolume(c, i, v) ==
  /\ Request(c)
  /\ Send(SetVolume(i, v))
  /\ UNCHANGED <<registry, channel, main, seeded, config, pumpVars, call, answer>>

Proceed(c) == QueueLink(c) \/ PollLink(c)

ClientStep(c) ==
  \/ \E source, sink \in PortRef : ResolveLink(c, source, sink)
  \/ Proceed(c)
  \/ \E i \in ClientId : Unlink(c, i)
  \/ \E i \in ClientId, v \in Volume : SetNodeVolume(c, i, v)

OpsNext ==
  \/ Next /\ UNCHANGED opVars
  \/ \E c \in Client : ClientStep(c)

OpsSpec == OpsInit /\ [][OpsNext]_allVars

-----------------------------------------------------------------------------
(***************************************************************************)
(* Properties.                                                             *)
(***************************************************************************)
ServerKind(p) == KindOf(server, p)

\* do_link's comment: "we never accept an Audio->MIDI or MIDI->Audio pair".  No
\* link that a client request has come to joins live ports of nodes of different
\* kinds.  Not what the code does: of a node that appeared between enumerate_nodes
\* and subscribe the graph has the ports only, so that its kind is unknown and any
\* source is accepted.
KindsNeverMix ==
  \A c \in Client : call[c] # Idle =>
    LET l == call[c].link
    IN  ({l.src, l.sink} \subseteq LivePorts
           /\ {server.ports[l.src].node, server.ports[l.sink].node} \subseteq LiveNodes)
        => ServerKind(l.src) = ServerKind(l.sink)

\* The id a client got for a link is PipeWire's id of that very link for as
\* long as there is one (ids not reused): Unlink with it removes this link.
AnswerNamesTheLink ==
  \A c \in Client : answer[c].id \in Live =>
    answer[c].id \in LiveLinks /\ server.links[answer[c].id] = answer[c].link

\* The loop runs a queued command and the pump is told, so that whatever id
\* PipeWire makes of the one a client named, if it was in use it leaves the
\* graph's links for good (ids not reused), unless the pump has been cut off.
UnlinkReachesGraph ==
  \A i \in ClientId :
    Cut(i) \in used /\ (\E k \in DOMAIN cmds : cmds[k] = DestroyLink(i))
      ~> [](Cut(i) \notin DOMAIN graph.links \/ sub = "pruned")

\* The pump and the loop run; the runtime polls a connection's task, and its
\* timer fires.
FairOpsSpec == OpsSpec /\ ThreadsRun /\ \A c \in Client : WF_allVars(Proceed(c))

\* Link is answered, whatever the backend does (wait_for_link's comment).
LinkAnswered == \A c \in Client : call[c].at # "idle" ~> call[c].at = "idle"

=============================================================================
