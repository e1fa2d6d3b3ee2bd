--------------------------- MODULE ClientOps_proofs ---------------------------
(***************************************************************************)
(* Proofs about ClientOps: type correctness, that clients disturb neither  *)
(* the graph nor the event stream, and, where ids are not reused, that the *)
(* id answered to Link names that link.  What the pump and the graph know  *)
(* to be true is PumpProperties_proofs's.                                  *)
(***************************************************************************)
EXTENDS ClientOps, PumpProperties_proofs

-----------------------------------------------------------------------------
(***************************************************************************)
(* The invariants.                                                         *)
(***************************************************************************)
\* An id a client was given is that of its link.
AnswersTrue ==
  \A c \in Client : answer[c].id = 0 \/ IsLink(server, used, answer[c].id, answer[c].link)

-----------------------------------------------------------------------------
(***************************************************************************)
(* The connections' types.                                                 *)
(***************************************************************************)
\* A reference resolves to a port of the graph, or to none.
LEMMA ResolvePortFinds ==
  ASSUME NEW g, NEW ref, NEW dir \in Direction, NEW required,
         NEW p \in ResolvePort(g, ref, dir, required), p # NoPort
  PROVE  p \in DOMAIN g.ports
<1>1. CASE ref.by = "id"
  BY <1>1 DEF ResolvePort, OrNoPort
<1>2. CASE ref.by # "id"
  <2>1. PICK n \in NodesNamed(g, ref.node) :
          p \in IF Fits(required, g.nodes[n].media)
                THEN OrNoPort(PortsTowards(g, n, dir)) ELSE {NoPort}
    BY <1>2 DEF ResolvePort
  <2> QED
    BY <2>1 DEF OrNoPort, PortsTowards, OutputPortsOf, InputPortsOf, PortsOf
<1> QED
  BY <1>1, <1>2

\* What a Link request finds out under the graph lock.
LEMMA LinkFound ==
  ASSUME NEW c \in Client, NEW source \in PortRef, NEW sink \in PortRef,
         ResolveLink(c, source, sink)
  PROVE  \/ UNCHANGED call
         \/ \E s \in DOMAIN graph.ports, o \in DOMAIN graph.ports :
              call' = [call EXCEPT ![c] = [at |-> "resolved", link |-> [src |-> o, sink |-> s]]]
<1>1. PICK s \in ResolvePort(graph, sink, "Input", AnyKind) :
        \E o \in IF s = NoPort THEN {NoPort}
                 ELSE ResolvePort(graph, source, "Output", KindOf(graph, s)) :
          call' = IF o = NoPort THEN call
                  ELSE [call EXCEPT ![c] = [at |-> "resolved", link |-> [src |-> o, sink |-> s]]]
  BY DEF ResolveLink
<1>2. PICK o \in IF s = NoPort THEN {NoPort}
                 ELSE ResolvePort(graph, source, "Output", KindOf(graph, s)) :
          call' = IF o = NoPort THEN call
                  ELSE [call EXCEPT ![c] = [at |-> "resolved", link |-> [src |-> o, sink |-> s]]]
  BY <1>1
<1>3. CASE o # NoPort
  <2>1. s # NoPort /\ o \in ResolvePort(graph, source, "Output", KindOf(graph, s))
    BY <1>2, <1>3
  <2>2. s \in DOMAIN graph.ports /\ o \in DOMAIN graph.ports
    BY <1>3, <2>1, ResolvePortFinds DEF Direction
  <2> QED
    BY <1>2, <1>3, <2>2
<1> QED
  BY <1>2, <1>3

LEMMA CallFields ==
  ASSUME NEW x \in Call
  PROVE  /\ x.at \in {"idle", "resolved", "waiting"}
         /\ x.at = "idle" <=> x = Idle
         /\ x.at # "idle" => x.link \in Link
         /\ x.at = "waiting" => x.left \in 1..Polls
BY DEF Call, Idle

\* A step of a client leaves the daemon alone, or queues a command.
LEMMA ClientStepDaemon ==
  ASSUME OpsTypeOK, NEW c \in Client, ClientStep(c)
  PROVE  /\ UNCHANGED <<registry, channel, main, seeded, config, pumpVars>>
         /\ cmds' = cmds \/ \E x \in PwCmd : cmds' = Append(cmds, x)
<1> USE DEF vars, backendVars
<1>1. ASSUME NEW source \in PortRef, NEW sink \in PortRef, ResolveLink(c, source, sink)
      PROVE  UNCHANGED vars
  BY <1>1 DEF ResolveLink
<1>2. CASE QueueLink(c)
  <2>1. call[c].link \in Link
    BY <1>2, CallFields DEF QueueLink, OpsTypeOK
  <2>2. CreateLink(call[c].link) \in PwCmd
    BY <2>1, CutLink DEF CreateLink, PwCmd
  <2> QED
    BY <1>2, <2>2 DEF QueueLink, Send
<1>3. CASE PollLink(c)
  BY <1>3 DEF PollLink
<1>4. ASSUME NEW i \in ClientId, Unlink(c, i)
      PROVE  /\ UNCHANGED <<registry, channel, main, seeded, config, pumpVars>>
             /\ \E x \in PwCmd : cmds' = Append(cmds, x)
  <2>1. DestroyLink(i) \in PwCmd
    BY CutToPwId, ClientAssumption DEF DestroyLink, PwCmd
  <2> QED
    BY <1>4, <2>1 DEF Unlink, Send
<1>5. ASSUME NEW i \in ClientId, NEW v \in Volume, SetNodeVolume(c, i, v)
      PROVE  /\ UNCHANGED <<registry, channel, main, seeded, config, pumpVars>>
             /\ \E x \in PwCmd : cmds' = Append(cmds, x)
  <2>1. SetVolume(i, v) \in PwCmd
    BY CutToPwId, ClientAssumption DEF SetVolume, PwCmd
  <2> QED
    BY <1>5, <2>1 DEF SetNodeVolume, Send
<1> QED
  BY <1>1, <1>2, <1>3, <1>4, <1>5 DEF ClientStep, Proceed

LEMMA OpsTypeInit == OpsInit => OpsTypeOK
BY InitType, ClientAssumption DEF OpsInit, OpsTypeOK, Call

LEMMA OpsTypeNext ==
  ASSUME OpsTypeOK, [OpsNext]_allVars
  PROVE  OpsTypeOK'
<1> USE DEF OpsTypeOK
<1>1. CASE [Next]_vars /\ UNCHANGED opVars
  BY <1>1, NextType DEF opVars
<1>2. ASSUME NEW c \in Client, ClientStep(c) PROVE OpsTypeOK'
  <2>1. TypeOK'
    <3>1. /\ UNCHANGED <<registry, channel, main, seeded, config, pumpVars>>
          /\ cmds' = cmds \/ \E x \in PwCmd : cmds' = Append(cmds, x)
      BY <1>2, ClientStepDaemon
    <3>2. cmds' \in Seq(PwCmd)
      <4>1. cmds \in Seq(PwCmd)
        BY DEF TypeOK, BackendTypeOK
      <4>2. \A q, x : q \in Seq(PwCmd) /\ x \in PwCmd => Append(q, x) \in Seq(PwCmd)
        OBVIOUS
      <4> QED
        BY <3>1, <4>1, <4>2
    <3> QED
      BY <3>1, <3>2 DEF TypeOK, BackendTypeOK, registry, channel, config, pumpVars
  <2>2. ASSUME NEW source \in PortRef, NEW sink \in PortRef, ResolveLink(c, source, sink)
        PROVE  OpsTypeOK'
    <3>1. calls' \in 0..MaxCalls /\ UNCHANGED answer
      BY <2>2, ClientAssumption DEF ResolveLink, Request
    <3>2. DOMAIN graph.ports \subseteq Id
      BY DEF TypeOK, IsGraph, IsMap
    <3>3. call' \in [Client -> Call]
      BY <2>2, <3>2, LinkFound DEF Call, Link
    <3> QED
      BY <2>1, <3>1, <3>3
  <2>3. CASE QueueLink(c)
    <3>1. [at |-> "waiting", link |-> call[c].link, left |-> Polls] \in Call
      BY <2>3, CallFields, ClientAssumption DEF QueueLink, Call
    <3> QED
      BY <2>1, <2>3, <3>1 DEF QueueLink
  <2>4. CASE PollLink(c)
    <3>1. call[c].at = "waiting" /\ call[c].link \in Link /\ call[c].left \in 1..Polls
      BY <2>4, CallFields DEF PollLink
    <3>2. ASSUME NEW r \in {NoAnswer} \cup [id : Id, link : Link], Reply(c, r)
          PROVE  /\ answer' \in [Client -> {NoAnswer} \cup [id : Id, link : Link]]
                 /\ call' \in [Client -> Call]
      BY <3>2 DEF Reply, Call
    <3>3. \A i \in FindLink(graph, call[c].link) :
             [id |-> i, link |-> call[c].link] \in [id : Id, link : Link]
      BY <3>1 DEF FindLink, TypeOK, IsGraph, IsMap
    <3>4. CASE call[c].left > 1 /\ call' = [call EXCEPT ![c].left = @ - 1] /\ UNCHANGED answer
      <4>1. [call[c] EXCEPT !.left = @ - 1] \in Call
        BY <3>1, <3>4, ClientAssumption DEF Call, Idle
      <4> QED
        BY <3>4, <4>1, <2>1, <2>4 DEF PollLink
    <3> QED
      BY <2>1, <2>4, <3>2, <3>3, <3>4 DEF PollLink
  <2>5. ASSUME NEW i \in ClientId, Unlink(c, i) PROVE OpsTypeOK'
    BY <2>1, <2>5, ClientAssumption DEF Unlink, Request
  <2>6. ASSUME NEW i \in ClientId, NEW v \in Volume, SetNodeVolume(c, i, v) PROVE OpsTypeOK'
    BY <2>1, <2>6, ClientAssumption DEF SetNodeVolume, Request
  <2> QED
    BY <1>2, <2>2, <2>3, <2>4, <2>5, <2>6 DEF ClientStep, Proceed
<1> QED
  BY <1>1, <1>2 DEF OpsNext, allVars

\* Clients and all they interact with keep every variable within its type
\* (ipc_server.rs, do_link, do_unlink), whether or not ids are reused.
THEOREM OpsTypeCorrect == OpsSpec => []OpsTypeOK
<1>1. OpsTypeOK /\ [OpsNext]_allVars => OpsTypeOK'
  BY OpsTypeNext
<1> QED
  BY <1>1, OpsTypeInit, PTL DEF OpsSpec

-----------------------------------------------------------------------------
(***************************************************************************)
(* The graph and the event stream, with clients at work.                   *)
(***************************************************************************)
LEMMA OpsMirroredNext ==
  ASSUME OpsTypeOK, Mirrored, [OpsNext]_allVars
  PROVE  Mirrored'
<1>1. ASSUME UNCHANGED <<registry, channel, main, seeded, config, pumpVars>>
      PROVE  Mirrored'
  <2>1. UNCHANGED <<server, used, told, calling, graph, main, seeded, sub, queue, pc, ev>>
    BY <1>1 DEF registry, channel, pumpVars
  <2>2. /\ Outstanding' = Outstanding
        /\ \A e : (Holds(e)' <=> Holds(e)) /\ (Seeded(e)' <=> Seeded(e))
    BY <2>1 DEF Outstanding, Holds, Seeded, LiveNodes
  <2>3. Standing'
    BY <2>1 DEF Mirrored, Standing, Live, LiveNodes, LivePorts, LiveLinks
  <2>4. Before'
    BY <2>1, <2>2 DEF Mirrored, Before
  <2>5. sub' = "open" => Heading(graph, Outstanding, 0)'
    BY <2>1, <2>2 DEF Mirrored, Heading
  <2> QED
    BY <2>3, <2>4, <2>5 DEF Mirrored
<1>2. ASSUME NEW c \in Client, ClientStep(c) PROVE Mirrored'
  BY <1>1, <1>2, ClientStepDaemon
<1>3. ASSUME [Next]_vars PROVE Mirrored'
  BY <1>3, MirroredNext DEF OpsTypeOK
<1> QED
  BY <1>2, <1>3 DEF OpsNext, allVars

LEMMA OpsFollowNext ==
  ASSUME OpsTypeOK, FollowInv, [OpsNext]_allVars
  PROVE  FollowInv'
<1>1. ASSUME NEW c \in Client, ClientStep(c) PROVE FollowInv'
  <2>1. UNCHANGED <<registry, channel, main, seeded, config, pumpVars>>
    BY <1>1, ClientStepDaemon
  <2> QED
    BY <2>1 DEF registry, channel, pumpVars, FollowInv, EventsFollowGraph, Booting, Heard, Hear, Event
<1>2. ASSUME [Next]_vars PROVE FollowInv'
  BY <1>2, FollowNext DEF OpsTypeOK
<1> QED
  BY <1>1, <1>2 DEF OpsNext, allVars

\* Link, Unlink and SetNodeVolume only queue commands: however they interleave
\* with the server, the loop and the pump, the graph the pump is heading for
\* stays PipeWire's own, links that clients made and removed included.
THEOREM OpsMirrorServer == OpsSpec => []GraphMirrorsServer
<1> DEFINE Inv == OpsTypeOK /\ Mirrored
<1>1. OpsInit => Inv
  BY OpsTypeInit, MirroredInit DEF OpsInit
<1>2. Inv /\ [OpsNext]_allVars => Inv'
  BY OpsTypeNext, OpsMirroredNext
<1>3. Inv => GraphMirrorsServer
  BY HeadingMirrors DEF Mirrored, GraphMirrorsServer, OpsTypeOK
<1> QED
  BY <1>1, <1>2, <1>3, PTL DEF OpsSpec

\* Whatever clients do, what a subscriber makes of the events is what another
\* client is told when it lists nodes and links.
THEOREM OpsStreamDescribesGraph == OpsSpec => []EventsFollowGraph
<1> DEFINE Inv == OpsTypeOK /\ FollowInv
<1>1. OpsInit => Inv
  BY OpsTypeInit, FollowInit DEF OpsInit
<1>2. Inv /\ [OpsNext]_allVars => Inv'
  BY OpsTypeNext, OpsFollowNext
<1>3. Inv => EventsFollowGraph
  BY DEF FollowInv
<1> QED
  BY <1>1, <1>2, <1>3, PTL DEF OpsSpec

-----------------------------------------------------------------------------
(***************************************************************************)
(* What a client was told about a link.                                    *)
(***************************************************************************)
LEMMA ClientStepTruth ==
  ASSUME OpsTypeOK, Truth, NEW c \in Client, ClientStep(c)
  PROVE  Ages(server, used, server', used') /\ Truth'
<1>1. UNCHANGED <<registry, channel, pumpVars>>
  BY ClientStepDaemon
<1>2. UNCHANGED <<server, used, shared, calling, queue, graph, ev>>
  BY <1>1 DEF registry, channel, pumpVars
<1> QED
  BY <1>2 DEF Ages, Truth, BackendTruth, PumpTruth

LEMMA OpsTruthNext ==
  ASSUME ~ReuseIds, OpsTypeOK, Truth, [OpsNext]_allVars
  PROVE  Ages(server, used, server', used') /\ Truth'
BY TruthNext, ClientStepTruth DEF OpsNext, allVars, OpsTypeOK

\* Only the last round of wait_for_link, or one that finds the link, answers.
LEMMA AnswerGiven ==
  ASSUME Truth, NEW c \in Client, ClientStep(c)
  PROVE  \/ answer' = answer
         \/ answer' = [answer EXCEPT ![c] = NoAnswer]
         \/ \E i \in FindLink(graph, call[c].link) :
              answer' = [answer EXCEPT ![c] = [id |-> i, link |-> call[c].link]]
<1>1. CASE PollLink(c)
  BY <1>1 DEF PollLink, Reply
<1>2. CASE ~PollLink(c)
  BY <1>2 DEF ClientStep, Proceed, ResolveLink, QueueLink, Unlink, SetNodeVolume
<1> QED
  BY <1>1, <1>2

LEMMA AnswersTrueNext ==
  ASSUME ~ReuseIds, OpsTypeOK, Truth, AnswersTrue, [OpsNext]_allVars
  PROVE  AnswersTrue'
<1>1. Ages(server, used, server', used')
  BY OpsTruthNext
<1>2. ASSUME UNCHANGED answer PROVE AnswersTrue'
  BY <1>1, <1>2, TruthAges DEF AnswersTrue
<1>3. ASSUME NEW c \in Client, ClientStep(c) PROVE AnswersTrue'
  <2>1. \A b \in Client : answer[b].id = 0 \/ IsLink(server', used', answer[b].id, answer[b].link)
    BY <1>1, TruthAges DEF AnswersTrue
  <2>2. ASSUME NEW r, answer' = [answer EXCEPT ![c] = r],
               r.id = 0 \/ IsLink(server', used', r.id, r.link)
        PROVE  AnswersTrue'
    <3>1. \A b \in Client : answer'[b] = IF b = c THEN r ELSE answer[b]
      BY <2>2 DEF OpsTypeOK
    <3> QED
      BY <2>1, <2>2, <3>1 DEF AnswersTrue
  <2>3. ASSUME NEW i \in FindLink(graph, call[c].link)
        PROVE  IsLink(server', used', i, call[c].link)
    <3>1. IsLink(server, used, i, call[c].link)
      BY DEF FindLink, Truth, PumpTruth, TrueGraph
    <3> QED
      BY <1>1, <3>1, TruthAges
  <2>4. NoAnswer.id = 0
    BY DEF NoAnswer, NoPort
  <2>5. \A i \in FindLink(graph, call[c].link) :
           LET r == [id |-> i, link |-> call[c].link]
           IN  IsLink(server', used', r.id, r.link)
    BY <2>3
  <2> QED
    BY <1>2, <1>3, <2>2, <2>4, <2>5, AnswerGiven
<1> QED
  BY <1>2, <1>3 DEF OpsNext, allVars, opVars

LEMMA TrueAnswersName ==
  ASSUME OpsTypeOK, Truth, AnswersTrue
  PROVE  AnswerNamesTheLink
<1> SUFFICES ASSUME NEW c \in Client, answer[c].id \in Live
             PROVE  answer[c].id \in LiveLinks /\ server.links[answer[c].id] = answer[c].link
  BY DEF AnswerNamesTheLink
<1>1. Live \subseteq Id
  BY DEF Live, LiveNodes, LivePorts, LiveLinks, OpsTypeOK, TypeOK, BackendTypeOK, IsGraph, IsMap
<1>2. answer[c].id # 0
  BY <1>1, ClientAssumption
<1> QED
  BY <1>2 DEF AnswersTrue, IsLink, Live, LiveNodes, LivePorts, LiveLinks

\* The id that wait_for_link answered is that of the very link the client asked
\* for, as long as a global has it: no step of the server, the loop, the pump
\* or another client makes Unlink with it (do_unlink) take down anything else.
THEOREM AnswersNameLinks ==
  ASSUME ~ReuseIds
  PROVE  OpsSpec => []AnswerNamesTheLink
<1> DEFINE Inv == OpsTypeOK /\ Truth /\ AnswersTrue
<1>1. OpsInit => Inv
  BY OpsTypeInit, TruthInit DEF OpsInit, AnswersTrue, NoAnswer, NoPort
<1>2. Inv /\ [OpsNext]_allVars => Inv'
  BY OpsTypeNext, OpsTruthNext, AnswersTrueNext
<1>3. Inv => AnswerNamesTheLink
  BY TrueAnswersName
<1> QED
  BY <1>1, <1>2, <1>3, PTL DEF OpsSpec

==============================================================================
