---------------------------- MODULE DeviceEvents ----------------------------
(***************************************************************************)
(* What the backends of the three platforms have in common: the devices of *)
(* the machine, the thread that runs the platform's callbacks, and the     *)
(* bounded channel to the daemon's event pump.  CoreAudio, Wasapi and      *)
(* NodeInfo say what each platform's callbacks do.                         *)
(*                                                                         *)
(* Callbacks run one at a time on every platform: on the HAL's own thread, *)
(* on the PipeWire loop, and in the MMDevice runtime (external), which is  *)
(* assumed to deliver in order.  outgoing is what the callback that runs   *)
(* has yet to broadcast.                                                   *)
(***************************************************************************)
EXTENDS Integers, Sequences, FiniteSets, SequencesExt

CONSTANTS
  Device,      \* devices: HAL devices, MMDevice endpoints, PipeWire nodes
  Kind,        \* Kind[d]: "Sink", "Source", or "Other": a device without streams,
               \* and on Linux a node that is neither
  Full,        \* latencies and volumes are numbers from 0 to Full
  EventCap,    \* capacity of the event channel (256 in subscribe)
  MaxChanges,  \* bound: changes of devices
  MaxFaults    \* bound: system calls that fail for no reason of their own

ASSUME DeviceAssumption ==
  /\ IsFiniteSet(Device)
  /\ Kind \in [Device -> {"Sink", "Source", "Other"}]
  /\ Full \in Nat
  /\ EventCap \in Nat \ {0}
  /\ MaxChanges \in Nat
  /\ MaxFaults \in Nat

Level == 0..Full

VARIABLES
  platform,  \* "macos", "windows", "linux": chosen when the daemon is built
  device,    \* state of every device
  changes,   \* changes left
  faults,    \* faults left
  backend,   \* start-up of the backend: "new", "initial", "listening", "failed"
  sink,      \* the pump's sender among the sinks: "none", "open", "pruned"
  queue,     \* the event channel
  outgoing,  \* events of the running callback still to be broadcast
  lost       \* history: <<topic, device>> of what the daemon cannot know: "node"
             \* and "LatencySample" whose last event nobody took, "Xrun" of
             \* which any event was not taken, "gap" for a device on which
             \* lists disagree

machine == <<platform, device, changes, faults>>
channel == <<sink, queue, outgoing, lost>>

Appeared(d)   == [type |-> "NodeAppeared", dev |-> d]
Removed(d)    == [type |-> "NodeRemoved", dev |-> d]
Xrun(d)       == [type |-> "Xrun", dev |-> d]
Sample(d, ms) == [type |-> "LatencySample", dev |-> d, ms |-> ms]

BackendEvent ==
  [type : {"NodeAppeared", "NodeRemoved", "Xrun"}, dev : Device]
    \cup [type : {"LatencySample"}, dev : Device, ms : Level]

Topic(ev) == IF ev.type \in {"NodeAppeared", "NodeRemoved"} THEN "node" ELSE ev.type

DevicesOK ==
  /\ platform \in {"macos", "windows", "linux"}
  /\ device \in [Device -> {"absent", "inactive", "active", "gone"}]
  /\ changes \in 0..MaxChanges
  /\ faults \in 0..MaxFaults
  /\ backend \in {"new", "initial", "listening", "failed"}
  /\ sink \in {"none", "open", "pruned"}
  /\ queue \in Seq(BackendEvent) /\ Len(queue) <= EventCap
  /\ outgoing \in Seq(BackendEvent)
  /\ lost \subseteq {"node", "gap", "Xrun", "LatencySample"} \X Device

DevicesInit ==
  /\ platform \in {"macos", "windows", "linux"}
  /\ device \in [Device -> {"absent"} \cup IF platform = "linux" THEN {} ELSE {"active"}]
  /\ changes = MaxChanges
  /\ faults = MaxFaults
  /\ backend = "new"
  /\ sink = "none"
  /\ queue = <<>>
  /\ outgoing = <<>>
  /\ lost = {}

Active == {d \in Device : device[d] = "active"}

\* The devices that are nodes to the daemon: on Linux all, filters too.
Nodes(S) == {d \in S : platform = "linux" \/ Kind[d] # "Other"}

\* history: the devices a reading did not show, or showed after they had gone.
Misread(seen) == {"gap"} \X ((Nodes(Active) \ seen) \cup (seen \ Active))

\* One change of the machine's devices.
Becomes(d, from, to) ==
  /\ changes > 0
  /\ changes' = changes - 1
  /\ device[d] \in from
  /\ device' = [device EXCEPT ![d] = to]
  /\ UNCHANGED <<platform, faults>>

\* A system call that fails.
Fault == faults > 0 /\ faults' = faults - 1 /\ UNCHANGED <<platform, device, changes>>

\* A callback that starts, with the events it is going to broadcast.
CallbackIdle == outgoing = <<>>
Announce(events) == outgoing' = events /\ UNCHANGED <<sink, queue>>

\* What the daemon knows again once it took an event that is still true.
Learned(ev) ==
  CASE ev.type = "LatencySample" -> {<<"LatencySample", ev.dev>>}
    [] Topic(ev) = "node" /\ (ev.type = "NodeAppeared") = (ev.dev \in Active) ->
         {"node", "gap"} \X {ev.dev}
    [] OTHER -> {}

\* Slip: the channel has no bound.
AlwaysRoom == TRUE

Room == Len(queue) < EventCap

\* broadcast: try_send to the sink; a full channel is taken for a dead one.
BroadcastNext ==
  /\ outgoing # <<>>
  /\ LET ev    == Head(outgoing)
         taken == sink = "open" /\ Room
     IN  /\ queue' = IF taken THEN Append(queue, ev) ELSE queue
         /\ sink' = IF sink = "open" /\ ~taken THEN "pruned" ELSE sink
         /\ lost' = IF taken THEN lost \ Learned(ev)
                    ELSE lost \cup {<<Topic(ev), ev.dev>>}
  /\ outgoing' = Tail(outgoing)
  /\ UNCHANGED <<machine, backend>>

SubscribeDevices ==
  /\ sink = "none"
  /\ sink' = "open"
  /\ UNCHANGED <<machine, backend, queue, outgoing, lost>>

=============================================================================
