# soundworm in TLA+

Formal models of soundworm, the audio-routing daemon: what its threads, tasks,
queues and locks do to the graph of nodes, ports and links, which promises
hold in every interleaving, and which do not. TLC checks the models on small
instances; TLAPS proves the central theorems for every value of the constants.
Paths are relative to the repository; `state.rs`, `ipc_server.rs`, `main.rs`
and `script_watch.rs` are in `crates/daemon/src`.

## 1. The system

| Component | State | Operations | Modelled in |
|---|---|---|---|
| Graph (`crates/graph`, `crates/core`) | maps of nodes, ports, links by id | add, remove, queries, `apply_event` | `AudioGraph` |
| PipeWire backend (`crates/pipewire-backend`) | loop-thread maps, shared node map, list of event senders, event channel (256), command channel | registry callbacks, `broadcast`, command handler, `enumerate_nodes`, `subscribe`, `create_link`, `destroy_link`, `set_volume`, `set_mute` | `PwBackend` |
| Daemon start-up and event pump (`main.rs`, `state.rs`) | graph, rules, script, pending routes, spawned tasks | enumerate, subscribe, load, then per event: rules, script, apply, publish, fire | `EventPump`, `PumpProperties` |
| Client operations (`ipc_server.rs`) | what each connection is doing | Link (resolve, queue, poll), Unlink, SetVolume | `ClientOps` |
| Event stream to clients (`ipc_server.rs`) | broadcast ring (1024), subscription task, outbound channel, writer | Subscribe, Unsubscribe, events, EventsDropped, hang-up | `EventStream` (promise), `Subscription` (code) |
| Configuration (`state.rs`, `script_watch.rs`, `main.rs`) | rules and their path, script and its path, watcher channel | LoadRules, ReloadRules, LoadScript, ReloadScript, hot reload | `ConfigReload` |
| Rules engine (`crates/policy/src/rules.rs`) | rules in order of priority | `load_toml`, `evaluate_node` | `RulesEngine`, `Endpoints`; as a table of verdicts in `EventPump` |
| Script engine (`crates/rhai-engine`) | loaded script | evaluate a node | as a table of verdicts in `EventPump` |
| macOS backend (`crates/coreaudio-backend`) | last device list, senders | list, listener, start-up, volume | `CoreAudio`, `DeviceEvents`, `Endpoints` |
| Windows backend (`crates/wasapi-backend`) | senders | notifications, enumeration, start-up, volume | `Wasapi`, `DeviceEvents`, `Endpoints` |
| Node measurements (`crates/pipewire-backend`, `crates/observability`) | last latency and xrun counter by node id; ring of xruns, counts, samples | info listener, `record`, `record_latency_ms` | `NodeInfo`, `Endpoints` |
| Life of the daemon, Snapshot, Restore (`main.rs`, `ipc_server.rs`, `state.rs`, `crates/snapshots`) | select, `Notify`, snapshot files | start, Shutdown, crash; `build_snapshot`, `save`, `load`, `apply_snapshot` | `Sessions`, `SessionProperties` |
| Client library (`crates/ipc/src/client.rs`) | reader task, inbox, event channel (256) | `connect_subscriber`, `request` | `Subscriber` |
| Wire format, CLI, UI, mock backend | | | not modelled, see 7 |

How they interact. The PipeWire loop thread calls back for every global that
appears or goes; a callback updates the backend's maps and pushes an event
into a bounded channel with `try_send`. The pump thread takes events out of it
one at a time and, for each, goes through separate critical sections: rules
lock; graph and script locks; graph lock to apply; a tokio broadcast to the
IPC subscribers; graph lock again to try all pending routes. Routes that
resolve become spawned futures that queue a command for the loop thread.
Client requests run on tokio tasks and share the graph and command channel with
all of this. Nothing holds two of these steps together.

On macOS and Windows the pump is the same and the backend another: a callback
of the platform compares lists, or translates a notification, and broadcasts
the difference into the same kind of channel. Those backends announce no
ports, so no route ever resolves there; volumes do. Snapshots go through the
graph on the way out and through the command channel on the way in, and the
files outlive the process, whether it exits, crashes or loses PipeWire.

What is hard here:

* **Interleaving.** Registry changes go on between enumeration and
  subscription, between resolving a link's ports and queueing the command,
  between evaluating a node and firing its route.
* **Order.** Node and port events of both ends of a route come in any order;
  spawned futures run in any order; events and responses share one connection.
* **Limits.** A full event channel looks like a dead subscriber; a slow
  connection overruns the broadcast ring; events compete with responses for
  outbound room.
* **Stale state.** Ids are handed out again; pending routes and the shared
  node map are not cleaned up; text that was read may be old when installed.
* **Crashes.** Snapshot files are written in place, by several connections at
  once, by a process that may stop between truncating and writing.
* **Liveness.** A route has to fire once it can, a link that was unlinked has
  to go, a subscriber has to catch up, a saved script has to come into force,
  a restored link has to come to exist, and a Shutdown has to end the process
  although a blocking write is under way.

What makes each component correct:

* Graph, backend, pump: `GraphMirrorsServer`, `EventsFollowGraph`,
  `NoStalledRoute`, `OneLinkPerMatch`, `NoRouteWaitsForever`.
* Client operations: `AnswerNamesTheLink`, `UnlinkReachesGraph`,
  `LinkAnswered`, and `KindsNeverMix`, which the code breaks (section 6).
* Event stream: `NothingUnaccounted`, `InOrderOnce`, `Implements`,
  `SubscriberCatchesUp`, `RequestsAnswered`, `UnsubscribedTaskEnds`.
* Client library: `LibraryOK`, and `ConnectReturns`, which the code breaks.
* Rules: `HighestPriorityWins` (a theorem), `RulesReachDevices`.
* Platform backends: `GraphMirrorsDevices`. Measurements: `XrunsCounted`,
  `LatencyRecorded`.
* Life and snapshots: `LoadsOnlySaved`, `SavedSnapshotLoads`, `RestoreReaches`,
  `ShutdownEnds`.
* Configuration: `NoSaveMissed`, `ScriptFollowsFile`, and `RulesComeFromPath`,
  which the code breaks.

## 2. The modules and the code

    AudioGraph <- PwBackend <- EventPump <- PumpProperties <- MCPump
                                  ^           ^        ^
                     EventPump_proofs         |    ClientOps <- MCOps
                                  ^           |        ^
                            PumpProperties_proofs <- ClientOps_proofs
    EventStream <- (INSTANCE) Subscription <- Subscriber <- MCSubscriber
         ^                      ^      ^
    EventStream_proofs          |    Subscriber_proofs
                           MCSubscription
    ConfigReload <- MCConfig, ConfigReload_proofs
    RulesEngine      DeviceEvents <- CoreAudio, Wasapi, NodeInfo
         ^                ^
         +-- Endpoints ---+ <- MCEndpoints, Endpoints_proofs
    Sessions <- SessionProperties <- MCSessions, Sessions_proofs

**AudioGraph** has the graph as a value: three functions on sets of ids, and
the crate's operations as operators. `HashMap` iteration picks an arbitrary
entry, so `find_node_by_name` and "the first port" are sets to choose from.
Of a node it keeps name, kind and media kind, all that routing branches on.

**PwBackend** has PipeWire's registry as the variable `server`. A registry
change and the callback that reports it are one step, because everything the
server sends reaches the single-threaded loop in order; the delay that matters
is the event channel behind it. Then the loop's own maps (`global_kinds`,
`port_to_node`, `node_proxies`) are functions of `server` and are not
variables of their own. The one callback with two locks (node: shared map,
then senders) is two steps, so that `main` can run in between. A removed node
leaves its ports and links to removals of their own, in any order, and may
get its id handed out again (`ReuseIds`). `LinkRefused` is PipeWire turning a
request down without a word. Requests carry 64-bit ids and PipeWire has 32 bits
(`as u32`): `Cut` takes them modulo `IdWidth`. SetMute has the shape of SetVolume
and is covered by it. The command channel is unbounded in the code and here.

**EventPump** has `main`'s start-up as four steps and the pump as five
(`pc`): receive and rules, script, apply, publish, fire. Rules and scripts are
tables from nodes (and visible sinks) to verdicts. `view`, `seeded`, `clash`,
`fires` and `told` are history variables; nothing but properties reads them.

**ClientOps** adds connections. `resolve_port` is translated with its gaps: a
port given by id is not checked for its direction, a port given by name is the
first port of its node. Link is resolved under the graph lock, queued after its
release, and looked for `Polls` times (50 in the code). A client may name
any id in Unlink and SetVolume, whether it exists or not: the ids it does name
are the constant `ClientId`.

**Subscription** has one connection: handler, subscription tasks, writer, and
the bounded outbound channel. tokio's broadcast ring gives `Lagged(n)` to a
receiver more than `RingCap` behind. `abort` takes effect at the task's next
wait; `awake` says whether the task is inside a poll. A read error leaves
`handle_client` through `?`, which detaches the task instead of aborting it.
Its abstract specification **EventStream** is what `docs/IPC.md` promises: an
event per relevant change, in order, and a drop report in the place of those
that were missed. `Implements` is `EventStream!Spec` under the mapping
`upto <- accounted`.

**ConfigReload** has every load as look-up, read, install (and for rules, a
second lock for the path), run by `main`, the watcher and the connections in
parallel, over files that change at any time. The history variable
`disturbed` marks the one thing the watcher's promise cannot survive: that main
or a client installs a text its file no longer holds (`Outdated`). The
watcher itself may fail to start (`watching`), and the daemon serves without it.

**Subscriber** puts the other end on `Subscription`: either the library, whose
reader task hands responses to an inbox and events to a bounded channel that
nobody reads before `connect_subscriber` has returned, or any other program
that reads what it is sent. Sockets count as part of the outbound channel.

**RulesEngine** has a rule's predicates as values or `Unset`, its place in the
file, and its priority; `load_toml` is a stable sort, `evaluate_node` the first
match. `Applies` and `Winner` are what `docs/book/src/rules.md` promises,
written without order or search.

**DeviceEvents** is what the three platform backends share: the machine's
devices, one callback at a time, and `broadcast` into a bounded channel, which
takes one step per event. **CoreAudio** has the list of the last callback
(`prev`) and the HAL's promise to call after a change, once for several changes
if they come close. A call that fails makes `hal_devices` return nothing, or
leave out the one device it was about.
**Wasapi** has the notifications in order, and looks the endpoint up when the
callback runs, not when it was sent. **NodeInfo** has the info listener of the
PipeWire loop and its two baselines by node id.

**Endpoints** composes the three with `RulesEngine`, start-up, the pump,
measurements and volumes; which platform it is, is chosen in `Init` and stays.
The pump takes an event in one step, since what happens inside that step is
the subject of `EventPump`. `lost` records what no daemon could know (a device
that came between the two lists, an event the channel had no room for), and
`owed` which devices a daemon with rules was told of and set the volume of;
only properties read them. A volume call of a spawned future may fail for any
device, and does for one that is not there or, on macOS, has no output.

**Sessions** has the daemon as a process: down, serving, in its select,
leaving, exited. A crash or exit drops every connection, and leaves a file
that was open as it is: created empty, torn, or whole. Of the graph it keeps
the links. Two saves of one name both truncate and then write from the start,
so that what is longer may stick out; a write that fails may leave part of the
file. A link that is asked for may be refused, by `create_object` or by PipeWire
later (`refused`). The select ends at a Shutdown, at ctrl-c, or when `serve`
does. systemd starts the daemon again after a
crash and not after status 0, which is what a failing `accept` ends in, too.

Definitions whose comment starts with *Slip* are plausible mistakes, such as
a forgotten guard or a wrong order. Each property is checked to fail when the
definition after the slip is replaced by it; no specification uses them.

## 3. What the runs check

| Run | Shows | Bounds |
|---|---|---|
| `core` | `GraphMirrorsServer`: the graph plus the events under way is PipeWire's state, for everything announced. `EventsFollowGraph`: the events clients hear describe the graph. `NoStalledRoute`: when the pump waits, no pending route is left that is sure to resolve; `NoRouteWaitsForever`: under fairness none waits while both its ends are up. `OneLinkPerMatch`. Types | two nodes with a port each and the link of a route, 4 registry changes, 5 reusable ids, channel of 2, one change before the subscription, rules and script put in force while the pump runs, one reload |
| `links` | `AnswerNamesTheLink`: a link id answered is that of the very link. `UnlinkReachesGraph` and `LinkAnswered`, under fairness. `GraphMirrorsServer` and `EventsFollowGraph` again, with links that are removed by themselves, by Unlink and after their nodes | a filter with ports both ways, 4 ids of a width of 8, 4 changes, 2 requests, 2 polls, Unlink and SetVolume name the id 12, which is cut to 4: a node, a port or a link, as it happens, or nothing |
| `config` | `NoSaveMissed`; `ScriptFollowsFile` under fairness; with a watcher that starts or not | a rules file, two scripts of which one is watched, every initial content, 2 saves, a client with 2 requests, loads of either script included |
| `stream` | `Implements`, `NothingUnaccounted`, `InOrderOnce` with a second subscription while the first task may still run | 2 subscriptions, 2 kinds and filters, ring of 1, 2 events, outbound channel of 1 |
| `served` | `SubscriberCatchesUp`, `RequestsAnswered`, `UnsubscribedTaskEnds` under fairness, with the library or another client at the other end; `LibraryOK` | 1 subscription, ring of 1, 3 events, outbound channel of 1, the library's channel of 2 |
| `endpoints` | `GraphMirrorsDevices`: a daemon that has caught up has the usable devices as nodes, on each platform. `RulesReachDevices`: a device announced has the volume of the rule that should win, unless the system refused the call. `XrunsCounted`, `LatencyRecorded` | 2 devices, 3 changes, 1 failing call, channel of 2, ring of 1 xrun, counters up to 3, volumes and latencies 0 to 2, 4 rules |
| `sessions` | `LoadsOnlySaved`, `SavedSnapshotLoads`; `RestoreReaches` and `ShutdownEnds` under fairness | 2 clients, 1 name, 1 link, 2 changes by others, 3 requests, 1 fault |
| `deny`, `pruned`, `paths`, `kinds`, `connect` | the findings of section 6 | for `paths` two clients, for `kinds` an application, a MIDI synthesizer and one change before the subscription, for `connect` the bounds of `served` |

Why the bounds are enough. The capacities 256 and 1024 only matter as "full"
and "not full", which channels of one or two slots reach at once. A route takes
two nodes, two ports and a link: five ids, and four changes to bring up both
ends in every order. A filter that links to itself takes three changes, so that
`links` has one left to take something away while the link is there. Two polls
have one that finds nothing and is followed by another. Two saves are enough to
have one during any step of a reload of the other, and another client file is
enough to take the watched script out of force and back. Two clients saving
under one name have every order of truncate, write and answer; the third
request is left for a Restore or a Shutdown among them, and links are restored
independently of each other, so that one shows all that can happen to it
(whole, with and without the link, differ in length, so that one may stick out
of the other). The library's channel of two can be filled by the three events
before the response, and also not be. Three changes let a device come, go and,
where the platform allows it, come again; the rules file has a rule without
predicates, one whose predicates hold only in part, and two of equal priority.
SetVolume by a rule is exercised in `endpoints` only, where devices have
volumes; by a client also in `links`. The larger runs have 2.1 million
(`endpoints`), 0.4 to 0.8 million (`core`, `links`, `config`) and 254 000
(`sessions`) states. All counters that would grow without end are bounded by a
constant named `Max...`, in a guard. `CHECK_DEADLOCK FALSE` is everywhere
because a run ends when its changes and requests are used up.

## 4. Fairness

Only what the runtime schedules is fair: the pump thread, start-up, the loop
thread's callbacks and commands, spawned futures, a connection's next step
(its timer fires), the watcher's task, the reporting of file changes: weak
fairness. Clients, editors and PipeWire owe nothing: no request, save or
registry change is ever forced, and PipeWire may refuse every link. Strong
fairness is assumed in one place (`Subscriber`): tokio's channel semaphore
hands out room first come, first served, so neither the handler nor the
subscription task starves while the client reads.

`Sessions` has weak fairness of the select, of the exit, of the loop thread and
of each connection's steps. The exit is enabled once no file operation of the
runtime's blocking pool is under way, because that is what dropping the runtime
waits for; the pump is a `std::thread` and is not waited for (a comment at
`state.rs:141` says "on a blocking thread"; the slip `PumpInPool` shows that
Shutdown would then hang). A restart is not forced, nor is a crash. The reader
task and the calls of the library are weakly fair; its caller is assumed to
take events once it has the channel.

## 5. What is proved

All theorems hold for every value of the constants under the named
assumptions (`GraphAssumption`, `BackendAssumption`, `PumpAssumption`,
`ClientAssumption`, `SubscriptionAssumption`, `ReloadAssumption`,
`SubscriberAssumption`, `SessionsAssumption`, `DeviceAssumption`,
`NodeInfoAssumption`, `EndpointsAssumption`) and what the theorem itself
assumes: types, positive capacities, distinct placeholders, and for `Endpoints`
that the devices are finitely many.

The prover instantiates no induction rule. Where a proof needs induction all
the same (a fold over the channel, a sort of a file of any length, the sum of
the counts of any number of nodes), it is led by a counterexample that is least:
least natural numbers (`LeastNatural`) and least finite subsets
(`LeastSubset`), which exist because these orders are well-founded.

* `EventPump_proofs!TypeCorrect`: `TypeOK` of backend, start-up and pump, which
  includes that the event channel never exceeds its capacity.
* `EventPump_proofs!StreamDescribesGraph`: `EventsFollowGraph`. Inductive
  together with `Booting`: enumeration overwrites the graph's nodes, which is
  harmless only because the pump has not run yet. The core of it is
  `ApplyMatchesHear`: applying an event and publishing it change the same
  entries.
* `EventPump_proofs!RoutesFireWhenReady`: `NoStalledRoute`. The invariant
  `RouteInv` carries "all pending routes are unresolvable" through the events
  that do not lead to a round of `try_fire_pending`, because those only take
  nodes and ports away (`OnlyAppearancesAdd`); `Clashing(graph) \subseteq
  clash` covers the case that the removal makes an ambiguous name unambiguous.
* `PumpProperties_proofs!OneMatchOneLink`: `OneLinkPerMatch`, if ids are not
  reused. The argument is one of age (`Truth`): a fresh id is none anybody has
  heard of, so whatever an event, the graph or the shared map says of an id is
  true of the global with that id for as long as there is one. `MatchedOnce`
  then has that no two node events on their way are for one id, and none is for
  an id that has a route or a task.
* `PumpProperties_proofs!PumpMirrorsServer`: `GraphMirrorsServer`, at every
  moment and with ids reused. The invariant does not fold over the channel but
  follows single claims through it (`Said`: the graph says it, or an event that
  is outstanding). `Heading` has three parts. What is said and does not hold
  any more is about to be undone. What holds is said, and not about to be
  undone. And before an id is given out again, what was said of it is undone;
  without this the first two are not inductive, since the graph keeps the first
  to appear under an id. `Standing` is what the registry owes (an id is of one
  kind at a time, and the pump is told of nothing that is gone); `Before`
  covers the time up to the subscription. That folding over the channel keeps a
  graph *heading* for PipeWire's is `HeadingOneMore`, one event at a time, and
  `DrainedHeading`, for all of them.
* `ClientOps_proofs!OpsTypeCorrect`: types of the clients' calls and answers
  and of all they interact with.
* `ClientOps_proofs!OpsMirrorServer`, `OpsStreamDescribesGraph`:
  `GraphMirrorsServer` and `EventsFollowGraph` under the specification of the
  clients. All a client does to the daemon is to queue a command
  (`ClientStepDaemon`), so the invariants are those of the pump.
* `ClientOps_proofs!AnswersNameLinks`: `AnswerNamesTheLink`, if ids are not
  reused; from `Truth` and the fact that an answered id was its link's when it
  was read (`AnswersTrue`).
* `EventStream_proofs!StreamLosesNothing`, `StreamInOrder`: the promised stream
  is worth promising. Invariant: each subscription accounts for all events
  between `from` and `upto`, with frames in order.
* `Subscriber_proofs!SubscriptionImplementsStream`: the connection implements
  the stream. Invariant: what a task that can still send holds is exactly the
  next frame of its stream, and its cursor agrees with it. Once the writer is
  gone this is lost (a failed EventsDropped is ignored), and no longer needed.
  With `SubscriptionTypeCorrect`: the outbound channel is bounded.
* `Subscriber_proofs!ConnectionLosesNothing`, `ConnectionInOrder`:
  `NothingUnaccounted` and `InOrderOnce` of the connection. They are not proved
  again but follow from the two theorems about the stream, through the
  refinement (`Promised`, an instance of `EventStream_proofs`).
* `Subscriber_proofs!SubscriberRunsSubscription`: with the library or another
  program at the other end, every step is one of the connection's or none;
  hence `SubscriberGetsStream`, the three above for whoever is connected.
* `Subscriber_proofs!LibraryTypeCorrect`: `LibraryOK`, which includes that no
  more than one response waits in the inbox. That takes following it the whole
  way: one response at most is anywhere between the handler and the inbox
  (`OneResponse`), and none while none is awaited (`NoResponse`).
* `ConfigReload_proofs!ConfigTypeCorrect`: what is in force always compiled.
* `ConfigReload_proofs!WatcherMissesNoSave`: `NoSaveMissed`, whatever clients
  load and reload meanwhile. Invariant: the watcher works only once it started,
  and until then no script is out of date unless installed so (`InOrder`); a
  text the watcher is about to install is the file's, or a later change is
  still to be noticed (`FreshOrNoticed`). It is the drain *before* the reload
  that makes the last part hold. A watcher that failed to start misses every
  save, and the property says nothing of it; neither does it of a text that was
  out of date when somebody else installed it.
* `Endpoints_proofs!HighestPriorityWins`: for every file of rules and every
  node, `evaluate_node` finds the promised winner, and nothing if there is
  none. `MatchesApplies` has that matching fields and meeting all criteria are
  the same, `WinnerComesFirst` that the winner comes before every other rule
  that matches. That there is a stable order for `LoadToml` to choose, however
  long the file, is proved too.
* `Endpoints_proofs!EndpointsTypeCorrect`: `TypeOK` on each of the platforms,
  the loaded rules, the event channel's capacity and the ring of xruns
  included.
* `Endpoints_proofs!GraphMirrorsTheDevices`: `GraphMirrorsDevices`, with
  `MirrorInv`. Its core, `Heading`, has that a device nothing was lost of is in
  the graph once all events under way are applied exactly if it is to be, and
  that on macOS the list of the last callback is right or a callback is still
  due. What makes it inductive differs by platform: the last notification
  queued for an endpoint finds it in the state it reports (`LastNotices`); a
  callback speaks of a device once, and says what is so (`Announced`); and what
  is no node never reaches the daemon (`Unlisted`).
* `Endpoints_proofs!RulesReachTheDevices`: `RulesReachDevices`, unless the
  system refuses a rule's call; from `RulesInv` and `HighestPriorityWins`. A
  device owed its rule's volume has it, or a call that sets it waits, or the
  event that spawns the call is under way (`Served`); and a call that was
  spawned is the rule's in force (`Spawned`).
* `Endpoints_proofs!LatencyIsRecorded`: `LatencyRecorded`. `LatencyInv` has
  that the last latency the listener let through is recorded, under way or
  lost, and that it is the one the node advertises unless its info is still to
  come.
* `Endpoints_proofs!XrunsAreCounted`: `XrunsCounted`. `XrunInv` balances the
  account of each node (`Accounted`): what was counted, plus the xruns among
  the events under way, is what the node reported since its first info, and
  never more. `LogInv` has that the total is the sum of the counts, and that
  the ring holds the latest of them.
* `Sessions_proofs!SessionsTypeCorrect`: types, and no link without its ports.
* `Sessions_proofs!RestoreLoadsOnlySaved`: `LoadsOnlySaved`. Inductive with
  `SavedInv`: what a connection is writing, and what any whole file holds, was
  captured under that name.
* `Sessions_proofs!AcknowledgedSnapshotStays`: `SavedSnapshotLoads`. `AckInv`
  has two parts. While one save alone has a file open (`owner`), the file is as
  that save left it: empty before its write, whole with its links after. Once
  it was acknowledged, no connection has the file open. Neither is inductive
  without the other, since a save that starts later takes the ownership away
  and one that was open earlier never gains it.

The invariants of `Sessions` follow from its steps alone; fairness is not used.

Only model-checked: liveness (`NoRouteWaitsForever`, `UnlinkReachesGraph`,
`LinkAnswered`, `ScriptFollowsFile`, `SubscriberCatchesUp`, `RequestsAnswered`,
`UnsubscribedTaskEnds`, `RestoreReaches`, `ShutdownEnds`),
because fairness and `ENABLED` are beyond the prover. Every invariant that a
passing run checks is proved.

## 6. Findings and exceptions

Runs that TLC is meant to refute:

* `deny`: a removed node leaves its pending route behind, and a node the rules
  deny inherits it with the id.
* `pruned`: `broadcast` takes a full channel for a dead subscriber; after a
  burst the daemon hears nothing of PipeWire any more.
* `paths`: rules and rules path are replaced under two locks, and two loads
  can leave the one with the other's path.
* `kinds`: `ipc_server.rs:356` says "we never accept an Audio→MIDI or
  MIDI→Audio pair". A node that appears between `enumerate_nodes` and
  `subscribe` never gets into the graph; its port, if it appears later, does.
  The kind of such a sink is `None`, and any source is accepted.
* `connect`: `connect_subscriber` promises the event stream
  (`crates/ipc/src/client.rs:106`). More events ahead of the response than the
  library's channel holds (256, in the model two) stop its reader, which waits
  for room that only the caller could make, and the caller waits for the
  response. `docs/IPC.md:50` has the response come first.

Disagreements between the code and its documents that were met on the way and
are described here only:

* `docs/book/src/rules.md:19` calls `node_name` a "substring match"; the code
  compares for equality (`rules.rs`, `evaluate_node`), and so do `Matches` and
  `Applies`. Line 36 of that page says that "`SetVolume` and `Notify` currently
  log only"; `handle_action` sets the volume. `RulesReachDevices` is therefore
  about the order and choice of rules, which the page states and the code keeps,
  with the code's notion of a match and of what SetVolume does.
* `docs/IPC.md` has Subscribe answer "`Empty`, then an `Event` stream"; events
  may come first (see `connect`), and
  Shutdown answer "`Empty`, then the daemon exits"; one that comes before main
  waits is answered and lost.
* `DESIGN.md:117` has Restore "diff against current graph"; the code asks for
  all links, whether they exist or not. `DESIGN.md:246` expects
  that the daemon "survives PipeWire restart"; it hears nothing afterwards, and
  the port ids in a snapshot mean nothing in the next session.
* The comment at `crates/pipewire-backend/src/lib.rs:372` speaks of a baseline
  per node; it is per id, and a node that is given a used id inherits it.
* `crates/coreaudio-backend/src/lib.rs:24` and `README.md:25` describe routing by
  the default device, and ports that are synthesized. The daemon links ports by
  id and is told of none on these platforms, so that `create_link` is never
  called there.
* A failing `bind` or `accept` ends the daemon with status 0, which systemd's
  `Restart=on-failure` does not take for a failure.

Exceptions the properties make, each because the code breaks the property
without it:

* `NoStalledRoute` and `NoRouteWaitsForever` except targets whose name two
  nodes have shared. `try_fire_pending` looks at one arbitrary node of that
  name; if that one has no input port and is then removed, nothing tries the
  route again.
* `GraphMirrorsServer` and `EventsFollowGraph` except nodes that `main`
  enumerated: the shared map is never pruned, and what appears between
  enumeration and subscription is missed. `GraphMirrorsServer` speaks of the
  time before the pump is cut off.
* `AnswerNamesTheLink` and `UnlinkReachesGraph` are checked without reuse of
  ids. `OneLinkPerMatch` is proved without it: a task for a node that is gone
  may be followed by one for another node of its id. The bounds of `core`,
  which does reuse ids, do not reach that.
* `GraphMirrorsDevices` excepts devices on which two readings of the list
  disagree: between the first list, the listener, enumeration and subscription
  on macOS, and while a HAL call fails, for the whole list or for one device;
  those whose last event found the channel full; and on Windows endpoints that
  `OnDeviceAdded` announces although they are inactive. A macOS device that is
  enumerated before the listener's list has it, and gone before a coalesced
  call, stays in the graph; so does a PipeWire node that was gone before the
  enumeration, since the shared map `main` reads is never pruned.
* `RulesReachDevices` excepts a device for which the system refused a rule's
  volume call: the future logs the error, and nobody tries again. macOS refuses
  it for devices that have a volume per stream only. It also excepts devices
  that went away or that a client adjusted.
* `XrunsCounted` excepts ids that a second node was given. `LatencyRecorded`
  excepts samples broadcast before the pump subscribed: they are debounced
  against all the same and never recorded.
* `RestoreReaches` excepts a loop that is still being told of the ports, has
  lost PipeWire or has ended, links whose ports are gone, and links that
  `create_object` or PipeWire refused since the snapshot was loaded. The counts
  that Restore answers are of commands queued.
* `SavedSnapshotLoads` is about saves that no other save of the name
  overlapped.
* `ShutdownEnds` speaks of a Shutdown that main was waiting for.
* `NoSaveMissed` and `ScriptFollowsFile` except a daemon whose watcher failed
  to start: `main` logs "script watcher disabled" and serves on, and no save is
  noticed any more. They also except a script that was out of date when main or
  a client installed it, because the file was saved between its reading and its
  installation, or before the watch began: the watcher may have drained its
  message by then. The exception ends with the next save or install.
* `ScriptFollowsFile` speaks of a script in force that came from the watched
  file. A `routing.rhai` written later to a daemon without a script is noticed
  and never loaded, because `reload_script` needs a loaded script to know the
  path.

## 7. Not modelled, and what could come next

Left out of modelled components:

* `set_default_*` and mute of the macOS and Windows backends: the first is
  reached only by links between ports these backends never announce, the second
  has the shape of volume. `Drop` of the backends, and Quit: they run when the
  process ends.
* `RulesEngine::evaluate` and `evaluate_rule`, `add_link` and `next_link_id`,
  `snapshots::list`: the daemon does not call them.
* Quantiles and Prometheus text of the measurements, POD encoding of volumes,
  the retry of `Client` on a busy Windows pipe.

Not modelled:

* `policy/conflict.rs` and `SessionManager`: not used by the daemon.
* JSON encoding (`crates/ipc/src/lib.rs`, `codec.rs`): data, no control.
* CLI: one request and its printout. UI: requests like those of any client, and
  a window that asks again; nothing says what it may show between two answers.
* The Rhai interpreter, which is third-party.
* Mock backend, fuzz targets, packaging.

The safety properties of what is modelled are proved. What could come next is
more to say: the order in which spawned `set_volume` and `create_link` futures
run, which nothing fixes, so that the last of two volumes for a node may be
either; and abstract specifications, as `EventStream` is for a connection, of
the daemon's graph and of its snapshots.
