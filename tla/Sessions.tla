------------------------------ MODULE Sessions ------------------------------
(***************************************************************************)
(* The life of the daemon and what is to outlive it: start-up, Shutdown    *)
(* and crashes (main.rs, serve_unix, do_shutdown), and the Snapshot and    *)
(* Restore requests (ipc_server.rs, state.rs, crates/snapshots).           *)
(*                                                                         *)
(* The graph, the pump and the backend are reduced to links: which exist   *)
(* in PipeWire (external), which the daemon has heard of, and which it has *)
(* asked for.  PwBackend and EventPump have them in detail.  systemd       *)
(* (external) starts the daemon again after a crash, not after status 0.   *)
(***************************************************************************)
EXTENDS Integers, Sequences, SequencesExt, FiniteSets

CONSTANTS
  Client,       \* connections
  Name,         \* snapshot names
  Link,         \* pairs of port ids
  None,         \* no connection
  MaxChanges,   \* bound: changes of links and ports by others
  MaxRequests,  \* bound: requests of all clients
  MaxFaults     \* bound: crashes, PipeWire restarts, failed calls

ASSUME SessionsAssumption ==
  /\ MaxChanges \in Nat /\ MaxRequests \in Nat /\ MaxFaults \in Nat
  /\ None \notin Client
  /\ IsFiniteSet(Link)

VARIABLES
  ports,     \* links whose ports exist
  wired,     \* links that exist
  refused,   \* history: links PipeWire refused since they were last restored
  loop,      \* the loop thread: "replaying" what exists, "up", "deaf" since
             \* PipeWire restarted, "closed"
  cmds,      \* links to create, on their way to the loop
  news,      \* link events on their way to the pump
  graph,     \* the links of DaemonState.graph
  daemon,    \* "down", "serving" as the socket is there, "ready" once main is
             \* in its select, "leaving", "exited" with status 0
  notified,  \* whether the Notified of the select was woken
  conn,      \* what each connection is doing
  file,      \* each snapshot file: "absent", "empty", "torn", or "whole" with
             \* its links
  changes, requests, faults,  \* left of each
  saved,     \* history: sets of links some Snapshot captured, by name
  owner,     \* history: the connection whose save alone has the file open
  acked      \* history: what the last undisturbed, acknowledged save wrote

pipewire == <<ports, wired, refused>>
backend  == <<loop, cmds, news>>
process  == <<daemon, notified>>
bounds   == <<changes, requests, faults>>
history  == <<saved, owner, acked>>
vars == <<pipewire, backend, graph, process, conn, file, bounds, history>>

Idle == [at |-> "idle"]
Saving(at, n, S) == [at |-> at, name |-> n, links |-> S]
Restoring(n, S, todo) ==
  [at |-> "restoring", name |-> n, links |-> S, todo |-> todo, applied |-> {}]

Connection ==
  {Idle} \cup [at : {"captured", "open", "written"}, name : Name, links : SUBSET Link]
         \cup [at : {"restoring"}, name : Name, links : SUBSET Link,
                 todo : SUBSET Link, applied : SUBSET Link]

Whole(S)   == [state |-> "whole", links |-> S]
Useless(s) == [state |-> s, links |-> {}]
File == {Useless(s) : s \in {"absent", "empty", "torn"}} \cup {Whole(S) : S \in SUBSET Link}

Change == [type : {"LinkAppeared", "LinkRemoved"}, link : Link]

\* No link without its ports.
LinksOK ==
  /\ ports \subseteq Link /\ wired \subseteq ports /\ refused \subseteq Link
  /\ loop \in {"replaying", "up", "deaf", "closed"}
  /\ cmds \in Seq(Link)
  /\ news \in Seq(Change)
  /\ graph \subseteq Link

ProcessOK ==
  /\ daemon \in {"down", "serving", "ready", "leaving", "exited"}
  /\ notified \in BOOLEAN
  /\ changes \in 0..MaxChanges /\ requests \in 0..MaxRequests /\ faults \in 0..MaxFaults

SavesOK ==
  /\ conn \in [Client -> Connection]
  /\ file \in [Name -> File]
  /\ saved \in [Name -> SUBSET SUBSET Link]
  /\ owner \in [Name -> Client \cup {None}]
  /\ acked \in [Name -> File]

TypeOK == LinksOK /\ ProcessOK /\ SavesOK

Init ==
  /\ ports = Link
  /\ wired \in SUBSET Link
  /\ refused = {}
  /\ loop = "closed" /\ cmds = <<>> /\ news = <<>>
  /\ graph = {}
  /\ daemon = "down" /\ notified = FALSE
  /\ conn = [c \in Client |-> Idle]
  /\ file = [n \in Name |-> Useless("absent")]
  /\ changes = MaxChanges /\ requests = MaxRequests /\ faults = MaxFaults
  /\ saved = [n \in Name |-> {}]
  /\ owner = [n \in Name |-> None]
  /\ acked = [n \in Name |-> Useless("absent")]

Alive == daemon \in {"serving", "ready", "leaving"}

-----------------------------------------------------------------------------
(***************************************************************************)
(* PipeWire.                                                               *)
(***************************************************************************)
Tell(type, l) ==
  news' = IF Alive /\ loop \in {"replaying", "up"}
          THEN Append(news, [type |-> type, link |-> l]) ELSE news

Wire(l) ==
  /\ wired' = wired \cup {l}
  /\ IF l \in wired THEN UNCHANGED news ELSE Tell("LinkAppeared", l)

Unwire(l) ==
  /\ wired' = wired \ {l}
  /\ IF l \in wired THEN Tell("LinkRemoved", l) ELSE UNCHANGED news

\* Somebody else connects or disconnects two ports, or an application goes
\* with its ports; new ports are new links.
OthersChange(l) ==
  /\ changes > 0
  /\ changes' = changes - 1
  /\ \/ l \in ports \ wired /\ Wire(l) /\ UNCHANGED ports
     \/ l \in wired /\ Unwire(l) /\ UNCHANGED ports
     \/ l \in ports /\ Unwire(l) /\ ports' = ports \ {l}
  /\ UNCHANGED <<refused, loop, cmds, graph, process, conn, file, requests, faults, history>>

Fault == faults > 0 /\ faults' = faults - 1 /\ UNCHANGED <<changes, requests>>

\* No links survive, ids are given anew, and the loop does not connect again.
PipeWireRestarts ==
  /\ Fault
  /\ wired' = {}
  /\ ports' \in SUBSET Link
  /\ loop' = IF loop = "closed" THEN "closed" ELSE "deaf"
  /\ UNCHANGED <<refused, cmds, news, graph, process, conn, file, history>>

-----------------------------------------------------------------------------
(***************************************************************************)
(* The life of the daemon.                                                 *)
(***************************************************************************)
\* The loop replays the links that exist, if there is a PipeWire to connect
\* to; the pump hears those told after it subscribed, in no particular order.
\* Start-up before the socket is there is in EventPump and Endpoints.
Start ==
  /\ daemon = "down"
  /\ daemon' = "serving" /\ notified' = FALSE
  /\ graph' = {}
  /\ cmds' = <<>>
  /\ \/ /\ loop' = "closed" /\ news' = <<>>
        /\ Fault
     \/ /\ loop' = "replaying"
        /\ \E S \in SUBSET wired : \E s \in SetToSeqs(S) :
             news' = [i \in DOMAIN s |-> [type |-> "LinkAppeared", link |-> s[i]]]
        /\ UNCHANGED bounds
  /\ UNCHANGED <<pipewire, conn, file, history>>

\* All that exists has been told: from here on create_link finds the ports
\* and the link factory.
Replayed ==
  /\ Alive
  /\ loop = "replaying"
  /\ loop' = "up"
  /\ UNCHANGED <<pipewire, cmds, news, graph, process, conn, file, bounds, history>>

\* main goes on to its select.
Select ==
  /\ daemon = "serving"
  /\ daemon' = "ready"
  /\ UNCHANGED <<pipewire, backend, graph, notified, conn, file, bounds, history>>

\* serve returns when bind or accept fails, and the select then ends like any
\* other, as soon as main gets to it; or it ends at ctrl-c.
ServeEnds ==
  /\ daemon \in {"serving", "ready"}
  /\ Fault
  /\ daemon' = "leaving"
  /\ UNCHANGED <<pipewire, backend, graph, notified, conn, file, history>>

\* The select sees that it was notified.
Wake ==
  /\ daemon = "ready"
  /\ notified
  /\ daemon' = "leaving"
  /\ UNCHANGED <<pipewire, backend, graph, notified, conn, file, bounds, history>>

\* Slip: the pump runs in the runtime's blocking pool, too.
PumpInPool ==
  /\ \A c \in Client : conn[c].at # "open"
  /\ loop = "closed"

\* The runtime drops every task, and waits for file operations that started.
RuntimeDone == \A c \in Client : conn[c].at # "open"

\* Nobody saves any more.
Gone ==
  /\ conn' = [c \in Client |-> Idle]
  /\ owner' = [n \in Name |-> None]
  /\ UNCHANGED <<pipewire, cmds, news, graph, file, saved, acked>>

Exit ==
  /\ daemon = "leaving"
  /\ RuntimeDone
  /\ daemon' = "exited"
  /\ Gone
  /\ UNCHANGED <<loop, notified, bounds>>

\* A panic of main, or a signal: there is no handler for SIGTERM.  A file
\* that was open stays as it is.
Crash ==
  /\ Alive
  /\ Fault
  /\ daemon' = "down"
  /\ Gone
  /\ UNCHANGED <<loop, notified>>

-----------------------------------------------------------------------------
(***************************************************************************)
(* The loop and the pump.                                                  *)
(***************************************************************************)
\* Slip: the ports are not looked up.
Creates(l) == TRUE

Creatable(l) == l \in ports

\* create_link in the loop: without the ports, or the factory, nothing; and
\* create_object, or PipeWire later, may refuse, which is logged at most.
Execute ==
  /\ Alive
  /\ loop \in {"replaying", "up"}
  /\ cmds # <<>>
  /\ cmds' = Tail(cmds)
  /\ LET l == Head(cmds)
     IN  \/ Creatable(l) /\ Wire(l) /\ UNCHANGED refused
         \/ Creatable(l) /\ refused' = refused \cup {l} /\ UNCHANGED <<wired, news>>
         \/ (loop = "replaying" \/ ~Creatable(l)) /\ UNCHANGED <<wired, news, refused>>
  /\ UNCHANGED <<ports, loop, graph, process, conn, file, bounds, history>>

Applied(ev) ==
  IF ev.type = "LinkAppeared" THEN graph \cup {ev.link} ELSE graph \ {ev.link}

Pump ==
  /\ Alive
  /\ news # <<>>
  /\ news' = Tail(news)
  /\ graph' = Applied(Head(news))
  /\ UNCHANGED <<pipewire, loop, cmds, process, conn, file, bounds, history>>

-----------------------------------------------------------------------------
(***************************************************************************)
(* Snapshot: do_snapshot, build_snapshot, save.                            *)
(***************************************************************************)
Request(c) ==
  /\ Alive
  /\ conn[c] = Idle
  /\ requests > 0
  /\ requests' = requests - 1
  /\ UNCHANGED <<changes, faults>>

Becomes(c, state) == conn' = [conn EXCEPT ![c] = state]

\* build_snapshot: the links of the graph, under its lock.
BuildSnapshot(c, n) ==
  /\ Request(c)
  /\ Becomes(c, Saving("captured", n, graph))
  /\ saved' = [saved EXCEPT ![n] = @ \cup {graph}]
  /\ UNCHANGED <<pipewire, backend, graph, process, file, owner, acked>>

HasOpen(c, n) == conn[c].at = "open" /\ conn[c].name = n

\* tokio::fs::write creates or truncates the file first.
OpenFile(c) ==
  /\ Alive
  /\ conn[c].at = "captured"
  /\ LET n == conn[c].name
     IN  /\ Becomes(c, [conn[c] EXCEPT !.at = "open"])
         /\ file' = [file EXCEPT ![n] = Useless("empty")]
         /\ owner' = [owner EXCEPT ![n] = IF \E d \in Client : HasOpen(d, n) THEN None ELSE c]
         /\ acked' = [acked EXCEPT ![n] = Useless("absent")]
  /\ UNCHANGED <<pipewire, backend, graph, process, bounds, saved>>

\* The file after S was written from its start: what was longer sticks out.
SticksOut(old, S) ==
  \/ old.state = "torn"
  \/ old.state = "whole" /\ old.links # S /\ Cardinality(old.links) >= Cardinality(S)

Overlay(old, S) == {Whole(S)} \cup IF SticksOut(old, S) THEN {Useless("torn")} ELSE {}

WriteFile(c) ==
  /\ Alive
  /\ conn[c].at = "open"
  /\ \E f \in Overlay(file[conn[c].name], conn[c].links) :
       file' = [file EXCEPT ![conn[c].name] = f]
  /\ Becomes(c, [conn[c] EXCEPT !.at = "written"])
  /\ UNCHANGED <<pipewire, backend, graph, process, bounds, history>>

\* save fails before it opens the file, or with the file open (a full disk)
\* and perhaps half written: an error is answered, and the file is left so.
SaveFails(c) ==
  /\ Alive
  /\ conn[c].at \in {"captured", "open"}
  /\ Fault
  /\ Becomes(c, Idle)
  /\ owner' = [n \in Name |-> IF owner[n] = c THEN None ELSE owner[n]]
  /\ \/ UNCHANGED file
     \/ /\ conn[c].at = "open"
        /\ file' = [file EXCEPT ![conn[c].name] = Useless("torn")]
  /\ UNCHANGED <<pipewire, backend, graph, process, saved, acked>>

\* Slip: the answer does not wait for the write.
WrittenOrOpen(c) == conn[c].at \in {"open", "written"}

Written(c) == conn[c].at = "written"

Answer(c) ==
  /\ Alive
  /\ Written(c)
  /\ Becomes(c, Idle)
  /\ LET n == conn[c].name
     IN  IF owner[n] = c
         THEN /\ acked' = [acked EXCEPT ![n] = Whole(conn[c].links)]
              /\ owner' = [owner EXCEPT ![n] = None]
         ELSE UNCHANGED <<acked, owner>>
  /\ UNCHANGED <<pipewire, backend, graph, process, file, bounds, saved>>

-----------------------------------------------------------------------------
(***************************************************************************)
(* Restore and Shutdown: do_restore, load, apply_snapshot, do_shutdown.    *)
(***************************************************************************)
\* Slip: what does not parse is a snapshot without links.
ReadableOrEmpty(f) == IF f.state = "absent" THEN {} ELSE {f.links}

\* What load makes of a file: NotFound is answered unless it parses.
Readable(f) == IF f.state = "whole" THEN {f.links} ELSE {}

\* All links are asked for, whether they exist or not; DESIGN.md has a diff
\* with the graph instead.
ToApply(S) == S

Load(c, n) ==
  /\ Request(c)
  /\ \E S \in Readable(file[n]) : /\ Becomes(c, Restoring(n, S, ToApply(S)))
                                  /\ refused' = refused \ S
  /\ UNCHANGED <<ports, wired, backend, graph, process, file, history>>

\* create_link for the next link: counted as applied once it is queued, as
\* skipped if the loop has ended.
ApplyLink(c, l) ==
  /\ Alive
  /\ conn[c].at = "restoring"
  /\ l \in conn[c].todo
  /\ Becomes(c, [conn[c] EXCEPT !.todo = @ \ {l},
                                !.applied = IF loop = "closed" THEN @ ELSE @ \cup {l}])
  /\ cmds' = IF loop = "closed" THEN cmds ELSE Append(cmds, l)
  /\ UNCHANGED <<pipewire, loop, news, graph, process, file, bounds, history>>

\* Slip: a link that fails ends the restore.
TriedSome(c) == TRUE

TriedAll(c) == conn[c].todo = {}

\* The counts are answered.
AnswerRestore(c) ==
  /\ Alive
  /\ conn[c].at = "restoring"
  /\ TriedAll(c)
  /\ Becomes(c, Idle)
  /\ UNCHANGED <<pipewire, backend, graph, process, file, bounds, history>>

\* notify_waiters: whoever does not wait yet will not know.
Shutdown(c) ==
  /\ Request(c)
  /\ notified' = (notified \/ daemon = "ready")
  /\ UNCHANGED <<pipewire, backend, graph, daemon, conn, file, history>>

-----------------------------------------------------------------------------
Connections(c) ==
  \/ OpenFile(c) \/ WriteFile(c) \/ Answer(c) \/ AnswerRestore(c)
  \/ \E l \in Link : ApplyLink(c, l)

Requests(c) ==
  Shutdown(c) \/ \E n \in Name : BuildSnapshot(c, n) \/ Load(c, n)

Life == Start \/ Replayed \/ Select \/ Wake \/ Exit \/ ServeEnds \/ Crash

Next ==
  \/ PipeWireRestarts \/ \E l \in Link : OthersChange(l)
  \/ Life \/ Execute \/ Pump
  \/ \E c \in Client : Connections(c) \/ SaveFails(c) \/ Requests(c)

\* The runtime runs every task and blocking operation, the loop and the pump
\* are threads of their own.  Nobody has to ask for anything, to change
\* anything, or to fail.
Fairness ==
  /\ WF_vars(Wake) /\ WF_vars(Exit)
  /\ WF_vars(Execute)
  /\ \A c \in Client : WF_vars(Connections(c))

Spec == Init /\ [][Next]_vars /\ Fairness

=============================================================================
