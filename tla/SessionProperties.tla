--------------------------- MODULE SessionProperties ---------------------------
(***************************************************************************)
(* What Snapshot, Restore and Shutdown promise, and what they do not.      *)
(***************************************************************************)
EXTENDS Sessions

\* Restore applies nothing but a set of links that some Snapshot of that name
\* captured, whatever crashes and concurrent saves left in the file (load).
LoadsOnlySaved ==
  \A c \in Client : conn[c].at = "restoring" => conn[c].links \in saved[conn[c].name]

\* The snapshot a client was told of stays in the file as captured until
\* another save of that name opens it: no crash, restart or failure changes
\* it (save, do_snapshot).
SavedSnapshotLoads ==
  \A n \in Name : acked[n].state = "whole" => file[n] = acked[n]

\* Every link of a snapshot being restored comes to exist, also one the graph
\* still shows although it is gone, and one others disconnect meanwhile, unless
\* PipeWire refuses it, its ports are gone, the loop is not up, or the daemon is
\* not (apply_snapshot).
RestoreReaches ==
  \A l \in Link :
    (\E c \in Client : conn[c].at = "restoring" /\ l \in conn[c].links \ conn[c].applied)
      ~> l \in wired \/ l \notin ports \/ loop # "up" \/ ~Alive \/ l \in refused

\* A Shutdown that is handled once main waits ends the process, whatever
\* clients are connected and saves are running (do_shutdown, main).
ShutdownEnds == notified ~> daemon \in {"exited", "down"}

=============================================================================
