---------------------------- MODULE Subscription ----------------------------
(***************************************************************************)
(* One IPC connection that subscribes (crates/daemon/src/ipc_server.rs):   *)
(* the request handler, the subscription task do_subscribe spawns, the     *)
(* bounded outbound channel both feed, and the writer task that drains it. *)
(* It implements EventStream.                                              *)
(*                                                                         *)
(* DaemonState.events is a tokio broadcast channel (external): a ring of   *)
(* the last RingCap events with a cursor per receiver; a receiver that     *)
(* fell behind gets Lagged(n) and its cursor jumps to the oldest event     *)
(* retained.                                                               *)
(*                                                                         *)
(* JoinHandle::abort (external) cancels a task at its next await; a poll   *)
(* that is running meanwhile goes on until it has to wait.  awake[s] says  *)
(* whether the task is in a poll; an aborted task that waits never wakes.  *)
(***************************************************************************)
EXTENDS Naturals, Sequences

CONSTANTS
  Kind, Sub, RingCap, MaxEvents,  \* as in EventStream
  Filters,      \* filters a client may ask for: sets of kinds (Kind: none)
  OutboundCap,  \* capacity of the outbound channel (OUTBOUND_CAP)
  NoSub         \* stands for sub_handle = None

ASSUME SubscriptionAssumption ==
  /\ RingCap \in Nat \ {0}
  /\ MaxEvents \in Nat
  /\ Filters \subseteq SUBSET Kind
  /\ OutboundCap \in Nat \ {0}
  /\ NoSub \notin Sub

VARIABLES
  log,         \* kinds of the events sent on DaemonState.events
  started, filter, from,  \* as in EventStream
  cursor,      \* events each receiver is past
  task,        \* "none", "recv", "send", "done"
  held,        \* <<>> or <<frame>>: what a task in "send" is sending
  awake,       \* whether the task is in a poll
  aborted,     \* tasks JoinHandle::abort was called on
  accounted,   \* history: events each subscription has dealt with
  frames,      \* history: frames each task put into outbound
  outbound,    \* the outbound channel: "Response" or "Event" messages
  writing,     \* whether the writer task still runs
  handler,     \* "idle", "reply", "gone"
  handle       \* ClientCtx.sub_handle

taskVars   == <<started, filter, from, cursor, task, held, awake, accounted, frames>>
clientVars == <<handler, handle, aborted>>
vars       == <<log, taskVars, outbound, writing, clientVars>>

Stream == INSTANCE EventStream WITH upto <- accounted

TasksOK ==
  /\ cursor \in [Sub -> Nat]
  /\ task \in [Sub -> {"none", "recv", "send", "done"}]
  /\ held \in [Sub -> Seq(Stream!Frame)]
  /\ awake \in [Sub -> BOOLEAN]
  /\ \A s \in Sub : /\ s \in started <=> task[s] # "none"
                    /\ Len(held[s]) <= 1
                    /\ task[s] = "send" => held[s] # <<>>

ConnectionOK ==
  /\ outbound \in Seq({"Response", "Event"}) /\ Len(outbound) <= OutboundCap
  /\ writing \in BOOLEAN
  /\ handler \in {"idle", "reply", "gone"}
  /\ handle \in started \cup {NoSub}
  /\ aborted \subseteq started

TypeOK == Stream!StreamTypeOK /\ TasksOK /\ ConnectionOK

Init ==
  /\ log = <<>>
  /\ started = {}
  /\ filter = [s \in Sub |-> {}]
  /\ from = [s \in Sub |-> 0]
  /\ cursor = [s \in Sub |-> 0]
  /\ task = [s \in Sub |-> "none"]
  /\ held = [s \in Sub |-> <<>>]
  /\ awake = [s \in Sub |-> FALSE]
  /\ aborted = {}
  /\ accounted = [s \in Sub |-> 0]
  /\ frames = [s \in Sub |-> <<>>]
  /\ outbound = <<>>
  /\ writing = TRUE
  /\ handler = "idle"
  /\ handle = NoSub

\* The pump or a policy task sends an event to all receivers.
Publish(kind) ==
  /\ Len(log) < MaxEvents
  /\ log' = Append(log, kind)
  /\ UNCHANGED <<taskVars, outbound, writing, clientVars>>

-----------------------------------------------------------------------------
(***************************************************************************)
(* The request handler: one request at a time, each answered before the    *)
(* next is read.                                                           *)
(***************************************************************************)
\* Slip: the receiver starts with what the channel still retains.
SubscribeReplaying(s, kinds) ==
  /\ handler = "idle"
  /\ handle = NoSub
  /\ s \notin started
  /\ started' = started \cup {s}
  /\ filter' = [filter EXCEPT ![s] = kinds]
  /\ from' = [from EXCEPT ![s] = Len(log)]
  /\ cursor' = [cursor EXCEPT ![s] = 0]
  /\ accounted' = [accounted EXCEPT ![s] = Len(log)]
  /\ task' = [task EXCEPT ![s] = "recv"]
  /\ awake' = [awake EXCEPT ![s] = TRUE]
  /\ handle' = s
  /\ handler' = "reply"
  /\ UNCHANGED <<log, held, frames, outbound, writing, aborted>>

\* do_subscribe: the receiver exists from here on and the task may run before
\* the response is queued.
Subscribe(s, kinds) ==
  /\ handler = "idle"
  /\ handle = NoSub
  /\ s \notin started
  /\ started' = started \cup {s}
  /\ filter' = [filter EXCEPT ![s] = kinds]
  /\ from' = [from EXCEPT ![s] = Len(log)]
  /\ cursor' = [cursor EXCEPT ![s] = Len(log)]
  /\ accounted' = [accounted EXCEPT ![s] = Len(log)]
  /\ task' = [task EXCEPT ![s] = "recv"]
  /\ awake' = [awake EXCEPT ![s] = TRUE]
  /\ handle' = s
  /\ handler' = "reply"
  /\ UNCHANGED <<log, held, frames, outbound, writing, aborted>>

\* Slip: the handle is dropped, the task is not aborted.
UnsubscribeDetached ==
  /\ handler = "idle"
  /\ handler' = "reply"
  /\ handle' = NoSub
  /\ UNCHANGED <<log, taskVars, outbound, writing, aborted>>

\* Unsubscribe, with or without a subscription.
Unsubscribe ==
  /\ handler = "idle"
  /\ handler' = "reply"
  /\ aborted' = aborted \cup ({handle} \ {NoSub})
  /\ handle' = NoSub
  /\ UNCHANGED <<log, taskVars, outbound, writing>>

\* Any other request, and a Subscribe while there is a subscription, which
\* is a Conflict even if the task is over.
OtherRequest ==
  /\ handler = "idle"
  /\ handler' = "reply"
  /\ UNCHANGED <<log, taskVars, outbound, writing, handle, aborted>>

\* Slip: one place in the channel is kept free for events.
SendReplyIfRoomForTwo ==
  /\ handler = "reply"
  /\ writing
  /\ Len(outbound) + 1 < OutboundCap
  /\ outbound' = Append(outbound, "Response")
  /\ handler' = "idle"
  /\ UNCHANGED <<log, taskVars, writing, handle, aborted>>

SendReply ==
  /\ handler = "reply"
  /\ writing
  /\ Len(outbound) < OutboundCap
  /\ outbound' = Append(outbound, "Response")
  /\ handler' = "idle"
  /\ UNCHANGED <<log, taskVars, writing, handle, aborted>>

\* The end of the loop: end of input, or the writer is gone.
HangUp ==
  /\ \/ handler = "idle"
     \/ handler = "reply" /\ ~writing
  /\ handler' = "gone"
  /\ aborted' = aborted \cup ({handle} \ {NoSub})
  /\ handle' = NoSub
  /\ UNCHANGED <<log, taskVars, outbound, writing>>

\* A read error leaves handle_client through `?`: the JoinHandle is dropped,
\* which detaches the task and does not abort it.
ReadError ==
  /\ handler = "idle"
  /\ handler' = "gone"
  /\ handle' = NoSub
  /\ UNCHANGED <<log, taskVars, outbound, writing, aborted>>

-----------------------------------------------------------------------------
(***************************************************************************)
(* The subscription task.                                                  *)
(***************************************************************************)
Behind(s) == Len(log) - cursor[s]

\* Slip: the receiver skips what it missed without a word.
LagSilently(s) ==
  /\ Len(log) > cursor[s] + RingCap
  /\ cursor' = [cursor EXCEPT ![s] = Len(log) - RingCap]
  /\ accounted' = [accounted EXCEPT ![s] = Len(log) - RingCap]
  /\ UNCHANGED <<task, held>>

\* Slip: Lagged is taken for the end of the channel.
LagEnds(s) ==
  /\ Len(log) > cursor[s] + RingCap
  /\ task' = [task EXCEPT ![s] = "done"]
  /\ UNCHANGED <<cursor, accounted, held>>

\* recv gives Lagged(n): n events are gone, whatever their kind.
Lag(s) ==
  LET oldest == Len(log) - RingCap
  IN  /\ Len(log) > cursor[s] + RingCap
      /\ held' = [held EXCEPT ![s] = <<Stream!DroppedFrame(cursor[s] + 1, oldest)>>]
      /\ cursor' = [cursor EXCEPT ![s] = oldest]
      /\ task' = [task EXCEPT ![s] = "send"]
      /\ UNCHANGED accounted

\* Slip: the filter is not consulted.
TakeUnfiltered(s) ==
  /\ cursor[s] < Len(log)
  /\ Len(log) <= cursor[s] + RingCap
  /\ held' = [held EXCEPT ![s] = <<Stream!EventFrame(cursor[s] + 1)>>]
  /\ cursor' = [cursor EXCEPT ![s] = cursor[s] + 1]
  /\ task' = [task EXCEPT ![s] = "send"]
  /\ UNCHANGED accounted

\* recv gives the next event, and the filter lets it through.
Take(s) ==
  LET n == cursor[s] + 1
  IN  /\ n <= Len(log)
      /\ Len(log) <= cursor[s] + RingCap
      /\ log[n] \in filter[s]
      /\ held' = [held EXCEPT ![s] = <<Stream!EventFrame(n)>>]
      /\ cursor' = [cursor EXCEPT ![s] = n]
      /\ task' = [task EXCEPT ![s] = "send"]
      /\ UNCHANGED accounted

\* recv gives the next event, and the filter holds it back.
PassOver(s) ==
  LET n == cursor[s] + 1
  IN  /\ n <= Len(log)
      /\ Len(log) <= cursor[s] + RingCap
      /\ log[n] \notin filter[s]
      /\ cursor' = [cursor EXCEPT ![s] = n]
      /\ accounted' = [accounted EXCEPT ![s] = IF accounted[s] = cursor[s] THEN n ELSE @]
      /\ UNCHANGED <<task, held>>

Recv(s) ==
  /\ task[s] = "recv"
  /\ awake[s]
  /\ Lag(s) \/ Take(s) \/ PassOver(s)
  /\ UNCHANGED <<log, started, filter, from, awake, frames, outbound, writing, clientVars>>

\* Slip: events do not wait for room.
SendEventAnyway(s) ==
  /\ task[s] = "send"
  /\ awake[s]
  /\ writing
  /\ outbound' = Append(outbound, "Event")
  /\ frames' = [frames EXCEPT ![s] = Append(frames[s], held[s][1])]
  /\ accounted' = [accounted EXCEPT ![s] = held[s][1].last]
  /\ held' = [held EXCEPT ![s] = <<>>]
  /\ task' = [task EXCEPT ![s] = "recv"]
  /\ UNCHANGED <<log, started, filter, from, cursor, awake, writing, clientVars>>

SendEvent(s) ==
  /\ task[s] = "send"
  /\ awake[s]
  /\ writing
  /\ Len(outbound) < OutboundCap
  /\ outbound' = Append(outbound, "Event")
  /\ frames' = [frames EXCEPT ![s] = Append(frames[s], held[s][1])]
  /\ accounted' = [accounted EXCEPT ![s] = held[s][1].last]
  /\ held' = [held EXCEPT ![s] = <<>>]
  /\ task' = [task EXCEPT ![s] = "recv"]
  /\ UNCHANGED <<log, started, filter, from, cursor, awake, writing, clientVars>>

\* The writer is gone: an event that cannot be sent ends the task, a failed
\* EventsDropped is ignored.
SendFails(s) ==
  /\ task[s] = "send"
  /\ awake[s]
  /\ ~writing
  /\ held' = [held EXCEPT ![s] = <<>>]
  /\ task' = [task EXCEPT ![s] = IF held[s][1].type = "Event" THEN "done" ELSE "recv"]
  /\ UNCHANGED <<log, started, filter, from, cursor, awake, accounted, frames, outbound,
                 writing, clientVars>>

MustWait(s) ==
  \/ task[s] = "recv" /\ Behind(s) = 0
  \/ task[s] = "send" /\ writing /\ Len(outbound) = OutboundCap

Wait(s) ==
  /\ awake[s]
  /\ MustWait(s)
  /\ awake' = [awake EXCEPT ![s] = FALSE]
  /\ UNCHANGED <<log, started, filter, from, cursor, task, held, accounted, frames,
                 outbound, writing, clientVars>>

Wake(s) ==
  /\ task[s] \in {"recv", "send"}
  /\ ~awake[s]
  /\ s \notin aborted
  /\ ~MustWait(s)
  /\ awake' = [awake EXCEPT ![s] = TRUE]
  /\ UNCHANGED <<log, started, filter, from, cursor, task, held, accounted, frames,
                 outbound, writing, clientVars>>

\* Cancellation: the future is dropped, with the frame it was sending.
Cancel(s) ==
  /\ s \in aborted
  /\ task[s] \in {"recv", "send"}
  /\ task' = [task EXCEPT ![s] = "done"]
  /\ UNCHANGED <<log, started, filter, from, cursor, held, awake, accounted, frames,
                 outbound, writing, clientVars>>

-----------------------------------------------------------------------------
(***************************************************************************)
(* The writer, and the client behind it, which may stop reading any time.  *)
(***************************************************************************)
Write ==
  /\ writing
  /\ outbound # <<>>
  /\ outbound' = Tail(outbound)
  /\ UNCHANGED <<log, taskVars, writing, clientVars>>

WriteError ==
  /\ writing
  /\ writing' = FALSE
  /\ outbound' = <<>>
  /\ UNCHANGED <<log, taskVars, clientVars>>

TaskStep(s) ==
  Recv(s) \/ SendEvent(s) \/ SendFails(s) \/ Wait(s) \/ Wake(s) \/ Cancel(s)

Next ==
  \/ \E kind \in Kind : Publish(kind)
  \/ \E s \in Sub, kinds \in Filters : Subscribe(s, kinds)
  \/ Unsubscribe \/ OtherRequest \/ SendReply \/ HangUp \/ ReadError
  \/ \E s \in Sub : TaskStep(s)
  \/ Write \/ WriteError

Spec == Init /\ [][Next]_vars

-----------------------------------------------------------------------------
(***************************************************************************)
(* Properties.                                                             *)
(***************************************************************************)
\* What every connection is promised (docs/IPC.md, 3 and 4), whatever the
\* races of handler, task, writer and publishers.
Implements == Stream!Spec

NothingUnaccounted == Stream!NothingUnaccounted
InOrderOnce        == Stream!InOrderOnce

=============================================================================
