----------------------------- MODULE Subscriber -----------------------------
(***************************************************************************)
(* Subscription with the client at the other end, and the progress of      *)
(* both.  The client is the library of crates/ipc/src/client.rs            *)
(* (connect_subscriber: Hello, Subscribe, and then only events), or any    *)
(* other program that reads what it is sent.                               *)
(*                                                                         *)
(* The library's reader task hands responses to an inbox, which never      *)
(* fills, and events to a bounded channel that nobody reads until          *)
(* connect_subscriber has returned.  What the socket holds counts as       *)
(* outbound.                                                               *)
(***************************************************************************)
EXTENDS Subscription

CONSTANT EventCap  \* capacity of the library's event channel (256)

ASSUME SubscriberAssumption == EventCap \in Nat \ {0}

VARIABLES
  peer,    \* "library" or "other"
  phase,   \* of connect_subscriber: "hello", "hello-sent", "subscribe",
           \* "subscribe-sent", "connected", "failed"
  reader,  \* what the reader task holds: "none", "Response", "Event"
  inbox,   \* responses in the inbox
  events   \* events in the event channel

library == <<peer, phase, reader, inbox, events>>
allVars == <<vars, library>>

\* The library's channel keeps to its capacity, and at most the two responses
\* it asked for wait in its inbox.
LibraryOK ==
  /\ peer \in {"library", "other"}
  /\ phase \in {"hello", "hello-sent", "subscribe", "subscribe-sent", "connected", "failed"}
  /\ reader \in {"none", "Response", "Event"}
  /\ inbox \in 0..2
  /\ events \in 0..EventCap

ConnectInit ==
  /\ Init
  /\ peer \in {"library", "other"}
  /\ phase = "hello"
  /\ reader = "none"
  /\ inbox = 0
  /\ events = 0

-----------------------------------------------------------------------------
(***************************************************************************)
(* Requests.                                                               *)
(***************************************************************************)
OtherPeerRequests ==
  /\ peer = "other"
  /\ \/ \E s \in Sub, kinds \in Filters : Subscribe(s, kinds)
     \/ Unsubscribe \/ OtherRequest
  /\ UNCHANGED library

SendHello ==
  /\ peer = "library"
  /\ phase = "hello"
  /\ OtherRequest
  /\ phase' = "hello-sent"
  /\ UNCHANGED <<peer, reader, inbox, events>>

SendSubscribe ==
  /\ peer = "library"
  /\ phase = "subscribe"
  /\ \E s \in Sub, kinds \in Filters : Subscribe(s, kinds)
  /\ phase' = "subscribe-sent"
  /\ UNCHANGED <<peer, reader, inbox, events>>

-----------------------------------------------------------------------------
(***************************************************************************)
(* The reader task and connect_subscriber.                                 *)
(***************************************************************************)
\* What the writer writes reaches the client, when its reader gets to it.
Deliver ==
  /\ Write
  /\ IF peer = "library"
     THEN reader = "none" /\ reader' = Head(outbound) ELSE UNCHANGED reader
  /\ UNCHANGED <<peer, phase, inbox, events>>

PassResponse ==
  /\ reader = "Response"
  /\ reader' = "none"
  /\ inbox' = inbox + 1
  /\ UNCHANGED <<vars, peer, phase, events>>

\* Slip: a channel without a bound.
AnyRoom == TRUE

Room == events < EventCap

PassEvent ==
  /\ reader = "Event"
  /\ Room
  /\ reader' = "none"
  /\ events' = events + 1
  /\ UNCHANGED <<vars, peer, phase, inbox>>

\* A response awaited by connect_subscriber; both are ok.
TakeResponse ==
  /\ inbox > 0
  /\ inbox' = inbox - 1
  /\ \/ phase = "hello-sent" /\ phase' = "subscribe"
     \/ phase = "subscribe-sent" /\ phase' = "connected"
  /\ UNCHANGED <<vars, peer, reader, events>>

\* The connection closed before a response that is still awaited.
Fail ==
  /\ peer = "library"
  /\ phase \in {"hello-sent", "subscribe-sent"}
  /\ ~writing
  /\ reader = "none" /\ inbox = 0
  /\ phase' = "failed"
  /\ UNCHANGED <<vars, peer, reader, inbox, events>>

\* The caller, who has the channel now, takes an event.
Consume ==
  /\ phase = "connected"
  /\ events > 0
  /\ events' = events - 1
  /\ UNCHANGED <<vars, peer, phase, reader, inbox>>

ReaderStep == Deliver \/ PassResponse \/ PassEvent
LibraryStep == SendHello \/ SendSubscribe \/ TakeResponse \/ Fail \/ Consume

ConnectNext ==
  \/ OtherPeerRequests \/ LibraryStep \/ ReaderStep
  \/ /\ \/ \E kind \in Kind : Publish(kind)
        \/ SendReply \/ HangUp \/ ReadError
        \/ \E s \in Sub : TaskStep(s)
        \/ WriteError
     /\ UNCHANGED library

(***************************************************************************)
(* Fairness: the runtimes poll every task that can run, the library goes   *)
(* on, its caller takes events, and other clients read.  Room in the       *)
(* outbound channel is handed out first come, first served (tokio's        *)
(* semaphore), so that neither side of it starves: strong fairness.  Other *)
(* clients owe no requests, and nothing has to fail.                       *)
(***************************************************************************)
Fairness ==
  /\ \A s \in Sub : /\ WF_allVars(TaskStep(s) /\ UNCHANGED library)
                    /\ SF_allVars(Wake(s) /\ UNCHANGED library)
                    /\ SF_allVars(SendEvent(s) /\ UNCHANGED library)
  /\ SF_allVars(SendReply /\ UNCHANGED library)
  /\ WF_allVars(ReaderStep)
  /\ WF_allVars(LibraryStep)

FairSpec == ConnectInit /\ [][ConnectNext]_allVars /\ Fairness

-----------------------------------------------------------------------------
(***************************************************************************)
(* Properties.  A library that is stuck, with an event nobody can take in  *)
(* front of the response it waits for, is the subject of ConnectReturns;   *)
(* what it does to the rest of the connection is excepted elsewhere.       *)
(***************************************************************************)
Stuck == phase = "subscribe-sent" /\ reader = "Event" /\ events = EventCap

\* As long as the connection works and the client stays subscribed, every
\* event is eventually delivered, held back by the filter, or reported
\* dropped (do_subscribe).
SubscriberCatchesUp ==
  \A s \in Sub :
    s \in started ~> \/ accounted[s] = Len(log)
                    \/ s \in aborted \/ ~writing \/ Stuck

\* Every request is answered, unless the connection breaks (handle_client).
RequestsAnswered == handler = "reply" ~> handler # "reply" \/ ~writing \/ Stuck

\* After Unsubscribe the task comes to an end.
UnsubscribedTaskEnds ==
  \A s \in Sub : s \in started /\ handle # s /\ handler # "gone" ~> task[s] = "done"

\* connect_subscriber connects, says Hello, subscribes and returns the event
\* stream (its doc comment): once the Subscribe is sent it returns, with the
\* stream or an error.  Not what the code does: the events that come before the
\* response may fill the channel that is read only afterwards.
ConnectReturns == phase = "subscribe-sent" ~> phase \in {"connected", "failed"}

=============================================================================
