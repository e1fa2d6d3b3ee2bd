------------------------- MODULE Subscriber_proofs -------------------------
(***************************************************************************)
(* Proofs about Subscription and Subscriber: the request handler, the      *)
(* subscription tasks and the writer of a connection together implement    *)
(* EventStream, for any number of subscriptions and events and any channel *)
(* capacities; so they do with the client library at the other end, which  *)
(* never has more than one response to wait for.                           *)
(***************************************************************************)
EXTENDS Subscriber, SequenceTheorems, TLAPS

(***************************************************************************)
(* What a task that can still send holds is the next frame of its stream.  *)
(* Once the writer is gone nothing more is sent, and a task may have lost  *)
(* an EventsDropped: the invariant speaks of working connections.          *)
(***************************************************************************)
NextFrame(s, f) ==
  \/ /\ f = Stream!EventFrame(accounted[s] + 1)
     /\ accounted[s] + 1 <= Len(log)
     /\ log[accounted[s] + 1] \in filter[s]
  \/ \E last \in 1..MaxEvents :
       /\ f = Stream!DroppedFrame(accounted[s] + 1, last)
       /\ accounted[s] < last
       /\ last + RingCap <= Len(log)

TaskInv(s) ==
  /\ cursor[s] <= Len(log)
  /\ writing /\ task[s] = "recv" => accounted[s] = cursor[s]
  /\ writing /\ task[s] = "send" => /\ NextFrame(s, held[s][1])
                                    /\ held[s][1].last = cursor[s]

SubscriptionInv == TypeOK /\ \A s \in Sub : TaskInv(s)

\* The frames a task builds are frames.
LEMMA FrameTypes ==
  \A a, b \in Nat : Stream!EventFrame(a) \in Stream!Frame /\ Stream!DroppedFrame(a, b) \in Stream!Frame
BY DEF Stream!EventFrame, Stream!DroppedFrame, Stream!Frame

\* The invariant holds initially.
LEMMA SubscriptionInit == Init => SubscriptionInv
<1> SUFFICES ASSUME Init PROVE SubscriptionInv
  OBVIOUS
<1> USE SubscriptionAssumption DEF Init
<1>1. Stream!StreamTypeOK
  BY DEF Stream!StreamTypeOK
<1>2. TasksOK
  BY DEF TasksOK
<1>3. ConnectionOK
  BY DEF ConnectionOK
<1>4. \A s \in Sub : TaskInv(s)
  BY DEF TaskInv
<1>. QED
  BY <1>1, <1>2, <1>3, <1>4 DEF SubscriptionInv, TypeOK

\* The stream variables stay well-formed.
LEMMA StreamTypeNext == TypeOK /\ [Next]_vars => Stream!StreamTypeOK'
<1> SUFFICES ASSUME TypeOK, [Next]_vars PROVE Stream!StreamTypeOK'
  OBVIOUS
<1> USE SubscriptionAssumption DEF Stream!StreamTypeOK, taskVars
<1>a. Stream!StreamTypeOK /\ TasksOK
  BY DEF TypeOK
<1>1. ASSUME NEW kind \in Kind, Publish(kind) PROVE Stream!StreamTypeOK'
  BY <1>1, <1>a DEF Publish
<1>2. ASSUME NEW s \in Sub, NEW kinds \in Filters, Subscribe(s, kinds) PROVE Stream!StreamTypeOK'
  BY <1>2, <1>a DEF Subscribe
<1>3. ASSUME NEW s \in Sub, Recv(s) PROVE Stream!StreamTypeOK'
  BY <1>3, <1>a DEF Recv, Lag, Take, PassOver, TasksOK
<1>4. ASSUME NEW s \in Sub, SendEvent(s) PROVE Stream!StreamTypeOK'
  <2>1. held[s][1] \in Stream!Frame
    BY <1>4, <1>a DEF SendEvent, TasksOK
  <2>2. held[s][1].last \in Nat
    BY <2>1 DEF Stream!Frame
  <2>. QED
    BY <1>4, <1>a, <2>1, <2>2 DEF SendEvent
<1>5. CASE UNCHANGED Stream!streamVars
  BY <1>5, <1>a DEF Stream!streamVars
<1>. QED
  BY <1>1, <1>2, <1>3, <1>4, <1>5
     DEF Next, TaskStep, vars, Unsubscribe, OtherRequest, SendReply, HangUp, ReadError,
         SendFails, Wait, Wake, Cancel, Write, WriteError, Stream!streamVars

\* The tasks stay well-formed.
LEMMA TasksNext == TypeOK /\ [Next]_vars => TasksOK'
<1> SUFFICES ASSUME TypeOK, [Next]_vars PROVE TasksOK'
  OBVIOUS
<1> USE SubscriptionAssumption DEF TasksOK
<1>a. Stream!StreamTypeOK /\ TasksOK
  BY DEF TypeOK
<1>b. Len(log) \in Nat
  BY <1>a DEF Stream!StreamTypeOK
<1>1. ASSUME NEW s \in Sub, NEW kinds \in Filters, Subscribe(s, kinds) PROVE TasksOK'
  BY <1>1, <1>a, <1>b DEF Subscribe
<1>2. ASSUME NEW s \in Sub, Recv(s) PROVE TasksOK'
  <2>1. CASE Lag(s)
    <3>1. Len(log) - RingCap \in Nat
      BY <1>a, <1>b, <2>1 DEF Lag
    <3>2. Stream!DroppedFrame(cursor[s] + 1, Len(log) - RingCap) \in Stream!Frame
      BY <1>a, <3>1, FrameTypes
    <3>. QED
      BY <1>2, <1>a, <2>1, <3>1, <3>2 DEF Recv, Lag
  <2>2. CASE Take(s)
    <3>1. Stream!EventFrame(cursor[s] + 1) \in Stream!Frame
      BY <1>a, FrameTypes
    <3>. QED
      BY <1>2, <1>a, <2>2, <3>1 DEF Recv, Take
  <2>3. CASE PassOver(s)
    BY <1>2, <1>a, <2>3 DEF Recv, PassOver
  <2>. QED
    BY <1>2, <2>1, <2>2, <2>3 DEF Recv
<1>3. ASSUME NEW s \in Sub, SendEvent(s) PROVE TasksOK'
  BY <1>3, <1>a DEF SendEvent
<1>4. ASSUME NEW s \in Sub, SendFails(s) PROVE TasksOK'
  BY <1>4, <1>a DEF SendFails
<1>5. ASSUME NEW s \in Sub, Wait(s) \/ Wake(s) PROVE TasksOK'
  BY <1>5, <1>a DEF Wait, Wake
<1>6. ASSUME NEW s \in Sub, Cancel(s) PROVE TasksOK'
  BY <1>6, <1>a DEF Cancel
<1>7. CASE UNCHANGED taskVars
  BY <1>7, <1>a DEF taskVars
<1>. QED
  BY <1>1, <1>2, <1>3, <1>4, <1>5, <1>6, <1>7
     DEF Next, TaskStep, vars, Publish, Unsubscribe, OtherRequest, SendReply, HangUp,
         ReadError, Write, WriteError

\* The connection stays well-formed; in particular the outbound channel never
\* holds more than its capacity.
LEMMA ConnectionNext == TypeOK /\ [Next]_vars => ConnectionOK'
<1> SUFFICES ASSUME TypeOK, [Next]_vars PROVE ConnectionOK'
  OBVIOUS
<1> USE SubscriptionAssumption DEF ConnectionOK, clientVars
<1>a. ConnectionOK
  BY DEF TypeOK
<1>1. ASSUME NEW s \in Sub, NEW kinds \in Filters, Subscribe(s, kinds) PROVE ConnectionOK'
  BY <1>1, <1>a DEF Subscribe
<1>2. CASE Unsubscribe \/ OtherRequest \/ HangUp \/ ReadError
  BY <1>2, <1>a DEF Unsubscribe, OtherRequest, HangUp, ReadError, taskVars
<1>3. CASE SendReply
  BY <1>3, <1>a DEF SendReply, taskVars
<1>4. ASSUME NEW s \in Sub, SendEvent(s) PROVE ConnectionOK'
  BY <1>4, <1>a DEF SendEvent
<1>5. CASE Write
  <2>1. outbound' \in Seq({"Response", "Event"}) /\ Len(outbound') <= OutboundCap
    BY <1>5, <1>a DEF Write
  <2>. QED
    BY <1>5, <1>a, <2>1 DEF Write, taskVars
<1>7. CASE WriteError
  <2>1. outbound' \in Seq({"Response", "Event"}) /\ Len(outbound') <= OutboundCap
    BY <1>7 DEF WriteError
  <2>. QED
    BY <1>7, <1>a, <2>1 DEF WriteError, taskVars
<1>6. CASE UNCHANGED <<started, outbound, writing, clientVars>>
  BY <1>6, <1>a
<1>. QED
  BY <1>1, <1>2, <1>3, <1>4, <1>5, <1>6, <1>7
     DEF Next, TaskStep, vars, taskVars, Publish, Recv, SendFails, Wait, Wake, Cancel

-----------------------------------------------------------------------------
(***************************************************************************)
(* The refinement.                                                         *)
(***************************************************************************)
\* What a task holds stays the next frame of its stream while others move.
LEMMA TaskUntouched ==
  ASSUME SubscriptionInv, Stream!StreamTypeOK', NEW s \in Sub,
         writing' => writing,
         UNCHANGED <<filter[s], cursor[s], task[s], held[s], accounted[s]>>,
         Len(log) <= Len(log'), \A n \in 1..Len(log) : log'[n] = log[n]
  PROVE  TaskInv(s)'
<1>1. /\ accounted[s] \in Nat /\ cursor[s] \in Nat /\ Len(log) \in Nat /\ Len(log') \in Nat
      /\ TaskInv(s)
  BY DEF SubscriptionInv, TypeOK, TasksOK, Stream!StreamTypeOK
<1>2. /\ filter'[s] = filter[s] /\ cursor'[s] = cursor[s] /\ task'[s] = task[s]
      /\ held'[s] = held[s] /\ accounted'[s] = accounted[s]
  OBVIOUS
<1>3. ASSUME NextFrame(s, held[s][1]) PROVE NextFrame(s, held[s][1])'
  <2>1. CASE /\ held[s][1] = Stream!EventFrame(accounted[s] + 1)
             /\ accounted[s] + 1 <= Len(log)
             /\ log[accounted[s] + 1] \in filter[s]
    <3>1. accounted[s] + 1 \in 1..Len(log)
      BY <1>1, <2>1
    <3>. QED
      BY <1>1, <1>2, <2>1, <3>1 DEF NextFrame
  <2>2. ASSUME NEW last \in 1..MaxEvents,
               held[s][1] = Stream!DroppedFrame(accounted[s] + 1, last),
               accounted[s] < last, last + RingCap <= Len(log)
        PROVE  NextFrame(s, held[s][1])'
    <3>1. last + RingCap <= Len(log')
      BY <1>1, <2>2, SubscriptionAssumption
    <3>. QED
      BY <1>2, <2>2, <3>1 DEF NextFrame
  <2>. QED
    BY <1>3, <2>1, <2>2 DEF NextFrame
<1>. QED
  BY <1>1, <1>2, <1>3 DEF TaskInv

\* Receiving: the frame taken into the hand is the next one of the stream,
\* an event held back by the filter is passed over in the stream as well.
LEMMA RecvStep ==
  ASSUME SubscriptionInv, NEW s \in Sub, Recv(s)
  PROVE  /\ TaskInv(s)'
         /\ Stream!PassOver(s) \/ UNCHANGED Stream!streamVars
<1>1. /\ accounted[s] \in Nat /\ cursor[s] \in Nat /\ Len(log) \in Nat
      /\ TaskInv(s) /\ task[s] = "recv" /\ s \in started
      /\ log' = log /\ filter' = filter /\ writing' = writing /\ Len(log) <= MaxEvents
      /\ task \in [Sub -> {"none", "recv", "send", "done"}] /\ held \in [Sub -> Seq(Stream!Frame)]
      /\ cursor \in [Sub -> Nat] /\ accounted \in [Sub -> Nat]
      /\ RingCap \in Nat /\ MaxEvents \in Nat
  BY SubscriptionAssumption DEF SubscriptionInv, TypeOK, TasksOK, Stream!StreamTypeOK, Recv
<1>2. CASE Lag(s)
  <2> DEFINE oldest == Len(log) - RingCap
  <2>1. /\ held'[s] = <<Stream!DroppedFrame(cursor[s] + 1, oldest)>>
        /\ cursor'[s] = oldest /\ task'[s] = "send" /\ accounted' = accounted
        /\ cursor[s] < oldest /\ oldest \in 1..MaxEvents /\ oldest + RingCap = Len(log)
    BY <1>1, <1>2 DEF Lag
  <2>2. held'[s][1] = Stream!DroppedFrame(cursor[s] + 1, oldest) /\ held'[s][1].last = oldest
    BY <2>1 DEF Stream!DroppedFrame
  <2>3. writing => NextFrame(s, held[s][1])'
    BY <1>1, <2>1, <2>2 DEF TaskInv, NextFrame
  <2>4. TaskInv(s)'
    BY <1>1, <2>1, <2>2, <2>3 DEF TaskInv
  <2>. QED
    BY <1>2, <2>4 DEF Lag, Recv, Stream!streamVars
<1>3. CASE Take(s)
  <2>1. /\ held'[s] = <<Stream!EventFrame(cursor[s] + 1)>>
        /\ cursor'[s] = cursor[s] + 1 /\ task'[s] = "send" /\ accounted' = accounted
        /\ cursor[s] + 1 <= Len(log) /\ log[cursor[s] + 1] \in filter[s]
    BY <1>1, <1>3 DEF Take
  <2>2. held'[s][1] = Stream!EventFrame(cursor[s] + 1) /\ held'[s][1].last = cursor[s] + 1
    BY <2>1 DEF Stream!EventFrame
  <2>3. writing => NextFrame(s, held[s][1])'
    BY <1>1, <2>1, <2>2 DEF TaskInv, NextFrame
  <2>4. TaskInv(s)'
    BY <1>1, <2>1, <2>2, <2>3 DEF TaskInv
  <2>. QED
    BY <1>3, <2>4 DEF Take, Recv, Stream!streamVars
<1>4. CASE PassOver(s)
  <2>1. /\ cursor'[s] = cursor[s] + 1 /\ cursor[s] + 1 <= Len(log)
        /\ log[cursor[s] + 1] \notin filter[s]
        /\ task' = task
        /\ accounted' = [accounted EXCEPT ![s] = IF accounted[s] = cursor[s]
                                               THEN cursor[s] + 1 ELSE accounted[s]]
    BY <1>1, <1>4 DEF PassOver
  <2>2. TaskInv(s)'
    BY <1>1, <2>1 DEF TaskInv
  <2>3. CASE accounted[s] = cursor[s]
    BY <1>1, <1>4, <2>1, <2>2, <2>3 DEF Recv, Stream!PassOver
  <2>4. CASE accounted[s] # cursor[s]
    <3>1. accounted' = accounted
      BY <1>1, <2>1, <2>4
    <3>. QED
      BY <1>4, <2>2, <3>1 DEF Recv, Stream!streamVars
  <2>. QED
    BY <2>3, <2>4
<1>. QED
  BY <1>2, <1>3, <1>4 DEF Recv

\* Sending: the frame in hand becomes the next frame of the stream.
LEMMA SendStep ==
  ASSUME SubscriptionInv, NEW s \in Sub, SendEvent(s)
  PROVE  /\ TaskInv(s)'
         /\ Stream!Deliver(s) \/ \E last \in 1..MaxEvents : Stream!Drop(s, last)
<1> DEFINE f == held[s][1]
<1>1. /\ accounted[s] \in Nat /\ cursor[s] \in Nat
      /\ TaskInv(s) /\ task[s] = "send" /\ writing /\ s \in started
      /\ log' = log /\ cursor' = cursor
      /\ accounted \in [Sub -> Nat] /\ task \in [Sub -> {"none", "recv", "send", "done"}]
  BY DEF SubscriptionInv, TypeOK, TasksOK, Stream!StreamTypeOK, SendEvent
<1>2. /\ accounted' = [accounted EXCEPT ![s] = f.last]
      /\ frames' = [frames EXCEPT ![s] = Append(frames[s], f)]
      /\ task'[s] = "recv" /\ UNCHANGED <<log, started, filter, from>>
  BY <1>1 DEF SendEvent
<1>3. NextFrame(s, f) /\ f.last = cursor[s]
  BY <1>1 DEF TaskInv
<1> HIDE DEF f
<1>4. TaskInv(s)'
  BY <1>1, <1>2, <1>3 DEF TaskInv
<1>5. CASE /\ f = Stream!EventFrame(accounted[s] + 1)
           /\ accounted[s] + 1 <= Len(log)
           /\ log[accounted[s] + 1] \in filter[s]
  <2>1. f.last = accounted[s] + 1
    BY <1>5 DEF Stream!EventFrame
  <2>. QED
    BY <1>1, <1>2, <1>4, <1>5, <2>1 DEF Stream!Deliver
<1>6. ASSUME NEW last \in 1..MaxEvents,
             f = Stream!DroppedFrame(accounted[s] + 1, last),
             accounted[s] < last, last + RingCap <= Len(log)
      PROVE  Stream!Drop(s, last)
  <2>1. f.last = last
    BY <1>6 DEF Stream!DroppedFrame
  <2>. QED
    BY <1>1, <1>2, <1>6, <2>1 DEF Stream!Drop
<1>. QED
  BY <1>3, <1>4, <1>5, <1>6 DEF NextFrame

\* Every step keeps the invariant and is a step of EventStream or invisible
\* to it.
LEMMA SubscriptionStep ==
  SubscriptionInv /\ [Next]_vars => SubscriptionInv' /\ [Stream!Next]_(Stream!streamVars)
<1> SUFFICES ASSUME SubscriptionInv, [Next]_vars
             PROVE  SubscriptionInv' /\ [Stream!Next]_(Stream!streamVars)
  OBVIOUS
<1>t. TypeOK /\ TypeOK'
  BY StreamTypeNext, TasksNext, ConnectionNext DEF SubscriptionInv, TypeOK
<1>a. /\ Stream!StreamTypeOK' /\ Len(log) \in Nat
      /\ filter \in [Sub -> SUBSET Kind] /\ cursor \in [Sub -> Nat]
      /\ task \in [Sub -> {"none", "recv", "send", "done"}]
      /\ held \in [Sub -> Seq(Stream!Frame)] /\ accounted \in [Sub -> Nat]
  BY <1>t DEF TypeOK, TasksOK, Stream!StreamTypeOK
\* What the other tasks hold is not affected by a step of one task.
<1>b. ASSUME NEW s \in Sub, TaskInv(s)', log' = log, writing' = writing,
             \A u \in Sub \ {s} :
               UNCHANGED <<filter[u], cursor[u], task[u], held[u], accounted[u]>>
      PROVE  SubscriptionInv'
  <2> SUFFICES ASSUME NEW u \in Sub \ {s} PROVE TaskInv(u)'
    BY <1>b, <1>t DEF SubscriptionInv
  <2>. QED
    BY <1>a, <1>b, TaskUntouched
\* Nor by a step that only publishes or ends the writer.
<1>c. ASSUME UNCHANGED <<filter, cursor, task, held, accounted>>, writing' => writing,
             Len(log) <= Len(log'), \A n \in 1..Len(log) : log'[n] = log[n]
      PROVE  SubscriptionInv'
  <2> SUFFICES ASSUME NEW u \in Sub PROVE TaskInv(u)'
    BY <1>t DEF SubscriptionInv
  <2>. QED
    BY <1>a, <1>c, TaskUntouched
<1>1. ASSUME NEW kind \in Kind, Publish(kind)
      PROVE  SubscriptionInv' /\ Stream!Next
  <2>1. Len(log) <= Len(log') /\ \A n \in 1..Len(log) : log'[n] = log[n]
    BY <1>1, <1>t DEF Publish, TypeOK, Stream!StreamTypeOK
  <2>2. Stream!Publish(kind)
    BY <1>1 DEF Publish, Stream!Publish, taskVars
  <2>. QED
    BY <1>1, <1>c, <2>1, <2>2 DEF Publish, taskVars, Stream!Next
<1>2. ASSUME NEW s \in Sub, NEW kinds \in Filters, Subscribe(s, kinds)
      PROVE  SubscriptionInv' /\ Stream!Next
  <2>1. kinds \in SUBSET Kind
    BY SubscriptionAssumption
  <2>2. Stream!Start(s, kinds)
    BY <1>2 DEF Subscribe, Stream!Start
  <2>3. TaskInv(s)'
    BY <1>2, <1>a DEF Subscribe, TaskInv
  <2>4. \A u \in Sub \ {s} : UNCHANGED <<filter[u], cursor[u], task[u], held[u], accounted[u]>>
    BY <1>2, <1>a DEF Subscribe
  <2>5. log' = log /\ writing' = writing
    BY <1>2 DEF Subscribe
  <2>6. SubscriptionInv'
    BY <1>b, <2>3, <2>4, <2>5
  <2>. QED
    BY <2>1, <2>2, <2>6 DEF Stream!Next
<1>3. ASSUME NEW s \in Sub, Recv(s)
      PROVE  SubscriptionInv' /\ [Stream!Next]_(Stream!streamVars)
  <2>1. \A u \in Sub \ {s} : UNCHANGED <<filter[u], cursor[u], task[u], held[u], accounted[u]>>
    BY <1>3, <1>a DEF Recv, Lag, Take, PassOver
  <2>2. log' = log /\ writing' = writing
    BY <1>3 DEF Recv
  <2>3. TaskInv(s)' /\ (Stream!PassOver(s) \/ UNCHANGED Stream!streamVars)
    BY <1>3, RecvStep
  <2>4. SubscriptionInv'
    BY <1>b, <2>1, <2>2, <2>3
  <2>. QED
    BY <2>3, <2>4 DEF Stream!Next
<1>4. ASSUME NEW s \in Sub, SendEvent(s)
      PROVE  SubscriptionInv' /\ Stream!Next
  <2>1. \A u \in Sub \ {s} : UNCHANGED <<filter[u], cursor[u], task[u], held[u], accounted[u]>>
    BY <1>4, <1>a DEF SendEvent
  <2>2. log' = log /\ writing' = writing
    BY <1>4 DEF SendEvent
  <2>3. TaskInv(s)' /\ (Stream!Deliver(s) \/ \E last \in 1..MaxEvents : Stream!Drop(s, last))
    BY <1>4, SendStep
  <2>4. SubscriptionInv'
    BY <1>b, <2>1, <2>2, <2>3
  <2>. QED
    BY <2>3, <2>4 DEF Stream!Next
<1>5. ASSUME NEW s \in Sub, SendFails(s) \/ Cancel(s)
      PROVE  SubscriptionInv' /\ UNCHANGED Stream!streamVars
  <2>1. /\ \A u \in Sub \ {s} : UNCHANGED <<filter[u], cursor[u], task[u], held[u], accounted[u]>>
        /\ log' = log /\ writing' = writing /\ cursor' = cursor
        /\ UNCHANGED Stream!streamVars
    BY <1>5, <1>a DEF SendFails, Cancel, Stream!streamVars
  <2>2. TaskInv(s)'
    BY <1>5, <1>a, <2>1 DEF SendFails, Cancel, TaskInv, SubscriptionInv
  <2>. QED
    BY <1>b, <2>1, <2>2
<1>6. ASSUME UNCHANGED <<log, started, filter, from, cursor, task, held, accounted, frames>>,
             writing' => writing
      PROVE  SubscriptionInv' /\ UNCHANGED Stream!streamVars
  BY <1>6, <1>a, <1>c DEF Stream!streamVars
<1>. QED
  BY <1>1, <1>2, <1>3, <1>4, <1>5, <1>6
     DEF Next, TaskStep, vars, taskVars, Unsubscribe, OtherRequest, SendReply, HangUp,
         ReadError, Wait, Wake, Write, WriteError

\* Type correctness: the bounds of the channels, and a task with nothing in
\* hand never sends.
THEOREM SubscriptionTypeCorrect == Spec => []TypeOK
<1>1. SubscriptionInv => TypeOK
  BY DEF SubscriptionInv
<1>. QED
  BY <1>1, SubscriptionInit, SubscriptionStep, PTL DEF Spec

\* The handler, the tasks it spawns and aborts, the bounded channels and the
\* writer give every subscription the stream docs/IPC.md promises.
THEOREM SubscriptionImplementsStream == Spec => Implements
<1>1. Init => Stream!Init
  BY DEF Init, Stream!Init
<1>. QED
  BY <1>1, SubscriptionInit, SubscriptionStep, PTL DEF Spec, Implements, Stream!Spec

\* What EventStream's proofs say of the promised stream holds of the stream
\* this connection gives.
Promised == INSTANCE EventStream_proofs WITH upto <- accounted

LEMMA SameStream ==
  /\ Stream!Init => Promised!Init
  /\ [Stream!Next]_(Stream!streamVars) => [Promised!Next]_(Promised!streamVars)
BY DEF Stream!Init, Promised!Init, Stream!Next, Promised!Next, Stream!streamVars,
       Promised!streamVars, Stream!Publish, Promised!Publish, Stream!Start, Promised!Start,
       Stream!Deliver, Promised!Deliver, Stream!PassOver, Promised!PassOver, Stream!Drop,
       Promised!Drop, Stream!EventFrame, Promised!EventFrame, Stream!DroppedFrame,
       Promised!DroppedFrame

\* Every event a subscription asked for and dealt with is in its stream, as
\* itself or among the dropped, whatever the connection goes through.
THEOREM ConnectionLosesNothing == Spec => []NothingUnaccounted
<1>1. Promised!Bounds
  BY SubscriptionAssumption DEF Promised!Bounds
<1>2. Promised!Spec => []Promised!NothingUnaccounted
  BY <1>1, Promised!StreamLosesNothing
<1>3. Promised!NothingUnaccounted => NothingUnaccounted
  BY DEF Promised!NothingUnaccounted, NothingUnaccounted, Stream!NothingUnaccounted,
         Promised!Accounted, Stream!Accounted, Promised!Covers, Stream!Covers
<1>. QED
  BY <1>2, <1>3, SameStream, SubscriptionImplementsStream, PTL
     DEF Implements, Stream!Spec, Promised!Spec

\* Its frames are in the order of the events and speak of none twice.
THEOREM ConnectionInOrder == Spec => []InOrderOnce
<1>1. Promised!Bounds
  BY SubscriptionAssumption DEF Promised!Bounds
<1>2. Promised!Spec => []Promised!InOrderOnce
  BY <1>1, Promised!StreamInOrder
<1>3. Promised!InOrderOnce => InOrderOnce
  BY DEF Promised!InOrderOnce, InOrderOnce, Stream!InOrderOnce, Promised!Ordered,
         Stream!Ordered, Promised!FrameOK, Stream!FrameOK
<1>. QED
  BY <1>2, <1>3, SameStream, SubscriptionImplementsStream, PTL
     DEF Implements, Stream!Spec, Promised!Spec

-----------------------------------------------------------------------------
(***************************************************************************)
(* The client library at the other end.                                    *)
(***************************************************************************)
\* What the library and its reader do, the connection does or does not see.
LEMMA ConnectStep == [ConnectNext]_allVars => [Next]_vars
BY DEF ConnectNext, OtherPeerRequests, LibraryStep, ReaderStep, SendHello, SendSubscribe,
       TakeResponse, Fail, Consume, Deliver, PassResponse, PassEvent, Next, allVars

\* Subscriber is Subscription with somebody at the other end.
THEOREM SubscriberRunsSubscription == FairSpec => Spec
<1>1. ConnectInit => Init
  BY DEF ConnectInit
<1>. QED
  BY <1>1, ConnectStep, PTL DEF FairSpec, Spec

\* So whoever is connected is promised the same stream.
THEOREM SubscriberGetsStream == FairSpec => Implements /\ []NothingUnaccounted /\ []InOrderOnce
BY SubscriberRunsSubscription, SubscriptionImplementsStream, ConnectionLosesNothing,
   ConnectionInOrder, PTL

(***************************************************************************)
(* Of the two requests of connect_subscriber the second is made when the   *)
(* first is answered, so that one response at most is somewhere between    *)
(* the handler and the inbox, and none while none is awaited.              *)
(***************************************************************************)
Responses == {k \in DOMAIN outbound : outbound[k] = "Response"}

OneResponse ==
  /\ \A j, k \in Responses : j = k
  /\ Responses # {} => handler # "reply" /\ reader # "Response" /\ inbox = 0
  /\ handler = "reply" /\ writing => reader # "Response" /\ inbox = 0
  /\ reader = "Response" => inbox = 0
  /\ inbox \in {0, 1}

NoResponse ==
  /\ handler # "reply" \/ ~writing
  /\ Responses = {} /\ reader # "Response" /\ inbox = 0

LibraryInv ==
  /\ LibraryOK
  /\ ~writing => outbound = <<>>
  /\ peer = "other" => phase = "hello" /\ reader = "none" /\ inbox = 0
  /\ peer = "library" =>
       /\ OneResponse
       /\ phase \notin {"hello-sent", "subscribe-sent"} => NoResponse

LEMMA LibraryInit == ConnectInit => LibraryInv
BY SubscriberAssumption
   DEF ConnectInit, Init, LibraryInv, LibraryOK, OneResponse, NoResponse, Responses

\* A message that joins or leaves the outbound channel.
LEMMA OutboundPlaces ==
  ASSUME outbound \in Seq({"Response", "Event"})
  PROVE  /\ \A k \in DOMAIN outbound : k \in Nat /\ k <= Len(outbound)
         /\ outbound' = Append(outbound, "Event") => Responses' = Responses
         /\ outbound' = Append(outbound, "Response") =>
              Responses' = Responses \cup {Len(outbound) + 1}
         /\ outbound # <<>> /\ outbound' = Tail(outbound) =>
              /\ Head(outbound) \in {"Response", "Event"}
              /\ Head(outbound) = "Response" <=> 1 \in Responses
              /\ \A k \in Responses' : k \in Nat /\ k # 0 /\ k + 1 \in Responses
<1>1. DOMAIN outbound = 1..Len(outbound) /\ Len(outbound) \in Nat
  BY LenProperties
<1>2. ASSUME NEW m \in {"Response", "Event"}, outbound' = Append(outbound, m)
      PROVE  Responses' = Responses \cup (IF m = "Response" THEN {Len(outbound) + 1} ELSE {})
  <2>1. DOMAIN outbound' = 1..(Len(outbound) + 1)
    BY <1>1, <1>2
  <2>2. \A k \in 1..(Len(outbound) + 1) :
          outbound'[k] = IF k = Len(outbound) + 1 THEN m ELSE outbound[k]
    BY <1>1, <1>2
  <2>. QED
    BY <1>1, <2>1, <2>2 DEF Responses
<1>3. ASSUME outbound # <<>>, outbound' = Tail(outbound)
      PROVE  /\ Head(outbound) \in {"Response", "Event"}
             /\ Head(outbound) = "Response" <=> 1 \in Responses
             /\ \A k \in Responses' : k \in Nat /\ k # 0 /\ k + 1 \in Responses
  <2>1. /\ Head(outbound) = outbound[1] /\ 1 \in DOMAIN outbound
        /\ outbound[1] \in {"Response", "Event"}
    BY <1>1, <1>3
  <2>2. /\ DOMAIN outbound' = 1..(Len(outbound) - 1)
        /\ \A k \in 1..(Len(outbound) - 1) : outbound'[k] = outbound[k + 1]
    BY <1>1, <1>3
  <2>. QED
    BY <1>1, <2>1, <2>2 DEF Responses
<1>. QED
  BY <1>1, <1>2, <1>3

LEMMA LibraryNext ==
  ASSUME LibraryInv, TypeOK, [ConnectNext]_allVars
  PROVE  LibraryInv'
<1>a. outbound \in Seq({"Response", "Event"}) /\ writing \in BOOLEAN
  BY DEF TypeOK, ConnectionOK
<1>e. /\ LibraryOK /\ inbox \in Nat /\ events \in Nat /\ EventCap \in Nat
      /\ events <= EventCap
  BY SubscriberAssumption DEF LibraryInv, LibraryOK
<1>1. CASE OtherPeerRequests
  <2>1. writing' = writing /\ outbound' = outbound
    BY <1>1 DEF OtherPeerRequests, Subscribe, Unsubscribe, OtherRequest, taskVars
  <2>. QED
    BY <1>1, <2>1 DEF OtherPeerRequests, library, LibraryInv, LibraryOK
<1>2. CASE SendHello \/ SendSubscribe
  <2>1. /\ peer = "library" /\ phase \in {"hello", "subscribe"}
        /\ phase' \in {"hello-sent", "subscribe-sent"}
        /\ UNCHANGED <<writing, outbound, peer, reader, inbox, events>>
    BY <1>2 DEF SendHello, SendSubscribe, OtherRequest, Subscribe, taskVars
  <2>. QED
    BY <2>1 DEF LibraryInv, LibraryOK, OneResponse, NoResponse, Responses
<1>3. CASE TakeResponse
  <2>1. /\ inbox > 0 /\ inbox' = inbox - 1 /\ phase \in {"hello-sent", "subscribe-sent"}
        /\ phase' \in {"subscribe", "connected"}
        /\ UNCHANGED <<peer, reader, events, writing, outbound, handler>>
    BY <1>3 DEF TakeResponse, vars, clientVars
  <2>2. peer = "library" /\ OneResponse
    BY <1>e, <2>1 DEF LibraryInv, LibraryOK
  <2>3. inbox = 1 /\ inbox' = 0
    BY <1>e, <2>1, <2>2 DEF OneResponse
  <2>4. Responses' = Responses
    BY <2>1 DEF Responses
  <2>5. OneResponse' /\ NoResponse'
    BY <2>1, <2>2, <2>3, <2>4 DEF OneResponse, NoResponse
  <2>6. LibraryOK'
    BY <1>e, <2>1, <2>3 DEF LibraryOK
  <2>. QED
    BY <2>1, <2>2, <2>5, <2>6 DEF LibraryInv
<1>4. CASE Fail
  <2>1. /\ peer = "library" /\ ~writing /\ reader = "none" /\ inbox = 0 /\ phase' = "failed"
        /\ UNCHANGED <<peer, reader, inbox, events, writing, outbound, handler>>
    BY <1>4 DEF Fail, vars, clientVars
  <2>2. outbound = <<>> /\ OneResponse
    BY <2>1 DEF LibraryInv
  <2>3. Responses' = Responses /\ Responses = {}
    BY <2>1, <2>2 DEF Responses
  <2>4. OneResponse' /\ NoResponse'
    BY <2>1, <2>2, <2>3 DEF OneResponse, NoResponse
  <2>5. LibraryOK'
    BY <1>e, <2>1 DEF LibraryOK
  <2>. QED
    BY <2>1, <2>2, <2>4, <2>5 DEF LibraryInv
<1>5. CASE Consume
  <2>1. events' \in 0..EventCap /\ UNCHANGED <<writing, outbound, handler>>
    BY <1>e, <1>5 DEF Consume, vars, clientVars
  <2>. QED
    BY <1>5, <2>1 DEF Consume, LibraryInv, LibraryOK, OneResponse, NoResponse, Responses
<1>6. CASE Deliver
  <2>1. /\ outbound # <<>> /\ outbound' = Tail(outbound) /\ writing
        /\ UNCHANGED <<writing, handler, peer, phase, inbox, events>>
    BY <1>6 DEF Deliver, Write, clientVars
  <2>2. CASE peer = "other"
    BY <1>6, <2>1, <2>2 DEF Deliver, LibraryInv, LibraryOK
  <2>3. CASE peer = "library"
    <3>1. reader = "none" /\ reader' = Head(outbound)
      BY <1>6, <2>3 DEF Deliver
    <3>2. /\ reader' \in {"Response", "Event"}
          /\ reader' = "Response" <=> 1 \in Responses
          /\ \A k \in Responses' : k \in Nat /\ k # 0 /\ k + 1 \in Responses
      BY <1>a, <2>1, <3>1, OutboundPlaces
    <3>0. \A j, k \in Responses : j = k
      BY <2>3 DEF LibraryInv, OneResponse
    <3>3. ASSUME NEW j \in Responses', NEW k \in Responses' PROVE j = k
      <4>1. j + 1 = k + 1 /\ j \in Nat /\ k \in Nat
        BY <3>0, <3>2, <3>3
      <4>. QED
        BY <4>1
    <3>4. ASSUME NEW j \in Responses' PROVE Responses # {} /\ 1 \notin Responses
      <4>1. j \in Nat /\ j # 0 /\ j + 1 \in Responses /\ j + 1 # 1
        BY <3>2, <3>4
      <4>. QED
        BY <3>0, <4>1
    <3>5. OneResponse'
      BY <2>1, <2>3, <3>2, <3>3, <3>4 DEF LibraryInv, OneResponse
    <3>6. NoResponse => NoResponse'
      BY <2>1, <3>2, <3>4 DEF NoResponse
    <3>. QED
      BY <2>1, <2>3, <3>2, <3>5, <3>6 DEF LibraryInv, LibraryOK
  <2>. QED
    BY <2>2, <2>3 DEF LibraryInv, LibraryOK
<1>7. CASE PassResponse
  <2>1. /\ reader = "Response" /\ reader' = "none" /\ inbox' = inbox + 1
        /\ UNCHANGED <<writing, outbound, handler, peer, phase, events>>
    BY <1>7 DEF PassResponse, vars, clientVars
  <2>2. peer = "library" /\ inbox = 0 /\ ~NoResponse
    BY <2>1 DEF LibraryInv, LibraryOK, OneResponse, NoResponse
  <2>3. Responses' = Responses
    BY <2>1 DEF Responses
  <2>4. OneResponse'
    BY <2>1, <2>2, <2>3 DEF LibraryInv, OneResponse
  <2>5. phase \in {"hello-sent", "subscribe-sent"}
    BY <2>2 DEF LibraryInv
  <2>6. LibraryOK'
    BY <1>e, <2>1, <2>2 DEF LibraryOK
  <2>. QED
    BY <2>1, <2>2, <2>4, <2>5, <2>6 DEF LibraryInv
<1>8. CASE PassEvent
  <2>1. /\ events' \in 0..EventCap /\ reader = "Event" /\ reader' = "none"
        /\ UNCHANGED <<writing, outbound, handler, peer, phase, inbox>>
    BY <1>e, <1>8 DEF PassEvent, Room, vars, clientVars
  <2>. QED
    BY <2>1 DEF LibraryInv, LibraryOK, OneResponse, NoResponse, Responses
<1>9. CASE SendReply /\ UNCHANGED library
  <2>1. /\ handler = "reply" /\ writing /\ outbound' = Append(outbound, "Response")
        /\ handler' = "idle"
        /\ UNCHANGED <<writing, peer, phase, reader, inbox, events>>
    BY <1>9 DEF SendReply, library
  <2>2. Responses' = Responses \cup {Len(outbound) + 1}
    BY <1>a, <2>1, OutboundPlaces
  <2>3. LibraryOK'
    BY <1>e, <2>1 DEF LibraryOK
  <2>4. CASE peer = "library"
    <3>1. ~NoResponse /\ Responses = {} /\ reader # "Response" /\ inbox = 0
      BY <2>1, <2>4 DEF LibraryInv, OneResponse, NoResponse
    <3>2. OneResponse'
      BY <2>1, <2>2, <3>1 DEF OneResponse
    <3>3. phase \in {"hello-sent", "subscribe-sent"}
      BY <2>4, <3>1 DEF LibraryInv
    <3>. QED
      BY <2>1, <2>3, <2>4, <3>2, <3>3 DEF LibraryInv
  <2>5. CASE peer = "other"
    BY <2>1, <2>3, <2>5 DEF LibraryInv
  <2>. QED
    BY <1>e, <2>4, <2>5 DEF LibraryOK
<1>10. CASE (\E s \in Sub : SendEvent(s)) /\ UNCHANGED library
  <2>1. /\ outbound' = Append(outbound, "Event") /\ writing
        /\ UNCHANGED <<writing, handler, peer, phase, reader, inbox, events>>
    BY <1>10 DEF SendEvent, library, clientVars
  <2>2. Responses' = Responses
    BY <1>a, <2>1, OutboundPlaces
  <2>. QED
    BY <2>1, <2>2 DEF LibraryInv, LibraryOK, OneResponse, NoResponse
<1>11. ASSUME UNCHANGED library, handler' = handler \/ handler' = "gone",
              \/ outbound' = outbound /\ writing' = writing
              \/ outbound' = <<>> /\ writing' = FALSE
       PROVE  LibraryInv'
  <2>1. Responses' \subseteq Responses
    BY <1>11 DEF Responses
  <2>. QED
    BY <1>11, <2>1 DEF library, LibraryInv, LibraryOK, OneResponse, NoResponse
<1>12. CASE /\ \/ \E kind \in Kind : Publish(kind)
               \/ HangUp \/ ReadError
               \/ \E s \in Sub : Recv(s) \/ SendFails(s) \/ Wait(s) \/ Wake(s) \/ Cancel(s)
               \/ WriteError
            /\ UNCHANGED library
  BY <1>11, <1>12
     DEF Publish, HangUp, ReadError, Recv, SendFails, Wait, Wake, Cancel, WriteError, clientVars
<1>13. CASE UNCHANGED allVars
  BY <1>11, <1>13 DEF allVars, vars, clientVars
<1>. QED
  BY <1>1, <1>2, <1>3, <1>4, <1>5, <1>6, <1>7, <1>8, <1>9, <1>10, <1>12, <1>13
     DEF ConnectNext, LibraryStep, ReaderStep, TaskStep

\* The library's event channel keeps to its capacity, and its inbox never
\* holds a response that nobody awaits.
THEOREM LibraryTypeCorrect == FairSpec => []LibraryOK
<1>1. LibraryInv => LibraryOK
  BY DEF LibraryInv
<1>2. FairSpec => []TypeOK
  BY SubscriberRunsSubscription, SubscriptionTypeCorrect, PTL
<1>. QED
  BY <1>1, <1>2, LibraryInit, LibraryNext, PTL DEF FairSpec

=============================================================================
