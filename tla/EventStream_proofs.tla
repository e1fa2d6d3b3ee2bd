------------------------- MODULE EventStream_proofs -------------------------
(***************************************************************************)
(* Proofs about EventStream, for any number of subscriptions and events    *)
(* and any capacity of the broadcast channel.                              *)
(***************************************************************************)
EXTENDS EventStream, TLAPS

\* What the proofs need of the constants.
Bounds == RingCap \in Nat \ {0} /\ MaxEvents \in Nat

SubInv(s) ==
  /\ from[s] <= upto[s]
  /\ upto[s] <= Len(log)
  /\ Accounted(s)
  /\ Ordered(s)

StreamInv ==
  /\ StreamTypeOK
  /\ \A s \in started : SubInv(s)
  /\ \A s \in Sub \ started : frames[s] = <<>>

\* The invariant holds initially.
LEMMA StreamInit ==
  ASSUME Bounds
  PROVE  Init => StreamInv
BY DEF Bounds, Init, StreamInv, StreamTypeOK

\* A subscription none of whose state changes keeps its part of the
\* invariant, even if events are published.
LEMMA Untouched ==
  ASSUME StreamInv, StreamTypeOK', NEW s \in started,
         UNCHANGED <<filter[s], from[s], upto[s], frames[s]>>,
         Len(log) <= Len(log'), \A n \in 1..Len(log) : log'[n] = log[n]
  PROVE  SubInv(s)'
<1>1. SubInv(s) /\ s \in Sub /\ from[s] \in Nat /\ upto[s] \in Nat
  BY DEF StreamInv, StreamTypeOK
<1>2. \A i \in DOMAIN frames[s] : frames[s][i] \in Frame
  BY <1>1 DEF StreamInv, StreamTypeOK
<1>a. /\ filter'[s] = filter[s] /\ from'[s] = from[s]
      /\ upto'[s] = upto[s] /\ frames'[s] = frames[s]
  OBVIOUS
<1>b. Len(log) \in Nat
  BY DEF StreamInv, StreamTypeOK
<1>3. Accounted(s)'
  <2> SUFFICES ASSUME NEW n \in from[s] + 1 .. upto[s], log'[n] \in filter[s]
               PROVE  \E i \in DOMAIN frames[s] : Covers(frames[s][i], n)
    BY <1>a DEF Accounted
  <2>1. n \in 1..Len(log)
    BY <1>1, <1>b DEF SubInv
  <2>2. log[n] \in filter[s]
    BY <2>1
  <2>. QED
    BY <1>1, <2>2 DEF SubInv, Accounted
<1>4. ASSUME NEW i \in DOMAIN frames[s]
      PROVE  FrameOK(s, frames[s][i])'
  <2> DEFINE f == frames[s][i]
  <2>1. FrameOK(s, f) /\ f.first \in Nat /\ f.last \in Nat
    BY <1>1, <1>2 DEF SubInv, Ordered, Frame
  <2>2. f.first \in 1..Len(log)
    BY <1>1, <1>b, <2>1 DEF SubInv, FrameOK
  <2>3. log'[f.first] = log[f.first]
    BY <2>2
  <2> HIDE DEF f
  <2>. QED
    BY <1>a, <2>1, <2>3 DEF FrameOK, f
<1>5. Ordered(s)'
  BY <1>1, <1>a, <1>4 DEF SubInv, Ordered
<1>. QED
  BY <1>1, <1>3, <1>5 DEF SubInv, StreamInv, StreamTypeOK

\* Sending a frame that reaches from the first event not dealt with up to
\* last keeps the invariant of the subscription.
LEMMA FrameSent ==
  ASSUME StreamInv, NEW s \in started, NEW f \in Frame,
         UNCHANGED <<log, filter, from>>,
         upto' = [upto EXCEPT ![s] = f.last],
         frames' = [frames EXCEPT ![s] = Append(frames[s], f)],
         f.first = upto[s] + 1, f.first <= f.last, f.last <= Len(log),
         f.type = "Event" => f.first = f.last /\ log[f.first] \in filter[s]
  PROVE  SubInv(s)'
<1>1. /\ SubInv(s) /\ s \in Sub /\ from[s] \in Nat /\ upto[s] \in Nat
      /\ frames[s] \in Seq(Frame) /\ f.first \in Nat /\ f.last \in Nat
  BY DEF StreamInv, StreamTypeOK, Frame
<1>2. /\ DOMAIN frames'[s] = 1 .. Len(frames[s]) + 1
      /\ \A i \in 1..Len(frames[s]) : frames'[s][i] = frames[s][i]
      /\ frames'[s][Len(frames[s]) + 1] = f
      /\ upto'[s] = f.last
      /\ DOMAIN frames[s] = 1..Len(frames[s])
      /\ Len(frames[s]) \in Nat
  BY <1>1 DEF StreamInv, StreamTypeOK
<1>3. \A i \in DOMAIN frames[s] : frames[s][i] \in Frame
  BY <1>1
<1>4. ASSUME NEW n \in from[s] + 1 .. f.last, log[n] \in filter[s]
      PROVE  \E i \in DOMAIN frames'[s] : Covers(frames'[s][i], n)
  <2>1. CASE n <= upto[s]
    <3>1. PICK i \in DOMAIN frames[s] : Covers(frames[s][i], n)
      BY <1>1, <1>4, <2>1 DEF SubInv, Accounted
    <3>. QED
      BY <1>2, <3>1
  <2>2. CASE n > upto[s]
    <3>1. Covers(f, n)
      BY <1>1, <1>4, <2>2 DEF Covers
    <3>. QED
      BY <1>2, <3>1
  <2>. QED
    BY <1>1, <1>4, <2>1, <2>2
<1>5. Accounted(s)'
  BY <1>1, <1>2, <1>4 DEF Accounted
<1>6. \A i \in DOMAIN frames[s] : FrameOK(s, frames[s][i]) /\ frames[s][i].last < f.first
  BY <1>1, <1>3 DEF SubInv, Ordered, FrameOK, Frame
<1>7. \A i \in DOMAIN frames'[s] : FrameOK(s, frames[s][i])'
  <2>1. SUFFICES ASSUME NEW i \in DOMAIN frames'[s]
                 PROVE  FrameOK(s, frames[s][i])'
    OBVIOUS
  <2>2. CASE i \in DOMAIN frames[s]
    <3>1. frames'[s][i] = frames[s][i] /\ FrameOK(s, frames[s][i]) /\ frames[s][i] \in Frame
      BY <1>2, <1>3, <1>6, <2>2
    <3>2. frames[s][i].last <= f.last
      BY <1>1, <3>1 DEF FrameOK, Frame
    <3>. QED
      BY <1>2, <3>1, <3>2 DEF FrameOK
  <2>3. CASE i = Len(frames[s]) + 1
    <3>1. from[s] < f.first /\ frames'[s][i] = f
      BY <1>1, <1>2, <2>3 DEF SubInv
    <3>. QED
      BY <1>1, <1>2, <3>1 DEF FrameOK
  <2>. QED
    BY <1>2, <2>1, <2>2, <2>3
<1>8. ASSUME NEW i \in DOMAIN frames'[s], NEW j \in DOMAIN frames'[s], i < j
      PROVE  frames'[s][i].last < frames'[s][j].first
  <2>1. i \in DOMAIN frames[s]
    BY <1>2, <1>8
  <2>2. CASE j \in DOMAIN frames[s]
    BY <1>1, <1>2, <1>8, <2>1, <2>2 DEF SubInv, Ordered
  <2>3. CASE j = Len(frames[s]) + 1
    BY <1>2, <1>6, <2>1, <2>3
  <2>. QED
    BY <1>2, <2>2, <2>3
<1>9. Ordered(s)'
  BY <1>7, <1>8, Zenon DEF Ordered
<1>. QED
  BY <1>1, <1>2, <1>5, <1>9 DEF SubInv

\* Every step keeps the state well-formed.
LEMMA StreamType ==
  ASSUME Bounds
  PROVE  StreamTypeOK /\ [Next]_streamVars => StreamTypeOK'
<1> SUFFICES ASSUME StreamTypeOK, [Next]_streamVars PROVE StreamTypeOK'
  OBVIOUS
<1> USE DEF Bounds, StreamTypeOK
<1>1. ASSUME NEW kind \in Kind, Publish(kind) PROVE StreamTypeOK'
  BY <1>1 DEF Publish
<1>2. ASSUME NEW s \in Sub, NEW kinds \in SUBSET Kind, Start(s, kinds) PROVE StreamTypeOK'
  BY <1>2 DEF Start
<1>3. ASSUME NEW s \in Sub, Deliver(s) PROVE StreamTypeOK'
  <2>1. EventFrame(upto[s] + 1) \in Frame
    BY DEF EventFrame, Frame
  <2>. QED
    BY <1>3, <2>1 DEF Deliver
<1>4. ASSUME NEW s \in Sub, PassOver(s) PROVE StreamTypeOK'
  BY <1>4 DEF PassOver
<1>5. ASSUME NEW s \in Sub, NEW last \in 1..MaxEvents, Drop(s, last) PROVE StreamTypeOK'
  <2>1. DroppedFrame(upto[s] + 1, last) \in Frame
    BY DEF DroppedFrame, Frame
  <2>. QED
    BY <1>5, <2>1 DEF Drop
<1>6. CASE UNCHANGED streamVars
  BY <1>6 DEF streamVars
<1>. QED
  BY <1>1, <1>2, <1>3, <1>4, <1>5, <1>6 DEF Next

\* Every step keeps the invariant.
LEMMA StreamNext ==
  ASSUME Bounds
  PROVE  StreamInv /\ [Next]_streamVars => StreamInv'
<1> SUFFICES ASSUME StreamInv, [Next]_streamVars PROVE StreamInv'
  OBVIOUS
<1>t. StreamTypeOK /\ StreamTypeOK'
  BY StreamType DEF StreamInv
<1>n. Len(log) \in Nat /\ log \in Seq(Kind)
  BY <1>t DEF StreamTypeOK
<1>1. ASSUME NEW kind \in Kind, Publish(kind) PROVE StreamInv'
  <2>1. Len(log) <= Len(log') /\ \A n \in 1..Len(log) : log'[n] = log[n]
    BY <1>1, <1>n DEF Publish
  <2>2. \A s \in started : SubInv(s)'
    BY <1>1, <1>t, <2>1, Untouched DEF Publish
  <2>. QED
    BY <1>1, <1>t, <2>2 DEF Publish, StreamInv
<1>2. ASSUME NEW s \in Sub, NEW kinds \in SUBSET Kind, Start(s, kinds) PROVE StreamInv'
  <2>1. \A u \in started : SubInv(u)'
    <3> SUFFICES ASSUME NEW u \in started PROVE SubInv(u)'
      OBVIOUS
    <3>1. UNCHANGED <<filter[u], from[u], upto[u], frames[u], log>>
      BY <1>2, <1>t DEF Start, StreamTypeOK
    <3>. QED
      BY <1>n, <1>t, <3>1, Untouched
  <2>2. SubInv(s)'
    <3>1. from'[s] = Len(log) /\ upto'[s] = Len(log) /\ frames'[s] = <<>> /\ log' = log
      BY <1>2, <1>t DEF Start, StreamTypeOK, StreamInv
    <3>2. Accounted(s)'
      BY <1>n, <3>1 DEF Accounted
    <3>3. Ordered(s)'
      BY <3>1 DEF Ordered
    <3>. QED
      BY <1>n, <3>1, <3>2, <3>3 DEF SubInv
  <2>. QED
    BY <1>2, <1>t, <2>1, <2>2 DEF Start, StreamInv
<1>3. ASSUME NEW s \in started, NEW f \in Frame,
             UNCHANGED <<log, started, filter, from>>,
             upto' = [upto EXCEPT ![s] = f.last],
             frames' = [frames EXCEPT ![s] = Append(frames[s], f)],
             f.first = upto[s] + 1, f.first <= f.last, f.last <= Len(log),
             f.type = "Event" => f.first = f.last /\ log[f.first] \in filter[s]
      PROVE  StreamInv'
  <2>1. SubInv(s)'
    BY <1>3, FrameSent
  <2>2. \A u \in Sub \ {s} : UNCHANGED <<filter[u], from[u], upto[u], frames[u]>>
    BY <1>3, <1>t DEF StreamTypeOK
  <2>3. \A u \in started \ {s} : SubInv(u)'
    BY <1>3, <1>n, <1>t, <2>2, Untouched DEF StreamTypeOK
  <2>. QED
    BY <1>3, <1>t, <2>1, <2>2, <2>3 DEF StreamInv, StreamTypeOK
<1>4. ASSUME NEW s \in Sub, Deliver(s) PROVE StreamInv'
  <2> DEFINE f == EventFrame(upto[s] + 1)
  <2>1. f \in Frame /\ f.first = upto[s] + 1 /\ f.last = upto[s] + 1
    BY <1>t DEF EventFrame, Frame, StreamTypeOK
  <2>2. /\ s \in started /\ f.last <= Len(log) /\ log[f.first] \in filter[s]
        /\ UNCHANGED <<log, started, filter, from>>
        /\ upto' = [upto EXCEPT ![s] = f.last]
        /\ frames' = [frames EXCEPT ![s] = Append(frames[s], f)]
    BY <1>4, <2>1 DEF Deliver
  <2> HIDE DEF f
  <2>3. f.first <= f.last
    BY <1>t, <2>1 DEF StreamTypeOK
  <2>. QED
    BY <1>3, <2>1, <2>2, <2>3
<1>5. ASSUME NEW s \in Sub, PassOver(s) PROVE StreamInv'
  <2>1. /\ s \in started /\ SubInv(s) /\ upto'[s] = upto[s] + 1 /\ upto[s] + 1 <= Len(log)
        /\ upto[s] \in Nat /\ from[s] \in Nat
        /\ log[upto[s] + 1] \notin filter[s]
        /\ UNCHANGED <<log, started, filter, from, frames>>
    BY <1>5, <1>t DEF PassOver, StreamInv, StreamTypeOK
  <2>2. Accounted(s)'
    BY <2>1 DEF SubInv, Accounted
  <2>3. ASSUME NEW i \in DOMAIN frames[s] PROVE FrameOK(s, frames[s][i])'
    <3>1. FrameOK(s, frames[s][i]) /\ frames[s][i] \in Frame
      BY <1>t, <2>1 DEF SubInv, Ordered, StreamTypeOK
    <3>. QED
      BY <2>1, <3>1 DEF FrameOK, Frame
  <2>4. Ordered(s)'
    BY <2>1, <2>3 DEF SubInv, Ordered
  <2>5. SubInv(s)'
    BY <2>1, <2>2, <2>4 DEF SubInv
  <2>6. \A u \in started \ {s} : SubInv(u)'
    <3> SUFFICES ASSUME NEW u \in started \ {s} PROVE SubInv(u)'
      OBVIOUS
    <3>1. UNCHANGED <<filter[u], from[u], upto[u], frames[u], log>>
      BY <1>5, <1>t DEF PassOver, StreamTypeOK
    <3>. QED
      BY <1>n, <1>t, <3>1, Untouched
  <2>. QED
    BY <1>t, <2>1, <2>5, <2>6 DEF StreamInv
<1>6. ASSUME NEW s \in Sub, NEW last \in 1..MaxEvents, Drop(s, last) PROVE StreamInv'
  <2> DEFINE f == DroppedFrame(upto[s] + 1, last)
  <2>1. f \in Frame /\ f.first = upto[s] + 1 /\ f.last = last /\ f.type = "EventsDropped"
    BY <1>t DEF DroppedFrame, Frame, StreamTypeOK
  <2>2. /\ s \in started /\ upto[s] < last /\ last + RingCap <= Len(log)
        /\ UNCHANGED <<log, started, filter, from>>
        /\ upto' = [upto EXCEPT ![s] = f.last]
        /\ frames' = [frames EXCEPT ![s] = Append(frames[s], f)]
    BY <1>6, <2>1 DEF Drop
  <2> HIDE DEF f
  <2>3. f.first <= f.last /\ f.last <= Len(log)
    BY <1>n, <1>t, <2>1, <2>2 DEF Bounds, StreamTypeOK
  <2>. QED
    BY <1>3, <2>1, <2>2, <2>3
<1>7. CASE UNCHANGED streamVars
  <2>1. \A s \in started : SubInv(s)'
    BY <1>7, <1>n, <1>t, Untouched DEF streamVars
  <2>. QED
    BY <1>7, <1>t, <2>1 DEF streamVars, StreamInv
<1>. QED
  BY <1>1, <1>2, <1>4, <1>5, <1>6, <1>7 DEF Next

\* Whatever events are published and however far a subscription falls behind,
\* each event it asked for shows up in its stream, as itself or among those
\* reported dropped.
THEOREM StreamLosesNothing ==
  ASSUME Bounds
  PROVE  Spec => []NothingUnaccounted
<1>1. StreamInv => NothingUnaccounted
  BY DEF StreamInv, SubInv, NothingUnaccounted
<1>. QED
  BY <1>1, StreamInit, StreamNext, PTL DEF Spec

\* The frames of a subscription are in the order of the events and never
\* speak of an event twice.
THEOREM StreamInOrder ==
  ASSUME Bounds
  PROVE  Spec => []InOrderOnce
<1>1. StreamInv => InOrderOnce
  BY DEF StreamInv, SubInv, InOrderOnce
<1>. QED
  BY <1>1, StreamInit, StreamNext, PTL DEF Spec

=============================================================================
