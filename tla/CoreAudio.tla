----------------------------- MODULE CoreAudio -----------------------------
(***************************************************************************)
(* The macOS backend (crates/coreaudio-backend/src/macos.rs): the listener *)
(* on the HAL's device list, which compares the list with the one it saw   *)
(* before, and the order of its start-up: the first list is read before    *)
(* the listener is there.                                                  *)
(*                                                                         *)
(* The HAL (external) calls the listener some time after the list changed, *)
(* once for several changes if they come close; an AudioDeviceID stands    *)
(* for one plugging-in and does not come back.  A reading fails now and    *)
(* then: of the list, and hal_devices finds no device at all, or of one    *)
(* device's streams, and it misses that device.                            *)
(***************************************************************************)
EXTENDS DeviceEvents

VARIABLES
  prev,  \* ListenerCtx.prev: the devices seen last
  dirty  \* whether the HAL has a call of the listener to make

coreAudio == <<prev, dirty>>

CoreAudioOK ==
  /\ prev \subseteq Device
  /\ dirty \in BOOLEAN

CoreAudioInit == prev = {} /\ dirty = FALSE

\* hal_devices: what a reading gives; a device without streams is no node, and
\* a call that fails is taken for an empty answer.
HalDevices(seen) ==
  \/ seen = Nodes(Active) /\ UNCHANGED machine
  \/ /\ seen = {} \/ \E d \in Nodes(Active) : seen = Nodes(Active) \ {d}
     /\ Fault

\* A device comes or goes; without a listener nobody is called.
HalChange(d) ==
  /\ platform = "macos"
  /\ Becomes(d, {"absent"}, "active") \/ Becomes(d, {"active"}, "gone")
  /\ dirty' = (dirty \/ backend = "listening")
  /\ UNCHANGED <<backend, channel, prev>>

\* Inner::start, first half: the list before the listener.
ReadInitial ==
  /\ platform = "macos"
  /\ backend = "new"
  /\ backend' = "initial"
  /\ \E seen \in SUBSET Device : HalDevices(seen) /\ prev' = seen
  /\ UNCHANGED <<channel, dirty>>

\* Second half: AudioObjectAddPropertyListener, which may fail.
AddListener ==
  /\ platform = "macos"
  /\ backend = "initial"
  /\ \/ backend' = "listening" /\ UNCHANGED machine
     \/ backend' = "failed" /\ Fault
  /\ UNCHANGED <<channel, coreAudio>>

Arrivals(s)   == [i \in DOMAIN s |-> Appeared(s[i])]
Departures(t) == [i \in DOMAIN t |-> Removed(t[i])]

\* Slip: the devices that went are not compared.
AnnounceArrivals(seen) == \E s \in SetToSeqs(seen \ prev) : Announce(Arrivals(s))

\* What the listener finds: those that came, in the order of the list, then
\* those that went, in the order of a HashSet.
AnnounceDifference(seen) ==
  \E s \in SetToSeqs(seen \ prev), t \in SetToSeqs(prev \ seen) :
    Announce(Arrivals(s) \o Departures(t))

\* Slip: prev keeps the first list.
KeepPrev(seen) == prev

NextPrev(seen) == seen

\* devices_changed_proc.
DevicesChanged ==
  /\ platform = "macos"
  /\ dirty
  /\ CallbackIdle
  /\ dirty' = FALSE
  /\ \E seen \in SUBSET Device :
       /\ HalDevices(seen)
       /\ AnnounceDifference(seen)
       /\ prev' = NextPrev(seen)
       /\ lost' = lost \cup Misread(seen)
  /\ UNCHANGED backend

=============================================================================
