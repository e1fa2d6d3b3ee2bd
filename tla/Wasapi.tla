------------------------------- MODULE Wasapi -------------------------------
(***************************************************************************)
(* The Windows backend (crates/wasapi-backend/src/win.rs): the endpoint    *)
(* notification client and the enumeration of endpoints.                   *)
(*                                                                         *)
(* Endpoints (external) are unknown ("absent"), known but disabled or      *)
(* unplugged ("inactive"), or "active".  The runtime calls the client back *)
(* for every change some time later, in order; GetDevice finds any         *)
(* endpoint known at that moment, active or not.                           *)
(***************************************************************************)
EXTENDS DeviceEvents

VARIABLES
  notices,  \* callbacks the MMDevice runtime has yet to make
  early     \* history: inactive endpoints last announced by OnDeviceAdded

wasapi == <<notices, early>>

Notice == [call : {"StateChanged", "Added", "Removed"}, dev : Device, active : BOOLEAN]

WasapiOK == notices \in Seq(Notice) /\ early \subseteq Device

WasapiInit == notices = <<>> /\ early = {}

\* RegisterEndpointNotificationCallback on the worker thread; start waits
\* for its outcome.
Register ==
  /\ platform = "windows"
  /\ backend = "new"
  /\ \/ backend' = "listening" /\ UNCHANGED machine
     \/ backend' = "failed" /\ Fault
  /\ UNCHANGED <<channel, wasapi>>

Notify(call, d, active) ==
  notices' = IF backend = "listening"
             THEN Append(notices, [call |-> call, dev |-> d, active |-> active])
             ELSE notices

EndpointChange(d) ==
  /\ platform = "windows"
  /\ \/ Becomes(d, {"absent"}, "inactive") /\ Notify("Added", d, FALSE)
     \/ Becomes(d, {"inactive"}, "active") /\ Notify("StateChanged", d, TRUE)
     \/ Becomes(d, {"active"}, "inactive") /\ Notify("StateChanged", d, FALSE)
     \/ Becomes(d, {"inactive", "active"}, "absent") /\ Notify("Removed", d, FALSE)
  /\ UNCHANGED <<backend, channel, early>>

Known(d) == device[d] \in {"inactive", "active"}

\* node_for: nothing for an endpoint the enumerator does not find, or one
\* that neither renders nor captures.
NodeFor(d) == IF Known(d) /\ Kind[d] # "Other" THEN <<Appeared(d)>> ELSE <<>>

\* Slip: a state change is taken for an activation.
OnStateChangedUp(n) == NodeFor(n.dev)

\* OnDeviceStateChanged.
OnStateChanged(n) == IF n.active THEN NodeFor(n.dev) ELSE <<Removed(n.dev)>>

\* OnDeviceAdded, whatever state the endpoint is in.
OnAdded(n) == NodeFor(n.dev)

\* OnDeviceRemoved.
OnRemoved(n) == <<Removed(n.dev)>>

Callback ==
  /\ platform = "windows"
  /\ notices # <<>>
  /\ CallbackIdle
  /\ LET n == Head(notices)
     IN  /\ Announce(IF n.call = "Added" THEN OnAdded(n)
                     ELSE IF n.call = "Removed" THEN OnRemoved(n) ELSE OnStateChanged(n))
         /\ early' = IF n.call = "Added" /\ n.dev \notin Active
                     THEN early \cup {n.dev} ELSE early \ {n.dev}
  /\ notices' = Tail(notices)
  /\ UNCHANGED <<machine, backend, lost>>

=============================================================================
