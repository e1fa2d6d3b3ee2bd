------------------------------- MODULE MCPump -------------------------------
(***************************************************************************)
(* Small instances of EventPump for TLC: an application, a microphone and  *)
(* a pair of headphones, one port each, and what rules and scripts may say *)
(* of them.                                                                *)
(***************************************************************************)
EXTENDS PumpProperties

CONSTANTS app, mic, hp

App == [name |-> app, kind |-> "Source", media |-> "Audio"]
Mic == [name |-> mic, kind |-> "Source", media |-> "Audio"]
Hp  == [name |-> hp, kind |-> "Sink", media |-> "Audio"]

Dirs == [n \in {App, Mic, Hp} |-> IF n = Hp THEN {"Input"} ELSE {"Output"}]

\* Rules files.
RouteApp   == [n \in Node |-> IF n = App THEN Route(hp) ELSE NoMatch]
DenyMic    == [n \in Node |-> IF n = App THEN Route(hp)
                            ELSE IF n = Mic THEN [type |-> "Deny"] ELSE NoMatch]

\* A script that routes the application once the headphones are there.
RouteToPresentSink ==
  [n \in Node |-> [sinks \in SUBSET Name |->
      IF n = App /\ hp \in sinks THEN Route(hp) ELSE NoMatch]]

TwoNodes   == {App, Hp}
ThreeNodes == {App, Mic, Hp}
TwoDirs    == [n \in TwoNodes |-> Dirs[n]]

RouteOrDeny   == {DenyMic}
RouteOrNot    == {NoRules, RouteApp}
NoScripts     == {NoScript}
ScriptedRoute == {RouteToPresentSink}
=============================================================================
