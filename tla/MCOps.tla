------------------------------- MODULE MCOps -------------------------------
(***************************************************************************)
(* Small instances of ClientOps for TLC: a filter that both plays and      *)
(* records; an application and a MIDI synthesizer.                         *)
(***************************************************************************)
EXTENDS ClientOps

CONSTANTS app, synth, c1

Filter == [name |-> app, kind |-> "Filter", media |-> "Audio"]
App    == [name |-> app, kind |-> "Source", media |-> "Audio"]
Synth  == [name |-> synth, kind |-> "Sink", media |-> "Midi"]

OneNode  == {Filter}
OneDirs  == [n \in OneNode |-> {"Input", "Output"}]
TwoKinds == {App, Synth}
TwoDirs  == [n \in TwoKinds |-> IF n = Synth THEN {"Input"} ELSE {"Output"}]

NoTables  == {NoRules}
NoScripts == {NoScript}
=============================================================================
