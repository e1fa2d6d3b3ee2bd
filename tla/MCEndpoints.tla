---------------------------- MODULE MCEndpoints ----------------------------
(***************************************************************************)
(* A small instance of Endpoints: a pair of speakers and a microphone; a   *)
(* rules file in which the order of the rules, their priorities and their  *)
(* predicates all matter.                                                  *)
(***************************************************************************)
EXTENDS Endpoints

CONSTANTS speakers, mic

Kinds == [d \in Device |-> IF d = speakers THEN "Sink" ELSE "Source"]

AsNode == [d \in Device |-> [name |-> d, kind |-> Kinds[d], properties |-> {}]]

Rule(priority, name, kind, action) ==
  [priority |-> priority, name |-> name, kind |-> kind, property |-> Unset, action |-> action]

Loud  == [type |-> "SetVolume", volume |-> 9]
Low   == [type |-> "SetVolume", volume |-> 1]

\* The speakers are to be low: the catch-all rule has no predicate, the rule
\* for sinks of equal priority comes later.
Rules == <<Rule(0, Unset, "Sink", Loud),
           Rule(7, Unset, Unset, Loud),
           Rule(5, speakers, Unset, Low),
           Rule(5, Unset, "Sink", Loud)>>
=============================================================================
