---------------------------- MODULE MCSubscriber ----------------------------
(* A small instance of Subscriber for TLC. *)
EXTENDS Subscriber

CONSTANTS node, link, s1

NodesOrAll == {{node}, {node, link}}
=============================================================================
