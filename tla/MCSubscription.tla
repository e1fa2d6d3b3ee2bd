--------------------------- MODULE MCSubscription ---------------------------
(* Small instances of Subscription for TLC. *)
EXTENDS Subscription

CONSTANTS node, link, s1, s2

NodesOrAll == {{node}, {node, link}}
=============================================================================
