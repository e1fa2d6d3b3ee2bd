----------------------------- MODULE MCSessions -----------------------------
(***************************************************************************)
(* A small instance of Sessions: two clients, one snapshot, one link.      *)
(***************************************************************************)
EXTENDS SessionProperties
=============================================================================
