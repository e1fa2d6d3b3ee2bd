------------------------------ MODULE MCConfig ------------------------------
(* Small instances of ConfigReload for TLC. *)
EXTENDS ConfigReload

CONSTANTS r1, r2, s1, s2, t1, t2, bad, c1, c2
=============================================================================
