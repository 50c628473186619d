----------------------------- MODULE MCFailover -----------------------------
(***************************************************************************)
(* Failover for TLC: three masters, so that a quorum is left when one      *)
(* crashes, and workers of which one is left when another dies.            *)
(***************************************************************************)
EXTENDS Failover
=============================================================================
