---------------------------- MODULE MCReplication ----------------------------
(* Model checking of Replication: three replicas, so that one leaves while   *)
(* others are renumbered, synchronise or lag.                                *)
EXTENDS Replication
=============================================================================
