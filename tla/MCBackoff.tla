------------------------------ MODULE MCBackoff ------------------------------
(* Model checking of Backoff: four attempts, so that delays double once and  *)
(* are capped twice, and settings that leave no delay at all.                *)
EXTENDS Backoff

Bases == {-5, 5}
Caps == {0, 10}
=============================================================================
