-------------------------- MODULE MCSlowlogDelivery --------------------------
(* Model checking of SlowlogDelivery: a log longer than the fetch window, a  *)
(* buffer that evicts, and room for a restart of Redis that catches up with  *)
(* the watermark.                                                            *)
EXTENDS SlowlogDelivery
=============================================================================
