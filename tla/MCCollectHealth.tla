--------------------------- MODULE MCCollectHealth ---------------------------
(* Model checking of CollectHealth: several outages within twelve cycles. *)
EXTENDS CollectHealth
=============================================================================
