------------------------- MODULE MCCollectSchedule -------------------------
(* Model checking of CollectSchedule, over every pair of settings in seconds *)
(* around the default of 15 and 10.                                          *)
EXTENDS CollectSchedule
=============================================================================
