--------------------------- MODULE MCCapabilities ---------------------------
(* Model checking of Capabilities, which has no constant: its states are     *)
(* finite as they are.                                                       *)
EXTENDS Capabilities
=============================================================================
