------------------------------ MODULE MCAgent ------------------------------
(* Model checking of Agent: the configurations differ in the bounds.  200 is *)
(* an acknowledgement, 404 a rejection, 503 an outage of the API.            *)
EXTENDS Agent
=============================================================================
