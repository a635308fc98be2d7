------------------------------- MODULE MCRing -------------------------------
(* Model checking of Ring: a ring of three slots that wraps more than twice. *)
EXTENDS Ring
=============================================================================
