----------------------------- MODULE MCIdentity -----------------------------
(* Model checking of Identity, with a directory the agent may write to and   *)
(* with the one that scripts/install.sh makes, which belongs to root.        *)
EXTENDS Identity
=============================================================================
