----------------------------- MODULE MCMibStore -----------------------------
(* Instances of MibStore for TLC; the configurations give the constants. *)
EXTENDS MibStore
=============================================================================
