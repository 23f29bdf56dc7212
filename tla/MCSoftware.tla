----------------------------- MODULE MCSoftware -----------------------------
(* Instances of SoftwareLifecycle for TLC; the configurations give the
   constants. *)
EXTENDS SoftwareLifecycle
=============================================================================
