--------------------------- MODULE MCTransactions ---------------------------
(* Instances of OmciTransactions for TLC; the configurations give the
   constants. *)
EXTENDS OmciTransactions
=============================================================================
