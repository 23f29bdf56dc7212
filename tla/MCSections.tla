----------------------------- MODULE MCSections -----------------------------
(* SectionWindow for TLC: an image of six sections of which some are equal. *)
EXTENDS SectionWindow

MCImage == <<"a", "a", "b", "a", "a", "b">>
=============================================================================
