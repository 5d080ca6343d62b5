--------------------------- MODULE MCJobRegistry ---------------------------
(* Small instances of JobRegistry. *)
EXTENDS JobRegistry
=============================================================================
