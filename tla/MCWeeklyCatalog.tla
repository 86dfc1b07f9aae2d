--------------------------- MODULE MCWeeklyCatalog ---------------------------
(* Instances of WeeklyCatalog for TLC. *)
EXTENDS WeeklyCatalog
=============================================================================
