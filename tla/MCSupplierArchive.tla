--------------------------- MODULE MCSupplierArchive ---------------------------
(* Instance of SupplierArchive for TLC; the bounds are in the configuration. *)
EXTENDS SupplierArchive
=============================================================================
