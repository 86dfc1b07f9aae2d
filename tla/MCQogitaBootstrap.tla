--------------------------- MODULE MCQogitaBootstrap ---------------------------
(* Instance of QogitaBootstrap for TLC; the bounds are in the configuration. *)
EXTENDS QogitaBootstrap
=============================================================================
