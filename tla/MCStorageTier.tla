--------------------------- MODULE MCStorageTier ---------------------------
(* Instances of StorageTier for TLC: jobs 1 and 3 share a scope, job 2 is   *)
(* the only one of its own.                                                 *)
EXTENDS StorageTier
MCScope == <<"b", "a", "b">>
=============================================================================
