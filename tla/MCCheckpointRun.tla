---------------------------- MODULE MCCheckpointRun ----------------------------
(* Instance of CheckpointRun for TLC: the jobs are interchangeable, the       *)
(* products are not (their hash orders them).  The bounds are in the cfg.     *)
EXTENDS CheckpointRun, TLC
CONSTANTS j1, j2
Symmetric == Permutations(Jobs)
=============================================================================
