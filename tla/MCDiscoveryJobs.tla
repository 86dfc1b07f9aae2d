-------------------------- MODULE MCDiscoveryJobs --------------------------
(* Instances of DiscoveryJobs for TLC. *)
EXTENDS DiscoveryJobs, TLC

SafetySymmetry == Permutations(Pid) \cup Permutations(Launcher)
=============================================================================
