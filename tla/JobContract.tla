---------------------------- MODULE JobContract -----------------------------
(***************************************************************************)
(* What the Discovery job registry promises whatever the schedule, without  *)
(* rows, processes, launchers or sweeps: a job is started only when none    *)
(* is registered as started or computing, a start is protected by its lease *)
(* against the claim of any other job, and retention begins to delete when  *)
(* nothing is registered and keeps starts and claims out until it ends.     *)
(* DiscoveryJobs implements it.                                             *)
(***************************************************************************)
CONSTANT Job

VARIABLES
  registered,  \* the jobs started or computing, as the registry has it
  leased,      \* those of them whose start is still protected
  retaining    \* may retention delete?

vars == <<registered, leased, retaining>>

Init == registered = {} /\ leased = {} /\ retaining = FALSE

Launch(j) ==
  /\ registered = {} /\ ~retaining
  /\ registered' = {j} /\ leased' = {j}
  /\ UNCHANGED retaining

\* A worker takes its job over, from a launch or from any stopped state.
Claim(j) ==
  /\ leased \subseteq {j} /\ ~retaining
  /\ registered' = registered \cup {j}
  /\ leased' = leased \ {j}
  /\ UNCHANGED retaining

Expire(j) ==
  /\ j \in leased
  /\ leased' = leased \ {j}
  /\ UNCHANGED <<registered, retaining>>

\* Jobs pause, fail, are handed off, completed or given back.
Leave(jobs) ==
  /\ registered' = registered \ jobs
  /\ leased' = leased \ jobs
  /\ UNCHANGED retaining

Retain ==
  /\ registered = {} /\ ~retaining
  /\ retaining' = TRUE
  /\ UNCHANGED <<registered, leased>>

Release ==
  /\ retaining
  /\ retaining' = FALSE
  /\ UNCHANGED <<registered, leased>>

Next ==
  \/ \E j \in Job : Launch(j) \/ Claim(j) \/ Expire(j)
  \/ \E jobs \in SUBSET Job : Leave(jobs)
  \/ Retain \/ Release

Spec == Init /\ [][Next]_vars
=============================================================================
