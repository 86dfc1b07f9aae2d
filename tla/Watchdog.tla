------------------------------ MODULE Watchdog ------------------------------
(***************************************************************************)
(* homeserver_watchdog.py: a launchd job (and the installer, by hand) that   *)
(* reconnects Tailscale and, once per incident, re-creates the public        *)
(* Funnel route of the Qogita webhook.  A run reads its JSON state, acts on  *)
(* the machine, and writes the state back only when it returns: a run that   *)
(* dies leaves its actions done and its memory lost.                         *)
(*                                                                           *)
(* A run is the holder of the non-blocking file lock, so runs do not         *)
(* overlap; a second one returns lock_busy and touches nothing.  The clock   *)
(* moves between runs: its unit is longer than a run.                        *)
(***************************************************************************)
EXTENDS Integers

CONSTANTS
    Threshold,       \* failure_threshold
    SampleGap,       \* failure_sample_min_interval_seconds
    Cooldown,        \* cooldown_seconds, of connection attempts
    FunnelCooldown,  \* funnel_cooldown_seconds
    MaxAttempts,     \* max_attempts
    TopPhase,        \* the last of CURRENT (0), TRANSITION (1), FINAL (2)
    AgeCap, MaxDeaths   \* bounds of the instance: ages stop there

ASSUME WatchdogAssumption ==
    /\ Threshold \in Nat \ {0} /\ MaxAttempts \in Nat /\ MaxDeaths \in Nat
    /\ TopPhase \in Nat /\ AgeCap \in Nat
    /\ {SampleGap, Cooldown, FunnelCooldown, (Threshold - 1) * SampleGap} \subseteq 0..AgeCap

VARIABLES
    pc,      \* where the run is
    file,    \* the JSON state on disk
    mem,     \* the state as the run has changed it
    seen,    \* the configuration phase its prerequisites found
    net,     \* Tailscale is connected
    up,      \* every other prerequisite holds (upstreams, DNS, certificate)
    edge,    \* the public edges answer, as long as the route exists
    route,   \* the Funnel configuration has the webhook path
    phase,   \* the accepted configuration it belongs to
    \* history of what was done to the machine, whatever the file remembers
    opened,  \* recoveries since a run last saw the webhook answer
    tried,   \* connection attempts since a run last saw the connection up
    good,    \* age of the last completed run that counted no public failure
    deaths   \* runs that died after acting and before writing

machine == <<net, up, edge, route, phase>>
vars == <<pc, file, mem, seen, machine, opened, tried, good, deaths>>

Ages   == 0..AgeCap
Phases == 0..TopPhase
State  == [retries : 0..MaxAttempts, attemptAge : Ages, fails : 0..Threshold,
           failAge : Ages, attempted : BOOLEAN, recoveryAge : Ages,
           highest : {-1} \cup Phases]

(* A missing timestamp is 0, that is, older than every interval.            *)
Fresh == [retries |-> 0, attemptAge |-> AgeCap, fails |-> 0, failAge |-> AgeCap,
          attempted |-> FALSE, recoveryAge |-> AgeCap, highest |-> -1]

Init ==
    /\ pc = "idle" /\ file = Fresh /\ mem = Fresh /\ seen = 0
    /\ net \in BOOLEAN /\ up = TRUE /\ edge \in BOOLEAN /\ route = TRUE
    /\ phase \in Phases
    /\ opened = 0 /\ tried = 0 /\ good = AgeCap /\ deaths = 0

Older(a) == IF a < AgeCap THEN a + 1 ELSE a

(* _finish: the only place where the state is written.                      *)
Finish(state) ==
    /\ pc' = "idle"
    /\ file' = state
    /\ mem' = Fresh
    /\ seen' = 0

Continue(at, state) == pc' = at /\ mem' = state /\ UNCHANGED file

NoFailures(state) == [state EXCEPT !.fails = 0]

(* The webhook answers: the incident is over.                               *)
Answered(state) == [state EXCEPT !.fails = 0, !.attempted = FALSE, !.failAge = AgeCap]

Remembering(state, f) ==
    [state EXCEPT !.highest = IF f > state.highest THEN f ELSE state.highest]

(***************************************************************************)
(* The connection.                                                          *)
(***************************************************************************)

StartConnected ==
    /\ pc = "idle" /\ net
    /\ Continue("checks", [file EXCEPT !.retries = 0])
    /\ tried' = 0
    /\ UNCHANGED <<seen, machine, opened, good, deaths>>

MayConnect == file.retries < MaxAttempts /\ file.attemptAge >= Cooldown
StartConnecting ==
    /\ pc = "idle" /\ ~net /\ MayConnect
    /\ Continue("connecting", file)
    /\ tried' = tried + 1
    /\ net' \in BOOLEAN
    /\ UNCHANGED <<seen, up, edge, route, phase, opened, good, deaths>>

(* No ethernet, no internet, out of attempts or cooling down.               *)
StartOffline ==
    /\ pc = "idle" /\ ~net
    /\ Finish(NoFailures(file))
    /\ good' = 0
    /\ UNCHANGED <<machine, opened, tried, deaths>>

Connecting ==
    /\ pc = "connecting"
    /\ LET state == [mem EXCEPT !.attemptAge = 0,
                                !.retries = IF net THEN 0 ELSE mem.retries + 1]
       IN  IF net
           THEN /\ Continue("checks", state)
                /\ tried' = 0
                /\ UNCHANGED <<seen, good>>
           ELSE /\ Finish(NoFailures(state))
                /\ good' = 0
                /\ UNCHANGED tried
    /\ UNCHANGED <<machine, opened, deaths>>

(***************************************************************************)
(* The public route.                                                        *)
(***************************************************************************)

Exact == net /\ up /\ route

(* _funnel_prerequisites with the phase progression: a configuration below  *)
(* the highest one ever found healthy is refused.                           *)
Checks ==
    /\ pc = "checks"
    /\ IF Exact /\ phase >= mem.highest
       THEN /\ Continue("probe", Remembering(mem, phase))
            /\ seen' = phase
            /\ UNCHANGED good
       ELSE Finish(NoFailures(mem)) /\ good' = 0
    /\ UNCHANGED <<machine, opened, tried, deaths>>

PublicOk == net /\ edge /\ route

(* Variants: every run counts; a gap between samples starts the count anew. *)
CountedEachRun(state) ==
    [state EXCEPT !.fails = IF @ < Threshold THEN @ + 1 ELSE @, !.failAge = 0]
CountedInARow(state) ==
    IF state.failAge >= SampleGap
    THEN [state EXCEPT !.fails = IF state.failAge > SampleGap THEN 1
                                 ELSE IF @ < Threshold THEN @ + 1 ELSE @,
                       !.failAge = 0]
    ELSE state

Counted(state) ==
    IF state.failAge >= SampleGap
    THEN [state EXCEPT !.fails = IF @ < Threshold THEN @ + 1 ELSE @, !.failAge = 0]
    ELSE state

WarrantedAgain(state) ==   \* variant: an incident may be recovered after each cooldown
    state.fails >= Threshold /\ state.recoveryAge >= FunnelCooldown

Warranted(state) ==
    /\ state.fails >= Threshold
    /\ ~state.attempted
    /\ state.recoveryAge >= FunnelCooldown

Probe ==
    /\ pc = "probe"
    /\ \/ PublicOk /\ Finish(Answered(mem)) /\ good' = 0 /\ opened' = 0
       \/ /\ ~PublicOk
          /\ IF Warranted(Counted(mem))
             THEN Continue("preflight", Counted(mem)) /\ UNCHANGED seen
             ELSE Finish(Counted(mem))
          /\ UNCHANGED <<good, opened>>
    /\ UNCHANGED <<machine, tried, deaths>>

(* The prerequisites once more, and the same configuration; then            *)
(* "funnel ... off", whose outcome is not looked at.                        *)
Preflight ==
    /\ pc = "preflight"
    /\ IF Exact /\ phase = seen
       THEN /\ Continue("off", mem) /\ UNCHANGED seen
            /\ opened' = opened + 1
            /\ route' \in BOOLEAN
       ELSE Finish(mem) /\ UNCHANGED <<route, opened>>
    /\ UNCHANGED <<net, up, edge, phase, tried, good, deaths>>

(* "funnel ... configure" may fail too; only the acceptance looks.          *)
Configure ==
    /\ pc = "off"
    /\ route' \in {route, TRUE}
    /\ Continue("accept", [mem EXCEPT !.attempted = TRUE, !.recoveryAge = 0])
    /\ UNCHANGED <<seen, net, up, edge, phase, opened, tried, good, deaths>>

(* Below FINAL the public Manager must answer as well, which is not         *)
(* modelled: an acceptance may fail although the webhook answers.           *)
Accept ==
    /\ pc = "accept"
    /\ \/ /\ Exact /\ PublicOk
          /\ Finish(Remembering(Answered(mem), phase))
          /\ good' = 0 /\ opened' = 0
       \/ /\ phase < TopPhase \/ ~(Exact /\ PublicOk)
          /\ Finish(mem)
          /\ UNCHANGED <<good, opened>>
    /\ UNCHANGED <<machine, tried, deaths>>

(***************************************************************************)
(* The rest of the world.                                                   *)
(***************************************************************************)

Die ==
    /\ pc \in {"connecting", "checks", "probe", "preflight", "off", "accept"}
    /\ deaths < MaxDeaths
    /\ deaths' = deaths + 1
    /\ pc' = "idle" /\ mem' = Fresh /\ seen' = 0
    /\ UNCHANGED <<file, machine, opened, tried, good>>

Tick ==
    /\ pc = "idle"
    /\ file' = [file EXCEPT !.attemptAge = Older(@), !.failAge = Older(@),
                            !.recoveryAge = Older(@)]
    /\ good' = Older(good)
    /\ UNCHANGED <<pc, mem, seen, machine, opened, tried, deaths>>

NetChanges  == net' = ~net /\ UNCHANGED <<up, edge, route, phase>>
UpChanges   == up' = ~up /\ UNCHANGED <<net, edge, route, phase>>
EdgeChanges == edge' = ~edge /\ UNCHANGED <<net, up, route, phase>>
(* The operator installs a phase, with its webhook path.                    *)
Installs    == phase' \in Phases /\ route' = TRUE /\ UNCHANGED <<net, up, edge>>

Outside ==
    /\ NetChanges \/ UpChanges \/ EdgeChanges \/ Installs
    /\ UNCHANGED <<pc, file, mem, seen, opened, tried, good, deaths>>

Start == StartConnected \/ StartConnecting \/ StartOffline
Step  == Connecting \/ Checks \/ Probe \/ Preflight \/ Configure \/ Accept
Next  == Start \/ Step \/ Die \/ Tick \/ Outside

Spec == Init /\ [][Next]_vars

(* launchd starts the job every 300 seconds and the clock moves on.         *)
FairSpec == Spec /\ WF_vars(Start \/ Step) /\ WF_vars(Step) /\ SF_vars(Tick) /\ SF_vars(Start)

(***************************************************************************)
(* Properties.                                                              *)
(***************************************************************************)

TypeOK ==
    /\ pc \in {"idle", "connecting", "checks", "probe", "preflight", "off", "accept"}
    /\ file \in State /\ mem \in State /\ seen \in Phases
    /\ net \in BOOLEAN /\ up \in BOOLEAN /\ edge \in BOOLEAN /\ route \in BOOLEAN
    /\ phase \in Phases
    /\ opened \in Nat /\ tried \in Nat /\ good \in Ages /\ deaths \in 0..MaxDeaths

(* However the state file lags behind, the public route is torn down at     *)
(* most once per incident, plus once for every run that died after doing so. *)
OneRecoveryPerIncident == opened <= 1 + deaths

(* The watchdog does not hammer the VPN: attempts on one outage are bounded *)
(* by max_attempts, plus the runs that died with their count.               *)
BoundedAttempts == tried <= MaxAttempts + deaths

(* What the watchdog does to the machine is bounded although the state that *)
(* counts it is written only at the end of a run.                           *)
ActsAreBounded == OneRecoveryPerIncident /\ BoundedAttempts

(* The route is touched only after failures spread over the whole sampling  *)
(* window, with no completed run in between that counted none, however      *)
(* often runs are started by hand; and a healthy later phase is never       *)
(* rolled back by a recovery.                                               *)
RecoveryIsEarned ==
    [][pc = "preflight" /\ pc' = "off" => /\ good >= (Threshold - 1) * SampleGap
                                         /\ phase >= file.highest]_vars

(* An edge that stays down on a healthy machine in the final phase is acted *)
(* upon: the counting, the flag of an older incident and the cooldown never *)
(* hold a recovery off for ever.                                            *)
Failing == net /\ up /\ route /\ ~edge /\ phase = TopPhase
PersistentFailureRecovered == <>[]Failing => <>[](file.attempted)
=============================================================================
