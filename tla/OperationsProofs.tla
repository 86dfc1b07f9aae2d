-------------------------- MODULE OperationsProofs --------------------------
(***************************************************************************)
(* Proofs about the two services that work beside Discovery: the watchdog,  *)
(* for every value of its limits, and the notification outbox, for any set  *)
(* of senders.  They share neither state nor definitions, and are two       *)
(* arguments: Spec and IInv are the watchdog's, OutboxSpec and OutboxInv    *)
(* the outbox's.                                                            *)
(*                                                                          *)
(* Watchdog.  The history variables say what was done to the machine; the   *)
(* invariant relates them to the state file, which lags behind a run, and   *)
(* to the run's copy of it.                                                 *)
(*                                                                          *)
(* Outbox.  BoundedMail and RowTellsTheMail are not inductive: they say     *)
(* nothing of the sender that has sent and not yet written, or looked and   *)
(* not yet reserved.                                                        *)
(***************************************************************************)
EXTENDS Watchdog, NotificationOutbox, TLAPS

(***************************************************************************)
(* The watchdog.                                                            *)
(***************************************************************************)
Running == {"connecting", "checks", "probe", "preflight", "off", "accept"}

\* Until it acts on the route a run remembers of it what the file says.
Remembered ==
    /\ pc \in {"connecting", "checks", "probe"} =>
           mem.attempted = file.attempted /\ mem.recoveryAge = file.recoveryAge
    /\ pc \in {"preflight", "off"} => ~mem.attempted /\ ~file.attempted
    /\ pc = "accept" => mem.attempted /\ ~file.attempted

\* Every recovery is remembered by the file, made by a run that died, or made by
\* this run.
RecoveriesCounted ==
    /\ pc \in {"idle", "connecting", "checks", "probe", "preflight"} =>
           opened <= deaths + (IF file.attempted THEN 1 ELSE 0)
    /\ pc \in {"off", "accept"} => opened <= deaths + 1

\* Every attempt on a connection is counted in the file, made by a run that died,
\* or made by this run; a run that goes on found the connection up.
AttemptsCounted ==
    /\ pc = "idle" => tried <= deaths + file.retries
    /\ pc = "connecting" => /\ tried <= deaths + file.retries + 1
                            /\ file.retries < MaxAttempts /\ mem.retries = file.retries
    /\ pc \in {"checks", "probe", "preflight", "off", "accept"} => tried = 0

\* The failures a state counts, and the age of the last, reach back no farther
\* than the last run that counted none.
Spread(state) ==
    state.fails > 0 =>
        \/ good = AgeCap
        \/ good >= (state.fails - 1) * SampleGap + state.failAge

FailuresSpread ==
    /\ Spread(file)
    /\ pc \in Running => Spread(mem)
    /\ pc \in {"connecting", "checks", "probe"} =>
           mem.fails = file.fails /\ mem.failAge = file.failAge
    /\ pc = "preflight" => mem.fails = Threshold

\* The configuration a run has found is not below the highest one of the file.
PhaseKept ==
    /\ pc \in {"connecting", "checks"} => mem.highest = file.highest
    /\ pc \in {"probe", "preflight"} => seen >= file.highest

IInv == TypeOK /\ Remembered /\ RecoveriesCounted /\ AttemptsCounted
            /\ FailuresSpread /\ PhaseKept

(***************************************************************************)
(* Arithmetic of the sampling.                                              *)
(***************************************************************************)
LEMMA OneMore ==
    ASSUME NEW n \in Nat, NEW g \in Nat
    PROVE  /\ n * g \in Nat /\ (n + 1) * g = n * g + g /\ 0 * g = 0
BY SMT

LEMMA Bounds ==
    /\ Threshold \in Nat /\ Threshold > 0 /\ MaxAttempts \in Nat /\ MaxDeaths \in Nat
    /\ TopPhase \in Nat /\ AgeCap \in Nat /\ SampleGap \in 0..AgeCap
    /\ AgeCap \in Ages /\ 0 \in Ages /\ 0 \in Phases
<1>1. Threshold \in Nat /\ Threshold > 0 /\ MaxAttempts \in Nat /\ MaxDeaths \in Nat
      /\ TopPhase \in Nat /\ AgeCap \in Nat
  BY WatchdogAssumption
<1>2. SampleGap \in 0..AgeCap
  BY WatchdogAssumption, Zenon
<1> QED
  BY <1>1, <1>2 DEF Ages, Phases

LEMMA Window == (Threshold - 1) * SampleGap \in 0..AgeCap
BY WatchdogAssumption, Zenon

(***************************************************************************)
(* What a run changes of its state, field by field.                         *)
(***************************************************************************)
Like(s, t) ==
    /\ t \in State /\ t.retries = s.retries /\ t.recoveryAge = s.recoveryAge

LEMMA NoFailuresIs ==
    ASSUME NEW s \in State
    PROVE  LET t == NoFailures(s) IN
           /\ Like(s, t) /\ t.fails = 0 /\ t.attempted = s.attempted /\ t.highest = s.highest
BY Bounds DEF State, NoFailures, Like

LEMMA AnsweredIs ==
    ASSUME NEW s \in State
    PROVE  LET t == Answered(s) IN
           /\ Like(s, t) /\ t.fails = 0 /\ t.attempted = FALSE /\ t.highest = s.highest
<1>1. ASSUME NEW n \in 0..Threshold, NEW a \in Ages, NEW b \in BOOLEAN
      PROVE  LET t == [s EXCEPT !.fails = n, !.attempted = b, !.failAge = a] IN
             /\ t \in State /\ t.retries = s.retries /\ t.recoveryAge = s.recoveryAge
             /\ t.fails = n /\ t.attempted = b /\ t.highest = s.highest
  BY DEF State
<1>2. 0 \in 0..Threshold /\ AgeCap \in Ages /\ FALSE \in BOOLEAN
  BY Bounds
<1> QED
  BY <1>1, <1>2 DEF Answered, Like

LEMMA FreshIs == Fresh \in State
<1>1. 0 \in 0..MaxAttempts /\ 0 \in 0..Threshold /\ AgeCap \in Ages
      /\ FALSE \in BOOLEAN /\ -1 \in {-1} \cup Phases
  BY Bounds
<1> QED
  BY <1>1 DEF Fresh, State

LEMMA FieldsOf ==
    ASSUME NEW s \in State
    PROVE  /\ s.retries \in 0..MaxAttempts /\ s.fails \in 0..Threshold
           /\ s.failAge \in 0..AgeCap /\ s.recoveryAge \in 0..AgeCap
           /\ s.attempted \in BOOLEAN /\ s.highest \in Int
BY DEF State, Ages, Phases

LEMMA RememberingIs ==
    ASSUME NEW s \in State, NEW f \in Phases
    PROVE  LET t == Remembering(s, f) IN
           /\ Like(s, t) /\ t.fails = s.fails /\ t.failAge = s.failAge
           /\ t.attempted = s.attempted
           /\ t.highest = IF f > s.highest THEN f ELSE s.highest
BY Bounds DEF State, Phases, Remembering, Like

LEMMA CountedIs ==
    ASSUME NEW s \in State
    PROVE  LET t == Counted(s) IN
           /\ Like(s, t) /\ t.attempted = s.attempted /\ t.highest = s.highest
           /\ s.failAge >= SampleGap =>
                 /\ t.failAge = 0
                 /\ t.fails = IF s.fails < Threshold THEN s.fails + 1 ELSE s.fails
           /\ ~(s.failAge >= SampleGap) => t = s
<1>1. s.fails \in 0..Threshold
  BY DEF State
<1>2. CASE s.failAge >= SampleGap /\ s.fails < Threshold
  <2>1. s.fails + 1 \in 0..Threshold
    BY <1>1, <1>2, Bounds
  <2>2. Counted(s) = [s EXCEPT !.fails = s.fails + 1, !.failAge = 0]
    BY <1>2 DEF Counted
  <2> QED
    BY <1>2, <2>1, <2>2, Bounds DEF State, Like
<1>3. CASE s.failAge >= SampleGap /\ ~(s.fails < Threshold)
  <2>1. Counted(s) = [s EXCEPT !.fails = s.fails, !.failAge = 0]
    BY <1>3 DEF Counted
  <2> QED
    BY <1>1, <1>3, <2>1, Bounds DEF State, Like
<1>4. CASE ~(s.failAge >= SampleGap)
  BY <1>4 DEF Counted, Like
<1> QED
  BY <1>2, <1>3, <1>4

LEMMA ConnectedIs ==
    ASSUME NEW s \in State, NEW n \in 0..MaxAttempts
    PROVE  LET t == [s EXCEPT !.attemptAge = 0, !.retries = n] IN
           /\ t \in State /\ t.retries = n /\ t.fails = s.fails /\ t.failAge = s.failAge
           /\ t.attempted = s.attempted /\ t.recoveryAge = s.recoveryAge /\ t.highest = s.highest
BY Bounds DEF State

LEMMA AttemptedIs ==
    ASSUME NEW s \in State
    PROVE  LET t == [s EXCEPT !.attempted = TRUE, !.recoveryAge = 0] IN
           /\ t \in State /\ t.retries = s.retries /\ t.fails = s.fails /\ t.failAge = s.failAge
           /\ t.attempted = TRUE /\ t.highest = s.highest
BY Bounds DEF State

LEMMA AgedIs ==
    ASSUME NEW s \in State
    PROVE  LET t == [s EXCEPT !.attemptAge = Older(s.attemptAge), !.failAge = Older(s.failAge),
                              !.recoveryAge = Older(s.recoveryAge)] IN
           /\ t \in State /\ t.retries = s.retries /\ t.fails = s.fails
           /\ t.failAge = Older(s.failAge) /\ t.attempted = s.attempted /\ t.highest = s.highest
<1>1. \A a \in Ages : Older(a) \in Ages
  BY Bounds DEF Older, Ages
<1> HIDE DEF Older
<1> QED
  BY <1>1 DEF State

(***************************************************************************)
(* What the longer actions do to the file, the run and the history.         *)
(***************************************************************************)
LEMMA ConnectingDoes ==
    ASSUME IInv, Connecting
    PROVE  /\ opened' = opened /\ deaths' = deaths
           /\ \/ /\ pc' = "checks" /\ file' = file /\ tried' = 0 /\ good' = good
                 /\ mem'.fails = mem.fails /\ mem'.failAge = mem.failAge
                 /\ mem'.attempted = mem.attempted /\ mem'.recoveryAge = mem.recoveryAge
                 /\ mem'.highest = mem.highest
              \/ /\ pc' = "idle" /\ tried' = tried /\ good' = 0
                 /\ file'.retries = mem.retries + 1 /\ file'.fails = 0
                 /\ file'.attempted = mem.attempted
<1> DEFINE n == IF net THEN 0 ELSE mem.retries + 1
           c == [mem EXCEPT !.attemptAge = 0, !.retries = n]
<1>1. n \in 0..MaxAttempts
  <2>1. mem.retries = file.retries /\ file.retries < MaxAttempts
    BY DEF Connecting, IInv, AttemptsCounted
  <2>2. file.retries \in 0..MaxAttempts /\ MaxAttempts \in Nat
    BY FieldsOf, Bounds DEF IInv, TypeOK
  <2> QED
    BY <2>1, <2>2
<1>2. mem \in State
  BY DEF IInv, TypeOK
<1>3. /\ c \in State /\ c.retries = n /\ c.fails = mem.fails /\ c.failAge = mem.failAge
      /\ c.attempted = mem.attempted /\ c.recoveryAge = mem.recoveryAge
      /\ c.highest = mem.highest
  BY <1>1, <1>2, ConnectedIs
<1>4. /\ opened' = opened /\ deaths' = deaths
      /\ IF net THEN pc' = "checks" /\ mem' = c /\ file' = file /\ tried' = 0 /\ good' = good
         ELSE pc' = "idle" /\ file' = NoFailures(c) /\ tried' = tried /\ good' = 0
  BY DEF Connecting, Continue, Finish
<1>5. ~net => n = mem.retries + 1
  OBVIOUS
<1> HIDE DEF c, n
<1>6. /\ NoFailures(c).retries = c.retries /\ NoFailures(c).fails = 0
      /\ NoFailures(c).attempted = c.attempted
  BY <1>3, NoFailuresIs DEF Like
<1> QED
  BY <1>3, <1>4, <1>5, <1>6

LEMMA ProbeDoes ==
    ASSUME IInv, Probe
    PROVE  /\ tried' = tried /\ deaths' = deaths
           /\ \/ /\ pc' = "idle" /\ opened' = 0 /\ good' = 0 /\ file' = Answered(mem)
              \/ /\ pc' = "preflight" /\ opened' = opened /\ good' = good
                 /\ file' = file /\ mem' = Counted(mem) /\ Warranted(Counted(mem))
              \/ /\ pc' = "idle" /\ opened' = opened /\ good' = good
                 /\ file' = Counted(mem)
BY DEF Probe, Continue, Finish

LEMMA AcceptDoes ==
    ASSUME IInv, Accept
    PROVE  /\ tried' = tried /\ deaths' = deaths /\ pc' = "idle" /\ file' \in State
           /\ \/ opened' = 0 /\ good' = 0 /\ file'.fails = 0
              \/ opened' = opened /\ good' = good /\ file' = mem
<1>1. mem \in State /\ phase \in Phases
  BY DEF IInv, TypeOK
<1>2. Answered(mem) \in State /\ Answered(mem).fails = 0
  BY <1>1, AnsweredIs DEF Like
<1>3. /\ Remembering(Answered(mem), phase) \in State
      /\ Remembering(Answered(mem), phase).fails = Answered(mem).fails
  BY <1>1, <1>2, RememberingIs DEF Like
<1>4. /\ tried' = tried /\ deaths' = deaths /\ pc' = "idle"
      /\ \/ opened' = 0 /\ good' = 0 /\ file' = Remembering(Answered(mem), phase)
         \/ opened' = opened /\ good' = good /\ file' = mem
  BY DEF Accept, Finish
<1> QED
  BY <1>1, <1>2, <1>3, <1>4

(***************************************************************************)
(* The parts of the invariant, one by one.                                  *)
(***************************************************************************)
LEMMA InitHolds == Init => IInv
BY Bounds DEF Init, IInv, TypeOK, Remembered, RecoveriesCounted, AttemptsCounted,
  FailuresSpread, Spread, PhaseKept, Fresh, State, Ages, Phases, Running

LEMMA StepTypeOK == IInv /\ [Next]_vars => TypeOK'
<1> SUFFICES ASSUME IInv, [Next]_vars PROVE TypeOK'
  OBVIOUS
<1> USE Bounds, FreshIs DEF IInv, TypeOK, machine, Continue, Like
<1>1. CASE StartConnected
  <2>1. [file EXCEPT !.retries = 0] \in State
    BY DEF State
  <2> QED
    BY <1>1, <2>1 DEF StartConnected
<1>2. CASE StartConnecting
  BY <1>2 DEF StartConnecting
<1>3. CASE StartOffline
  <2>1. NoFailures(file) \in State
    BY NoFailuresIs
  <2> QED
    BY <1>3, <2>1 DEF StartOffline, Finish
<1>4. CASE Connecting
  <2> DEFINE n == IF net THEN 0 ELSE mem.retries + 1
             c == [mem EXCEPT !.attemptAge = 0, !.retries = n]
  <2>1. n \in 0..MaxAttempts
    <3>1. mem.retries = file.retries /\ file.retries < MaxAttempts
      BY <1>4 DEF Connecting, AttemptsCounted
    <3>2. file.retries \in 0..MaxAttempts
      BY FieldsOf
    <3> QED
      BY <3>1, <3>2
  <2>2. c \in State
    BY <2>1, ConnectedIs
  <2>3. IF net THEN pc' = "checks" /\ mem' = c /\ file' = file /\ tried' = 0 /\ seen' = seen /\ good' = good
        ELSE /\ pc' = "idle" /\ file' = NoFailures(c) /\ mem' = Fresh /\ seen' = 0 /\ good' = 0
             /\ tried' = tried
    BY <1>4 DEF Connecting, Finish
  <2>4. UNCHANGED <<net, up, edge, route, phase, opened, deaths>>
    BY <1>4 DEF Connecting
  <2> HIDE DEF c
  <2>5. NoFailures(c) \in State
    BY <2>2, NoFailuresIs
  <2> QED
    BY <2>2, <2>3, <2>4, <2>5
<1>5. CASE Checks
  <2>1. Remembering(mem, phase) \in State /\ NoFailures(mem) \in State
    BY NoFailuresIs, RememberingIs
  <2>2. \/ /\ pc' = "probe" /\ mem' = Remembering(mem, phase) /\ file' = file
           /\ seen' = phase /\ good' = good
        \/ /\ pc' = "idle" /\ file' = NoFailures(mem) /\ mem' = Fresh /\ seen' = 0 /\ good' = 0
    BY <1>5 DEF Checks, Finish
  <2>3. UNCHANGED <<net, up, edge, route, phase, opened, tried, deaths>>
    BY <1>5 DEF Checks
  <2> QED
    BY <2>1, <2>2, <2>3
<1>6. CASE Probe
  <2>1. Answered(mem) \in State /\ Counted(mem) \in State
    BY AnsweredIs, CountedIs
  <2>2. \/ /\ pc' = "idle" /\ file' = Answered(mem) /\ mem' = Fresh /\ seen' = 0
           /\ good' = 0 /\ opened' = 0
        \/ /\ pc' = "preflight" /\ mem' = Counted(mem) /\ file' = file /\ seen' = seen
           /\ good' = good /\ opened' = opened
        \/ /\ pc' = "idle" /\ file' = Counted(mem) /\ mem' = Fresh /\ seen' = 0
           /\ good' = good /\ opened' = opened
    BY <1>6 DEF Probe, Finish
  <2>3. UNCHANGED <<net, up, edge, route, phase, tried, deaths>>
    BY <1>6 DEF Probe
  <2> QED
    BY <2>1, <2>2, <2>3
<1>7. CASE Preflight
  <2>1. /\ pc' \in {"off", "idle"} /\ file' \in State /\ mem' \in State /\ seen' \in Phases
        /\ opened' \in Nat /\ route' \in BOOLEAN
    BY <1>7 DEF Preflight, Finish
  <2>2. UNCHANGED <<net, up, edge, phase, tried, good, deaths>>
    BY <1>7 DEF Preflight
  <2> QED
    BY <2>1, <2>2
<1>8. CASE Configure
  <2>1. [mem EXCEPT !.attempted = TRUE, !.recoveryAge = 0] \in State
    BY AttemptedIs
  <2>2. /\ pc' = "accept" /\ mem' = [mem EXCEPT !.attempted = TRUE, !.recoveryAge = 0]
        /\ route' \in BOOLEAN
        /\ UNCHANGED <<file, seen, net, up, edge, phase, opened, tried, good, deaths>>
    BY <1>8 DEF Configure
  <2> QED
    BY <2>1, <2>2
<1>9. CASE Accept
  <2>1. Answered(mem) \in State
    BY AnsweredIs
  <2>2. Remembering(Answered(mem), phase) \in State
    BY <2>1, RememberingIs
  <2>3. /\ pc' = "idle" /\ mem' = Fresh /\ seen' = 0
        /\ \/ file' = Remembering(Answered(mem), phase) /\ good' = 0 /\ opened' = 0
           \/ file' = mem /\ good' = good /\ opened' = opened
    BY <1>9 DEF Accept, Finish
  <2>4. UNCHANGED <<net, up, edge, route, phase, tried, deaths>>
    BY <1>9 DEF Accept
  <2> QED
    BY <2>1, <2>2, <2>3, <2>4
<1>10. CASE Die
  BY <1>10 DEF Die
<1>11. CASE Tick
  <2>1. file' \in State
    BY <1>11, AgedIs DEF Tick
  <2>2. good' \in Ages
    BY <1>11 DEF Tick, Older, Ages
  <2>3. UNCHANGED <<pc, mem, seen, net, up, edge, route, phase, opened, tried, deaths>>
    BY <1>11 DEF Tick
  <2> QED
    BY <2>1, <2>2, <2>3
<1>12. CASE Outside
  <2>1. /\ net' \in BOOLEAN /\ up' \in BOOLEAN /\ edge' \in BOOLEAN /\ route' \in BOOLEAN
        /\ phase' \in Phases
    BY <1>12 DEF Outside, NetChanges, UpChanges, EdgeChanges, Installs
  <2>2. UNCHANGED <<pc, file, mem, seen, opened, tried, good, deaths>>
    BY <1>12 DEF Outside
  <2> QED
    BY <2>1, <2>2
<1>13. CASE UNCHANGED vars
  BY <1>13 DEF vars
<1> QED
  BY <1>1, <1>2, <1>3, <1>4, <1>5, <1>6, <1>7, <1>8, <1>9, <1>10, <1>11, <1>12, <1>13 DEF Next, Start, Step

LEMMA StepRemembered == IInv /\ [Next]_vars => Remembered'
<1> SUFFICES ASSUME IInv, [Next]_vars PROVE Remembered'
  OBVIOUS
<1> USE Bounds DEF IInv, Like, TypeOK, machine, Continue, Remembered, State, Running
<1>1. CASE StartConnected
  BY <1>1 DEF StartConnected
<1>2. CASE StartConnecting
  BY <1>2 DEF StartConnecting, MayConnect
<1>3. CASE StartOffline
  BY <1>3, NoFailuresIs DEF StartOffline, Finish
<1>4. CASE Connecting
  <2>1. pc = "connecting"
    BY <1>4 DEF Connecting
  <2> QED
    BY <1>4, <2>1, ConnectingDoes
<1>5. CASE Checks
  BY <1>5, NoFailuresIs, RememberingIs DEF Checks, Finish, Exact
<1>6. CASE Probe
  BY <1>6, AnsweredIs, CountedIs DEF Probe, Finish, Warranted
<1>7. CASE Preflight
  BY <1>7 DEF Preflight, Finish, Exact
<1>8. CASE Configure
  BY <1>8, AttemptedIs DEF Configure
<1>9. CASE Accept
  BY <1>9, AnsweredIs, RememberingIs DEF Accept, Finish
<1>10. CASE Die
  BY <1>10 DEF Die
<1>11. CASE Tick
  BY <1>11 DEF Tick, Older
<1>12. CASE Outside
  BY <1>12 DEF Outside, NetChanges, UpChanges, EdgeChanges, Installs
<1>13. CASE UNCHANGED vars
  BY <1>13 DEF vars
<1> QED
  BY <1>1, <1>2, <1>3, <1>4, <1>5, <1>6, <1>7, <1>8, <1>9, <1>10, <1>11, <1>12, <1>13 DEF Next, Start, Step

LEMMA StepRecoveriesCounted == IInv /\ [Next]_vars => RecoveriesCounted'
<1> SUFFICES ASSUME IInv, [Next]_vars PROVE RecoveriesCounted'
  OBVIOUS
<1> USE Bounds DEF IInv, Like, TypeOK, machine, Continue, Remembered, RecoveriesCounted, State, Running
<1>1. CASE StartConnected
  BY <1>1 DEF StartConnected
<1>2. CASE StartConnecting
  BY <1>2 DEF StartConnecting, MayConnect
<1>3. CASE StartOffline
  BY <1>3, NoFailuresIs DEF StartOffline, Finish
<1>4. CASE Connecting
  <2>1. pc = "connecting"
    BY <1>4 DEF Connecting
  <2> QED
    BY <1>4, <2>1, ConnectingDoes
<1>5. CASE Checks
  BY <1>5, NoFailuresIs, RememberingIs DEF Checks, Finish, Exact
<1>6. CASE Probe
  BY <1>6, AnsweredIs, CountedIs DEF Probe, Finish, Warranted
<1>7. CASE Preflight
  BY <1>7 DEF Preflight, Finish, Exact
<1>8. CASE Configure
  BY <1>8, AttemptedIs DEF Configure
<1>9. CASE Accept
  BY <1>9, AnsweredIs, RememberingIs DEF Accept, Finish
<1>10. CASE Die
  BY <1>10 DEF Die
<1>11. CASE Tick
  BY <1>11 DEF Tick, Older
<1>12. CASE Outside
  BY <1>12 DEF Outside, NetChanges, UpChanges, EdgeChanges, Installs
<1>13. CASE UNCHANGED vars
  BY <1>13 DEF vars
<1> QED
  BY <1>1, <1>2, <1>3, <1>4, <1>5, <1>6, <1>7, <1>8, <1>9, <1>10, <1>11, <1>12, <1>13 DEF Next, Start, Step

LEMMA StepAttemptsCounted == IInv /\ [Next]_vars => AttemptsCounted'
<1> SUFFICES ASSUME IInv, [Next]_vars PROVE AttemptsCounted'
  OBVIOUS
<1> USE Bounds DEF IInv, Like, TypeOK, machine, Continue, AttemptsCounted, State, Running
<1>1. CASE StartConnected
  BY <1>1 DEF StartConnected
<1>2. CASE StartConnecting
  BY <1>2 DEF StartConnecting, MayConnect
<1>3. CASE StartOffline
  BY <1>3, NoFailuresIs DEF StartOffline, Finish
<1>4. CASE Connecting
  <2>1. pc = "connecting"
    BY <1>4 DEF Connecting
  <2>2. file.retries \in 0..MaxAttempts
    BY FieldsOf
  <2>3. /\ tried <= deaths + file.retries + 1 /\ mem.retries = file.retries
    BY <2>1
  <2>4. \/ pc' = "checks" /\ tried' = 0
        \/ pc' = "idle" /\ tried' = tried /\ deaths' = deaths /\ file'.retries = mem.retries + 1
    BY <1>4, ConnectingDoes
  <2> HIDE DEF State
  <2> QED
    BY <2>2, <2>3, <2>4
<1>5. CASE Checks
  BY <1>5, NoFailuresIs, RememberingIs DEF Checks, Finish, Exact
<1>6. CASE Probe
  <2>1. pc = "probe" /\ tried = 0
    BY <1>6 DEF Probe
  <2>2. file' \in State /\ file'.retries \in 0..MaxAttempts
    BY FieldsOf, StepTypeOK DEF TypeOK
  <2>3. tried' = 0 /\ deaths' = deaths /\ pc' \in {"idle", "preflight"}
    BY <1>6, <2>1, ProbeDoes
  <2> HIDE DEF State
  <2> QED
    BY <2>2, <2>3
<1>7. CASE Preflight
  BY <1>7 DEF Preflight, Finish, Exact
<1>8. CASE Configure
  BY <1>8, AttemptedIs DEF Configure
<1>9. CASE Accept
  <2>1. pc = "accept" /\ tried = 0
    BY <1>9 DEF Accept
  <2>2. file' \in State /\ file'.retries \in 0..MaxAttempts
    BY FieldsOf, StepTypeOK DEF TypeOK
  <2>3. tried' = 0 /\ deaths' = deaths /\ pc' = "idle"
    BY <1>9, <2>1, AcceptDoes
  <2> HIDE DEF State
  <2> QED
    BY <2>2, <2>3
<1>10. CASE Die
  BY <1>10 DEF Die
<1>11. CASE Tick
  BY <1>11 DEF Tick, Older
<1>12. CASE Outside
  BY <1>12 DEF Outside, NetChanges, UpChanges, EdgeChanges, Installs
<1>13. CASE UNCHANGED vars
  BY <1>13 DEF vars
<1> QED
  BY <1>1, <1>2, <1>3, <1>4, <1>5, <1>6, <1>7, <1>8, <1>9, <1>10, <1>11, <1>12, <1>13 DEF Next, Start, Step

LEMMA StepFailuresSpread == IInv /\ [Next]_vars => FailuresSpread'
<1> SUFFICES ASSUME IInv, [Next]_vars PROVE FailuresSpread'
  OBVIOUS
<1> USE Bounds DEF IInv, Like, TypeOK, machine, Continue, FailuresSpread, Spread, State, Ages, Running
<1>1. CASE StartConnected
  BY <1>1 DEF StartConnected
<1>2. CASE StartConnecting
  BY <1>2 DEF StartConnecting, MayConnect
<1>3. CASE StartOffline
  BY <1>3, NoFailuresIs DEF StartOffline, Finish
<1>4. CASE Connecting
  <2>1. pc = "connecting"
    BY <1>4 DEF Connecting
  <2> QED
    BY <1>4, <2>1, ConnectingDoes
<1>5. CASE Checks
  BY <1>5, NoFailuresIs, RememberingIs DEF Checks, Finish, Exact
<1>6. CASE Probe
  <2>1. CASE PublicOk /\ Finish(Answered(mem)) /\ good' = 0 /\ opened' = 0
    <3>1. file' = Answered(mem) /\ pc' = "idle"
      BY <2>1 DEF Finish
    <3>2. Answered(mem).fails = 0
      BY AnsweredIs
    <3> QED
      BY <3>1, <3>2
  <2>2. CASE ~PublicOk
    <3> DEFINE c == Counted(mem)
    <3>1. c \in State /\ c.fails \in 0..Threshold
      BY CountedIs
    <3>2. Spread(c)
      <4>1. CASE mem.failAge >= SampleGap /\ mem.fails < Threshold
        <5>1. c.fails = mem.fails + 1 /\ c.failAge = 0
          BY <4>1, CountedIs
        <5>2. CASE mem.fails = 0
          BY <5>1, <5>2, OneMore
        <5>3. CASE mem.fails > 0
          <6>1. mem.fails - 1 \in Nat /\ (mem.fails - 1) + 1 = mem.fails
            BY <5>3
          <6>2. mem.fails * SampleGap = (mem.fails - 1) * SampleGap + SampleGap /\ (mem.fails - 1) * SampleGap \in Nat
            BY <6>1, OneMore
          <6>3. good = AgeCap \/ good >= (mem.fails - 1) * SampleGap + mem.failAge
            BY <1>6, <5>3 DEF Probe
          <6>4. (c.fails - 1) * SampleGap + c.failAge = mem.fails * SampleGap
            <7>1. c.fails - 1 = mem.fails
              BY <5>1
            <7>2. mem.fails * SampleGap \in Nat
              BY OneMore
            <7> QED
              BY <5>1, <7>1, <7>2
          <6> QED
            BY <6>2, <6>3, <6>4, <4>1
        <5> QED
          BY <5>2, <5>3
      <4>2. CASE mem.failAge >= SampleGap /\ ~(mem.fails < Threshold)
        <5>1. c.fails = mem.fails /\ c.failAge = 0 /\ mem.fails > 0
          BY <4>2, CountedIs
        <5>2. (mem.fails - 1) * SampleGap \in Nat
          BY <5>1, OneMore
        <5>3. good = AgeCap \/ good >= (mem.fails - 1) * SampleGap + mem.failAge
          BY <1>6, <5>1 DEF Probe
        <5> QED
          BY <5>1, <5>2, <5>3
      <4>3. CASE ~(mem.failAge >= SampleGap)
        <5>1. c = mem
          BY <4>3, CountedIs
        <5> QED
          BY <5>1, <1>6 DEF Probe
      <4> QED
        BY <4>1, <4>2, <4>3
    <3> HIDE DEF c
    <3>3. \/ /\ mem' = c /\ pc' = "preflight" /\ c.fails >= Threshold
             /\ file' = file /\ good' = good
          \/ file' = c /\ pc' = "idle" /\ good' = good
      <4>1. /\ IF Warranted(c) THEN Continue("preflight", c) ELSE Finish(c)
            /\ UNCHANGED good
        BY <1>6, <2>2, Zenon DEF Probe, c
      <4>2. CASE Warranted(c)
        <5>1. c.fails >= Threshold
          BY <4>2 DEF Warranted
        <5>2. mem' = c /\ pc' = "preflight" /\ file' = file /\ good' = good
          BY <4>1, <4>2 DEF Continue
        <5> QED
          BY <5>1, <5>2
      <4>3. CASE ~Warranted(c)
        BY <4>1, <4>3 DEF Finish
      <4> QED
        BY <4>2, <4>3
    <3>4. CASE /\ mem' = c /\ pc' = "preflight" /\ c.fails >= Threshold
               /\ file' = file /\ good' = good
      <4>1. c.fails = Threshold
        BY <3>1, <3>4
      <4>2. Spread(mem)' /\ Spread(file)'
        BY <3>2, <3>4
      <4> QED
        BY <3>4, <4>1, <4>2
    <3>5. CASE file' = c /\ pc' = "idle" /\ good' = good
      <4>1. Spread(file)'
        BY <3>2, <3>5
      <4> QED
        BY <3>5, <4>1
    <3> QED
      BY <3>3, <3>4, <3>5
  <2> QED
    BY <1>6, <2>1, <2>2 DEF Probe
<1>7. CASE Preflight
  BY <1>7 DEF Preflight, Finish, Exact
<1>8. CASE Configure
  BY <1>8, AttemptedIs DEF Configure
<1>9. CASE Accept
  <2>1. pc = "accept" /\ Spread(mem)
    BY <1>9 DEF Accept
  <2> QED
    BY <1>9, <2>1, AcceptDoes
<1>10. CASE Die
  BY <1>10 DEF Die
<1>11. CASE Tick
  <2>1. /\ file'.fails = file.fails /\ pc' = "idle"
        /\ file'.failAge = Older(file.failAge) /\ good' = Older(good)
    BY <1>11 DEF Tick
  <2>2. CASE file.fails > 0
    <3>1. (file.fails - 1) * SampleGap \in Nat
      <4>1. file.fails - 1 \in Nat
        BY <2>2
      <4> QED
        BY <4>1, OneMore
    <3>2. good = AgeCap \/ good >= (file.fails - 1) * SampleGap + file.failAge
      BY <2>2
    <3>3. file.failAge \in 0..AgeCap /\ good \in 0..AgeCap /\ file'.failAge \in 0..AgeCap
      BY <2>1 DEF Older
    <3>4. good' = AgeCap \/ good' >= (file.fails - 1) * SampleGap + file'.failAge
      BY <2>1, <3>1, <3>2, <3>3 DEF Older
    <3> QED
      BY <2>1, <3>4
  <2>3. CASE ~(file.fails > 0)
    BY <2>1, <2>3
  <2> QED
    BY <2>2, <2>3
<1>12. CASE Outside
  BY <1>12 DEF Outside, NetChanges, UpChanges, EdgeChanges, Installs
<1>13. CASE UNCHANGED vars
  BY <1>13 DEF vars
<1> QED
  BY <1>1, <1>2, <1>3, <1>4, <1>5, <1>6, <1>7, <1>8, <1>9, <1>10, <1>11, <1>12, <1>13 DEF Next, Start, Step

LEMMA StepPhaseKept == IInv /\ [Next]_vars => PhaseKept'
<1> SUFFICES ASSUME IInv, [Next]_vars PROVE PhaseKept'
  OBVIOUS
<1> USE Bounds DEF IInv, Like, TypeOK, machine, Continue, PhaseKept, State, Phases, Running
<1>1. CASE StartConnected
  BY <1>1 DEF StartConnected
<1>2. CASE StartConnecting
  BY <1>2 DEF StartConnecting, MayConnect
<1>3. CASE StartOffline
  BY <1>3, NoFailuresIs DEF StartOffline, Finish
<1>4. CASE Connecting
  BY <1>4, NoFailuresIs DEF Connecting, Finish
<1>5. CASE Checks
  BY <1>5, NoFailuresIs, RememberingIs DEF Checks, Finish, Exact
<1>6. CASE Probe
  BY <1>6, AnsweredIs, CountedIs DEF Probe, Finish, Warranted
<1>7. CASE Preflight
  BY <1>7 DEF Preflight, Finish, Exact
<1>8. CASE Configure
  BY <1>8, AttemptedIs DEF Configure
<1>9. CASE Accept
  BY <1>9, AnsweredIs, RememberingIs DEF Accept, Finish
<1>10. CASE Die
  BY <1>10 DEF Die
<1>11. CASE Tick
  BY <1>11 DEF Tick, Older
<1>12. CASE Outside
  BY <1>12 DEF Outside, NetChanges, UpChanges, EdgeChanges, Installs
<1>13. CASE UNCHANGED vars
  BY <1>13 DEF vars
<1> QED
  BY <1>1, <1>2, <1>3, <1>4, <1>5, <1>6, <1>7, <1>8, <1>9, <1>10, <1>11, <1>12, <1>13 DEF Next, Start, Step

(***************************************************************************)
(* The theorems.                                                            *)
(***************************************************************************)
LEMMA Inductive == Spec => []IInv
<1>1. IInv /\ [Next]_vars => IInv'
  BY StepTypeOK, StepRemembered, StepRecoveriesCounted, StepAttemptsCounted, StepFailuresSpread,
     StepPhaseKept DEF IInv
<1> QED
  BY InitHolds, <1>1, PTL DEF Spec

(* The state file and the run keep their types; in particular retries never  *)
(* pass max_attempts and a run saves nothing it did not compute.             *)
THEOREM WatchdogTypeCorrect == Spec => []TypeOK
<1>1. IInv => TypeOK
  BY DEF IInv
<1> QED
  BY Inductive, <1>1, PTL

(* However often runs die between an action and the write that counts it,    *)
(* the public route is torn down once per incident and the connection is     *)
(* attempted max_attempts times, plus once for each such death.              *)
THEOREM WatchdogBoundsItsActs == Spec => []ActsAreBounded
<1>1. IInv => ActsAreBounded
  <2> SUFFICES ASSUME IInv PROVE ActsAreBounded
    OBVIOUS
  <2>1. pc \in {"idle"} \cup Running /\ deaths \in Nat /\ opened \in Nat /\ tried \in Nat
    BY Bounds DEF IInv, TypeOK, Running
  <2>2. file.retries \in 0..MaxAttempts /\ MaxAttempts \in Nat
    BY Bounds DEF IInv, TypeOK, State
  <2>3. OneRecoveryPerIncident
    BY <2>1 DEF IInv, RecoveriesCounted, OneRecoveryPerIncident, Running
  <2>4. BoundedAttempts
    BY <2>1, <2>2 DEF IInv, AttemptsCounted, BoundedAttempts, Running
  <2> QED
    BY <2>3, <2>4 DEF ActsAreBounded
<1> QED
  BY Inductive, <1>1, PTL

(* The route is torn down only after failures spread over the whole window,  *)
(* with no run in between that counted none, and never below the highest     *)
(* configuration the file has seen healthy.                                  *)
THEOREM WatchdogEarnsRecovery == Spec => RecoveryIsEarned
<1>1. IInv /\ [Next]_vars =>
        [pc = "preflight" /\ pc' = "off" => /\ good >= (Threshold - 1) * SampleGap
                                           /\ phase >= file.highest]_vars
  <2> SUFFICES ASSUME IInv, [Next]_vars, pc = "preflight", pc' = "off"
               PROVE  good >= (Threshold - 1) * SampleGap /\ phase >= file.highest
    OBVIOUS
  <2>1. Preflight
    BY DEF Next, Start, Step, StartConnected, StartConnecting, StartOffline, Connecting, Checks,
       Probe, Configure, Accept, Die, Tick, Outside, vars
  <2>2. phase = seen
    BY <2>1 DEF Preflight, Finish
  <2>3. phase >= file.highest
    BY <2>2 DEF IInv, PhaseKept
  <2>4. mem.fails = Threshold /\ Spread(mem) /\ mem.failAge \in 0..AgeCap /\ good \in 0..AgeCap
    BY DEF IInv, FailuresSpread, Running, TypeOK, State, Ages
  <2>5. (Threshold - 1) * SampleGap \in 0..AgeCap /\ Threshold > 0
    BY Bounds, Window
  <2>6. good = AgeCap \/ good >= (Threshold - 1) * SampleGap + mem.failAge
    BY <2>4, <2>5 DEF Spread
  <2> QED
    BY <2>3, <2>4, <2>5, <2>6
<1> QED
  BY Inductive, <1>1, PTL DEF Spec, RecoveryIsEarned

(***************************************************************************)
(* The outbox.                                                              *)
(***************************************************************************)

\* The senders that hold a row they reserved.
Holding == {"reserved", "ready", "attempting", "delivered"}
Attached(e) == row[e].attachment = "attached"

\* Two senders are at work together on alerts only.
OneOwnerEach ==
    \A s, t \in Sender : s # t /\ at[s] \in Busy /\ at[t] \in Busy =>
        event[s] = "alert" \/ event[t] = "alert"

\* A final event is announced by a sender that found none: it is still so when
\* the sender reserves.
FinalsUntold ==
    /\ \A s \in Sender : at[s] = "looked" => ~AlreadyTold(event[s])
    /\ ~(Exists("completed") /\ Exists("zero"))

\* A reserved row is open, and no second sender holds it.
RowsHeld ==
    /\ \A s \in Sender : at[s] \in Holding => row[event[s]].status \in {"pending", "sending"}
    /\ \A s, t \in Sender : /\ at[s] \in Holding /\ at[t] \in Holding
                            /\ event[s] = event[t]
                            => s = t

\* No message without an attempt, none before the first, and one less than the
\* attempts while one is being made.
MailCounted ==
    /\ \A e \in Event :
         /\ Mails(e) <= row[e].attempts
         /\ ~Exists(e) => row[e].attempts = 0
    /\ \A s \in Sender :
         /\ at[s] = "reserved" => row[event[s]].attempts = 0
         /\ at[s] = "attempting" => Mails(event[s]) < row[event[s]].attempts
         /\ at[s] = "delivered" => Mails(event[s]) > 0

\* What is attached to the message is what the row says, and so are the copies.
MailTold ==
    /\ \A s \in Sender :
         /\ at[s] \in {"new", "looked", "reserved"} => ~attached[s]
         /\ at[s] \in {"ready", "attempting", "delivered"} =>
                attached[s] = Attached(event[s])
    /\ \A e \in Event : IF Attached(e) THEN mail[e].plain = 0 ELSE mail[e].attached = 0
    /\ \A e \in Event : row[e].status = "sent" => Mails(e) > 0

OutboxInv == OutboxTypeOK /\ OneOwnerEach /\ FinalsUntold /\ RowsHeld /\ MailCounted /\ MailTold

OutboxRow == [status : Status, attempts : 0..MaxSends,
              attachment : {"none", "attached", "not_attached", "invalid"}]
MailRow == [plain : Nat, attached : Nat]

\* What an UPDATE leaves in the outbox.
Change(e, status, attempts, attachment) ==
    /\ row' \in [Event -> OutboxRow]
    /\ \A f \in Event : f # e => row'[f] = row[f]
    /\ row'[e].status = status
    /\ row'[e].attempts = attempts
    /\ row'[e].attachment = attachment

\* What an accepted message adds.
Accepted(e, withFile) ==
    /\ mail' \in [Event -> MailRow]
    /\ \A f \in Event : f # e => mail'[f] = mail[f]
    /\ mail'[e].plain = IF withFile THEN mail[e].plain ELSE mail[e].plain + 1
    /\ mail'[e].attached = IF withFile THEN mail[e].attached + 1 ELSE mail[e].attached

(***************************************************************************)
(* What each UPDATE does, field by field.                                   *)
(***************************************************************************)
LEMMA StatusChanges ==
    ASSUME OutboxTypeOK, NEW s \in Sender,
           NEW v \in Status, SetStatus(s, v)
    PROVE  Change(event[s], v, row[event[s]].attempts, row[event[s]].attachment)
<1> DEFINE e == event[s]  r == row[e]  q == [r EXCEPT !.status = v]
<1>1. e \in Event /\ row \in [Event -> OutboxRow] /\ r \in OutboxRow
  BY DEF OutboxTypeOK, OutboxRow
<1>2. row' = [row EXCEPT ![e] = q]
  BY DEF SetStatus
<1>3. q \in OutboxRow /\ q.status = v /\ q.attempts = r.attempts /\ q.attachment = r.attachment
  BY <1>1 DEF OutboxRow
<1> HIDE DEF q, r, e
<1>4. Change(e, v, r.attempts, r.attachment)
  BY <1>1, <1>2, <1>3 DEF Change
<1> QED
  BY <1>4 DEF e, r

LEMMA AttachmentChanges ==
    ASSUME OutboxTypeOK, NEW s \in Sender, BuildFallback(s)
    PROVE  Change(event[s], row[event[s]].status, row[event[s]].attempts, "invalid")
<1> DEFINE e == event[s]  r == row[e]  q == [r EXCEPT !.attachment = "invalid"]
<1>1. e \in Event /\ row \in [Event -> OutboxRow] /\ r \in OutboxRow
  BY DEF OutboxTypeOK, OutboxRow
<1>2. row' = [row EXCEPT ![e] = q]
  BY DEF BuildFallback
<1>3. q \in OutboxRow /\ q.status = r.status /\ q.attempts = r.attempts /\ q.attachment = "invalid"
  BY <1>1 DEF OutboxRow
<1> HIDE DEF q, r, e
<1>4. Change(e, r.status, r.attempts, "invalid")
  BY <1>1, <1>2, <1>3 DEF Change
<1> QED
  BY <1>4 DEF e, r

LEMMA AttemptChanges ==
    ASSUME OutboxTypeOK, NEW s \in Sender, BeginAttempt(s)
    PROVE  Change(event[s], "sending", row[event[s]].attempts + 1, row[event[s]].attachment)
<1> DEFINE e == event[s]  r == row[e]
           q == [r EXCEPT !.status = "sending", !.attempts = r.attempts + 1]
<1>1. /\ e \in Event /\ row \in [Event -> OutboxRow]
      /\ r \in OutboxRow /\ r.attempts < MaxSends
  BY DEF OutboxTypeOK, OutboxRow, BeginAttempt, MaySend
<1>2. row' = [row EXCEPT ![e] = q]
  BY DEF BeginAttempt
<1>3. r.attempts + 1 \in 0..MaxSends /\ "sending" \in Status
  BY <1>1, OutboxAssumption DEF OutboxRow, Status
<1>4. /\ q \in OutboxRow /\ q.status = "sending" /\ q.attempts = r.attempts + 1
      /\ q.attachment = r.attachment
  BY <1>1, <1>3 DEF OutboxRow
<1> HIDE DEF q, r, e
<1>5. Change(e, "sending", r.attempts + 1, r.attachment)
  BY <1>1, <1>2, <1>4 DEF Change
<1> QED
  BY <1>5 DEF e, r

LEMMA ReserveChanges ==
    ASSUME OutboxTypeOK, NEW s \in Sender, Reserve(s),
           ~Exists(event[s])
    PROVE  \E d \in Decisions(event[s]) : Change(event[s], "pending", 0, d)
<1>1. PICK d \in Decisions(event[s]) :
        row' = [row EXCEPT ![event[s]] = [status |-> "pending", attempts |-> 0, attachment |-> d]]
  BY DEF Reserve
<1> DEFINE q == [status |-> "pending", attempts |-> 0, attachment |-> d]
<1>2. event[s] \in Event /\ row \in [Event -> OutboxRow]
  BY DEF OutboxTypeOK, OutboxRow
<1>3. q \in OutboxRow
  BY OutboxAssumption DEF OutboxRow, Status, Decisions
<1>4. Change(event[s], "pending", 0, d)
  BY <1>1, <1>2, <1>3 DEF Change
<1> QED
  BY <1>4

LEMMA DeliverAdds ==
    ASSUME OutboxTypeOK, NEW s \in Sender, Deliver(s)
    PROVE  Accepted(event[s], attached[s])
<1> DEFINE e == event[s]  m == mail[e]
           a == [m EXCEPT !.attached = m.attached + 1]  p == [m EXCEPT !.plain = m.plain + 1]
<1>1. e \in Event /\ mail \in [Event -> MailRow] /\ m \in MailRow
  BY DEF OutboxTypeOK, MailRow
<1>2. mail' = IF attached[s] THEN [mail EXCEPT ![e] = a] ELSE [mail EXCEPT ![e] = p]
  BY DEF Deliver
<1>3. a \in MailRow /\ a.attached = m.attached + 1 /\ a.plain = m.plain
  BY <1>1 DEF MailRow
<1>4. p \in MailRow /\ p.plain = m.plain + 1 /\ p.attached = m.attached
  BY <1>1 DEF MailRow
<1> HIDE DEF a, p, m, e
<1>5. CASE attached[s]
  <2>1. mail' = [mail EXCEPT ![e] = a]
    BY <1>2, <1>5
  <2>2. Accepted(e, attached[s])
    BY <1>1, <2>1, <1>3, <1>5 DEF Accepted, m
  <2> QED
    BY <2>2 DEF e
<1>6. CASE ~attached[s]
  <2>1. mail' = [mail EXCEPT ![e] = p]
    BY <1>2, <1>6
  <2>2. Accepted(e, attached[s])
    BY <1>1, <2>1, <1>4, <1>6 DEF Accepted, m
  <2> QED
    BY <2>2 DEF e
<1> QED
  BY <1>5, <1>6

(***************************************************************************)
(* The parts of the invariant, one by one.                                  *)
(***************************************************************************)
LEMMA OutboxInitHolds == OutboxInit => OutboxInv
BY OutboxAssumption DEF OutboxInit, OutboxInv, OutboxTypeOK, OneOwnerEach,
  FinalsUntold, RowsHeld, MailCounted, MailTold, Mails, Exists,
  AlreadyTold, Attached, Holding, Busy, Event, Finals,
  Status, Settled, NoRow

LEMMA StepOutboxTypes == OutboxInv /\ [OutboxNext]_outboxVars => OutboxTypeOK'
<1> SUFFICES ASSUME OutboxInv, [OutboxNext]_outboxVars PROVE OutboxTypeOK'
  OBVIOUS
<1> USE OutboxAssumption DEF OutboxInv, OutboxTypeOK, Go, Busy,
    Event, Status, Settled, OutboxRow, MailRow, Finals,
    Exists
<1>1. ASSUME NEW s \in Sender, NEW e \in Event, Look(s, e) PROVE OutboxTypeOK'
  BY <1>1 DEF Look
<1>2. ASSUME NEW s \in Sender, Reserve(s) PROVE OutboxTypeOK'
  BY <1>2, ReserveChanges DEF Reserve, Change, Decisions
<1>3. ASSUME NEW s \in Sender, NotConfigured(s) PROVE OutboxTypeOK'
  BY <1>3, StatusChanges DEF NotConfigured, Change
<1>4. ASSUME NEW s \in Sender, Build(s) PROVE OutboxTypeOK'
  BY <1>4 DEF Build
<1>5. ASSUME NEW s \in Sender, BuildFallback(s) PROVE OutboxTypeOK'
  BY <1>5, AttachmentChanges DEF BuildFallback, Change
<1>6. ASSUME NEW s \in Sender, BuildFails(s) PROVE OutboxTypeOK'
  BY <1>6, StatusChanges DEF BuildFails, Change
<1>7. ASSUME NEW s \in Sender, BeginAttempt(s) PROVE OutboxTypeOK'
  BY <1>7, AttemptChanges DEF BeginAttempt, Change
<1>8. ASSUME NEW s \in Sender, Deliver(s) PROVE OutboxTypeOK'
  BY <1>8, DeliverAdds DEF Deliver, Accepted
<1>9. ASSUME NEW s \in Sender, MarkSent(s) PROVE OutboxTypeOK'
  BY <1>9, StatusChanges DEF MarkSent, Change
<1>10. ASSUME NEW s \in Sender, SendRaises(s) PROVE OutboxTypeOK'
  BY <1>10 DEF SendRaises
<1>11. ASSUME NEW s \in Sender, GiveUp(s) PROVE OutboxTypeOK'
  BY <1>11, StatusChanges DEF GiveUp, Change
<1>12. ASSUME NEW s \in Sender, SenderDies(s) PROVE OutboxTypeOK'
  BY <1>12 DEF SenderDies
<1>13. CASE UNCHANGED outboxVars
  BY <1>13 DEF outboxVars
<1> QED
  BY <1>1, <1>2, <1>3, <1>4, <1>5, <1>6, <1>7, <1>8, <1>9, <1>10, <1>11, <1>12, <1>13
  DEF OutboxNext, SenderStep

LEMMA StepOneOwnerEach == OutboxInv /\ [OutboxNext]_outboxVars => OneOwnerEach'
<1> SUFFICES ASSUME OutboxInv, [OutboxNext]_outboxVars PROVE OneOwnerEach'
  OBVIOUS
<1> USE OutboxAssumption DEF OutboxInv, OutboxTypeOK, Go, OneOwnerEach,
    Busy, Alone
<1>1. ASSUME NEW s \in Sender, NEW e \in Event, Look(s, e) PROVE OneOwnerEach'
  BY <1>1 DEF Look
<1>2. ASSUME NEW s \in Sender, Reserve(s) PROVE OneOwnerEach'
  BY <1>2, ReserveChanges DEF Reserve, Change, Decisions
<1>3. ASSUME NEW s \in Sender, NotConfigured(s) PROVE OneOwnerEach'
  BY <1>3, StatusChanges DEF NotConfigured, Change
<1>4. ASSUME NEW s \in Sender, Build(s) PROVE OneOwnerEach'
  BY <1>4 DEF Build
<1>5. ASSUME NEW s \in Sender, BuildFallback(s) PROVE OneOwnerEach'
  BY <1>5, AttachmentChanges DEF BuildFallback, Change
<1>6. ASSUME NEW s \in Sender, BuildFails(s) PROVE OneOwnerEach'
  BY <1>6, StatusChanges DEF BuildFails, Change
<1>7. ASSUME NEW s \in Sender, BeginAttempt(s) PROVE OneOwnerEach'
  BY <1>7, AttemptChanges DEF BeginAttempt, Change
<1>8. ASSUME NEW s \in Sender, Deliver(s) PROVE OneOwnerEach'
  BY <1>8, DeliverAdds DEF Deliver, Accepted
<1>9. ASSUME NEW s \in Sender, MarkSent(s) PROVE OneOwnerEach'
  BY <1>9, StatusChanges DEF MarkSent, Change
<1>10. ASSUME NEW s \in Sender, SendRaises(s) PROVE OneOwnerEach'
  BY <1>10 DEF SendRaises
<1>11. ASSUME NEW s \in Sender, GiveUp(s) PROVE OneOwnerEach'
  BY <1>11, StatusChanges DEF GiveUp, Change
<1>12. ASSUME NEW s \in Sender, SenderDies(s) PROVE OneOwnerEach'
  BY <1>12 DEF SenderDies
<1>13. CASE UNCHANGED outboxVars
  BY <1>13 DEF outboxVars
<1> QED
  BY <1>1, <1>2, <1>3, <1>4, <1>5, <1>6, <1>7, <1>8, <1>9, <1>10, <1>11, <1>12, <1>13
  DEF OutboxNext, SenderStep

LEMMA StepFinalsUntold == OutboxInv /\ [OutboxNext]_outboxVars => FinalsUntold'
<1> SUFFICES ASSUME OutboxInv, [OutboxNext]_outboxVars PROVE FinalsUntold'
  OBVIOUS
<1> USE OutboxAssumption DEF OutboxInv, OutboxTypeOK, Go, OneOwnerEach,
    FinalsUntold, AlreadyTold, Finals, Exists, Busy,
    Event, Settled, Status
<1>1. ASSUME NEW s \in Sender, NEW e \in Event, Look(s, e) PROVE FinalsUntold'
  BY <1>1 DEF Look
<1>2. ASSUME NEW s \in Sender, Reserve(s) PROVE FinalsUntold'
  BY <1>2, ReserveChanges DEF Reserve, Change, Decisions
<1>3. ASSUME NEW s \in Sender, NotConfigured(s) PROVE FinalsUntold'
  <2>1. Change(event[s], "not_configured", row[event[s]].attempts, row[event[s]].attachment)
    BY <1>3, StatusChanges DEF NotConfigured
  <2> QED
    BY <1>3, <2>1 DEF NotConfigured, Change, RowsHeld, Holding
<1>4. ASSUME NEW s \in Sender, Build(s) PROVE FinalsUntold'
  BY <1>4 DEF Build
<1>5. ASSUME NEW s \in Sender, BuildFallback(s) PROVE FinalsUntold'
  BY <1>5, AttachmentChanges DEF BuildFallback, Change
<1>6. ASSUME NEW s \in Sender, BuildFails(s) PROVE FinalsUntold'
  <2>1. Change(event[s], "failed", row[event[s]].attempts, row[event[s]].attachment)
    BY <1>6, StatusChanges DEF BuildFails
  <2> QED
    BY <1>6, <2>1 DEF BuildFails, Change, RowsHeld, Holding
<1>7. ASSUME NEW s \in Sender, BeginAttempt(s) PROVE FinalsUntold'
  BY SMTT(60), <1>7, AttemptChanges DEF BeginAttempt, Change
<1>8. ASSUME NEW s \in Sender, Deliver(s) PROVE FinalsUntold'
  BY <1>8, DeliverAdds DEF Deliver, Accepted
<1>9. ASSUME NEW s \in Sender, MarkSent(s) PROVE FinalsUntold'
  <2>1. Change(event[s], "sent", row[event[s]].attempts, row[event[s]].attachment)
    BY <1>9, StatusChanges DEF MarkSent
  <2> QED
    BY <1>9, <2>1 DEF MarkSent, Change, RowsHeld, Holding
<1>10. ASSUME NEW s \in Sender, SendRaises(s) PROVE FinalsUntold'
  BY <1>10 DEF SendRaises
<1>11. ASSUME NEW s \in Sender, GiveUp(s) PROVE FinalsUntold'
  <2>1. Change(event[s], "failed", row[event[s]].attempts, row[event[s]].attachment)
    BY <1>11, StatusChanges DEF GiveUp
  <2> QED
    BY <1>11, <2>1 DEF GiveUp, Change, RowsHeld, Holding
<1>12. ASSUME NEW s \in Sender, SenderDies(s) PROVE FinalsUntold'
  BY <1>12 DEF SenderDies
<1>13. CASE UNCHANGED outboxVars
  BY <1>13 DEF outboxVars
<1> QED
  BY <1>1, <1>2, <1>3, <1>4, <1>5, <1>6, <1>7, <1>8, <1>9, <1>10, <1>11, <1>12, <1>13
  DEF OutboxNext, SenderStep

LEMMA StepRowsHeld == OutboxInv /\ [OutboxNext]_outboxVars => RowsHeld'
<1> SUFFICES ASSUME OutboxInv, [OutboxNext]_outboxVars PROVE RowsHeld'
  OBVIOUS
<1> USE OutboxAssumption DEF OutboxInv, OutboxTypeOK, Go, RowsHeld,
    Holding, OneOwnerEach, Busy, Exists, Event, Settled,
    Status
<1>1. ASSUME NEW s \in Sender, NEW e \in Event, Look(s, e) PROVE RowsHeld'
  BY <1>1 DEF Look
<1>2. ASSUME NEW s \in Sender, Reserve(s) PROVE RowsHeld'
  BY <1>2, ReserveChanges DEF Reserve, Change, Decisions
<1>3. ASSUME NEW s \in Sender, NotConfigured(s) PROVE RowsHeld'
  BY <1>3, StatusChanges DEF NotConfigured, Change
<1>4. ASSUME NEW s \in Sender, Build(s) PROVE RowsHeld'
  BY <1>4 DEF Build
<1>5. ASSUME NEW s \in Sender, BuildFallback(s) PROVE RowsHeld'
  BY <1>5, AttachmentChanges DEF BuildFallback, Change
<1>6. ASSUME NEW s \in Sender, BuildFails(s) PROVE RowsHeld'
  BY <1>6, StatusChanges DEF BuildFails, Change
<1>7. ASSUME NEW s \in Sender, BeginAttempt(s) PROVE RowsHeld'
  <2>1. Change(event[s], "sending", row[event[s]].attempts + 1, row[event[s]].attachment)
    BY <1>7, AttemptChanges
  <2>2. at' = [at EXCEPT ![s] = "attempting"] /\ event' = event /\ at[s] = "ready"
    BY <1>7 DEF BeginAttempt
  <2> QED
    BY <2>1, <2>2 DEF Change
<1>8. ASSUME NEW s \in Sender, Deliver(s) PROVE RowsHeld'
  BY <1>8, DeliverAdds DEF Deliver, Accepted
<1>9. ASSUME NEW s \in Sender, MarkSent(s) PROVE RowsHeld'
  BY <1>9, StatusChanges DEF MarkSent, Change
<1>10. ASSUME NEW s \in Sender, SendRaises(s) PROVE RowsHeld'
  BY <1>10 DEF SendRaises
<1>11. ASSUME NEW s \in Sender, GiveUp(s) PROVE RowsHeld'
  BY <1>11, StatusChanges DEF GiveUp, Change
<1>12. ASSUME NEW s \in Sender, SenderDies(s) PROVE RowsHeld'
  BY <1>12 DEF SenderDies
<1>13. CASE UNCHANGED outboxVars
  BY <1>13 DEF outboxVars
<1> QED
  BY <1>1, <1>2, <1>3, <1>4, <1>5, <1>6, <1>7, <1>8, <1>9, <1>10, <1>11, <1>12, <1>13
  DEF OutboxNext, SenderStep

LEMMA StepMailCounted == OutboxInv /\ [OutboxNext]_outboxVars => MailCounted'
<1> SUFFICES ASSUME OutboxInv, [OutboxNext]_outboxVars PROVE MailCounted'
  OBVIOUS
<1> USE OutboxAssumption DEF OutboxInv, OutboxTypeOK, Go, MailCounted,
    Mails, Exists, RowsHeld, Holding, Event, Settled,
    Status
<1>1. ASSUME NEW s \in Sender, NEW e \in Event, Look(s, e) PROVE MailCounted'
  BY <1>1 DEF Look
<1>2. ASSUME NEW s \in Sender, Reserve(s) PROVE MailCounted'
  BY <1>2, ReserveChanges DEF Reserve, Change, Decisions
<1>3. ASSUME NEW s \in Sender, NotConfigured(s) PROVE MailCounted'
  BY <1>3, StatusChanges DEF NotConfigured, Change
<1>4. ASSUME NEW s \in Sender, Build(s) PROVE MailCounted'
  BY <1>4 DEF Build
<1>5. ASSUME NEW s \in Sender, BuildFallback(s) PROVE MailCounted'
  BY <1>5, AttachmentChanges DEF BuildFallback, Change
<1>6. ASSUME NEW s \in Sender, BuildFails(s) PROVE MailCounted'
  BY <1>6, StatusChanges DEF BuildFails, Change
<1>7. ASSUME NEW s \in Sender, BeginAttempt(s) PROVE MailCounted'
  BY SMTT(60), <1>7, AttemptChanges DEF BeginAttempt, Change
<1>8. ASSUME NEW s \in Sender, Deliver(s) PROVE MailCounted'
  BY SMTT(60), <1>8, DeliverAdds DEF Deliver, Accepted
<1>9. ASSUME NEW s \in Sender, MarkSent(s) PROVE MailCounted'
  BY <1>9, StatusChanges DEF MarkSent, Change
<1>10. ASSUME NEW s \in Sender, SendRaises(s) PROVE MailCounted'
  BY <1>10 DEF SendRaises
<1>11. ASSUME NEW s \in Sender, GiveUp(s) PROVE MailCounted'
  BY <1>11, StatusChanges DEF GiveUp, Change
<1>12. ASSUME NEW s \in Sender, SenderDies(s) PROVE MailCounted'
  BY <1>12 DEF SenderDies
<1>13. CASE UNCHANGED outboxVars
  BY <1>13 DEF outboxVars
<1> QED
  BY <1>1, <1>2, <1>3, <1>4, <1>5, <1>6, <1>7, <1>8, <1>9, <1>10, <1>11, <1>12, <1>13
  DEF OutboxNext, SenderStep

LEMMA StepMailTold == OutboxInv /\ [OutboxNext]_outboxVars => MailTold'
<1> SUFFICES ASSUME OutboxInv, [OutboxNext]_outboxVars PROVE MailTold'
  OBVIOUS
<1> USE OutboxAssumption DEF OutboxInv, OutboxTypeOK, Go, MailTold,
    MailCounted, Mails, Exists, RowsHeld, Holding, Attached, Event,
    Settled, Status
<1>1. ASSUME NEW s \in Sender, NEW e \in Event, Look(s, e) PROVE MailTold'
  BY <1>1 DEF Look
<1>2. ASSUME NEW s \in Sender, Reserve(s) PROVE MailTold'
  <2>1. CASE Exists(event[s])
    BY <1>2, <2>1 DEF Reserve
  <2>2. CASE ~Exists(event[s])
    <3>1. PICK d \in Decisions(event[s]) : Change(event[s], "pending", 0, d)
      BY <1>2, <2>2, ReserveChanges
    <3>2. /\ at' = [at EXCEPT ![s] = "reserved"] /\ at[s] = "looked"
          /\ UNCHANGED <<event, attached, mail>>
      BY <1>2, <2>2 DEF Reserve
    <3>3. mail[event[s]].plain = 0 /\ mail[event[s]].attached = 0
      BY <2>2
    <3> QED
      BY <3>1, <3>2, <3>3, <2>2 DEF Change
  <2> QED
    BY <2>1, <2>2
<1>3. ASSUME NEW s \in Sender, NotConfigured(s) PROVE MailTold'
  <2>1. Change(event[s], "not_configured", row[event[s]].attempts, row[event[s]].attachment)
    BY <1>3, StatusChanges DEF NotConfigured
  <2> QED
    BY <1>3, <2>1 DEF NotConfigured, Change
<1>4. ASSUME NEW s \in Sender, Build(s) PROVE MailTold'
  BY <1>4 DEF Build
<1>5. ASSUME NEW s \in Sender, BuildFallback(s) PROVE MailTold'
  BY <1>5, AttachmentChanges DEF BuildFallback, Change
<1>6. ASSUME NEW s \in Sender, BuildFails(s) PROVE MailTold'
  <2>1. Change(event[s], "failed", row[event[s]].attempts, row[event[s]].attachment)
    BY <1>6, StatusChanges DEF BuildFails
  <2> QED
    BY <1>6, <2>1 DEF BuildFails, Change
<1>7. ASSUME NEW s \in Sender, BeginAttempt(s) PROVE MailTold'
  BY <1>7, AttemptChanges DEF BeginAttempt, Change
<1>8. ASSUME NEW s \in Sender, Deliver(s) PROVE MailTold'
  BY <1>8, DeliverAdds DEF Deliver, Accepted
<1>9. ASSUME NEW s \in Sender, MarkSent(s) PROVE MailTold'
  <2>1. Change(event[s], "sent", row[event[s]].attempts, row[event[s]].attachment)
    BY <1>9, StatusChanges DEF MarkSent
  <2> QED
    BY <1>9, <2>1 DEF MarkSent, Change
<1>10. ASSUME NEW s \in Sender, SendRaises(s) PROVE MailTold'
  BY <1>10 DEF SendRaises
<1>11. ASSUME NEW s \in Sender, GiveUp(s) PROVE MailTold'
  <2>1. Change(event[s], "failed", row[event[s]].attempts, row[event[s]].attachment)
    BY <1>11, StatusChanges DEF GiveUp
  <2> QED
    BY <1>11, <2>1 DEF GiveUp, Change
<1>12. ASSUME NEW s \in Sender, SenderDies(s) PROVE MailTold'
  BY <1>12 DEF SenderDies
<1>13. CASE UNCHANGED outboxVars
  BY <1>13 DEF outboxVars
<1> QED
  BY <1>1, <1>2, <1>3, <1>4, <1>5, <1>6, <1>7, <1>8, <1>9, <1>10, <1>11, <1>12, <1>13
  DEF OutboxNext, SenderStep

(***************************************************************************)
(* The theorems.                                                            *)
(***************************************************************************)
LEMMA OutboxInductive == OutboxSpec => []OutboxInv
<1>1. OutboxInv /\ [OutboxNext]_outboxVars => OutboxInv'
  BY StepOutboxTypes, StepOneOwnerEach, StepFinalsUntold, StepRowsHeld, StepMailCounted,
    StepMailTold
  DEF OutboxInv
<1> QED
  BY OutboxInitHolds, <1>1, PTL DEF OutboxSpec

(* The outbox and its senders keep their types; in particular no row counts  *)
(* more attempts than mark_sending allows.                                   *)
THEOREM OutboxTypeCorrect == OutboxSpec => []OutboxTypeOK
<1>1. OutboxInv => OutboxTypeOK
  BY DEF OutboxInv
<1> QED
  BY OutboxInductive, <1>1, PTL

(* However many processes announce the same event, die, or hear an exception *)
(* after the server accepted, the recipient gets at most max_attempts copies *)
(* of it, and a job's completion is announced in one variant only.           *)
THEOREM OutboxBoundsMail == OutboxSpec => []BoundedMail
<1>1. OutboxInv => BoundedMail
  BY OutboxAssumption DEF OutboxInv, OutboxTypeOK, MailCounted, FinalsUntold,
    BoundedMail, Mails, Event
<1> QED
  BY OutboxInductive, <1>1, PTL

(* A row that says "sent" is followed by what the recipient has: a message,  *)
(* with the workbook exactly when the row says that it was attached.         *)
THEOREM OutboxTellsTheMail == OutboxSpec => []RowTellsTheMail
<1>1. OutboxInv => RowTellsTheMail
  BY DEF OutboxInv, OutboxTypeOK, MailTold, Attached, RowTellsTheMail,
    Mails, Event
<1> QED
  BY OutboxInductive, <1>1, PTL
=============================================================================
