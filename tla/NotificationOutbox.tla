------------------------- MODULE NotificationOutbox -------------------------
(***************************************************************************)
(* notifications.py: the outbox that every e-mail of the program goes        *)
(* through.  A row is reserved once per (entity, event); whoever reserved it *)
(* is the only one to send it, and a process that dies in between is never   *)
(* replaced.                                                                 *)
(*                                                                           *)
(* Two entities: a Discovery job, whose terminal events are "completed",     *)
(* "zero" (completed without opportunities) and "failed", notified by one    *)
(* process at a time (the owner of the job's row), and a Qogita bootstrap    *)
(* with its "alert", raised by any number of processes at once.              *)
(***************************************************************************)
EXTENDS Naturals, FiniteSets

CONSTANTS
    Sender,           \* processes, each of which notifies at most once
    MaxSends,         \* max(1, min(max_attempts, 3))
    MaxSenderDeaths   \* bound of the instance

ASSUME OutboxAssumption == MaxSends \in 1..3 /\ MaxSenderDeaths \in Nat

VARIABLES
    row,          \* notification_outbox, one row per event
    at, event,    \* of each sender: where it is, and what it announces
    attached,     \* of each sender: the message it built carries the workbook
    mail,         \* messages the server accepted, by event and content
    senderDeaths  \* how many senders have died

outboxVars == <<row, at, event, attached, mail, senderDeaths>>

Event   == {"completed", "zero", "failed", "alert"}
Finals  == {"completed", "zero"}
Settled == {"sent", "failed", "not_configured"}
Status  == {"none", "pending", "sending"} \cup Settled
NoRow   == [status |-> "none", attempts |-> 0, attachment |-> "none"]
Busy    == {"looked", "reserved", "ready", "attempting", "delivered"}

OutboxInit ==
    /\ row = [e \in Event |-> NoRow]
    /\ at = [s \in Sender |-> "new"]
    /\ event = [s \in Sender |-> "alert"]
    /\ attached = [s \in Sender |-> FALSE]
    /\ mail = [e \in Event |-> [plain |-> 0, attached |-> 0]]
    /\ senderDeaths = 0

Exists(e) == row[e].status # "none"
Go(s, to) == at' = [at EXCEPT ![s] = to]

(* A Discovery job has one owner at a time.                                 *)
Alone(s, e) == e = "alert" \/ \A t \in Sender \ {s} :
                                  at[t] \in Busy => event[t] = "alert"

(* send_discovery_terminal_notification: an existing row of either          *)
(* completion is the answer.  The classification is the caller's.           *)
AlreadyTold(e) == e \in Finals /\ \E f \in Finals : Exists(f)
Look(s, e) ==
    /\ at[s] = "new" /\ Alone(s, e)
    /\ IF AlreadyTold(e) THEN Go(s, "done") ELSE Go(s, "looked")
    /\ event' = [event EXCEPT ![s] = e]
    /\ UNCHANGED <<row, attached, mail, senderDeaths>>

(* INSERT OR IGNORE with the decision of prepare_discovery_attachment; the  *)
(* other events carry none.                                                 *)
Decisions(e) == IF e \in Finals THEN {"attached", "not_attached"} ELSE {"none"}

(* Variant: a row that is not settled is taken over and started again.       *)
ReserveUnsettled(s) ==
    LET e == event[s] IN
    /\ at[s] = "looked"
    /\ IF row[e].status \in Settled
       THEN Go(s, "done") /\ UNCHANGED row
       ELSE /\ \E d \in Decisions(e) :
                 row' = [row EXCEPT ![e] = [status |-> "pending", attempts |-> 0,
                                            attachment |-> d]]
            /\ Go(s, "reserved")
    /\ UNCHANGED <<event, attached, mail, senderDeaths>>
Reserve(s) ==
    LET e == event[s] IN
    /\ at[s] = "looked"
    /\ IF Exists(e)
       THEN Go(s, "done") /\ UNCHANGED row
       ELSE /\ \E d \in Decisions(e) :
                 row' = [row EXCEPT ![e] = [status |-> "pending", attempts |-> 0,
                                            attachment |-> d]]
            /\ Go(s, "reserved")
    /\ UNCHANGED <<event, attached, mail, senderDeaths>>

SetStatus(s, status) == row' = [row EXCEPT ![event[s]].status = status]

NotConfigured(s) ==
    /\ at[s] = "reserved"
    /\ SetStatus(s, "not_configured") /\ Go(s, "done")
    /\ UNCHANGED <<event, attached, mail, senderDeaths>>

Build(s) ==
    /\ at[s] = "reserved"
    /\ attached' = [attached EXCEPT ![s] = row[event[s]].attachment = "attached"]
    /\ Go(s, "ready")
    /\ UNCHANGED <<row, event, mail, senderDeaths>>

(* The workbook can no longer be read (it is validated, then opened): the   *)
(* row is corrected and the message built without it.                       *)
BuildFallbackUntold(s) ==   \* variant: the row is not corrected
    /\ at[s] = "reserved" /\ row[event[s]].attachment = "attached"
    /\ Go(s, "ready")
    /\ UNCHANGED <<row, event, attached, mail, senderDeaths>>

BuildFallback(s) ==
    /\ at[s] = "reserved" /\ row[event[s]].attachment = "attached"
    /\ row' = [row EXCEPT ![event[s]].attachment = "invalid"]
    /\ Go(s, "ready")
    /\ UNCHANGED <<event, attached, mail, senderDeaths>>

BuildFails(s) ==
    /\ at[s] = "reserved" /\ row[event[s]].attachment # "attached"
    /\ SetStatus(s, "failed") /\ Go(s, "done")
    /\ UNCHANGED <<event, attached, mail, senderDeaths>>

MaySend(e) == row[e].attempts < MaxSends
BeginAttempt(s) ==
    LET e == event[s] IN
    /\ at[s] = "ready" /\ MaySend(e)
    /\ row' = [row EXCEPT ![e].status = "sending", ![e].attempts = @ + 1]
    /\ Go(s, "attempting")
    /\ UNCHANGED <<event, attached, mail, senderDeaths>>

(* sender.send and mark_sent are in one try: an exception of either is      *)
(* followed by another attempt, also when the server had accepted.          *)
Deliver(s) ==
    LET e == event[s] IN
    /\ at[s] = "attempting"
    /\ mail' = IF attached[s] THEN [mail EXCEPT ![e].attached = @ + 1]
                              ELSE [mail EXCEPT ![e].plain = @ + 1]
    /\ Go(s, "delivered")
    /\ UNCHANGED <<row, event, attached, senderDeaths>>

MarkSent(s) ==
    /\ at[s] = "delivered"
    /\ SetStatus(s, "sent") /\ Go(s, "done")
    /\ UNCHANGED <<event, attached, mail, senderDeaths>>

SendRaises(s) ==
    /\ at[s] \in {"attempting", "delivered"}
    /\ Go(s, "ready")
    /\ UNCHANGED <<row, event, attached, mail, senderDeaths>>

GiveUpUntold(s) ==   \* variant: the last failure is not written
    /\ at[s] = "ready" /\ ~MaySend(event[s])
    /\ Go(s, "done")
    /\ UNCHANGED <<row, event, attached, mail, senderDeaths>>

GiveUp(s) ==
    /\ at[s] = "ready" /\ ~MaySend(event[s])
    /\ SetStatus(s, "failed") /\ Go(s, "done")
    /\ UNCHANGED <<event, attached, mail, senderDeaths>>

\* The process dies, or a store call outside every try (the attachment's update,
\* begin_attempt, the last mark_terminal) raises out of send_notification while the
\* process lives: the call is over, and the row and the mail stay as they are.
SenderDies(s) ==
    /\ at[s] \in Busy /\ senderDeaths < MaxSenderDeaths
    /\ senderDeaths' = senderDeaths + 1
    /\ Go(s, "dead")
    /\ UNCHANGED <<row, event, attached, mail>>

SenderStep(s) ==
    \/ Reserve(s) \/ NotConfigured(s)
    \/ Build(s) \/ BuildFallback(s) \/ BuildFails(s)
    \/ BeginAttempt(s) \/ Deliver(s) \/ MarkSent(s) \/ SendRaises(s) \/ GiveUp(s)

OutboxNext == \E s \in Sender : SenderStep(s) \/ SenderDies(s) \/ \E e \in Event : Look(s, e)
OutboxSpec == OutboxInit /\ [][OutboxNext]_outboxVars
(* A call that has not ended goes on; the SMTP client has a timeout.             *)
OutboxFairSpec == OutboxSpec /\ \A s \in Sender : WF_outboxVars(SenderStep(s))

(***************************************************************************)
(* Properties.                                                              *)
(***************************************************************************)

OutboxTypeOK ==
    /\ row \in [Event -> [status : Status, attempts : 0..MaxSends,
                          attachment : {"none", "attached", "not_attached", "invalid"}]]
    /\ at \in [Sender -> {"new", "done", "dead"} \cup Busy]
    /\ event \in [Sender -> Event]
    /\ attached \in [Sender -> BOOLEAN]
    /\ mail \in [Event -> [plain : Nat, attached : Nat]]
    /\ senderDeaths \in 0..MaxSenderDeaths

Mails(e) == mail[e].plain + mail[e].attached

(* Whatever dies, restarts or is raised twice, the recipient gets at most   *)
(* max_attempts copies of an event and none of a row that never began, and  *)
(* "completed" and "completed without results" are one business event.      *)
BoundedMail ==
    /\ \A e \in Event : Mails(e) <= row[e].attempts /\ row[e].attempts <= MaxSends
    /\ ~(Exists("completed") /\ Exists("zero"))

(* What the outbox records is what was sent: a sent row had a message       *)
(* accepted, with the workbook exactly when the row says so.                *)
RowTellsTheMail ==
    \A e \in Event : row[e].status = "sent" =>
        IF row[e].attachment = "attached"
        THEN mail[e].attached > 0 /\ mail[e].plain = 0
        ELSE mail[e].plain > 0 /\ mail[e].attached = 0

(* A reserved row is settled, unless the process that reserved it died.     *)
RowSettles ==
    \A e \in Event : row[e].status \in {"pending", "sending"} ~>
        \/ row[e].status \in Settled
        \/ \E s \in Sender : at[s] = "dead" /\ event[s] = e
=============================================================================
