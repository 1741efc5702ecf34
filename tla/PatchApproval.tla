---------------------------- MODULE PatchApproval ----------------------------
(***************************************************************************)
(* PatchMon alerts that wait for a human's answer: the webhook, the emailed*)
(* Approve and Cancel links, and the playbook run behind an approval       *)
(* (webhooks/patchmon.py, webhooks/approval.py, patching/store.py,         *)
(* patching/executor.py).                                                  *)
(*                                                                         *)
(* A webhook request stores at most one approval row, so rows are named by *)
(* the request that made them.  The store's calls are synchronous; requests*)
(* interleave only where the handler awaits: the host details, the SMTP    *)
(* conversation, the playbook.  Database writes are taken to succeed.      *)
(***************************************************************************)
EXTENDS Integers

CONSTANTS
    Requests,           \* webhook deliveries, retries included
    Alerts,             \* (event, host, service, version) of an alert
    AlertOf,            \* the alert each request carries
    TTL,                \* patchmon_approval_ttl_minutes
    MaxTime,            \* bound on the clock
    FetchesDetails,     \* the PatchMon API is configured
    AmbiguousDelivery,  \* SMTP may take the mail and still raise
    Crashes             \* the server may stop at any moment

ASSUME AlertAssumption == AlertOf \in [Requests -> Alerts]
ASSUME TimeAssumption == TTL \in Nat /\ MaxTime \in Nat
ASSUME ModeAssumption == {FetchesDetails, AmbiguousDelivery, Crashes} \subseteq BOOLEAN

VARIABLES
    clock,
    readOnly,       \* the health check of this process failed at startup
    handler,        \* where each webhook request is
    status,         \* the row's status, or "absent"
    expires_at,
    resolved_at,    \* Never until the row is answered
    inbox,          \* requests whose email reached the operator
    job,            \* the background task behind an approved page
    runs            \* playbook runs started

rowVars == <<status, expires_at, resolved_at>>
vars == <<clock, readOnly, handler, rowVars, inbox, job, runs>>

Never == -1

HandlerState == {"new", "details", "sending", "sent", "lost",
                 "refused", "skipped", "asked", "bounced"}
Status == {"absent", "pending", "approved", "cancelled", "expired",
           "executed", "failed", "undelivered"}
JobState == {"none", "queued", "running", "done", "lost"}

TypeOK ==
    /\ clock \in Nat
    /\ readOnly \in BOOLEAN
    /\ handler \in [Requests -> HandlerState]
    /\ status \in [Requests -> Status]
    /\ expires_at \in [Requests -> Nat \cup {Never}]
    /\ resolved_at \in [Requests -> Nat \cup {Never}]
    /\ inbox \subseteq Requests
    /\ job \in [Requests -> JobState]
    /\ runs \in [Requests -> Nat]
    /\ \A r \in Requests : expires_at[r] = Never <=> status[r] = "absent"

Init ==
    /\ clock = 0
    /\ readOnly \in BOOLEAN
    /\ handler = [r \in Requests |-> "new"]
    /\ status = [r \in Requests |-> "absent"]
    /\ expires_at = [r \in Requests |-> Never]
    /\ resolved_at = [r \in Requests |-> Never]
    /\ inbox = {}
    /\ job = [r \in Requests |-> "none"]
    /\ runs = [r \in Requests |-> 0]

-----------------------------------------------------------------------------
(* patching/store.py                                                       *)

IsPast(r) == expires_at[r] < clock

(* Slip: the TTL test of find_pending the wrong way round.                  *)
PendingForPast(r) == {q \in Requests : /\ status[q] = "pending"
                                       /\ AlertOf[q] = AlertOf[r]
                                       /\ IsPast(q)}

(* find_pending: an unexpired pending approval for the same alert.          *)
PendingFor(r) == {q \in Requests : /\ status[q] = "pending"
                                   /\ AlertOf[q] = AlertOf[r]
                                   /\ ~ IsPast(q)}

Create(r) ==
    /\ status' = [status EXCEPT ![r] = "pending"]
    /\ expires_at' = [expires_at EXCEPT ![r] = clock + TTL]
    /\ UNCHANGED resolved_at

(* record_outcome overwrites whatever status the row has.                   *)
RecordOutcome(r, outcome) ==
    /\ status' = [status EXCEPT ![r] = outcome]
    /\ resolved_at' = [resolved_at EXCEPT ![r] = IF @ = Never THEN clock ELSE @]
    /\ UNCHANGED expires_at

(* Slip: the UPDATE trusts the expiry that check() looked at.               *)
MovesUnconditionally(r, now) == status[r] = "pending"

(* The conditional UPDATE of consume, at the time the store reads for it.   *)
Moves(r, now) == status[r] = "pending" /\ expires_at[r] > now

(* Slip: a link keeps working after it was used.                            *)
ConsumeAgain(r, target, now) ==
    /\ status[r] # "absent"
    /\ ~ IsPast(r)
    /\ status' = [status EXCEPT ![r] = target]
    /\ resolved_at' = [resolved_at EXCEPT ![r] = now]
    /\ UNCHANGED expires_at

(* consume: check the token at clock, then UPDATE at now.  A row that is    *)
(* past its TTL at either reading is marked expired instead.                *)
Consume(r, target, now) ==
    /\ status[r] = "pending"
    /\ IF ~ IsPast(r) /\ Moves(r, now)
       THEN /\ status' = [status EXCEPT ![r] = target]
            /\ resolved_at' = [resolved_at EXCEPT ![r] = now]
       ELSE /\ status' = [status EXCEPT ![r] = "expired"]
            /\ UNCHANGED resolved_at
    /\ UNCHANGED expires_at

-----------------------------------------------------------------------------
(* webhooks/patchmon.py: one delivery                                      *)

Handle(r, from, to) ==
    /\ handler[r] = from
    /\ handler' = [handler EXCEPT ![r] = to]

(* Everything up to the first await after find_pending.                     *)
Receive(r) ==
    /\ \/ readOnly /\ Handle(r, "new", "refused") /\ UNCHANGED rowVars
       \/ ~ readOnly /\ PendingFor(r) # {} /\ Handle(r, "new", "skipped")
            /\ UNCHANGED rowVars
       \/ ~ readOnly /\ PendingFor(r) = {} /\ FetchesDetails
            /\ Handle(r, "new", "details") /\ UNCHANGED rowVars
       \/ ~ readOnly /\ PendingFor(r) = {} /\ ~ FetchesDetails
            /\ Handle(r, "new", "sending") /\ Create(r)
    /\ UNCHANGED <<clock, readOnly, inbox, job, runs>>

(* host_details never fails; when it returns the row is created.            *)
DetailsReturn(r) ==
    /\ Handle(r, "details", "sending")
    /\ Create(r)
    /\ UNCHANGED <<clock, readOnly, inbox, job, runs>>

MailDelivered(r) ==
    /\ Handle(r, "sending", "sent")
    /\ inbox' = inbox \cup {r}
    /\ UNCHANGED <<clock, readOnly, rowVars, job, runs>>

SendReturns(r) ==
    /\ Handle(r, "sent", "asked")
    /\ UNCHANGED <<clock, readOnly, rowVars, inbox, job, runs>>

(* Slip: the bounced row stays pending.                                     *)
SendRaisesRowKept(r) ==
    /\ \/ Handle(r, "sending", "bounced")
       \/ AmbiguousDelivery /\ Handle(r, "sent", "bounced")
    /\ UNCHANGED <<clock, readOnly, rowVars, inbox, job, runs>>

(* NotificationDeliveryError: the row is closed and PatchMon told to retry. *)
SendRaises(r) ==
    /\ \/ Handle(r, "sending", "bounced")
       \/ AmbiguousDelivery /\ Handle(r, "sent", "bounced")
    /\ RecordOutcome(r, "undelivered")
    /\ UNCHANGED <<clock, readOnly, inbox, job, runs>>

-----------------------------------------------------------------------------
(* webhooks/approval.py: the human posts the form of a link.  The GET page  *)
(* in front of it changes nothing.                                          *)

ReadAgain == {clock, clock + 1}

PostApprove(r) ==
    /\ r \in inbox /\ ~ readOnly
    /\ \E now \in ReadAgain :
          /\ now <= MaxTime
          /\ Consume(r, "approved", now)
          /\ clock' = now
    /\ job' = [job EXCEPT ![r] = IF status'[r] = "approved" THEN "queued" ELSE @]
    /\ UNCHANGED <<readOnly, handler, inbox, runs>>

PostCancel(r) ==
    /\ r \in inbox /\ ~ readOnly
    /\ \E now \in ReadAgain :
          /\ now <= MaxTime
          /\ Consume(r, "cancelled", now)
          /\ clock' = now
    /\ UNCHANGED <<readOnly, handler, inbox, job, runs>>

-----------------------------------------------------------------------------
(* patching/executor.py: the background task of an approved page            *)

Advance(r, from, to) ==
    /\ job[r] = from
    /\ job' = [job EXCEPT ![r] = to]

(* Slip: giving up before the playbook is not recorded.                     *)
ResolveFailsSilently(r) ==
    /\ Advance(r, "queued", "done")
    /\ UNCHANGED <<clock, readOnly, handler, rowVars, inbox, runs>>

(* The name is not exactly one inventory host, or ansible is missing.       *)
ResolveFails(r) ==
    /\ Advance(r, "queued", "done")
    /\ RecordOutcome(r, "failed")
    /\ UNCHANGED <<clock, readOnly, handler, inbox, runs>>

StartPlaybook(r) ==
    /\ Advance(r, "queued", "running")
    /\ runs' = [runs EXCEPT ![r] = @ + 1]
    /\ UNCHANGED <<clock, readOnly, handler, rowVars, inbox>>

PlaybookEnds(r) ==
    /\ Advance(r, "running", "done")
    /\ \E outcome \in {"executed", "failed"} : RecordOutcome(r, outcome)
    /\ UNCHANGED <<clock, readOnly, handler, inbox, runs>>

-----------------------------------------------------------------------------
(* The process stops and starts again: handlers and background tasks are    *)
(* gone, and purge_expired sweeps the rows past their TTL.                  *)
Restart ==
    /\ Crashes
    /\ readOnly' \in BOOLEAN
    /\ handler' = [r \in Requests |->
          IF handler[r] \in {"details", "sending", "sent"} THEN "lost" ELSE handler[r]]
    /\ job' = [r \in Requests |->
          IF job[r] \in {"queued", "running"} THEN "lost" ELSE job[r]]
    /\ status' = [r \in Requests |->
          IF status[r] = "pending" /\ IsPast(r) THEN "expired" ELSE status[r]]
    /\ UNCHANGED <<clock, expires_at, resolved_at, inbox, runs>>

Tick ==
    /\ clock < MaxTime
    /\ clock' = clock + 1
    /\ UNCHANGED <<readOnly, handler, rowVars, inbox, job, runs>>

Webhook(r) == Receive(r) \/ DetailsReturn(r) \/ SendReturns(r) \/ SendRaises(r)
Execution(r) == ResolveFails(r) \/ StartPlaybook(r) \/ PlaybookEnds(r)

Next ==
    \/ \E r \in Requests : \/ Webhook(r) \/ MailDelivered(r)
                           \/ PostApprove(r) \/ PostCancel(r)
                           \/ Execution(r)
    \/ Restart
    \/ Tick

Spec == Init /\ [][Next]_vars

(* Handlers and background tasks are scheduled by the event loop, and every *)
(* await they make has a timeout.                                           *)
Fairness == \A r \in Requests : WF_vars(Webhook(r)) /\ WF_vars(Execution(r))
FairSpec == Spec /\ Fairness

-----------------------------------------------------------------------------
(* docs/ADRs/ADR-020:84: "Approve or Cancel moves the row off pending [...] *)
(* Of two simultaneous clicks, only one changes a row."  One approval       *)
(* starts at most one playbook run, over any clicks, retries and restarts.  *)
AtMostOneRun == \A r \in Requests : runs[r] <= 1

(* models/patch_approval.py:5: everything but a confirmed Approve resolves  *)
(* the row without running anything -- now or ever, for no task is left     *)
(* that could still run it.                                                 *)
NothingRunsUnapproved ==
    \A r \in Requests :
        status[r] \in {"absent", "pending", "cancelled", "expired"}
            => job[r] = "none" /\ runs[r] = 0

(* "Each link works once and expires at": whatever ran, or was cancelled,   *)
(* was answered strictly before the row's TTL ran out, although the row is  *)
(* checked and updated at two readings of the clock.                        *)
AnsweredInTime ==
    \A r \in Requests :
        job[r] # "none" \/ status[r] = "cancelled"
            => resolved_at[r] # Never /\ resolved_at[r] < expires_at[r]

(* patching/store.py:102: "one open question per alert is enough".          *)
OneOpenQuestionPerAlert ==
    \A r, q \in Requests :
        /\ r # q /\ AlertOf[r] = AlertOf[q]
        /\ status[r] = "pending" /\ status[q] = "pending"
        => IsPast(r) \/ IsPast(q)

(* models/patch_approval.py:30: "undelivered = the approval email could not *)
(* be sent", so nobody could have approved it and nothing runs.             *)
UndeliveredNeverRuns ==
    \A r \in Requests : status[r] = "undelivered" => job[r] = "none" /\ runs[r] = 0

(* models/patch_approval.py:24: "pending = email sent, awaiting a click".   *)
(* Unless its handler is still at work, a pending row has been emailed; so  *)
(* an alert that is skipped for it really is in front of a human.           *)
PendingMeansEmailed ==
    \A r \in Requests :
        status[r] = "pending" => r \in inbox \/ handler[r] = "sending"

(* webhooks/approval.py:308: "You'll get an email with the result when it   *)
(* finishes": an approved patch does not stay approved.                     *)
ApprovedIsSettled ==
    \A r \in Requests : status[r] = "approved" ~> status[r] \in {"executed", "failed"}

-----------------------------------------------------------------------------
(* Every approval is a one-shot question.                                   *)
AnswerTo(r) ==
    IF status[r] = "absent" THEN "unasked"
    ELSE IF status[r] = "pending" THEN "open"
    ELSE IF job[r] # "none" THEN "granted" ELSE "refused"

Question == INSTANCE OneShotQuestion WITH
    Questions <- Requests,
    answer <- [r \in Requests |-> AnswerTo(r)],
    acted <- runs

OneShot == Question!Spec
=============================================================================
