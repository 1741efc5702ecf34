------------------------- MODULE PatchApproval_proof -------------------------
(***************************************************************************)
(* Proofs about PatchApproval, for any number of deliveries, any TTL, with *)
(* or without crashes and ambiguous mail delivery: an approval starts at   *)
(* most one playbook run, nothing runs unapproved, answers are in time,    *)
(* and every approval implements the abstract one-shot question.  Three    *)
(* more hold without one of the things that can go wrong each: one open    *)
(* question per alert without the PatchMon API, a mail behind every        *)
(* pending row without crashes, and no run of an undelivered approval      *)
(* without ambiguous mail.                                                 *)
(***************************************************************************)
EXTENDS PatchApproval, TLAPS

(* The background task tells how an approval was answered: none before the  *)
(* answer, and never a second one, because no row returns to pending.       *)
RunInv ==
    \A r \in Requests :
        /\ status[r] \in {"absent", "pending", "cancelled", "expired"} => job[r] = "none"
        /\ job[r] \in {"none", "queued"} => runs[r] = 0
        /\ runs[r] \in {0, 1}

(* A handler that is still before its row's creation has no row yet, and a  *)
(* handler at work on the mail, or an email, has one.                       *)
HandlerInv ==
    \A r \in Requests :
        /\ handler[r] \in {"new", "details"} => status[r] = "absent"
        /\ handler[r] \in {"sending", "sent"} => status[r] # "absent"
        /\ r \in inbox => status[r] # "absent"

(* The answer that queued a task, or closed the row by hand, was in time.   *)
TimeInv ==
    \A r \in Requests :
        /\ job[r] # "none" \/ status[r] = "cancelled" =>
              resolved_at[r] # Never /\ resolved_at[r] < expires_at[r]
        /\ status[r] \in {"absent", "pending"} => resolved_at[r] = Never

IInv == TypeOK /\ RunInv /\ HandlerInv /\ TimeInv

USE DEF Handle, Create, RecordOutcome, Consume, Moves, Advance, rowVars, ReadAgain,
        HandlerState, Status, JobState

LEMMA NeverIsNoTime == Never \notin Nat /\ Never \in Int
BY DEF Never

LEMMA InitIInv == Init => IInv
BY NeverIsNoTime DEF Init, IInv, TypeOK, RunInv, HandlerInv, TimeInv

LEMMA NextIInv == IInv /\ [Next]_vars => IInv'
<1> SUFFICES ASSUME IInv, [Next]_vars PROVE IInv'
  OBVIOUS
<1> USE TimeAssumption, NeverIsNoTime
    DEF IInv, TypeOK, RunInv, HandlerInv, TimeInv
<1>1. ASSUME NEW r \in Requests, Receive(r) PROVE IInv'
  BY <1>1 DEF Receive
<1>2. ASSUME NEW r \in Requests, DetailsReturn(r) PROVE IInv'
  BY <1>2 DEF DetailsReturn
<1>3. ASSUME NEW r \in Requests, MailDelivered(r) PROVE IInv'
  BY <1>3 DEF MailDelivered
<1>4. ASSUME NEW r \in Requests, SendReturns(r) PROVE IInv'
  BY <1>4 DEF SendReturns
<1>5. ASSUME NEW r \in Requests, SendRaises(r) PROVE IInv'
  BY <1>5 DEF SendRaises
<1>6. ASSUME NEW r \in Requests, PostApprove(r) PROVE IInv'
  BY <1>6 DEF PostApprove
<1>7. ASSUME NEW r \in Requests, PostCancel(r) PROVE IInv'
  BY <1>7 DEF PostCancel
<1>8. ASSUME NEW r \in Requests, ResolveFails(r) PROVE IInv'
  BY <1>8 DEF ResolveFails
<1>9. ASSUME NEW r \in Requests, StartPlaybook(r) PROVE IInv'
  BY <1>9 DEF StartPlaybook
<1>10. ASSUME NEW r \in Requests, PlaybookEnds(r) PROVE IInv'
  BY <1>10 DEF PlaybookEnds
<1>11. CASE Restart
  BY <1>11 DEF Restart
<1>12. CASE Tick
  BY <1>12 DEF Tick
<1>13. CASE UNCHANGED vars
  BY <1>13 DEF vars
<1> QED
  BY <1>1, <1>2, <1>3, <1>4, <1>5, <1>6, <1>7, <1>8, <1>9, <1>10, <1>11, <1>12, <1>13
     DEF Next, Webhook, Execution

LEMMA Invariance == Spec => []IInv
BY InitIInv, NextIInv, PTL DEF Spec

-----------------------------------------------------------------------------
(* Types, and a row has an expiry exactly when it exists.                   *)
THEOREM TypeCorrect == Spec => []TypeOK
BY Invariance, PTL DEF IInv

(* ADR-020:84, single use: one approval starts at most one playbook run,    *)
(* over any clicks, retries, mail failures and restarts.                    *)
THEOREM SingleUse == Spec => []AtMostOneRun
<1>1. IInv => AtMostOneRun
  <2> SUFFICES ASSUME RunInv, NEW r \in Requests PROVE runs[r] <= 1
    BY DEF IInv, AtMostOneRun
  <2>1. runs[r] = 0 \/ runs[r] = 1
    BY DEF RunInv
  <2> QED BY <2>1
<1> QED BY <1>1, Invariance, PTL

(* models/patch_approval.py:5: a row that is open, cancelled or expired ran *)
(* nothing and has no task left that could.                                 *)
THEOREM NothingUnapproved == Spec => []NothingRunsUnapproved
<1>1. IInv => NothingRunsUnapproved
  BY DEF IInv, RunInv, NothingRunsUnapproved
<1> QED BY <1>1, Invariance, PTL

(* Whatever ran or was cancelled was answered strictly within its TTL.      *)
THEOREM InTime == Spec => []AnsweredInTime
<1>1. IInv => AnsweredInTime
  BY DEF IInv, TimeInv, AnsweredInTime
<1> QED BY <1>1, Invariance, PTL

-----------------------------------------------------------------------------
(* What the docs promise of the questions themselves holds except in one    *)
(* circumstance each: without an await between find_pending and create,     *)
(* without a stop, without a mail server that takes a mail and still fails. *)

(* Once past its TTL, a row stays so.                                       *)
LEMMA PastStays ==
    ASSUME IInv, [Next]_vars, NEW r \in Requests, status[r] # "absent", IsPast(r)
    PROVE  IsPast(r)'
<1>1. expires_at'[r] = expires_at[r] /\ clock' \in Nat /\ clock' >= clock
  <2> USE TimeAssumption DEF IInv, TypeOK, HandlerInv
  <2>1. ASSUME NEW q \in Requests, Webhook(q) \/ MailDelivered(q)
        PROVE  expires_at'[r] = expires_at[r] /\ clock' = clock
    BY <2>1 DEF Webhook, Receive, DetailsReturn, SendReturns, SendRaises, MailDelivered
  <2>2. ASSUME NEW q \in Requests, PostApprove(q) \/ PostCancel(q)
        PROVE  expires_at'[r] = expires_at[r] /\ clock' \in {clock, clock + 1}
    BY <2>2 DEF PostApprove, PostCancel
  <2>3. ASSUME NEW q \in Requests, Execution(q)
        PROVE  expires_at'[r] = expires_at[r] /\ clock' = clock
    BY <2>3 DEF Execution, ResolveFails, StartPlaybook, PlaybookEnds
  <2>4. CASE Restart \/ Tick \/ UNCHANGED vars
    BY <2>4 DEF Restart, Tick, vars
  <2> QED BY <2>1, <2>2, <2>3, <2>4 DEF Next
<1>2. expires_at[r] \in Int /\ clock \in Nat
  BY NeverIsNoTime DEF IInv, TypeOK
<1> QED BY <1>1, <1>2 DEF IsPast

(* A row becomes pending only when its request creates it.                  *)
LEMMA NewlyPending ==
    ASSUME IInv, [Next]_vars, NEW r \in Requests, status'[r] = "pending"
    PROVE  \/ status[r] = "pending"
           \/ /\ Create(r) /\ UNCHANGED clock
              /\ (Receive(r) /\ ~ FetchesDetails /\ PendingFor(r) = {}) \/ DetailsReturn(r)
<1> USE DEF IInv, TypeOK
<1>1. ASSUME NEW q \in Requests, Webhook(q) \/ MailDelivered(q)
      PROVE  \/ status[r] = "pending"
             \/ /\ Create(r) /\ UNCHANGED clock
                /\ (Receive(r) /\ ~ FetchesDetails /\ PendingFor(r) = {}) \/ DetailsReturn(r)
  BY <1>1 DEF Webhook, Receive, DetailsReturn, SendReturns, SendRaises, MailDelivered
<1>2. ASSUME NEW q \in Requests, PostApprove(q) \/ PostCancel(q) \/ Execution(q)
      PROVE  status[r] = "pending"
  BY <1>2 DEF PostApprove, PostCancel, Execution, ResolveFails, StartPlaybook, PlaybookEnds
<1>3. CASE Restart \/ Tick \/ UNCHANGED vars
  BY <1>3 DEF Restart, Tick, vars
<1> QED BY <1>1, <1>2, <1>3 DEF Next

(* Nobody waits for host details that nobody fetches.                       *)
NoDetails == \A r \in Requests : handler[r] # "details"

LEMMA DetailsUnused ==
    ASSUME IInv, ~ FetchesDetails, NoDetails, [Next]_vars
    PROVE  NoDetails'
<1> USE DEF IInv, TypeOK, NoDetails
<1>1. ASSUME NEW q \in Requests, Webhook(q) \/ MailDelivered(q) PROVE NoDetails'
  BY <1>1 DEF Webhook, Receive, DetailsReturn, SendReturns, SendRaises, MailDelivered
<1>2. ASSUME NEW q \in Requests, PostApprove(q) \/ PostCancel(q) \/ Execution(q) PROVE NoDetails'
  BY <1>2 DEF PostApprove, PostCancel, Execution, ResolveFails, StartPlaybook, PlaybookEnds
<1>3. CASE Restart \/ Tick \/ UNCHANGED vars
  BY <1>3 DEF Restart, Tick, vars
<1> QED BY <1>1, <1>2, <1>3 DEF Next

LEMMA NextOneOpen ==
    ASSUME IInv, ~ FetchesDetails, NoDetails, OneOpenQuestionPerAlert, [Next]_vars
    PROVE  OneOpenQuestionPerAlert'
<1>1. ASSUME NEW r \in Requests, NEW q \in Requests, r # q, AlertOf[r] = AlertOf[q],
             status'[r] = "pending", Create(r), Receive(r), PendingFor(r) = {},
             status'[q] = "pending"
      PROVE  IsPast(q)'
  <2>1. status[q] = "pending"
    BY <1>1 DEF IInv, TypeOK
  <2>2. IsPast(q)
    BY <1>1, <2>1 DEF PendingFor
  <2> QED BY <2>1, <2>2, PastStays
<1> SUFFICES ASSUME NEW r \in Requests, NEW q \in Requests, r # q, AlertOf[r] = AlertOf[q],
                    status'[r] = "pending", status'[q] = "pending"
             PROVE  IsPast(r)' \/ IsPast(q)'
  BY DEF OneOpenQuestionPerAlert
<1>2. ~ DetailsReturn(r) /\ ~ DetailsReturn(q)
  BY DEF NoDetails, DetailsReturn
<1>3. CASE status[r] = "pending" /\ status[q] = "pending"
  BY <1>3, PastStays DEF OneOpenQuestionPerAlert
<1>4. CASE status[r] # "pending"
  BY <1>1, <1>2, <1>4, NewlyPending
<1>5. CASE status[q] # "pending"
  BY <1>1, <1>2, <1>5, NewlyPending
<1> QED BY <1>3, <1>4, <1>5

(* patching/store.py:102, where no PatchMon API is asked between looking    *)
(* for a pending row and creating one: one open question per alert, through *)
(* retries, mail failures and restarts.                                     *)
THEOREM OneOpenQuestion == ~ FetchesDetails => (Spec => []OneOpenQuestionPerAlert)
<1> SUFFICES ASSUME ~ FetchesDetails PROVE Spec => []OneOpenQuestionPerAlert
  OBVIOUS
<1>1. Init => NoDetails /\ OneOpenQuestionPerAlert
  BY DEF Init, NoDetails, OneOpenQuestionPerAlert
<1>2. IInv /\ NoDetails /\ OneOpenQuestionPerAlert /\ [Next]_vars
         => NoDetails' /\ OneOpenQuestionPerAlert'
  BY DetailsUnused, NextOneOpen
<1> QED BY <1>1, <1>2, Invariance, PTL DEF Spec

-----------------------------------------------------------------------------
(* Rows and mails *)

LEMMA NextEmailed ==
    ASSUME IInv, ~ Crashes, PendingMeansEmailed, [Next]_vars
    PROVE  PendingMeansEmailed'
<1> USE DEF IInv, TypeOK, PendingMeansEmailed
<1>1. ASSUME NEW q \in Requests, Webhook(q) \/ MailDelivered(q) PROVE PendingMeansEmailed'
  BY <1>1 DEF Webhook, Receive, DetailsReturn, SendReturns, SendRaises, MailDelivered
<1>2. ASSUME NEW q \in Requests, PostApprove(q) \/ PostCancel(q) \/ Execution(q)
      PROVE  PendingMeansEmailed'
  BY <1>2 DEF PostApprove, PostCancel, Execution, ResolveFails, StartPlaybook, PlaybookEnds
<1>3. CASE Restart \/ Tick \/ UNCHANGED vars
  BY <1>3 DEF Restart, Tick, vars
<1> QED BY <1>1, <1>2, <1>3 DEF Next

(* models/patch_approval.py:24, "pending = email sent": as long as no       *)
(* process stops between row and mail, the row that makes the next alert be *)
(* skipped is in front of a human or about to be.                           *)
THEOREM PendingIsEmailed == ~ Crashes => (Spec => []PendingMeansEmailed)
<1> SUFFICES ASSUME ~ Crashes PROVE Spec => []PendingMeansEmailed
  OBVIOUS
<1>1. Init => PendingMeansEmailed
  BY DEF Init, PendingMeansEmailed
<1>2. IInv /\ PendingMeansEmailed /\ [Next]_vars => PendingMeansEmailed'
  BY NextEmailed
<1> QED BY <1>1, <1>2, Invariance, PTL DEF Spec

(* Only who got the mail can have a task queued; a bounce means nobody did. *)
MailInv ==
    \A r \in Requests :
        /\ handler[r] \in {"new", "details", "sending"} => r \notin inbox
        /\ r \notin inbox => job[r] = "none"
        /\ status[r] = "undelivered" => handler[r] = "bounced" /\ r \notin inbox

LEMMA NextMail ==
    ASSUME IInv, ~ AmbiguousDelivery, MailInv, [Next]_vars
    PROVE  MailInv'
<1> USE DEF IInv, TypeOK, MailInv
<1>1. ASSUME NEW q \in Requests, Webhook(q) PROVE MailInv'
  BY <1>1 DEF Webhook, Receive, DetailsReturn, SendReturns, SendRaises
<1>2. ASSUME NEW q \in Requests, MailDelivered(q) PROVE MailInv'
  BY <1>2 DEF MailDelivered
<1>3. ASSUME NEW q \in Requests, PostApprove(q) \/ PostCancel(q) PROVE MailInv'
  BY <1>3 DEF PostApprove, PostCancel
<1>4. ASSUME NEW q \in Requests, Execution(q) PROVE MailInv'
  BY <1>4 DEF Execution, ResolveFails, StartPlaybook, PlaybookEnds
<1>5. CASE Restart \/ Tick \/ UNCHANGED vars
  BY <1>5 DEF Restart, Tick, vars
<1> QED BY <1>1, <1>2, <1>3, <1>4, <1>5 DEF Next

(* models/patch_approval.py:30, "undelivered": what an ambiguous SMTP       *)
(* failure breaks is true whenever a failure means that no mail was taken.  *)
THEOREM UndeliveredIsDead == ~ AmbiguousDelivery => (Spec => []UndeliveredNeverRuns)
<1> SUFFICES ASSUME ~ AmbiguousDelivery PROVE Spec => []UndeliveredNeverRuns
  OBVIOUS
<1>1. Init => MailInv
  BY DEF Init, MailInv
<1>2. IInv /\ MailInv /\ [Next]_vars => MailInv'
  BY NextMail
<1>3. IInv /\ MailInv => UndeliveredNeverRuns
  BY DEF IInv, RunInv, MailInv, UndeliveredNeverRuns
<1> QED BY <1>1, <1>2, <1>3, Invariance, PTL DEF Spec

-----------------------------------------------------------------------------
(* Refinement: every approval is a one-shot question.                       *)

LEMMA QuestionInit == Init => Question!Init
BY DEF Init, Question!Init, AnswerTo

LEMMA QuestionNext == IInv /\ [Next]_vars => [Question!Next]_Question!vars
<1> SUFFICES ASSUME IInv, [Next]_vars PROVE [Question!Next]_Question!vars
  OBVIOUS
<1> USE TimeAssumption, NeverIsNoTime
    DEF IInv, TypeOK, RunInv, HandlerInv, AnswerTo, Question!vars
(* Storing the row asks the question.                                       *)
<1>1. ASSUME NEW r \in Requests, Receive(r) \/ DetailsReturn(r)
      PROVE  [Question!Next]_Question!vars
  <2>1. CASE UNCHANGED rowVars
    BY <1>1, <2>1 DEF Receive, DetailsReturn
  <2>2. CASE Create(r)
    <3>1. Question!Ask(r)
      <4>1. AnswerTo(r) = "unasked" /\ UNCHANGED runs
        BY <1>1 DEF Receive, DetailsReturn
      <4>2. \A q \in Requests :
               AnswerTo(q)' = IF q = r THEN "open" ELSE AnswerTo(q)
        BY <1>1, <2>2 DEF Receive, DetailsReturn
      <4> HIDE DEF AnswerTo
      <4>3. [q \in Requests |-> AnswerTo(q)]'
               = [[q \in Requests |-> AnswerTo(q)] EXCEPT ![r] = "open"]
        BY <4>2
      <4> QED BY <4>1, <4>3 DEF Question!Ask
    <3> QED BY <3>1 DEF Question!Next
  <2> QED BY <1>1, <2>1, <2>2 DEF Receive, DetailsReturn
<1>2. ASSUME NEW r \in Requests, MailDelivered(r) \/ SendReturns(r)
      PROVE  [Question!Next]_Question!vars
  BY <1>2 DEF MailDelivered, SendReturns
(* A bounce closes an open question, and leaves an answered one alone.      *)
<1>3. ASSUME NEW r \in Requests, SendRaises(r)
      PROVE  [Question!Next]_Question!vars
  <2>1. CASE status[r] = "pending"
    <3>1. Question!Refuse({r})
      BY <1>3, <2>1 DEF SendRaises, Question!Refuse
    <3> QED BY <3>1 DEF Question!Next
  <2>2. CASE status[r] # "pending"
    BY <1>3, <2>2 DEF SendRaises
  <2> QED BY <2>1, <2>2
<1>4. ASSUME NEW r \in Requests, PostApprove(r)
      PROVE  [Question!Next]_Question!vars
  <2>1. CASE status'[r] = "approved"
    <3>1. Question!Grant(r)
      <4>1. AnswerTo(r) = "open" /\ UNCHANGED runs
        BY <1>4 DEF PostApprove
      <4>2. \A q \in Requests :
               AnswerTo(q)' = IF q = r THEN "granted" ELSE AnswerTo(q)
        BY <1>4, <2>1 DEF PostApprove
      <4> HIDE DEF AnswerTo
      <4> QED BY <4>1, <4>2 DEF Question!Grant
    <3> QED BY <3>1 DEF Question!Next
  <2>2. CASE status'[r] # "approved"
    <3>1. Question!Refuse({r})
      BY <1>4, <2>2 DEF PostApprove, Question!Refuse
    <3> QED BY <3>1 DEF Question!Next
  <2> QED BY <2>1, <2>2
<1>5. ASSUME NEW r \in Requests, PostCancel(r)
      PROVE  [Question!Next]_Question!vars
  <2>1. Question!Refuse({r})
    BY <1>5 DEF PostCancel, Question!Refuse
  <2> QED BY <2>1 DEF Question!Next
<1>6. ASSUME NEW r \in Requests, ResolveFails(r) \/ PlaybookEnds(r)
      PROVE  [Question!Next]_Question!vars
  BY <1>6 DEF ResolveFails, PlaybookEnds
(* Starting the playbook is the act the question was about.                 *)
<1>7. ASSUME NEW r \in Requests, StartPlaybook(r)
      PROVE  [Question!Next]_Question!vars
  <2>1. Question!Act(r)
    <3>1. AnswerTo(r) = "granted" /\ runs[r] = 0
      BY <1>7 DEF StartPlaybook
    <3>2. \A q \in Requests : AnswerTo(q)' = AnswerTo(q)
      BY <1>7 DEF StartPlaybook
    <3>3. runs' = [runs EXCEPT ![r] = 1]
      BY <1>7, <3>1 DEF StartPlaybook
    <3> HIDE DEF AnswerTo
    <3> QED BY <3>1, <3>2, <3>3 DEF Question!Act
  <2> QED BY <2>1 DEF Question!Next
<1>8. CASE Restart
  <2> DEFINE closed == {r \in Requests : status[r] = "pending" /\ IsPast(r)}
  <2>1. CASE closed = {}
    BY <1>8, <2>1 DEF Restart
  <2>2. CASE closed # {}
    <3>1. Question!Refuse(closed)
      BY <1>8, <2>2 DEF Restart, Question!Refuse
    <3>2. closed \in SUBSET Requests
      OBVIOUS
    <3> HIDE DEF closed, AnswerTo
    <3> QED BY <3>1, <3>2 DEF Question!Next
  <2> QED BY <2>1, <2>2
<1>9. CASE Tick \/ UNCHANGED vars
  BY <1>9 DEF Tick, vars
<1> QED
  BY <1>1, <1>2, <1>3, <1>4, <1>5, <1>6, <1>7, <1>8, <1>9 DEF Next, Webhook, Execution

(* The approval workflow implements the one-shot question: every approval  *)
(* is answered once and acted on at most once, only after a yes.            *)
THEOREM ImplementsOneShot == Spec => OneShot
<1>1. Init => Question!Init
  BY QuestionInit
<1>2. IInv /\ [Next]_vars => [Question!Next]_Question!vars
  BY QuestionNext
<1> QED
  BY <1>1, <1>2, Invariance, PTL DEF Spec, OneShot, Question!Spec
=============================================================================
