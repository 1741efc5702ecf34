------------------------------ MODULE Proposals ------------------------------
(***************************************************************************)
(* Remediation proposals: the rows the server keeps, the pull requests on  *)
(* the Git host, and everything that moves either of them -- the           *)
(* after-discovery hook (sync_pr_states, sweep_verifications, _auto_create)*)
(* and the calls beside it (proposal_create, the Dockhand webhook,         *)
(* proposal_cancel, proposal_verify)                                       *)
(* (proposal/engine.py, proposal/lifecycle.py, proposal/store.py).         *)
(*                                                                         *)
(* The hook runs one at a time; calls run beside it and beside each other. *)
(* A task is described by what it is waiting for: the Git host, the model, *)
(* or the notifier.  Between two waits it is not interrupted.              *)
(***************************************************************************)
EXTENDS Integers, Sequences

CONSTANTS
    Findings,       \* (service, finding type) pairs
    AuthConflicts,  \* the findings of type auth_mode_conflict
    Hook,           \* the after-discovery hook
    Calls,          \* concurrent tool calls and webhook deliveries
    MayCreate,      \* the findings each task is asked to open proposals for
    MaxProposals,   \* bound on the rows
    MaxPRs          \* bound on the pull requests

Tasks == Calls \cup {Hook}

ASSUME FindingAssumption == AuthConflicts \subseteq Findings
ASSUME TaskAssumption ==
    /\ Hook \notin Calls
    /\ MayCreate \in [Tasks -> SUBSET Findings]
    /\ MayCreate[Hook] \subseteq AuthConflicts
ASSUME BoundAssumption == MaxProposals \in Nat /\ MaxPRs \in Nat

VARIABLES
    service,    \* the finding's service, as the registry has it
    news,       \* conflicts with a change, or a day, since the last rejection
    proposals,  \* the proposal table, oldest first
    prs,        \* the state of each pull request on the host
    work,       \* what each task is waiting for
    todo        \* findings the hook's auto-create loop still has to visit

vars == <<service, news, proposals, prs, work, todo>>

ServiceState == {"clear", "conflict", "lost", "gone"}   \* lost: conflict and stale
ProposalStatus == {"open", "merged", "cancelled", "verified", "rejected"}
PRState == {"open", "merged", "closed"}
NoPR == 0
RowIds == 1..MaxProposals

Row(f, n, s) == [finding |-> f, pr |-> n, status |-> s]
Rows == [finding: Findings, pr: 0..MaxPRs, status: ProposalStatus]

Idle == [on |-> "nothing"]
Asking(i, f) == [on |-> "dedupe", row |-> i, finding |-> f]
Drafting(f) == [on |-> "draft", finding |-> f]
Pushing(f) == [on |-> "push", finding |-> f]
Opened(f, n) == [on |-> "opened", finding |-> f, pr |-> n]
Closing(i) == [on |-> "close", row |-> i]
Syncing(rows) == [on |-> "sync", rows |-> rows]
Sweeping(rows) == [on |-> "sweep", rows |-> rows]

Work ==
    {Idle} \cup [on: {"dedupe"}, row: RowIds, finding: Findings]
           \cup [on: {"draft", "push"}, finding: Findings]
           \cup [on: {"opened"}, finding: Findings, pr: 1..MaxPRs]
           \cup [on: {"close"}, row: RowIds]
           \cup [on: {"sync", "sweep"}, rows: SUBSET RowIds]

TypeOK ==
    /\ service \in [Findings -> ServiceState]
    /\ news \subseteq AuthConflicts
    /\ proposals \in Seq(Rows) /\ Len(proposals) <= MaxProposals
    /\ prs \in Seq(PRState) /\ Len(prs) <= MaxPRs
    /\ work \in [Tasks -> Work]
    /\ todo \subseteq MayCreate[Hook]

Init ==
    /\ service = [f \in Findings |-> "clear"]
    /\ news = {}
    /\ proposals = <<>>
    /\ prs = <<>>
    /\ work = [t \in Tasks |-> Idle]
    /\ todo = {}

-----------------------------------------------------------------------------
(* proposal/store.py                                                       *)

OpenRows == {i \in DOMAIN proposals : proposals[i].status = "open"}
OpenFor(f) == {i \in OpenRows : proposals[i].finding = f}

IsLatest(i, f) ==
    /\ i \in DOMAIN proposals /\ proposals[i].finding = f
    /\ \A j \in DOMAIN proposals : proposals[j].finding = f => j <= i

(* The table once row i has been given a status, whatever it had before.    *)
WithStatus(i, s) == [proposals EXCEPT ![i] = Row(@.finding, @.pr, s)]

-----------------------------------------------------------------------------
(* proposal/lifecycle.py: what the host's answer about row i's pull request *)
(* does to an open row.  A merged conflict fix waits for the sweep.  An     *)
(* answer that changes something is final on the host, so it may as well be *)
(* read at the moment it is applied.                                        *)

PRStateOf(i) == prs[proposals[i].pr]

(* Slip: a merged conflict fix is taken for a resolved one.                 *)
FinishedWhenMerged(i) == PRStateOf(i) \in {"closed", "merged"}

(* Slip: only a merge is noticed.                                           *)
FinishedByMergeOnly(i) ==
    PRStateOf(i) = "merged" /\ proposals[i].finding \notin AuthConflicts

Finished(i) ==
    \/ PRStateOf(i) = "closed"
    \/ PRStateOf(i) = "merged" /\ proposals[i].finding \notin AuthConflicts

Retired(i) ==
    WithStatus(i, IF PRStateOf(i) = "closed" THEN "cancelled" ELSE "merged")

-----------------------------------------------------------------------------
(* proposal/engine.py: _open_proposal                                      *)

Become(t, w) == work' = [work EXCEPT ![t] = w]

Store(rows, row) ==
    /\ Len(rows) < MaxProposals
    /\ proposals' = Append(rows, row)

(* The service still exists, and still has its conflict if that is what is  *)
(* to be remedied.                                                          *)
CanRemedy(f) ==
    IF f \in AuthConflicts THEN service[f] \in {"conflict", "lost"}
                           ELSE service[f] # "gone"

(* No open proposal is in the way (any more): draft a patch -- or, for a    *)
(* vulnerability without a fixed version, record that nothing can be done.  *)
Proceed(t, f, rows) ==
    \/ Become(t, Drafting(f)) /\ proposals' = rows
    \/ /\ f \notin AuthConflicts
       /\ Become(t, Idle) /\ Store(rows, Row(f, NoPR, "rejected"))

(* Slip: the table is not asked for an open proposal first.                 *)
OpenProposalUnchecked(t, f) ==
    /\ work[t] = Idle /\ f \in MayCreate[t] /\ CanRemedy(f)
    /\ Proceed(t, f, proposals)

OpenProposal(t, f) ==
    /\ work[t] = Idle /\ f \in MayCreate[t] /\ CanRemedy(f)
    /\ \/ OpenFor(f) = {} /\ Proceed(t, f, proposals)
       \/ \E i \in OpenFor(f) : Become(t, Asking(i, f)) /\ UNCHANGED proposals

CallCreates(c) ==
    /\ \E f \in Findings : OpenProposal(c, f)
    /\ UNCHANGED <<service, news, prs, todo>>

(* The host tells whether the open proposal's pull request is finished; an  *)
(* unreadable answer leaves the row alone, and the call is skipped.         *)
DedupeAnswered(t) ==
    /\ work[t].on = "dedupe"
    /\ \/ /\ Finished(work[t].row)
          /\ Proceed(t, work[t].finding, Retired(work[t].row))
       \/ Become(t, Idle) /\ UNCHANGED proposals
    /\ UNCHANGED <<service, news, prs, todo>>

DraftAccepted(t) ==
    /\ work[t].on = "draft"
    /\ Become(t, Pushing(work[t].finding))
    /\ UNCHANGED <<service, news, proposals, prs, todo>>

DraftRejected(t) ==
    /\ work[t].on = "draft"
    /\ Store(proposals, Row(work[t].finding, NoPR, "rejected"))
    /\ news' = news \ {work[t].finding}
    /\ Become(t, Idle)
    /\ UNCHANGED <<service, prs, todo>>

(* The branch, the commit and the pull request; the host has it first.      *)
PROpens(t) ==
    /\ work[t].on = "push"
    /\ Len(prs) < MaxPRs
    /\ prs' = Append(prs, "open")
    /\ Become(t, Opened(work[t].finding, Len(prs) + 1))
    /\ UNCHANGED <<service, news, proposals, todo>>

OpenRecorded(t) ==
    /\ work[t].on = "opened"
    /\ Store(proposals, Row(work[t].finding, work[t].pr, "open"))
    /\ Become(t, Idle)
    /\ UNCHANGED <<service, news, prs, todo>>

(* The file has no path or cannot be read, a dry run ends here, or a Git    *)
(* request fails -- even one the host has carried out.                      *)
GiveUp(t) ==
    /\ work[t].on \in {"draft", "push", "opened"}
    /\ Become(t, Idle)
    /\ UNCHANGED <<service, news, proposals, prs, todo>>

-----------------------------------------------------------------------------
(* proposal/engine.py: cancel, of any row                                   *)

CancelBegins(c) ==
    /\ work[c] = Idle
    /\ \E i \in DOMAIN proposals :
          \/ proposals[i].pr # NoPR /\ Become(c, Closing(i)) /\ UNCHANGED proposals
          \/ /\ proposals[i].pr = NoPR
             /\ proposals' = WithStatus(i, "cancelled") /\ UNCHANGED work
    /\ UNCHANGED <<service, news, prs, todo>>

(* A failed close is logged; the row is cancelled all the same.             *)
CancelEnds(c) ==
    /\ work[c].on = "close"
    /\ LET i == work[c].row
           n == proposals[i].pr
       IN  /\ \/ prs[n] = "open" /\ prs' = [prs EXCEPT ![n] = "closed"]
              \/ UNCHANGED prs
           /\ proposals' = WithStatus(i, "cancelled")
    /\ Become(c, Idle)
    /\ UNCHANGED <<service, news, todo>>
-----------------------------------------------------------------------------
(* proposal/engine.py: after_discovery                                     *)

(* A pass has finished: list the open rows and ask the host about each.     *)
HookStarts ==
    /\ work[Hook] = Idle /\ todo = {}
    /\ Become(Hook, Syncing(OpenRows))
    /\ UNCHANGED <<service, news, proposals, prs, todo>>

(* The newest row not asked about yet.                                      *)
SyncsNext(i) ==
    /\ work[Hook].on = "sync"
    /\ i \in work[Hook].rows /\ \A j \in work[Hook].rows : j <= i
    /\ Become(Hook, Syncing(work[Hook].rows \ {i}))
    /\ UNCHANGED <<service, news, prs, todo>>

SyncRetires(i) == SyncsNext(i) /\ Finished(i) /\ proposals' = Retired(i)

(* Not finished, or the answer cannot be read.                              *)
SyncLeaves(i) == SyncsNext(i) /\ UNCHANGED proposals

(* All rows asked about: list the open ones again, for the sweep.           *)
SyncEnds ==
    /\ work[Hook].on = "sync" /\ work[Hook].rows = {}
    /\ Become(Hook, Sweeping(OpenRows))
    /\ UNCHANGED <<service, news, proposals, prs, todo>>

(* proposal_verify sweeps too, whatever the hook is doing.                  *)
CallSweeps(c) ==
    /\ work[c] = Idle
    /\ Become(c, Sweeping(OpenRows))
    /\ UNCHANGED <<service, news, proposals, prs, todo>>

(* Slip: a fix counts as verified only once its pull request was merged.    *)
SweepHitsMerged(rows) ==
    {i \in rows : /\ proposals[i].finding \in AuthConflicts
                  /\ service[proposals[i].finding] = "clear"
                  /\ prs[proposals[i].pr] = "merged"}

(* The listed rows whose conflict has cleared, as the registry says now.    *)
SweepHits(rows) ==
    {i \in rows : /\ proposals[i].finding \in AuthConflicts
                  /\ service[proposals[i].finding] = "clear"}

(* The sweep runs up to its next notification.  The row is one that was     *)
(* open when the sweep listed it.                                           *)
SweepVerifies(t) ==
    /\ work[t].on = "sweep"
    /\ \E i \in SweepHits(work[t].rows) :
          /\ \A j \in SweepHits(work[t].rows) : j <= i
          /\ proposals' = WithStatus(i, "verified")
          /\ Become(t, Sweeping({j \in work[t].rows : j < i}))
    /\ UNCHANGED <<service, news, prs, todo>>

(* Nothing left to verify.  The hook lists the services it may have to open *)
(* a proposal for.                                                          *)
SweepEnds(t) ==
    /\ work[t].on = "sweep" /\ SweepHits(work[t].rows) = {}
    /\ Become(t, Idle)
    /\ todo' = IF t = Hook
               THEN {f \in MayCreate[Hook] : service[f] = "conflict"} ELSE todo
    /\ UNCHANGED <<service, news, proposals, prs>>

(* Slip: a rejection is retried whether or not anything changed.            *)
EligibleEveryPass(f) ==
    /\ OpenFor(f) = {}
    /\ \A i \in DOMAIN proposals : IsLatest(i, f) => proposals[i].status # "cancelled"

(* Slip: a cancelled proposal is no obstacle.                               *)
EligibleAfterNo(f) ==
    /\ OpenFor(f) = {}
    /\ \A i \in DOMAIN proposals :
          IsLatest(i, f) => (proposals[i].status = "rejected" => f \in news)

(* No open proposal, no human "no", and no rejection that would only be     *)
(* repeated.                                                                *)
Eligible(f) ==
    /\ OpenFor(f) = {}
    /\ \A i \in DOMAIN proposals : IsLatest(i, f) =>
          /\ proposals[i].status # "cancelled"
          /\ proposals[i].status = "rejected" => f \in news

(* The loop goes on to the next service that gets a proposal, passing over  *)
(* those that do not, in the table's order.                                 *)
AutoCreates(f) ==
    /\ f \in todo /\ Eligible(f)
    /\ OpenProposal(Hook, f)
    /\ \E rest \in SUBSET (todo \ {f}) :
          /\ todo' = rest
          /\ \A g \in todo \ (rest \cup {f}) : ~ (Eligible(g) /\ CanRemedy(g))
    /\ UNCHANGED <<service, news, prs>>

AutoEnds ==
    /\ work[Hook] = Idle /\ todo # {}
    /\ \A g \in todo : ~ (Eligible(g) /\ CanRemedy(g))
    /\ todo' = {}
    /\ UNCHANGED <<service, news, proposals, prs, work>>

-----------------------------------------------------------------------------
(* The task is cancelled with the tool call it runs in, or an answer of the *)
(* host makes the hook raise.                                               *)
Abort(t) ==
    /\ work[t] # Idle
    /\ Become(t, Idle)
    /\ todo' = IF t = Hook THEN {} ELSE todo
    /\ UNCHANGED <<service, news, proposals, prs>>

Restart ==
    /\ work' = [t \in Tasks |-> Idle]
    /\ todo' = {}
    /\ UNCHANGED <<service, news, proposals, prs>>

(* Discovery sets or clears the conflict, or marks the service stale.       *)
ServiceChanges(f) ==
    /\ f \in AuthConflicts /\ service[f] # "gone"
    /\ \E s \in {"clear", "conflict", "lost"} :
          s # service[f] /\ service' = [service EXCEPT ![f] = s]
    /\ news' = news \cup {f}
    /\ UNCHANGED <<proposals, prs, work, todo>>

ServiceDeleted(f) ==
    /\ service[f] # "gone"
    /\ service' = [service EXCEPT ![f] = "gone"]
    /\ UNCHANGED <<news, proposals, prs, work, todo>>

(* Some other field of the service changes, or a day passes.                *)
NewsArrives(f) ==
    /\ f \in AuthConflicts \ news
    /\ news' = news \cup {f}
    /\ UNCHANGED <<service, proposals, prs, work, todo>>

HumanDecides(n) ==
    /\ n \in DOMAIN prs /\ prs[n] = "open"
    /\ \E decision \in {"merged", "closed"} : prs' = [prs EXCEPT ![n] = decision]
    /\ UNCHANGED <<service, news, proposals, work, todo>>

-----------------------------------------------------------------------------
Opening(t) ==
    \/ DedupeAnswered(t) \/ DraftAccepted(t) \/ DraftRejected(t)
    \/ PROpens(t) \/ OpenRecorded(t) \/ GiveUp(t)

Call(c) == CallCreates(c) \/ CancelBegins(c) \/ CancelEnds(c) \/ CallSweeps(c)

Sweep(t) == SweepVerifies(t) \/ SweepEnds(t)

AfterDiscovery ==
    \/ HookStarts \/ SyncEnds \/ AutoEnds
    \/ \E i \in RowIds : SyncRetires(i) \/ SyncLeaves(i)
    \/ \E f \in Findings : AutoCreates(f)

Environment ==
    \/ \E f \in Findings : ServiceChanges(f) \/ ServiceDeleted(f) \/ NewsArrives(f)
    \/ \E n \in 1..MaxPRs : HumanDecides(n)

Next ==
    \/ AfterDiscovery
    \/ \E c \in Calls : Call(c)
    \/ \E t \in Tasks : Opening(t) \/ Sweep(t) \/ Abort(t)
    \/ Restart
    \/ Environment

Spec == Init /\ [][Next]_vars

(* Discovery passes keep finishing, so the hook keeps running; its waits    *)
(* have timeouts; and a pull request whose state keeps being asked for is   *)
(* read in the end.                                                         *)
Fairness ==
    /\ WF_vars(AfterDiscovery)
    /\ WF_vars(Opening(Hook))
    /\ WF_vars(Sweep(Hook))
    /\ \A i \in RowIds : SF_vars(SyncRetires(i))

(* From some point on no pass of the hook is cut short, by a restart or     *)
(* otherwise, before it has asked about and swept every row it listed.      *)
CutShort ==
    /\ work'[Hook] = Idle
    /\ \/ work[Hook].on = "sync"
       \/ work[Hook].on = "sweep" /\ SweepHits(work[Hook].rows) # {}

Stable == <>[][~ CutShort]_vars

FairSpec == Spec /\ Fairness /\ Stable

-----------------------------------------------------------------------------
(* docs/ADRs/ADR-010:236: "the duplicate gate bounds this to one open       *)
(* proposal per service per finding type".                                  *)
OneOpenProposalPerFinding ==
    \A i, j \in OpenRows : proposals[i].finding = proposals[j].finding => i = j

(* engine.py:425: "A closed PR is a human "no": auto-create must not reopen *)
(* it on the next pass."  Whether or not the closing has been noticed yet,  *)
(* the hook drafts nothing for a finding whose latest pull request a human  *)
(* closed -- unless the conflict had cleared and come back.                 *)
ClosedIsANo ==
    [][\A f \in Findings, i \in DOMAIN proposals :
           /\ IsLatest(i, f) /\ proposals[i].pr # NoPR
           /\ prs[proposals[i].pr] = "closed"
           /\ work[Hook] = Idle /\ work'[Hook] = Drafting(f)
           => proposals[i].status = "verified"]_vars

(* engine.py:445: "Retrying every pass re-asked the model the same          *)
(* question, recorded another rejection".  The hook records no second       *)
(* rejection of a finding in a row unless something happened in between.    *)
NoRepeatedRejection ==
    [][\A f \in Findings, i \in DOMAIN proposals :
           /\ IsLatest(i, f) /\ proposals[i].status = "rejected"
           /\ work[Hook] = Drafting(f)
           /\ Len(proposals') > Len(proposals)
           /\ proposals'[Len(proposals')] = Row(f, NoPR, "rejected")
           => f \in news]_vars

(* lifecycle.py:47: "A merged auth_mode_conflict PR is deliberately left    *)
(* open: that finding is only resolved once discovery sees the conflict     *)
(* clear".  Only the sweep moves such a row on, at a moment when the        *)
(* conflict is clear -- or the operator, by cancelling it.                  *)
MergedFixWaitsForDiscovery ==
    [][\A i \in OpenRows :
           /\ proposals[i].finding \in AuthConflicts
           /\ prs[proposals[i].pr] = "merged"
           /\ proposals'[i].status # "open"
           => \/ /\ proposals'[i].status = "verified"
                 /\ service[proposals[i].finding] = "clear"
              \/ \E c \in Calls : work[c] = Closing(i) /\ work'[c] = Idle]_vars

(* lifecycle.py:4: "Without this, a merged or closed PR would block every   *)
(* later proposal for the same service or node forever."                    *)
FinishedIsRetired ==
    \A i \in RowIds :
        /\ i \in OpenRows
        /\ \/ PRStateOf(i) = "closed"
           \/ PRStateOf(i) = "merged" /\ proposals[i].finding \notin AuthConflicts
        ~> i \notin OpenRows

(* Once a conflict has cleared for good, its open proposals are verified,   *)
(* if they were not closed otherwise, one recorded late included.           *)
ClearedIsVerified ==
    \A f \in AuthConflicts :
        <>[](service[f] = "clear") => <>[](OpenFor(f) = {})
=============================================================================
