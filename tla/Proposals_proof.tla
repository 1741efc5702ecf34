--------------------------- MODULE Proposals_proof ---------------------------
(***************************************************************************)
(* Proofs about Proposals, for any findings, tasks and bounds: types; what *)
(* the hook may never do -- draft over a pull request a human closed,      *)
(* record a second rejection without news, retire a merged conflict fix -- *)
(* and that a finding has at most one open proposal as long as every       *)
(* finding has at most one task that creates proposals for it.  That       *)
(* hypothesis is what the code relies on and what two concurrent alerts    *)
(* break: nothing is held between the look for an open proposal and the    *)
(* new row.                                                                *)
(***************************************************************************)
EXTENDS Proposals, TLAPS

OneCreator == \A t, u \in Tasks : t # u => MayCreate[t] \cap MayCreate[u] = {}

(* A table in which no row was opened since proposals: rows keep their      *)
(* findings, none became open, and the new ones are not open.               *)
Shrunk(rows) ==
    /\ rows \in Seq(Rows) /\ Len(rows) <= MaxProposals
    /\ Len(proposals) <= Len(rows)
    /\ \A j \in 1..Len(proposals) :
          /\ rows[j].finding = proposals[j].finding
          /\ rows[j].status = "open" => proposals[j].status = "open"
    /\ \A j \in 1..Len(rows) : j > Len(proposals) => rows[j].status # "open"

NoOpenIn(rows, f) ==
    \A j \in 1..Len(rows) : rows[j].status = "open" => rows[j].finding # f

OneOpenIn(rows) ==
    \A i, j \in 1..Len(rows) :
        /\ rows[i].status = "open" /\ rows[j].status = "open"
        /\ rows[i].finding = rows[j].finding
        => i = j

(* What a task that waits for w may count on: it is entitled to the finding *)
(* it works on, and nothing is open for it -- but the row it asks about.    *)
Sound(t, w, rows) ==
    /\ w.on \in {"dedupe", "draft", "push", "opened"} => w.finding \in MayCreate[t]
    /\ w.on \in {"draft", "push", "opened"} => NoOpenIn(rows, w.finding)
    /\ w.on = "dedupe" =>
          \A j \in 1..Len(rows) :
              rows[j].status = "open" /\ rows[j].finding = w.finding => j = w.row

IInv ==
    /\ TypeOK
    /\ \A t \in Tasks : Sound(t, work[t], proposals)
    /\ OneOpenIn(proposals)

USE FindingAssumption, TaskAssumption, BoundAssumption

-----------------------------------------------------------------------------
(* Tables                                                                  *)

LEMMA RowType ==
    ASSUME NEW f \in Findings, NEW n \in 0..MaxPRs, NEW s \in ProposalStatus
    PROVE  /\ Row(f, n, s) \in Rows
           /\ Row(f, n, s).status = s
           /\ Row(f, n, s).finding = f
BY DEF Row, Rows

LEMMA SameShrunk == ASSUME TypeOK PROVE Shrunk(proposals)
BY DEF TypeOK, Shrunk

(* Giving a row a closing status shrinks the table.                         *)
LEMMA StatusShrunk ==
    ASSUME TypeOK, NEW i, NEW s \in ProposalStatus \ {"open"}
    PROVE  /\ Shrunk(WithStatus(i, s))
           /\ Len(WithStatus(i, s)) = Len(proposals)
           /\ i \in 1..Len(proposals) => WithStatus(i, s)[i].status = s
<1> DEFINE rows == WithStatus(i, s)
<1>1. /\ proposals \in Seq(Rows) /\ Len(proposals) <= MaxProposals
      /\ DOMAIN proposals = 1..Len(proposals)
  BY DEF TypeOK
<1>2. \A j \in 1..Len(proposals) :
         rows[j] = IF j = i THEN Row(proposals[j].finding, proposals[j].pr, s)
                                   ELSE proposals[j]
  BY <1>1 DEF WithStatus
<1>3. \A j \in 1..Len(proposals) :
         /\ rows[j] \in Rows /\ rows[j].finding = proposals[j].finding
         /\ rows[j].status = IF j = i THEN s ELSE proposals[j].status
  <2> SUFFICES ASSUME NEW j \in 1..Len(proposals)
               PROVE  /\ rows[j] \in Rows /\ rows[j].finding = proposals[j].finding
                      /\ rows[j].status = IF j = i THEN s ELSE proposals[j].status
    OBVIOUS
  <2>1. proposals[j] \in Rows
    BY <1>1
  <2>2. /\ proposals[j].finding \in Findings
        /\ proposals[j].pr \in 0..MaxPRs
    BY <2>1 DEF Rows
  <2> HIDE DEF rows
  <2>3. CASE j = i
    <3>1. rows[j] = Row(proposals[j].finding, proposals[j].pr, s)
      BY <1>2, <2>3
    <3> QED BY <2>2, <2>3, <3>1, RowType
  <2>4. CASE j # i
    <3>1. rows[j] = proposals[j]
      BY <1>2, <2>4
    <3> QED BY <2>1, <2>4, <3>1
  <2> QED BY <2>3, <2>4
<1>4. rows \in Seq(Rows) /\ Len(rows) = Len(proposals)
  <2>1. DOMAIN rows = 1..Len(proposals)
    BY <1>1 DEF WithStatus
  <2>2. rows = [j \in 1..Len(proposals) |-> rows[j]]
    BY <1>1, <2>1 DEF WithStatus
  <2>3. rows \in [1..Len(proposals) -> Rows]
    BY <1>3, <2>2
  <2>4. Len(proposals) \in Nat
    BY <1>1
  <2> QED BY <2>1, <2>3, <2>4
<1> QED BY <1>1, <1>3, <1>4 DEF Shrunk

(* So does a new row that is not open.                                      *)
LEMMA StoreShrunk ==
    ASSUME TypeOK, NEW rows, Shrunk(rows), Len(rows) < MaxProposals,
           NEW row \in Rows, row.status # "open"
    PROVE  Shrunk(Append(rows, row))
<1> DEFINE new == Append(rows, row)
<1>1. rows \in Seq(Rows) /\ proposals \in Seq(Rows)
  BY DEF Shrunk, TypeOK
<1>2. new \in Seq(Rows) /\ Len(new) = Len(rows) + 1 /\ new[Len(rows) + 1] = row
  BY <1>1
<1>3. \A j \in 1..Len(rows) : new[j] = rows[j]
  BY <1>1
<1> QED BY <1>1, <1>2, <1>3 DEF Shrunk

LEMMA ShrunkKeepsSound ==
    ASSUME TypeOK, NEW rows, Shrunk(rows), NEW t, NEW w, Sound(t, w, proposals)
    PROVE  Sound(t, w, rows)
<1>1. Len(proposals) \in Nat /\ Len(rows) \in Nat
  BY DEF TypeOK, Shrunk
<1>2. \A j \in 1..Len(rows) : rows[j].status = "open" =>
         /\ j \in 1..Len(proposals) /\ proposals[j].status = "open"
         /\ rows[j].finding = proposals[j].finding
  BY <1>1 DEF Shrunk
<1> QED BY <1>2 DEF Sound, NoOpenIn

LEMMA ShrunkKeepsOneOpen ==
    ASSUME TypeOK, NEW rows, Shrunk(rows), OneOpenIn(proposals)
    PROVE  OneOpenIn(rows)
<1>1. Len(proposals) \in Nat /\ Len(rows) \in Nat
  BY DEF TypeOK, Shrunk
<1>2. \A j \in 1..Len(rows) : rows[j].status = "open" =>
         /\ j \in 1..Len(proposals) /\ proposals[j].status = "open"
         /\ rows[j].finding = proposals[j].finding
  BY <1>1 DEF Shrunk
<1> QED BY <1>2 DEF OneOpenIn

-----------------------------------------------------------------------------
(* Types                                                                   *)

LEMMA WorkType ==
    /\ Idle \in Work
    /\ \A f \in Findings : Drafting(f) \in Work /\ Pushing(f) \in Work
    /\ \A f \in Findings, n \in 1..MaxPRs : Opened(f, n) \in Work
    /\ \A i \in RowIds, f \in Findings : Asking(i, f) \in Work
    /\ \A i \in RowIds : Closing(i) \in Work
    /\ \A rows \in SUBSET RowIds : Syncing(rows) \in Work /\ Sweeping(rows) \in Work
BY DEF Work, Idle, Drafting, Pushing, Opened, Asking, Closing, Syncing, Sweeping

(* What a task waits for tells what it knows.                               *)
LEMMA WorkFields ==
    ASSUME NEW w \in Work
    PROVE  /\ w.on \in {"dedupe", "draft", "push", "opened"} => w.finding \in Findings
           /\ w.on = "opened" => w.pr \in 1..MaxPRs
           /\ w.on \in {"dedupe", "close"} => w.row \in RowIds
           /\ w.on \in {"sync", "sweep"} => w.rows \in SUBSET RowIds
BY DEF Work, Idle

LEMMA OpenRowsType == ASSUME TypeOK PROVE OpenRows \in SUBSET RowIds
BY DEF TypeOK, OpenRows, RowIds

LEMMA RetiredShrunk ==
    ASSUME TypeOK, NEW i
    PROVE  Shrunk(Retired(i)) /\ Len(Retired(i)) = Len(proposals)
BY StatusShrunk DEF Retired, ProposalStatus

LEMMA ShrunkType == ASSUME NEW rows, Shrunk(rows)
                    PROVE  rows \in Seq(Rows) /\ Len(rows) <= MaxProposals
BY DEF Shrunk

(* The rows _open_proposal leaves behind, and what its task then waits for. *)
LEMMA ProceedShrunk ==
    ASSUME TypeOK, NEW t \in Tasks, NEW f \in Findings, NEW rows, Shrunk(rows),
           Proceed(t, f, rows)
    PROVE  /\ Shrunk(proposals')
           /\ \/ Become(t, Drafting(f)) /\ proposals' = rows
              \/ Become(t, Idle)
<1>1. CASE Become(t, Drafting(f)) /\ proposals' = rows
  BY <1>1
<1>2. CASE Become(t, Idle) /\ Store(rows, Row(f, NoPR, "rejected"))
  <2>1. /\ Row(f, NoPR, "rejected") \in Rows
        /\ Row(f, NoPR, "rejected").status # "open"
    BY RowType DEF NoPR, ProposalStatus
  <2>2. Len(rows) < MaxProposals /\ proposals' = Append(rows, Row(f, NoPR, "rejected"))
    BY <1>2 DEF Store
  <2>3. Shrunk(proposals')
    BY <2>1, <2>2, StoreShrunk
  <2> QED BY <1>2, <2>3
<1> QED BY <1>1, <1>2 DEF Proceed

LEMMA OpenProposalShrunk ==
    ASSUME TypeOK, NEW t \in Tasks, NEW f \in Findings, OpenProposal(t, f)
    PROVE  /\ Shrunk(proposals') /\ f \in MayCreate[t]
           /\ \/ Become(t, Drafting(f)) /\ OpenFor(f) = {} /\ proposals' = proposals
              \/ \E i \in OpenFor(f) : Become(t, Asking(i, f)) /\ proposals' = proposals
              \/ Become(t, Idle)
<1>1. CASE OpenFor(f) = {} /\ Proceed(t, f, proposals)
  BY <1>1, SameShrunk, ProceedShrunk DEF OpenProposal
<1>2. CASE \E i \in OpenFor(f) : Become(t, Asking(i, f)) /\ UNCHANGED proposals
  BY <1>2, SameShrunk DEF OpenProposal
<1> QED BY <1>1, <1>2 DEF OpenProposal

(* Every step but the recording of an opened pull request shrinks the table *)
(* and moves at most one task.                                              *)
LEMMA DedupeShrunk ==
    ASSUME TypeOK, NEW t \in Tasks, DedupeAnswered(t)
    PROVE  /\ Shrunk(proposals') /\ work[t].finding \in Findings
           /\ \/ /\ Become(t, Drafting(work[t].finding))
                 /\ proposals' = Retired(work[t].row)
              \/ Become(t, Idle)
<1>1. work[t] \in Work /\ work[t].on = "dedupe"
  BY DEF TypeOK, DedupeAnswered
<1>2. work[t].finding \in Findings /\ work[t].row \in RowIds
  BY <1>1, WorkFields
<1>3. CASE Proceed(t, work[t].finding, Retired(work[t].row))
  BY <1>2, <1>3, RetiredShrunk, ProceedShrunk
<1>4. CASE Become(t, Idle) /\ UNCHANGED proposals
  BY <1>2, <1>4, SameShrunk
<1> QED BY <1>3, <1>4 DEF DedupeAnswered
LEMMA SwapShrunk ==
    ASSUME TypeOK, NEW t \in Tasks, NEW w \in Work, Become(t, w), Shrunk(proposals'),
           service' \in [Findings -> ServiceState], news' \subseteq AuthConflicts,
           prs' \in Seq(PRState), Len(prs') <= MaxPRs, todo' \subseteq MayCreate[Hook]
    PROVE  TypeOK'
BY ShrunkType DEF TypeOK, Become

LEMMA HookIsTask == Hook \in Tasks /\ Calls \subseteq Tasks
BY DEF Tasks

(* _open_proposal, up to its first wait and after each of them.             *)
LEMMA OpeningType ==
    ASSUME TypeOK, NEW t \in Tasks, Opening(t)
    PROVE  TypeOK'
<1> USE DEF TypeOK
<1>1. work[t] \in Work
  OBVIOUS
<1>2. CASE DedupeAnswered(t)
  BY <1>2, DedupeShrunk, WorkType, SwapShrunk DEF DedupeAnswered
<1>3. CASE DraftAccepted(t)
  <2>1. Pushing(work[t].finding) \in Work
    BY <1>1, <1>3, WorkFields, WorkType DEF DraftAccepted
  <2>2. Shrunk(proposals')
    BY <1>3, SameShrunk DEF DraftAccepted
  <2> QED BY <1>3, <2>1, <2>2, SwapShrunk DEF DraftAccepted
<1>4. CASE DraftRejected(t)
  <2>1. work[t].finding \in Findings
    BY <1>1, <1>4, WorkFields DEF DraftRejected
  <2>2. /\ Row(work[t].finding, NoPR, "rejected") \in Rows
        /\ Row(work[t].finding, NoPR, "rejected").status # "open"
    BY <2>1, RowType DEF NoPR, ProposalStatus
  <2>3. Shrunk(proposals')
    BY <1>4, <2>2, SameShrunk, StoreShrunk DEF DraftRejected, Store
  <2> QED BY <1>4, <2>3, WorkType, SwapShrunk DEF DraftRejected
<1>5. CASE PROpens(t)
  <2>1. Len(prs) \in Nat /\ Len(prs) + 1 \in 1..MaxPRs
    BY <1>5 DEF PROpens
  <2>2. Opened(work[t].finding, Len(prs) + 1) \in Work
    BY <1>1, <1>5, <2>1, WorkFields, WorkType DEF PROpens
  <2>3. prs' \in Seq(PRState) /\ Len(prs') <= MaxPRs
    BY <1>5, <2>1 DEF PROpens, PRState
  <2>4. Shrunk(proposals')
    BY <1>5, SameShrunk DEF PROpens
  <2> QED BY <1>5, <2>2, <2>3, <2>4, SwapShrunk DEF PROpens
<1>6. CASE OpenRecorded(t)
  <2>1. work[t].finding \in Findings /\ work[t].pr \in 1..MaxPRs
    BY <1>1, <1>6, WorkFields DEF OpenRecorded
  <2>2. Row(work[t].finding, work[t].pr, "open") \in Rows
    BY <2>1, RowType DEF ProposalStatus
  <2>3. proposals' \in Seq(Rows) /\ Len(proposals') <= MaxProposals
    BY <1>6, <2>2 DEF OpenRecorded, Store
  <2> QED BY <1>6, <2>3, WorkType DEF OpenRecorded, Become
<1>7. CASE GiveUp(t)
  BY <1>7, SameShrunk, WorkType, SwapShrunk DEF GiveUp
<1> QED BY <1>2, <1>3, <1>4, <1>5, <1>6, <1>7 DEF Opening

LEMMA CancelShrunk ==
    ASSUME TypeOK, NEW c \in Calls, CancelBegins(c) \/ CancelEnds(c)
    PROVE  /\ Shrunk(proposals')
           /\ \/ \E i \in DOMAIN proposals : Become(c, Closing(i))
              \/ work' = work
              \/ Become(c, Idle)
<1>1. \A i : Shrunk(WithStatus(i, "cancelled"))
  BY StatusShrunk DEF ProposalStatus
<1> QED BY <1>1, SameShrunk DEF CancelBegins, CancelEnds

LEMMA CallType ==
    ASSUME TypeOK, NEW c \in Calls, Call(c)
    PROVE  TypeOK'
<1> USE DEF TypeOK
<1>0. c \in Tasks /\ work = [work EXCEPT ![c] = work[c]]
  BY HookIsTask
<1>1. CASE CallCreates(c)
  <2>1. PICK f \in Findings : OpenProposal(c, f)
    BY <1>1 DEF CallCreates
  <2>2. OpenFor(f) \subseteq RowIds
    BY OpenRowsType DEF OpenFor
  <2> QED BY <1>0, <1>1, <2>1, <2>2, OpenProposalShrunk, WorkType, SwapShrunk
          DEF CallCreates
<1>2. CASE CancelBegins(c)
  <2>1. DOMAIN proposals \subseteq RowIds
    BY DEF RowIds
  <2>2. CASE \E i \in DOMAIN proposals : Become(c, Closing(i))
    BY <1>0, <1>2, <2>1, <2>2, CancelShrunk, WorkType, SwapShrunk DEF CancelBegins
  <2>3. CASE work' = work
    BY <1>2, <2>3, CancelShrunk, ShrunkType DEF CancelBegins
  <2>4. CASE Become(c, Idle)
    BY <1>0, <1>2, <2>4, CancelShrunk, WorkType, SwapShrunk DEF CancelBegins
  <2> QED BY <1>2, <2>2, <2>3, <2>4, CancelShrunk
<1>3. CASE CancelEnds(c)
  <2>1. prs' \in Seq(PRState) /\ Len(prs') <= MaxPRs
    BY <1>3 DEF CancelEnds, PRState
  <2>2. Become(c, Idle) /\ Shrunk(proposals')
    BY <1>3, CancelShrunk DEF CancelEnds
  <2> QED BY <1>0, <1>3, <2>1, <2>2, WorkType, SwapShrunk DEF CancelEnds
<1>4. CASE CallSweeps(c)
  BY <1>0, <1>4, SameShrunk, OpenRowsType, WorkType, SwapShrunk DEF CallSweeps
<1> QED BY <1>1, <1>2, <1>3, <1>4 DEF Call
LEMMA SweepShrunk ==
    ASSUME TypeOK, NEW t \in Tasks, Sweep(t)
    PROVE  /\ Shrunk(proposals')
           /\ \/ \E rows \in SUBSET RowIds : Become(t, Sweeping(rows))
              \/ Become(t, Idle)
<1>1. CASE SweepVerifies(t)
  <2>1. PICK i : /\ proposals' = WithStatus(i, "verified")
                 /\ Become(t, Sweeping({j \in work[t].rows : j < i}))
    BY <1>1 DEF SweepVerifies
  <2>2. work[t].rows \in SUBSET RowIds
    BY <1>1, WorkFields DEF TypeOK, SweepVerifies
  <2>3. {j \in work[t].rows : j < i} \in SUBSET RowIds
    BY <2>2
  <2>4. Shrunk(proposals')
    BY <2>1, StatusShrunk DEF ProposalStatus
  <2> QED BY <2>1, <2>3, <2>4
<1>2. CASE SweepEnds(t)
  BY <1>2, SameShrunk DEF SweepEnds
<1> QED BY <1>1, <1>2 DEF Sweep

LEMMA SweepType == ASSUME TypeOK, NEW t \in Tasks, Sweep(t) PROVE TypeOK'
<1> USE DEF TypeOK
<1>1. Shrunk(proposals') /\ \E w \in Work : Become(t, w)
  BY SweepShrunk, WorkType
<1>2. todo' \subseteq MayCreate[Hook] /\ UNCHANGED <<service, news, prs>>
  BY DEF Sweep, SweepVerifies, SweepEnds
<1> QED BY <1>1, <1>2, SwapShrunk

LEMMA SyncShrunk ==
    ASSUME TypeOK, NEW i \in RowIds, SyncRetires(i) \/ SyncLeaves(i)
    PROVE  /\ Shrunk(proposals') /\ UNCHANGED <<service, news, prs, todo>>
           /\ \E rows \in SUBSET RowIds : Become(Hook, Syncing(rows))
<1>1. SyncsNext(i) /\ (proposals' = Retired(i) \/ UNCHANGED proposals)
  BY DEF SyncRetires, SyncLeaves
<1>2. work[Hook].rows \in SUBSET RowIds
  BY <1>1, HookIsTask, WorkFields DEF TypeOK, SyncsNext
<1>3. work[Hook].rows \ {i} \in SUBSET RowIds
  BY <1>2
<1> QED BY <1>1, <1>3, SameShrunk, RetiredShrunk DEF SyncsNext

LEMMA AfterDiscoveryType == ASSUME TypeOK, AfterDiscovery PROVE TypeOK'
<1> USE DEF TypeOK
<1>1. CASE HookStarts
  BY <1>1, HookIsTask, SameShrunk, OpenRowsType, WorkType, SwapShrunk DEF HookStarts
<1>2. CASE SyncEnds
  BY <1>2, HookIsTask, SameShrunk, OpenRowsType, WorkType, SwapShrunk DEF SyncEnds
<1>3. CASE AutoEnds
  BY <1>3 DEF AutoEnds
<1>4. CASE \E i \in RowIds : SyncRetires(i) \/ SyncLeaves(i)
  BY <1>4, HookIsTask, SyncShrunk, WorkType, SwapShrunk
<1>5. CASE \E f \in Findings : AutoCreates(f)
  <2>1. PICK f \in Findings : AutoCreates(f)
    BY <1>5
  <2>2. OpenFor(f) \subseteq RowIds
    BY OpenRowsType DEF OpenFor
  <2>3. Shrunk(proposals') /\ \E w \in Work : Become(Hook, w)
    BY <2>1, <2>2, HookIsTask, OpenProposalShrunk, WorkType DEF AutoCreates
  <2>4. todo' \subseteq MayCreate[Hook] /\ UNCHANGED <<service, news, prs>>
    BY <2>1 DEF AutoCreates
  <2> QED BY <2>3, <2>4, HookIsTask, SwapShrunk
<1> QED BY <1>1, <1>2, <1>3, <1>4, <1>5 DEF AfterDiscovery

LEMMA EnvironmentType ==
    ASSUME TypeOK, Environment
    PROVE  TypeOK' /\ UNCHANGED <<work, proposals>>
<1> USE DEF TypeOK
<1>1. CASE \E f \in Findings :
              ServiceChanges(f) \/ ServiceDeleted(f) \/ NewsArrives(f)
  BY <1>1 DEF ServiceChanges, ServiceDeleted, NewsArrives, ServiceState
<1>2. CASE \E n \in 1..MaxPRs : HumanDecides(n)
  BY <1>2 DEF HumanDecides, PRState
<1> QED BY <1>1, <1>2 DEF Environment

LEMMA NextType == TypeOK /\ [Next]_vars => TypeOK'
<1> SUFFICES ASSUME TypeOK, [Next]_vars PROVE TypeOK'
  OBVIOUS
<1>1. ASSUME NEW t \in Tasks, Abort(t) PROVE TypeOK'
  <2>1. todo' \subseteq MayCreate[Hook]
    BY <1>1 DEF Abort, TypeOK
  <2> QED BY <1>1, <2>1, SameShrunk, WorkType, SwapShrunk DEF Abort, TypeOK
<1>2. CASE Restart
  BY <1>2, WorkType DEF Restart, TypeOK
<1>3. CASE UNCHANGED vars
  BY <1>3 DEF vars, TypeOK
<1> QED BY <1>1, <1>2, <1>3, AfterDiscoveryType, CallType, OpeningType, SweepType,
           EnvironmentType DEF Next

LEMMA InitIInv == Init => IInv
BY WorkType DEF Init, IInv, TypeOK, ServiceState, Sound, OneOpenIn, Idle

(* The registry, the rows, the pull requests, the tasks' waits and the      *)
(* hook's list keep their types (proposal/engine.py, proposal/store.py).    *)
THEOREM TypeCorrect == Spec => []TypeOK
<1>1. Init => TypeOK
  BY InitIInv DEF IInv
<1> QED BY <1>1, NextType, PTL DEF Spec
-----------------------------------------------------------------------------
(* One open proposal per finding                                           *)

(* A task that waits for nothing to do with a finding counts on nothing.    *)
LEMMA SoundAnyway ==
    ASSUME NEW t, NEW rows
    PROVE  /\ Sound(t, Idle, rows)
           /\ \A i : Sound(t, Closing(i), rows)
           /\ \A s : Sound(t, Syncing(s), rows) /\ Sound(t, Sweeping(s), rows)
BY DEF Sound, Idle, Closing, Syncing, Sweeping

(* A task that moves on while no row is opened leaves the others' count     *)
(* alone.                                                                   *)
LEMMA TaskMoves ==
    ASSUME IInv, TypeOK', Shrunk(proposals'),
           NEW t \in Tasks, NEW w, Become(t, w), Sound(t, w, proposals')
    PROVE  IInv'
<1>1. OneOpenIn(proposals')
  BY ShrunkKeepsOneOpen DEF IInv
<1>2. ASSUME NEW u \in Tasks PROVE Sound(u, work'[u], proposals')
  <2>1. work'[u] = IF u = t THEN w ELSE work[u]
    BY DEF Become, IInv, TypeOK
  <2>2. Sound(u, work[u], proposals')
    BY ShrunkKeepsSound DEF IInv
  <2> QED BY <2>1, <2>2
<1> QED BY <1>1, <1>2 DEF IInv

LEMMA NobodyMoves ==
    ASSUME IInv, TypeOK', Shrunk(proposals'), work' = work
    PROVE  IInv'
BY ShrunkKeepsOneOpen, ShrunkKeepsSound DEF IInv

(* Looking for an open proposal tells what the task may count on.           *)
LEMMA OpenProposalKeeps ==
    ASSUME IInv, TypeOK', NEW t \in Tasks, NEW f \in Findings, OpenProposal(t, f)
    PROVE  IInv'
<1>1. Shrunk(proposals') /\ f \in MayCreate[t]
  BY OpenProposalShrunk DEF IInv
<1>2. CASE Become(t, Drafting(f)) /\ OpenFor(f) = {} /\ proposals' = proposals
  <2>1. NoOpenIn(proposals, f)
    BY <1>2 DEF NoOpenIn, OpenFor, OpenRows, IInv, TypeOK
  <2>2. Sound(t, Drafting(f), proposals')
    BY <1>1, <1>2, <2>1 DEF Sound, Drafting
  <2> QED BY <1>1, <1>2, <2>2, TaskMoves
<1>3. CASE \E i \in OpenFor(f) : Become(t, Asking(i, f)) /\ proposals' = proposals
  <2>1. PICK i \in OpenFor(f) : Become(t, Asking(i, f)) /\ proposals' = proposals
    BY <1>3
  <2>2. \A j \in 1..Len(proposals) :
           proposals[j].status = "open" /\ proposals[j].finding = f => j = i
    BY DEF OneOpenIn, OpenFor, OpenRows, IInv, TypeOK
  <2>3. Sound(t, Asking(i, f), proposals')
    BY <1>1, <2>1, <2>2 DEF Sound, Asking
  <2> QED BY <1>1, <2>1, <2>3, TaskMoves
<1>4. CASE Become(t, Idle)
  BY <1>1, <1>4, SoundAnyway, TaskMoves
<1> QED BY <1>2, <1>3, <1>4, OpenProposalShrunk DEF IInv

(* The new open row is the only one for its finding, and no other task      *)
(* counts on there being none.                                              *)
LEMMA OpenRecordedKeeps ==
    ASSUME OneCreator, IInv, TypeOK', NEW t \in Tasks, OpenRecorded(t)
    PROVE  IInv'
<1> DEFINE f == work[t].finding
           new == Row(f, work[t].pr, "open")
<1>1. work[t] \in Work /\ work[t].on = "opened" /\ Sound(t, work[t], proposals)
  BY DEF IInv, TypeOK, OpenRecorded
<1>2. f \in MayCreate[t] /\ NoOpenIn(proposals, f)
  BY <1>1 DEF Sound
<1>3. new.finding = f /\ new \in Rows
  <2>1. f \in Findings /\ work[t].pr \in 0..MaxPRs
    BY <1>1, WorkFields
  <2> QED BY <2>1, RowType DEF ProposalStatus
<1>4. proposals' = Append(proposals, new) /\ proposals \in Seq(Rows)
  BY DEF OpenRecorded, Store, IInv, TypeOK
<1> HIDE DEF new, f
<1>5. /\ Len(proposals') = Len(proposals) + 1
      /\ proposals'[Len(proposals) + 1] = new
      /\ \A j \in 1..Len(proposals) : proposals'[j] = proposals[j]
      /\ Len(proposals) \in Nat
  BY <1>3, <1>4
<1>6. OneOpenIn(proposals')
  BY <1>2, <1>3, <1>5 DEF OneOpenIn, NoOpenIn, IInv
<1>7. ASSUME NEW u \in Tasks PROVE Sound(u, work'[u], proposals')
  <2>1. work'[u] = IF u = t THEN Idle ELSE work[u]
    BY DEF OpenRecorded, Become, IInv, TypeOK
  <2>2. CASE u = t
    BY <2>1, <2>2, SoundAnyway
  <2>3. CASE u # t
    <3>1. Sound(u, work[u], proposals) /\ f \notin MayCreate[u]
      BY <1>2, <2>3 DEF IInv, OneCreator
    <3>2. Sound(u, work[u], proposals')
      BY <1>3, <1>5, <3>1 DEF Sound, NoOpenIn
    <3> QED BY <2>1, <2>3, <3>2
  <2> QED BY <2>2, <2>3
<1> QED BY <1>6, <1>7 DEF IInv

LEMMA OpeningKeeps ==
    ASSUME OneCreator, IInv, TypeOK', NEW t \in Tasks, Opening(t)
    PROVE  IInv'
<1>0. TypeOK /\ work[t] \in Work /\ Sound(t, work[t], proposals)
  BY DEF IInv, TypeOK
<1>1. CASE DedupeAnswered(t)
  <2>1. Shrunk(proposals')
    BY <1>0, <1>1, DedupeShrunk
  <2>2. CASE /\ Become(t, Drafting(work[t].finding))
             /\ proposals' = Retired(work[t].row)
    <3> DEFINE f == work[t].finding
               i == work[t].row
               s == IF PRStateOf(i) = "closed" THEN "cancelled" ELSE "merged"
    <3>1. /\ f \in MayCreate[t]
          /\ \A j \in 1..Len(proposals) :
                proposals[j].status = "open" /\ proposals[j].finding = f => j = i
      BY <1>0, <1>1 DEF Sound, DedupeAnswered
    <3>2. proposals' = WithStatus(i, s) /\ s \in ProposalStatus \ {"open"}
      BY <2>2 DEF Retired, ProposalStatus
    <3>3. /\ Len(proposals') = Len(proposals)
          /\ i \in 1..Len(proposals) => proposals'[i].status # "open"
      <4> HIDE DEF s, i
      <4> QED BY <1>0, <3>2, StatusShrunk
    <3>4. NoOpenIn(proposals', f)
      BY <2>1, <3>1, <3>3 DEF NoOpenIn, Shrunk
    <3>5. Sound(t, Drafting(f), proposals')
      BY <3>1, <3>4 DEF Sound, Drafting
    <3> QED BY <2>1, <2>2, <3>5, TaskMoves
  <2>3. CASE Become(t, Idle)
    BY <2>1, <2>3, SoundAnyway, TaskMoves
  <2> QED BY <1>0, <1>1, <2>2, <2>3, DedupeShrunk
<1>2. CASE DraftAccepted(t)
  <2>1. Sound(t, Pushing(work[t].finding), proposals)
    BY <1>0, <1>2 DEF Sound, DraftAccepted, Pushing
  <2> QED BY <1>0, <1>2, <2>1, SameShrunk, TaskMoves DEF DraftAccepted
<1>3. CASE DraftRejected(t)
  <2>1. work[t].finding \in Findings
    BY <1>0, <1>3, WorkFields DEF DraftRejected
  <2>2. /\ Row(work[t].finding, NoPR, "rejected") \in Rows
        /\ Row(work[t].finding, NoPR, "rejected").status # "open"
    BY <2>1, RowType DEF NoPR, ProposalStatus
  <2>3. Shrunk(proposals')
    BY <1>0, <1>3, <2>2, SameShrunk, StoreShrunk DEF DraftRejected, Store
  <2> QED BY <1>3, <2>3, SoundAnyway, TaskMoves DEF DraftRejected
<1>4. CASE PROpens(t)
  <2>1. Sound(t, Opened(work[t].finding, Len(prs) + 1), proposals)
    BY <1>0, <1>4 DEF Sound, PROpens, Opened
  <2> QED BY <1>0, <1>4, <2>1, SameShrunk, TaskMoves DEF PROpens
<1>5. CASE OpenRecorded(t)
  BY <1>5, OpenRecordedKeeps
<1>6. CASE GiveUp(t)
  BY <1>0, <1>6, SameShrunk, SoundAnyway, TaskMoves DEF GiveUp
<1> QED BY <1>1, <1>2, <1>3, <1>4, <1>5, <1>6 DEF Opening

LEMMA CallKeeps ==
    ASSUME IInv, TypeOK', NEW c \in Calls, Call(c)
    PROVE  IInv'
<1>0. TypeOK /\ c \in Tasks
  BY HookIsTask DEF IInv
<1>1. CASE CallCreates(c)
  BY <1>0, <1>1, OpenProposalKeeps DEF CallCreates
<1>2. CASE CancelBegins(c) \/ CancelEnds(c)
  BY <1>0, <1>2, CancelShrunk, SoundAnyway, TaskMoves, NobodyMoves
<1>3. CASE CallSweeps(c)
  BY <1>0, <1>3, SameShrunk, SoundAnyway, TaskMoves DEF CallSweeps
<1> QED BY <1>1, <1>2, <1>3 DEF Call

LEMMA AfterDiscoveryKeeps == ASSUME IInv, TypeOK', AfterDiscovery PROVE IInv'
<1>0. TypeOK /\ Hook \in Tasks
  BY HookIsTask DEF IInv
<1>1. CASE HookStarts \/ SyncEnds
  BY <1>0, <1>1, SameShrunk, SoundAnyway, TaskMoves DEF HookStarts, SyncEnds
<1>2. CASE AutoEnds
  BY <1>0, <1>2, SameShrunk, NobodyMoves DEF AutoEnds
<1>3. CASE \E i \in RowIds : SyncRetires(i) \/ SyncLeaves(i)
  BY <1>0, <1>3, SyncShrunk, SoundAnyway, TaskMoves
<1>4. CASE \E f \in Findings : AutoCreates(f)
  BY <1>0, <1>4, OpenProposalKeeps DEF AutoCreates
<1> QED BY <1>1, <1>2, <1>3, <1>4 DEF AfterDiscovery

LEMMA NextIInv == OneCreator /\ IInv /\ [Next]_vars => IInv'
<1> SUFFICES ASSUME OneCreator, IInv, [Next]_vars PROVE IInv'
  OBVIOUS
<1>0. TypeOK /\ TypeOK'
  BY NextType DEF IInv
<1>1. ASSUME NEW t \in Tasks, Sweep(t) PROVE IInv'
  BY <1>0, <1>1, SweepShrunk, SoundAnyway, TaskMoves
<1>2. ASSUME NEW t \in Tasks, Abort(t) PROVE IInv'
  BY <1>0, <1>2, SameShrunk, SoundAnyway, TaskMoves DEF Abort
<1>3. CASE Restart
  BY <1>0, <1>3, SoundAnyway DEF Restart, IInv
<1>4. CASE Environment
  BY <1>0, <1>4, EnvironmentType, SameShrunk, NobodyMoves
<1>5. CASE UNCHANGED vars
  BY <1>0, <1>5, SameShrunk, NobodyMoves DEF vars
<1> QED BY <1>0, <1>1, <1>2, <1>3, <1>4, <1>5, OpeningKeeps, CallKeeps,
           AfterDiscoveryKeeps DEF Next

(* A finding that one task at a time is asked to remedy never has two open  *)
(* proposals, whatever the hook, the calls, the host and the operator do    *)
(* between the task's waits (engine.py _open_proposal: the look for an open *)
(* proposal, the draft, the pull request, and only then the row).           *)
THEOREM NoDuplicates == OneCreator => (Spec => []OneOpenProposalPerFinding)
<1>1. IInv => OneOpenProposalPerFinding
  BY DEF IInv, OneOpenIn, OneOpenProposalPerFinding, OpenRows, TypeOK
<1>2. OneCreator /\ IInv /\ [Next]_vars => IInv'
  BY NextIInv
<1>3. OneCreator => (Spec => []IInv)
  <2>1. SUFFICES ASSUME OneCreator PROVE Spec => []IInv
    OBVIOUS
  <2>2. IInv /\ [Next]_vars => IInv'
    BY <1>2, <2>1
  <2> QED BY <2>2, InitIInv, PTL DEF Spec
<1> QED BY <1>1, <1>3, PTL
-----------------------------------------------------------------------------
(* What a step does to the table, and to the host's pull requests           *)

TableSteps ==
    \/ UNCHANGED proposals
    \/ \E i \in DOMAIN proposals :                  \* cancelled without a pull request
          proposals[i].pr = NoPR /\ proposals' = WithStatus(i, "cancelled")
    \/ \E c \in Calls : /\ work[c] = Closing(work[c].row) /\ work'[c] = Idle
                        /\ proposals' = WithStatus(work[c].row, "cancelled")
    \/ \E t \in Tasks : \E i \in SweepHits(work[t].rows) : proposals' = WithStatus(i, "verified")
    \/ \E i \in RowIds : /\ work[Hook].on = "sync" /\ i \in work[Hook].rows
                         /\ Finished(i) /\ proposals' = Retired(i)
    \/ \E t \in Tasks : /\ work[t].on = "dedupe" /\ Finished(work[t].row)
                        /\ Proceed(t, work[t].finding, Retired(work[t].row))
    \/ \E f \in Findings \ AuthConflicts : Store(proposals, Row(f, NoPR, "rejected"))
    \/ \E t \in Tasks : DraftRejected(t)
    \/ \E t \in Tasks : OpenRecorded(t)

LEMMA TheTableSteps == ASSUME TypeOK, [Next]_vars PROVE TableSteps
<1>0. Hook \in Tasks /\ Calls \subseteq Tasks
  BY HookIsTask
<1>1. ASSUME NEW t \in Tasks, NEW f \in Findings, OpenProposal(t, f) PROVE TableSteps
  BY <1>1 DEF OpenProposal, Proceed, TableSteps
<1>2. ASSUME NEW c \in Calls, Call(c) PROVE TableSteps
  <2>1. CASE CallCreates(c)
    BY <1>0, <1>1, <2>1 DEF CallCreates
  <2>2. CASE CancelBegins(c)
    BY <2>2 DEF CancelBegins, TableSteps
  <2>3. CASE CancelEnds(c)
    <3>1. work[c] \in Work /\ work[c].on = "close"
      BY <1>0, <2>3 DEF TypeOK, CancelEnds
    <3>2. work[c] = Closing(work[c].row)
      BY <3>1 DEF Work, Idle, Closing
    <3>3. work'[c] = Idle /\ proposals' = WithStatus(work[c].row, "cancelled")
      BY <1>0, <2>3 DEF CancelEnds, Become, TypeOK
    <3> QED BY <3>2, <3>3 DEF TableSteps
  <2>4. CASE CallSweeps(c)
    BY <2>4 DEF CallSweeps, TableSteps
  <2> QED BY <1>2, <2>1, <2>2, <2>3, <2>4 DEF Call
<1>3. ASSUME NEW t \in Tasks, Opening(t) PROVE TableSteps
  BY <1>3 DEF Opening, DedupeAnswered, DraftAccepted, PROpens, GiveUp, TableSteps
<1>4. ASSUME NEW t \in Tasks, Sweep(t) \/ Abort(t) PROVE TableSteps
  BY <1>4 DEF Sweep, SweepVerifies, SweepEnds, Abort, TableSteps
<1>5. ASSUME AfterDiscovery PROVE TableSteps
  <2>1. CASE HookStarts \/ SyncEnds \/ AutoEnds
    BY <2>1 DEF HookStarts, SyncEnds, AutoEnds, TableSteps
  <2>2. CASE \E i \in RowIds : SyncRetires(i) \/ SyncLeaves(i)
    BY <2>2 DEF SyncRetires, SyncLeaves, SyncsNext, TableSteps
  <2>3. CASE \E f \in Findings : AutoCreates(f)
    BY <1>0, <1>1, <2>3 DEF AutoCreates
  <2> QED BY <1>5, <2>1, <2>2, <2>3 DEF AfterDiscovery
<1>6. ASSUME Restart \/ Environment \/ UNCHANGED vars PROVE TableSteps
  BY <1>6, EnvironmentType DEF Restart, vars, TableSteps
<1> QED BY <1>2, <1>3, <1>4, <1>5, <1>6 DEF Next

(* What the host has decided stays decided.                                 *)
HostKeeps ==
    /\ Len(prs) <= Len(prs')
    /\ \A n \in 1..Len(prs) : prs[n] # "open" => prs'[n] = prs[n]

LEMMA HostSteps == ASSUME TypeOK, [Next]_vars PROVE HostKeeps
<1>0. prs \in Seq(PRState) /\ Len(prs) \in Nat
  BY DEF TypeOK
<1>1. ASSUME UNCHANGED prs PROVE HostKeeps
  BY <1>0, <1>1 DEF HostKeeps
<1>2. ASSUME NEW n \in 1..Len(prs), NEW s \in PRState, prs[n] = "open", prs' = [prs EXCEPT ![n] = s]
      PROVE  HostKeeps
  <2>1. Len(prs') = Len(prs) /\ \A m \in 1..Len(prs) : m # n => prs'[m] = prs[m]
    BY <1>0, <1>2
  <2> QED BY <1>0, <1>2, <2>1 DEF HostKeeps
<1>3. ASSUME NEW t \in Tasks, PROpens(t) PROVE HostKeeps
  <2>1. /\ "open" \in PRState /\ Len(prs') = Len(prs) + 1
        /\ \A n \in 1..Len(prs) : prs'[n] = prs[n]
    BY <1>0, <1>3 DEF PROpens, PRState
  <2> QED BY <1>0, <2>1 DEF HostKeeps
<1>4. ASSUME NEW t \in Tasks, Opening(t) \/ Sweep(t) \/ Abort(t) PROVE HostKeeps
  BY <1>1, <1>3, <1>4 DEF Opening, DedupeAnswered, DraftAccepted, DraftRejected, OpenRecorded,
        GiveUp, Sweep, SweepVerifies, SweepEnds, Abort
<1>5. ASSUME NEW c \in Calls, Call(c) PROVE HostKeeps
  <2>1. CASE CancelEnds(c)
    <3>1. CASE UNCHANGED prs
      BY <1>1, <3>1
    <3>2. CASE ~ UNCHANGED prs
      <4>1. PICK n : n = proposals[work[c].row].pr /\ prs[n] = "open" /\ prs' = [prs EXCEPT ![n] = "closed"]
        BY <2>1, <3>2 DEF CancelEnds
      <4>2. n \in DOMAIN prs
        BY <1>0, <3>2, <4>1
      <4>3. n \in 1..Len(prs) /\ "closed" \in PRState
        BY <1>0, <4>2 DEF PRState
      <4> QED BY <1>2, <4>1, <4>3
    <3> QED BY <3>1, <3>2
  <2> QED BY <1>1, <1>5, <2>1 DEF Call, CallCreates, CancelBegins, CallSweeps
<1>6. ASSUME AfterDiscovery \/ Restart \/ UNCHANGED vars PROVE HostKeeps
  BY <1>1, <1>6 DEF AfterDiscovery, HookStarts, SyncEnds, AutoEnds, SyncRetires, SyncLeaves,
        SyncsNext, AutoCreates, Restart, vars
<1>7. ASSUME Environment PROVE HostKeeps
  <2>1. CASE \E f \in Findings : ServiceChanges(f) \/ ServiceDeleted(f) \/ NewsArrives(f)
    BY <1>1, <2>1 DEF ServiceChanges, ServiceDeleted, NewsArrives
  <2>2. ASSUME NEW n \in 1..MaxPRs, HumanDecides(n) PROVE HostKeeps
    <3>1. PICK s \in {"merged", "closed"} : prs' = [prs EXCEPT ![n] = s]
      BY <2>2 DEF HumanDecides
    <3>2. n \in 1..Len(prs) /\ prs[n] = "open" /\ s \in PRState
      BY <1>0, <2>2 DEF HumanDecides, PRState
    <3> QED BY <1>2, <3>1, <3>2
  <2> QED BY <1>7, <2>1, <2>2 DEF Environment
<1> QED BY <1>4, <1>5, <1>6, <1>7 DEF Next

-----------------------------------------------------------------------------
(* Rows, pull requests, and what a task remembers of them                   *)

(* A row's status tells of its pull request what the host cannot take back. *)
FitsHost(rows, hosts) == \A i \in 1..Len(rows) :
    /\ rows[i].pr \in 0..Len(hosts)
    /\ rows[i].status = "open" => rows[i].pr # NoPR
    /\ rows[i].status = "rejected" => rows[i].pr = NoPR
    /\ rows[i].status = "merged" => rows[i].pr # NoPR /\ hosts[rows[i].pr] = "merged"
TableInv == FitsHost(proposals, prs)

HasPR(rows, i) == i \in 1..Len(rows) /\ rows[i].pr # NoPR

(* The pull request was opened, the rows asked about have one.              *)
Remembered(w, rows, hosts) ==
    /\ w.on = "opened" => w.pr <= Len(hosts)
    /\ w.on = "dedupe" => HasPR(rows, w.row)
    /\ w.on = "sync"   => \A i \in w.rows : HasPR(rows, i)
WaitInv == \A t \in Tasks : Remembered(work[t], proposals, prs)

(* A row keeps its place, its finding and its pull request.                 *)
Extends(rows, old) ==
    /\ rows \in Seq(Rows) /\ Len(old) <= Len(rows)
    /\ \A i \in 1..Len(old) : rows[i].finding = old[i].finding /\ rows[i].pr = old[i].pr

LEMMA Statuses ==
    ASSUME TypeOK, NEW i, NEW s \in ProposalStatus \ {"open"}
    PROVE  /\ Len(WithStatus(i, s)) = Len(proposals) /\ Extends(WithStatus(i, s), proposals)
           /\ \A j \in 1..Len(proposals) :
                 WithStatus(i, s)[j].status = IF j = i THEN s ELSE proposals[j].status
<1>1. Shrunk(WithStatus(i, s)) /\ Len(WithStatus(i, s)) = Len(proposals)
  BY StatusShrunk
<1>2. proposals \in Seq(Rows) /\ DOMAIN proposals = 1..Len(proposals) /\ Len(proposals) \in Nat
  BY DEF TypeOK
<1>3. \A j \in 1..Len(proposals) :
         /\ WithStatus(i, s)[j].pr = proposals[j].pr
         /\ WithStatus(i, s)[j].status = IF j = i THEN s ELSE proposals[j].status
  <2> SUFFICES ASSUME NEW j \in 1..Len(proposals)
               PROVE  /\ WithStatus(i, s)[j].pr = proposals[j].pr
                      /\ WithStatus(i, s)[j].status = IF j = i THEN s ELSE proposals[j].status
    OBVIOUS
  <2>1. WithStatus(i, s)[j] = IF j = i THEN Row(proposals[j].finding, proposals[j].pr, s)
                                       ELSE proposals[j]
    BY <1>2 DEF WithStatus
  <2> QED BY <2>1 DEF Row
<1> QED BY <1>1, <1>2, <1>3 DEF Shrunk, Extends

(* A new row goes last.                                                     *)
LEMMA Stores ==
    ASSUME NEW rows \in Seq(Rows), NEW row \in Rows
    PROVE  /\ Extends(Append(rows, row), rows) /\ Len(Append(rows, row)) = Len(rows) + 1
           /\ Len(rows) \in Nat /\ Append(rows, row)[Len(rows) + 1] = row
           /\ \A i \in 1..Len(rows) : Append(rows, row)[i] = rows[i]
BY DEF Extends

(* Only a finished pull request retires a row.                              *)
LEMMA RetiredFits ==
    ASSUME TypeOK, TableInv, NEW i, HasPR(proposals, i), Finished(i)
    PROVE  /\ FitsHost(Retired(i), prs) /\ Extends(Retired(i), proposals)
           /\ Len(Retired(i)) = Len(proposals)
           /\ \A j \in 1..Len(proposals) : j # i => Retired(i)[j].status = proposals[j].status
           /\ Retired(i)[i].status \in {"cancelled", "merged"}
<1>1. PICK s \in {"cancelled", "merged"} : /\ Retired(i) = WithStatus(i, s)
                                           /\ s = "merged" => prs[proposals[i].pr] = "merged"
  BY DEF Retired, Finished, PRStateOf
<1>2. s \in ProposalStatus \ {"open"}
  BY DEF ProposalStatus
<1>3. /\ Len(Retired(i)) = Len(proposals) /\ Extends(Retired(i), proposals)
      /\ \A j \in 1..Len(proposals) :
            Retired(i)[j].status = IF j = i THEN s ELSE proposals[j].status
  BY <1>1, <1>2, Statuses
<1> QED BY <1>1, <1>3 DEF FitsHost, TableInv, Extends, HasPR

LEMMA RowIs ==
    ASSUME NEW f \in Findings, NEW n \in 0..MaxPRs, NEW s \in ProposalStatus
    PROVE  \E row \in Rows : /\ row = Row(f, n, s)
                             /\ row.finding = f /\ row.pr = n /\ row.status = s
<1>1. Row(f, n, s).finding = f /\ Row(f, n, s).pr = n /\ Row(f, n, s).status = s
  BY DEF Row
<1> QED BY <1>1, RowType

LEMMA StoreFits ==
    ASSUME TypeOK, NEW rows \in Seq(Rows), FitsHost(rows, prs), NEW f \in Findings
    PROVE  /\ FitsHost(Append(rows, Row(f, NoPR, "rejected")), prs)
           /\ Extends(Append(rows, Row(f, NoPR, "rejected")), rows)
<1>1. PICK row \in Rows : row = Row(f, NoPR, "rejected") /\ row.pr = NoPR /\ row.status = "rejected"
  <2>1. NoPR \in 0..MaxPRs /\ "rejected" \in ProposalStatus
    BY DEF NoPR, ProposalStatus
  <2> QED BY <2>1, RowIs
<1>2. FitsHost(Append(rows, row), prs)
  <2>1. \A i \in 1..Len(Append(rows, row)) : i \in 1..Len(rows) \/ i = Len(rows) + 1
    BY Stores
  <2>2. 0 \in 0..Len(prs)
    BY DEF TypeOK
  <2> QED BY <1>1, <2>1, <2>2, Stores DEF FitsHost, NoPR
<1> QED BY <1>1, <1>2, Stores

LEMMA NextTable ==
    ASSUME TypeOK, TableInv, WaitInv, [Next]_vars
    PROVE  TableInv' /\ Extends(proposals', proposals)
<1>0. /\ proposals \in Seq(Rows) /\ Len(proposals) \in Nat /\ Hook \in Tasks
      /\ DOMAIN proposals = 1..Len(proposals) /\ Extends(proposals, proposals)
      /\ Len(prs) \in Nat /\ Len(prs') \in Nat
  BY HookIsTask, NextType DEF TypeOK, Extends
<1>1. ASSUME NEW i, NEW s \in {"cancelled", "verified"}, proposals' = WithStatus(i, s)
      PROVE  FitsHost(proposals', prs) /\ Extends(proposals', proposals)
  <2>1. s \in ProposalStatus \ {"open"}
    BY DEF ProposalStatus
  <2> QED BY <1>1, <2>1, Statuses DEF TableInv, FitsHost, Extends
<1>2. ASSUME NEW f \in Findings, NEW rows \in Seq(Rows), FitsHost(rows, prs),
             Extends(rows, proposals), Store(rows, Row(f, NoPR, "rejected"))
      PROVE  FitsHost(proposals', prs) /\ Extends(proposals', proposals)
  <2>1. /\ FitsHost(proposals', prs) /\ Extends(proposals', rows)
    BY <1>2, StoreFits DEF Store
  <2>2. Len(rows) \in Nat /\ Len(proposals') \in Nat
    BY <2>1 DEF Extends
  <2> QED BY <1>0, <1>2, <2>1, <2>2 DEF Extends
<1>3. ASSUME NEW t \in Tasks, work[t].on = "dedupe", Finished(work[t].row),
             Proceed(t, work[t].finding, Retired(work[t].row))
      PROVE  FitsHost(proposals', prs) /\ Extends(proposals', proposals)
  <2>1. HasPR(proposals, work[t].row) /\ work[t].finding \in Findings
    BY <1>3, WorkFields DEF WaitInv, Remembered, TypeOK
  <2>2. /\ FitsHost(Retired(work[t].row), prs) /\ Extends(Retired(work[t].row), proposals)
        /\ Retired(work[t].row) \in Seq(Rows)
    BY <1>3, <2>1, RetiredFits DEF Extends
  <2> QED BY <1>2, <1>3, <2>1, <2>2 DEF Proceed
<1>4. ASSUME NEW t \in Tasks, OpenRecorded(t)
      PROVE  FitsHost(proposals', prs) /\ Extends(proposals', proposals)
  <2>1. work[t].finding \in Findings /\ work[t].pr \in 1..MaxPRs /\ work[t].pr <= Len(prs)
    BY <1>4, WorkFields DEF OpenRecorded, WaitInv, Remembered, TypeOK
  <2>2. PICK row \in Rows : /\ row = Row(work[t].finding, work[t].pr, "open")
                            /\ row.pr = work[t].pr /\ row.status = "open"
    <3>1. work[t].pr \in 0..MaxPRs /\ "open" \in ProposalStatus
      BY <2>1 DEF ProposalStatus
    <3> QED BY <2>1, <3>1, RowIs
  <2>3. proposals' = Append(proposals, row)
    BY <1>4, <2>2 DEF OpenRecorded, Store
  <2>4. row.pr \in 0..Len(prs) /\ row.pr # NoPR
    BY <1>0, <2>1, <2>2 DEF NoPR
  <2>5. /\ Extends(proposals', proposals) /\ Len(proposals') = Len(proposals) + 1
        /\ proposals'[Len(proposals) + 1] = row
        /\ \A i \in 1..Len(proposals) : proposals'[i] = proposals[i]
    BY <1>0, <2>3, Stores
  <2> QED BY <1>0, <2>2, <2>4, <2>5 DEF FitsHost, TableInv
<1>5. FitsHost(proposals', prs) /\ Extends(proposals', proposals)
  <2>1. CASE UNCHANGED proposals
    BY <1>0, <2>1 DEF TableInv
  <2>2. ASSUME NEW t \in Tasks, DraftRejected(t)
        PROVE  FitsHost(proposals', prs) /\ Extends(proposals', proposals)
    <3>1. work[t].finding \in Findings
      BY <2>2, WorkFields DEF TypeOK, DraftRejected
    <3> QED BY <1>0, <1>2, <2>2, <3>1 DEF DraftRejected, TableInv
  <2>3. ASSUME NEW f \in Findings, Store(proposals, Row(f, NoPR, "rejected"))
        PROVE  FitsHost(proposals', prs) /\ Extends(proposals', proposals)
    BY <1>0, <1>2, <2>3 DEF TableInv
  <2>4. ASSUME NEW i, work[Hook].on = "sync", i \in work[Hook].rows, Finished(i),
               proposals' = Retired(i)
        PROVE  FitsHost(proposals', prs) /\ Extends(proposals', proposals)
    BY <1>0, <2>4, RetiredFits DEF WaitInv, Remembered
  <2> QED
    BY <1>1, <1>3, <1>4, <2>1, <2>2, <2>3, <2>4, TheTableSteps DEF TableSteps
<1>6. FitsHost(proposals', prs')
  <2>1. Len(prs) <= Len(prs') /\ \A n \in 1..Len(prs) : prs[n] = "merged" => prs'[n] = "merged"
    BY HostSteps DEF HostKeeps
  <2>2. \A n \in 0..Len(prs) : n \in 0..Len(prs') /\ (n # NoPR => n \in 1..Len(prs))
    BY <1>0, <2>1 DEF NoPR
  <2> QED BY <1>5, <2>1, <2>2 DEF FitsHost
<1> QED BY <1>5, <1>6 DEF TableInv

(* What a task learns from a step.                                          *)
LEMMA RememberedLater ==
    ASSUME NEW w, NEW rows, NEW old, NEW hosts, NEW older, Remembered(w, old, older),
           Extends(rows, old), Len(older) <= Len(hosts), Len(older) \in Nat, Len(hosts) \in Nat,
           Len(old) \in Nat, w.on = "opened" => w.pr \in Nat
    PROVE  Remembered(w, rows, hosts)
<1>1. Len(rows) \in Nat
  BY DEF Extends
<1>2. \A i : HasPR(old, i) => HasPR(rows, i)
  BY <1>1 DEF HasPR, Extends
<1> QED BY <1>2 DEF Remembered

LEMMA NothingRemembered ==
    ASSUME NEW w, NEW rows, NEW hosts,
           \/ w = Idle \/ \E f : w \in {Drafting(f), Pushing(f)}
           \/ \E i : w \in {Closing(i), Sweeping(i)}
    PROVE  Remembered(w, rows, hosts)
BY DEF Remembered, Idle, Drafting, Pushing, Closing, Sweeping

LEMMA NextWait ==
    ASSUME TypeOK, TableInv, WaitInv, [Next]_vars
    PROVE  WaitInv'
<1>0. /\ Hook \in Tasks /\ Calls \subseteq Tasks /\ Len(prs) \in Nat /\ Len(prs') \in Nat
      /\ Len(proposals) \in Nat /\ Extends(proposals', proposals) /\ Len(prs) <= Len(prs')
      /\ work \in [Tasks -> Work]
  BY HookIsTask, NextType, NextTable, HostSteps DEF TypeOK, HostKeeps
<1> DEFINE Good(w) == Remembered(w, proposals', prs')
<1>1. \A t \in Tasks : Good(work[t])
  <2> SUFFICES ASSUME NEW t \in Tasks PROVE Good(work[t])
    OBVIOUS
  <2>1. work[t].on = "opened" => work[t].pr \in Nat
    BY <1>0, WorkFields
  <2> QED BY <1>0, <2>1, RememberedLater DEF WaitInv
<1>2. \A i \in OpenRows : HasPR(proposals', i)
  <2>1. \A i \in OpenRows : HasPR(proposals, i)
    BY DEF OpenRows, TableInv, FitsHost, HasPR, TypeOK
  <2> QED BY <1>0, <2>1 DEF HasPR, Extends
<1>3. \A f, i : Good(Idle) /\ Good(Drafting(f)) /\ Good(Pushing(f)) /\ Good(Closing(i)) /\ Good(Sweeping(i))
  BY NothingRemembered
<1>4. \A f : \A i \in OpenRows : Good(Asking(i, f))
  BY <1>2 DEF Remembered, Asking
<1>5. \A rows : (\A i \in rows : HasPR(proposals', i)) => Good(Syncing(rows))
  BY DEF Remembered, Syncing
<1>6. Good(Syncing(OpenRows))
  BY <1>2, <1>5
<1> HIDE DEF Good
<1>7. ASSUME NEW t \in Tasks, NEW w, Become(t, w), Good(w) PROVE WaitInv'
  <2>1. \A u \in Tasks : work'[u] = IF u = t THEN w ELSE work[u]
    BY <1>0, <1>7 DEF Become
  <2> QED BY <1>1, <1>7, <2>1 DEF WaitInv, Good
<1>8. ASSUME UNCHANGED work PROVE WaitInv'
  BY <1>1, <1>8 DEF WaitInv, Good
<1>9. ASSUME NEW t \in Tasks, NEW f \in Findings, OpenProposal(t, f) PROVE WaitInv'
  BY <1>3, <1>4, <1>7, <1>9 DEF OpenProposal, Proceed, OpenFor
<1>10. ASSUME NEW t \in Tasks, Opening(t) PROVE WaitInv'
  <2>1. CASE PROpens(t)
    <3>1. Len(prs') = Len(prs) + 1 /\ Become(t, Opened(work[t].finding, Len(prs) + 1))
      BY <2>1 DEF PROpens, TypeOK
    <3>2. Good(Opened(work[t].finding, Len(prs) + 1))
      BY <1>0, <3>1 DEF Good, Remembered, Opened
    <3> QED BY <1>7, <3>1, <3>2
  <2> QED BY <1>3, <1>7, <1>10, <2>1
          DEF Opening, DedupeAnswered, Proceed, DraftAccepted, DraftRejected, OpenRecorded, GiveUp
<1>11. ASSUME NEW t \in Tasks, Sweep(t) \/ Abort(t) PROVE WaitInv'
  BY <1>3, <1>7, <1>11 DEF Sweep, SweepVerifies, SweepEnds, Abort
<1>12. ASSUME NEW c \in Calls, Call(c) PROVE WaitInv'
  BY <1>0, <1>3, <1>7, <1>8, <1>9, <1>12 DEF Call, CallCreates, CancelBegins, CancelEnds, CallSweeps
<1>13. ASSUME AfterDiscovery PROVE WaitInv'
  <2>1. CASE HookStarts \/ SyncEnds \/ AutoEnds
    BY <1>0, <1>3, <1>6, <1>7, <1>8, <2>1 DEF HookStarts, SyncEnds, AutoEnds
  <2>2. ASSUME NEW i \in RowIds, SyncRetires(i) \/ SyncLeaves(i) PROVE WaitInv'
    <3>1. SyncsNext(i)
      BY <2>2 DEF SyncRetires, SyncLeaves
    <3>2. \A j \in work[Hook].rows : HasPR(proposals', j)
      BY <1>0, <1>1, <3>1 DEF SyncsNext, Good, Remembered
    <3>3. Good(Syncing(work[Hook].rows \ {i}))
      BY <1>5, <3>2
    <3> QED BY <1>0, <1>7, <3>1, <3>3 DEF SyncsNext
  <2>3. CASE \E f \in Findings : AutoCreates(f)
    BY <1>0, <1>9, <2>3 DEF AutoCreates
  <2> QED BY <1>13, <2>1, <2>2, <2>3 DEF AfterDiscovery
<1>14. ASSUME Restart PROVE WaitInv'
  BY <1>3, <1>14 DEF Restart, WaitInv, Good
<1>15. ASSUME Environment \/ UNCHANGED vars PROVE WaitInv'
  BY <1>8, <1>15, EnvironmentType DEF vars
<1> QED BY <1>10, <1>11, <1>12, <1>13, <1>14, <1>15 DEF Next

LEMMA Tabled == Spec => [](TypeOK /\ TableInv /\ WaitInv)
<1>1. Init => TypeOK /\ TableInv /\ WaitInv
  BY InitIInv, NothingRemembered DEF Init, IInv, TableInv, FitsHost, WaitInv
<1>2. TypeOK /\ TableInv /\ WaitInv /\ [Next]_vars => TypeOK' /\ TableInv' /\ WaitInv'
  BY NextType, NextTable, NextWait
<1> QED BY <1>1, <1>2, PTL DEF Spec

(* lifecycle.py: nothing but the sweep, when discovery has seen the         *)
(* conflict clear, or the operator's cancelling it moves a merged conflict  *)
(* fix on, whichever task asks the host about it and whenever.              *)
THEOREM MergedFixWaits == Spec => MergedFixWaitsForDiscovery
<1>1. ASSUME TypeOK, TableInv, WaitInv, [Next]_vars, NEW i \in OpenRows,
             proposals[i].finding \in AuthConflicts, prs[proposals[i].pr] = "merged",
             proposals'[i].status # "open"
      PROVE  \/ /\ proposals'[i].status = "verified"
                /\ service[proposals[i].finding] = "clear"
             \/ \E c \in Calls : work[c] = Closing(i) /\ work'[c] = Idle
  <2>0. /\ i \in 1..Len(proposals) /\ proposals[i].status = "open" /\ proposals[i].pr # NoPR
        /\ proposals \in Seq(Rows) /\ ~ Finished(i)
    BY <1>1 DEF OpenRows, TypeOK, TableInv, FitsHost, Finished, PRStateOf
  <2>1. ASSUME NEW j, NEW s \in ProposalStatus \ {"open"}, proposals' = WithStatus(j, s)
        PROVE  i = j /\ proposals'[i].status = s
    BY <1>1, <2>0, <2>1, Statuses
  <2>2. "cancelled" \in ProposalStatus \ {"open"} /\ "verified" \in ProposalStatus \ {"open"}
    BY DEF ProposalStatus
  <2>3. ASSUME NEW j, HasPR(proposals, j), Finished(j) PROVE Retired(j)[i].status = "open"
    BY <1>1, <2>0, <2>3, RetiredFits
  <2>4. ASSUME NEW rows \in Seq(Rows), NEW row, rows[i].status = "open", Len(rows) = Len(proposals),
               Store(rows, row)
        PROVE  FALSE
    BY <1>1, <2>0, <2>4 DEF Store
  <2>5. \A t \in Tasks : work[t].on = "dedupe" => HasPR(proposals, work[t].row)
    BY <1>1 DEF WaitInv, Remembered
  <2>6. work[Hook].on = "sync" => \A j \in work[Hook].rows : HasPR(proposals, j)
    BY <1>1, HookIsTask DEF WaitInv, Remembered
  <2>7. ASSUME NEW t \in Tasks, work[t].on = "dedupe", Finished(work[t].row),
               Proceed(t, work[t].finding, Retired(work[t].row))
        PROVE  FALSE
    <3>1. /\ Retired(work[t].row)[i].status = "open" /\ Retired(work[t].row) \in Seq(Rows)
          /\ Len(Retired(work[t].row)) = Len(proposals)
      BY <1>1, <2>3, <2>5, <2>7, RetiredFits DEF Extends
    <3> QED BY <1>1, <2>4, <2>7, <3>1 DEF Proceed
  <2>8. CASE \E j \in DOMAIN proposals : proposals[j].pr = NoPR /\ proposals' = WithStatus(j, "cancelled")
    BY <2>0, <2>1, <2>2, <2>8
  <2>9. CASE \E c \in Calls : /\ work[c] = Closing(work[c].row) /\ work'[c] = Idle
                              /\ proposals' = WithStatus(work[c].row, "cancelled")
    BY <2>1, <2>2, <2>9
  <2>10. CASE \E t \in Tasks : \E j \in SweepHits(work[t].rows) : proposals' = WithStatus(j, "verified")
    BY <2>1, <2>2, <2>10 DEF SweepHits
  <2>11. ASSUME NEW t \in Tasks, DraftRejected(t) \/ OpenRecorded(t) PROVE FALSE
    BY <2>0, <2>4, <2>11 DEF DraftRejected, OpenRecorded
  <2>12. ASSUME NEW f, Store(proposals, Row(f, NoPR, "rejected")) PROVE FALSE
    BY <2>0, <2>4, <2>12
  <2> QED
    BY <1>1, <2>0, <2>3, <2>6, <2>7, <2>8, <2>9, <2>10, <2>11, <2>12, TheTableSteps DEF TableSteps
<1>2. TypeOK /\ TableInv /\ WaitInv /\ [Next]_vars =>
        [\A i \in OpenRows :
           /\ proposals[i].finding \in AuthConflicts
           /\ prs[proposals[i].pr] = "merged"
           /\ proposals'[i].status # "open"
           => \/ /\ proposals'[i].status = "verified"
                 /\ service[proposals[i].finding] = "clear"
              \/ \E c \in Calls : work[c] = Closing(i) /\ work'[c] = Idle]_vars
  BY <1>1
<1> QED BY <1>2, Tabled, PTL DEF Spec, MergedFixWaitsForDiscovery

-----------------------------------------------------------------------------
(* The hook                                                                 *)

(* The hook's loop drafts where there is no open row: it asks about none.   *)
LEMMA HookWaits ==
    ASSUME TypeOK, [Next]_vars, work'[Hook].on \in {"draft", "dedupe"}
    PROVE  \/ work'[Hook] = work[Hook]
           \/ work[Hook].on = "dedupe"
           \/ \E f \in Findings : /\ AutoCreates(f) /\ work'[Hook] = Drafting(f)
                                  /\ UNCHANGED <<proposals, prs, news>>
<1>0. Hook \in Tasks /\ Hook \notin Calls /\ Calls \subseteq Tasks /\ work \in [Tasks -> Work]
  BY HookIsTask DEF TypeOK
<1>1. ASSUME NEW w, Become(Hook, w), w.on \notin {"draft", "dedupe"} PROVE FALSE
  BY <1>0, <1>1 DEF Become
<1>2. ASSUME NEW t \in Tasks, t # Hook, NEW w, Become(t, w) PROVE work'[Hook] = work[Hook]
  BY <1>0, <1>2 DEF Become
<1>3. /\ Idle.on = "nothing"
      /\ \A i, n : Pushing(i).on = "push" /\ Opened(i, n).on = "opened" /\ Sweeping(i).on = "sweep"
                   /\ Syncing(i).on = "sync"
  BY DEF Idle, Pushing, Opened, Sweeping, Syncing
<1>4. ASSUME NEW t \in Tasks, Opening(t) PROVE work'[Hook] = work[Hook] \/ work[Hook].on = "dedupe"
  <2>1. CASE DedupeAnswered(t)
    BY <1>2, <2>1 DEF DedupeAnswered, Proceed
  <2>2. CASE DraftAccepted(t) \/ DraftRejected(t) \/ PROpens(t) \/ OpenRecorded(t) \/ GiveUp(t)
    BY <1>1, <1>2, <1>3, <2>2 DEF DraftAccepted, DraftRejected, PROpens, OpenRecorded, GiveUp
  <2> QED BY <1>4, <2>1, <2>2 DEF Opening
<1>5. ASSUME NEW t \in Tasks, Sweep(t) \/ Abort(t) PROVE work'[Hook] = work[Hook]
  BY <1>1, <1>2, <1>3, <1>5 DEF Sweep, SweepVerifies, SweepEnds, Abort
<1>6. ASSUME NEW c \in Calls, Call(c) PROVE work'[Hook] = work[Hook]
  <2>1. c \in Tasks /\ c # Hook
    BY <1>0
  <2>2. CASE CallCreates(c)
    <3>1. PICK f \in Findings : OpenProposal(c, f)
      BY <2>2 DEF CallCreates
    <3> QED BY <1>2, <2>1, <3>1 DEF OpenProposal, Proceed
  <2>3. CASE CancelBegins(c) \/ CancelEnds(c) \/ CallSweeps(c)
    BY <1>2, <2>1, <2>3 DEF CancelBegins, CancelEnds, CallSweeps
  <2> QED BY <1>6, <2>2, <2>3 DEF Call
<1>7. ASSUME AfterDiscovery
      PROVE  \/ work'[Hook] = work[Hook]
             \/ \E f \in Findings : /\ AutoCreates(f) /\ work'[Hook] = Drafting(f)
                                    /\ UNCHANGED <<proposals, prs, news>>
  <2>1. CASE HookStarts \/ SyncEnds \/ AutoEnds
    BY <1>1, <1>3, <2>1 DEF HookStarts, SyncEnds, AutoEnds
  <2>2. CASE \E i \in RowIds : SyncRetires(i) \/ SyncLeaves(i)
    BY <1>1, <1>3, <2>2 DEF SyncRetires, SyncLeaves, SyncsNext
  <2>3. ASSUME NEW f \in Findings, AutoCreates(f)
        PROVE  work'[Hook] = Drafting(f) /\ UNCHANGED <<proposals, prs, news>>
    <3>1. OpenFor(f) = {} /\ OpenProposal(Hook, f) /\ UNCHANGED <<prs, news>>
      BY <2>3 DEF AutoCreates, Eligible
    <3>2. (Become(Hook, Drafting(f)) /\ UNCHANGED proposals) \/ Become(Hook, Idle)
      BY <3>1 DEF OpenProposal, Proceed
    <3> QED BY <1>0, <1>1, <1>3, <3>1, <3>2 DEF Become
  <2> QED BY <1>7, <2>1, <2>2, <2>3 DEF AfterDiscovery
<1>8. ASSUME Restart PROVE FALSE
  BY <1>0, <1>3, <1>8 DEF Restart
<1>9. ASSUME Environment \/ UNCHANGED vars PROVE work'[Hook] = work[Hook]
  BY <1>9, EnvironmentType DEF vars
<1> QED BY <1>4, <1>5, <1>6, <1>7, <1>8, <1>9 DEF Next

HookAsksNot == work[Hook].on # "dedupe"

LEMMA NeverAsks == Spec => []HookAsksNot
<1>1. Init => HookAsksNot
  BY HookIsTask DEF Init, HookAsksNot, Idle
<1>2. TypeOK /\ HookAsksNot /\ [Next]_vars => HookAsksNot'
  <2> SUFFICES ASSUME TypeOK, HookAsksNot, [Next]_vars, work'[Hook].on = "dedupe" PROVE FALSE
    BY DEF HookAsksNot
  <2>1. work'[Hook] # work[Hook] /\ work[Hook].on # "dedupe"
    BY DEF HookAsksNot
  <2>2. PICK f \in Findings : work'[Hook] = Drafting(f)
    BY <2>1, HookWaits
  <2>3. Drafting(f).on = "draft"
    BY DEF Drafting
  <2> QED BY <2>2, <2>3
<1> QED BY <1>1, <1>2, TypeCorrect, PTL DEF Spec

(* engine.py _auto_create: over a pull request a human closed, noticed or   *)
(* not, the hook drafts nothing, for any number of calls beside it, unless  *)
(* the proposal had been verified first.                                    *)
THEOREM ClosedStaysNo == Spec => ClosedIsANo
<1>1. ASSUME TypeOK, TableInv, [Next]_vars,
             NEW f \in Findings, NEW i \in DOMAIN proposals,
             IsLatest(i, f), proposals[i].pr # NoPR, prs[proposals[i].pr] = "closed",
             work[Hook] = Idle, work'[Hook] = Drafting(f)
      PROVE  proposals[i].status = "verified"
  <2>1. work[Hook].on = "nothing" /\ work'[Hook].on = "draft" /\ work'[Hook].finding = f
    BY <1>1 DEF Idle, Drafting
  <2>2. PICK g \in Findings : AutoCreates(g) /\ work'[Hook] = Drafting(g)
    BY <1>1, <2>1, HookWaits
  <2>3. Eligible(f)
    BY <2>1, <2>2 DEF AutoCreates, Drafting
  <2>4. proposals[i].status \notin {"open", "cancelled"}
    BY <1>1, <2>3 DEF Eligible, OpenFor, OpenRows, IsLatest
  <2>5. i \in 1..Len(proposals) /\ proposals[i].status \in ProposalStatus
    <3>1. i \in 1..Len(proposals) /\ proposals[i] \in Rows
      BY <1>1 DEF TypeOK
    <3> QED BY <3>1 DEF Rows
  <2>6. proposals[i].status \notin {"rejected", "merged"}
    BY <1>1, <2>5 DEF TableInv, FitsHost
  <2> QED BY <2>4, <2>5, <2>6 DEF ProposalStatus
<1>2. TypeOK /\ TableInv /\ [Next]_vars =>
        [\A f \in Findings, i \in DOMAIN proposals :
           /\ IsLatest(i, f) /\ proposals[i].pr # NoPR
           /\ prs[proposals[i].pr] = "closed"
           /\ work[Hook] = Idle /\ work'[Hook] = Drafting(f)
           => proposals[i].status = "verified"]_vars
  BY <1>1
<1> QED BY <1>2, Tabled, PTL DEF Spec, ClosedIsANo

(* Rows do not become rejected ones; new ones are, of no conflict or by a   *)
(* draft that was refused.                                                  *)
LEMMA RejectedSteps ==
    ASSUME TypeOK, TableInv, WaitInv, [Next]_vars
    PROVE  \A j \in 1..Len(proposals') : proposals'[j].status = "rejected" =>
              \/ j \in 1..Len(proposals) /\ proposals[j].status = "rejected"
              \/ j \notin 1..Len(proposals)
                 /\ \/ proposals'[j].finding \notin AuthConflicts
                    \/ \E t \in Tasks : DraftRejected(t) /\ proposals'[j].finding = work[t].finding
<1> DEFINE Fine(j) ==
        \/ j \in 1..Len(proposals) /\ proposals[j].status = "rejected"
        \/ j \notin 1..Len(proposals)
           /\ \/ proposals'[j].finding \notin AuthConflicts
              \/ \E t \in Tasks : DraftRejected(t) /\ proposals'[j].finding = work[t].finding
<1> SUFFICES ASSUME NEW j \in 1..Len(proposals'), proposals'[j].status = "rejected"
             PROVE  Fine(j)
  OBVIOUS
<1>0. proposals \in Seq(Rows) /\ Len(proposals) \in Nat /\ DOMAIN proposals = 1..Len(proposals)
  BY DEF TypeOK
<1>1. ASSUME NEW i, NEW s \in {"cancelled", "verified"}, proposals' = WithStatus(i, s)
      PROVE  Fine(j)
  <2>1. s \in ProposalStatus \ {"open"}
    BY DEF ProposalStatus
  <2> QED BY <1>1, <2>1, Statuses
<1>2. ASSUME NEW i, HasPR(proposals, i), Finished(i)
      PROVE  /\ Retired(i) \in Seq(Rows) /\ Len(Retired(i)) = Len(proposals)
             /\ \A k \in 1..Len(proposals) :
                   Retired(i)[k].status = "rejected" => proposals[k].status = "rejected"
  BY <1>2, RetiredFits DEF Extends
<1>3. ASSUME NEW f \in Findings, NEW rows \in Seq(Rows), Len(rows) = Len(proposals),
             \A k \in 1..Len(proposals) :
                rows[k].status = "rejected" => proposals[k].status = "rejected",
             NEW s \in ProposalStatus, NEW n \in 0..MaxPRs, Store(rows, Row(f, n, s)),
             \/ s # "rejected" \/ f \notin AuthConflicts
             \/ \E t \in Tasks : DraftRejected(t) /\ f = work[t].finding
      PROVE  Fine(j)
  <2>1. PICK row \in Rows : row = Row(f, n, s) /\ row.finding = f /\ row.status = s
    BY RowIs
  <2>2. /\ Len(proposals') = Len(proposals) + 1 /\ proposals'[Len(proposals) + 1] = row
        /\ \A k \in 1..Len(proposals) : proposals'[k] = rows[k]
    BY <1>3, <2>1, Stores DEF Store
  <2>3. j \in 1..Len(proposals) \/ j = Len(proposals) + 1
    BY <1>0, <2>2
  <2> QED BY <1>0, <1>3, <2>1, <2>2, <2>3
<1>4. NoPR \in 0..MaxPRs /\ "rejected" \in ProposalStatus /\ "open" \in ProposalStatus
  BY DEF NoPR, ProposalStatus
<1>5. ASSUME NEW t \in Tasks, work[t].on = "dedupe", Finished(work[t].row),
             Proceed(t, work[t].finding, Retired(work[t].row))
      PROVE  Fine(j)
  <2>1. HasPR(proposals, work[t].row) /\ work[t].finding \in Findings
    BY <1>5, WorkFields DEF WaitInv, Remembered, TypeOK
  <2>2. CASE proposals' = Retired(work[t].row)
    BY <1>2, <1>5, <2>1, <2>2
  <2>3. CASE /\ work[t].finding \notin AuthConflicts
             /\ Store(Retired(work[t].row), Row(work[t].finding, NoPR, "rejected"))
    BY <1>2, <1>3, <1>4, <1>5, <2>1, <2>3
  <2> QED BY <1>5, <2>2, <2>3 DEF Proceed
<1>6. ASSUME NEW t \in Tasks, DraftRejected(t) \/ OpenRecorded(t) PROVE Fine(j)
  <2>1. work[t].finding \in Findings /\ (OpenRecorded(t) => work[t].pr \in 0..MaxPRs)
    BY <1>6, WorkFields DEF DraftRejected, OpenRecorded, TypeOK
  <2>2. CASE DraftRejected(t)
    BY <1>0, <1>3, <1>4, <2>1, <2>2 DEF DraftRejected
  <2>3. CASE OpenRecorded(t)
    BY <1>0, <1>3, <1>4, <2>1, <2>3 DEF OpenRecorded
  <2> QED BY <1>6, <2>2, <2>3
<1>7. ASSUME NEW f \in Findings \ AuthConflicts, Store(proposals, Row(f, NoPR, "rejected"))
      PROVE  Fine(j)
  BY <1>0, <1>3, <1>4, <1>7
<1>8. ASSUME NEW i, work[Hook].on = "sync", i \in work[Hook].rows, Finished(i),
             proposals' = Retired(i)
      PROVE  Fine(j)
  <2>1. HasPR(proposals, i)
    BY <1>8, HookIsTask DEF WaitInv, Remembered
  <2> QED BY <1>2, <1>8, <2>1
<1>9. CASE UNCHANGED proposals
  BY <1>9
<1> HIDE DEF Fine
<1> QED BY <1>1, <1>5, <1>6, <1>7, <1>8, <1>9, TheTableSteps DEF TableSteps

LEMMA NewsSteps ==
    ASSUME TypeOK, [Next]_vars
    PROVE  news \subseteq news' \/ \E t \in Tasks : DraftRejected(t)
<1>1. ASSUME NEW t \in Tasks, Opening(t) \/ Sweep(t) \/ Abort(t)
      PROVE  news \subseteq news' \/ DraftRejected(t)
  BY <1>1 DEF Opening, DedupeAnswered, DraftAccepted, PROpens, OpenRecorded, GiveUp, Sweep,
        SweepVerifies, SweepEnds, Abort
<1>2. ASSUME NEW c \in Calls, Call(c) PROVE news \subseteq news'
  BY <1>2 DEF Call, CallCreates, CancelBegins, CancelEnds, CallSweeps
<1>3. ASSUME AfterDiscovery \/ Restart \/ Environment \/ UNCHANGED vars PROVE news \subseteq news'
  BY <1>3 DEF AfterDiscovery, HookStarts, SyncEnds, AutoEnds, SyncRetires, SyncLeaves, SyncsNext,
        AutoCreates, Restart, Environment, ServiceChanges, ServiceDeleted, NewsArrives,
        HumanDecides, vars
<1> QED BY <1>1, <1>2, <1>3 DEF Next

(* While the hook drafts over a rejection, there has been news since.       *)
HookInv == \A f \in Findings : work[Hook] = Drafting(f) =>
    \A i \in 1..Len(proposals) :
        IsLatest(i, f) /\ proposals[i].status = "rejected" => f \in news

LEMMA NextHook ==
    ASSUME OneCreator, IInv, TableInv, WaitInv, HookAsksNot, HookInv, [Next]_vars
    PROVE  HookInv'
<1>0. TypeOK /\ Hook \in Tasks /\ work \in [Tasks -> Work] /\ Extends(proposals', proposals)
      /\ Len(proposals) \in Nat /\ Len(proposals') \in Nat
  BY HookIsTask, NextTable, NextType DEF IInv, TypeOK
<1> SUFFICES ASSUME NEW f \in Findings, work'[Hook] = Drafting(f),
                    NEW i \in 1..Len(proposals'), IsLatest(i, f)',
                    proposals'[i].status = "rejected"
             PROVE  f \in news'
  BY DEF HookInv
<1>1. Drafting(f).on = "draft" /\ Drafting(f).finding = f /\ Drafting(f) # Idle
  BY DEF Drafting, Idle
<1>2. CASE work[Hook] = Drafting(f)
  <2>1. f \in MayCreate[Hook] /\ f \in AuthConflicts
    BY <1>0, <1>1, <1>2 DEF IInv, Sound
  <2>2. ASSUME NEW t \in Tasks, DraftRejected(t) PROVE work[t].finding # f
    <3>1. t # Hook
      BY <1>0, <1>1, <2>2 DEF DraftRejected, Become
    <3>2. work[t].finding \in MayCreate[t]
      BY <2>2 DEF DraftRejected, IInv, Sound
    <3> QED BY <1>0, <2>1, <3>1, <3>2 DEF OneCreator
  <2>3. i \in 1..Len(proposals) /\ proposals[i].status = "rejected"
    <3>1. proposals'[i].finding = f
      BY DEF IsLatest
    <3> QED BY <1>0, <2>1, <2>2, <3>1, RejectedSteps
  <2>4. IsLatest(i, f)
    <3>1. /\ DOMAIN proposals = 1..Len(proposals) /\ DOMAIN proposals' = 1..Len(proposals')
          /\ 1..Len(proposals) \subseteq 1..Len(proposals')
      BY <1>0, NextType DEF TypeOK, Extends
    <3>2. \A j \in 1..Len(proposals) : proposals'[j].finding = proposals[j].finding
      BY <1>0 DEF Extends
    <3>3. proposals'[i].finding = f /\ \A j \in 1..Len(proposals') : proposals'[j].finding = f => j <= i
      BY <3>1 DEF IsLatest
    <3> QED BY <2>3, <3>1, <3>2, <3>3 DEF IsLatest
  <2>5. f \in news
    BY <1>2, <2>3, <2>4 DEF HookInv
  <2> QED BY <1>0, <2>2, <2>5, NewsSteps DEF DraftRejected
<1>3. CASE work[Hook] # Drafting(f)
  <2>1. PICK g \in Findings : /\ AutoCreates(g) /\ work'[Hook] = Drafting(g)
                              /\ UNCHANGED <<proposals, prs, news>>
    BY <1>0, <1>1, <1>3, HookWaits DEF HookAsksNot
  <2>2. Eligible(f)
    BY <1>1, <2>1 DEF AutoCreates, Drafting
  <2>3. IsLatest(i, f) /\ i \in DOMAIN proposals
    BY <2>1 DEF IsLatest
  <2> QED BY <2>1, <2>2, <2>3 DEF Eligible
<1> QED BY <1>2, <1>3

(* engine.py _should_auto_create: as long as nobody else proposes for the   *)
(* hook's conflicts, it records no second rejection of one in a row without *)
(* news -- whatever is cancelled, swept, aborted or restarted in between.   *)
THEOREM RejectsOnce == OneCreator => (Spec => NoRepeatedRejection)
<1> SUFFICES ASSUME OneCreator PROVE Spec => NoRepeatedRejection
  OBVIOUS
<1>1. Init => IInv /\ HookInv
  BY InitIInv, HookIsTask DEF Init, HookInv
<1>2. IInv /\ TableInv /\ WaitInv /\ HookAsksNot /\ HookInv /\ [Next]_vars => IInv' /\ HookInv'
  BY NextIInv, NextHook
<1>3. HookInv /\ TypeOK /\ [Next]_vars =>
        [\A f \in Findings, i \in DOMAIN proposals :
           /\ IsLatest(i, f) /\ proposals[i].status = "rejected"
           /\ work[Hook] = Drafting(f)
           /\ Len(proposals') > Len(proposals)
           /\ proposals'[Len(proposals')] = Row(f, NoPR, "rejected")
           => f \in news]_vars
  BY DEF HookInv, TypeOK
<1> QED BY <1>1, <1>2, <1>3, Tabled, NeverAsks, PTL DEF Spec, NoRepeatedRejection
=============================================================================
