------------------------------ MODULE Revisions ------------------------------
(***************************************************************************)
(* The conversation on a proposal's pull request: a scheduled job reads    *)
(* the comments, page by page, and answers each of them with a revised     *)
(* file on the pull request's branch (proposal/engine.py: poll_pr_comments,*)
(* _poll_one, apply_review_feedback; generator.revise; commit_file and     *)
(* list_pr_comments of the Git providers).  Reviewers comment, push and    *)
(* delete comments meanwhile, rows are cancelled, requests are lost or     *)
(* late, and the process is stopped.                                       *)
(*                                                                         *)
(* One process has one such job and the scheduler never runs it beside     *)
(* itself, so the job's place is kept in a few plain variables.            *)
(***************************************************************************)
EXTENDS Integers, FiniteSets, FiniteSetsExt, Sequences

CONSTANTS
    Pulls,          \* proposals with an open pull request, by age: the newest is the largest
    Authors,        \* who comments
    Configs,        \* the settings and files a process may be started with
    PageSize,       \* comments in one answer of the host (100 in the code)
    MaxComments, MaxPushes,     \* bounds on what reviewers do
    MaxMishaps      \* bound on stops, deletions, pushes and settled rows together

ASSUME PullsAssumption == Pulls \subseteq Nat \ {0} /\ IsFiniteSet(Pulls)
ASSUME PageAssumption == PageSize \in Nat \ {0}
ASSUME BoundAssumption == MaxComments \in Nat /\ MaxPushes \in Nat /\ MaxMishaps \in Nat
ASSUME ConfigAssumption ==
    Configs \subseteq [enabled: BOOLEAN, git: BOOLEAN, clone: BOOLEAN, cfg: BOOLEAN,
                       key: BOOLEAN, allowed: SUBSET Authors]

VARIABLES
    up,         \* "down", or whether the process polls
    allowed,    \* PROPOSAL_COMMENT_ALLOWED_USERS
    row,        \* per proposal: its status and last_comment_id
    head,       \* what the file on its branch contains: the revisions for comments,
                \* and the reviewers' own pushes, numbered downwards from -1
    said,       \* all comments, in the order of their ids
    flight,     \* commit requests on their way to the host
    at,         \* where the job stands
    todo,       \* proposals it has still to look at
    pull,       \* the one it is looking at
    page,       \* pages of comments read so far
    queue,      \* comments read from the pages, then those still to answer
    draft,      \* the file as it was read, then as it was revised
    mishaps,    \* stops, deletions, pushes and settled rows so far
    judged,     \* comments the job has come to a decision on
    landed,     \* how often a comment was answered with a commit
    cut,        \* how often the process was stopped between sending and saving
    shifted,    \* proposals whose comments were deleted while they were listed
    raced,      \* pushes made while the revision that is at work was being drafted
    dropped     \* pushes that a revision took back

host == <<head, said, flight>>
job == <<at, todo, pull, page, queue, draft>>
ghost == <<judged, landed, cut, shifted, raced, dropped>>
vars == <<up, allowed, row, host, job, mishaps, ghost>>

Nothing == 0
Comments == 1..MaxComments
Pushes == {-n : n \in 1..MaxPushes}
Marks == Comments \cup Pushes
Sent == [pull: Pulls, comment: Comments, draft: SUBSET Marks, over: SUBSET Marks,
         live: BOOLEAN]

TypeOK ==
    /\ up \in {"down", "quiet", "polling"} /\ allowed \subseteq Authors
    /\ row \in [Pulls -> [status: {"open", "settled"}, last: 0..MaxComments]]
    /\ head \in [Pulls -> SUBSET Marks]
    /\ said \in Seq([pull: Pulls, by: Authors, there: BOOLEAN])
    /\ Len(said) <= MaxComments
    /\ flight \subseteq Sent
    /\ at \in {"idle", "listing", "judging", "reading", "thinking", "stating",
               "putting", "put"}
    /\ todo \subseteq Pulls /\ pull \in Pulls \cup {Nothing}
    /\ page \in 0..MaxComments /\ queue \subseteq DOMAIN said /\ draft \subseteq Marks
    /\ at = "idle" <=> pull = Nothing
    /\ at = "idle" \/ up = "polling"
    /\ at \notin {"idle", "listing"} => queue # {}
    /\ \A c \in queue : said[c].pull = pull
    /\ mishaps \in 0..MaxMishaps
    /\ judged \subseteq DOMAIN said
    /\ landed \in [Comments -> Nat] /\ cut \in [Comments -> 0..MaxMishaps]
    /\ shifted \subseteq Pulls /\ raced \subseteq Pushes /\ dropped \subseteq Pushes

Init ==
    /\ up = "down" /\ allowed = {}
    /\ row = [p \in Pulls |-> [status |-> "open", last |-> 0]]
    /\ head = [p \in Pulls |-> {}]
    /\ said = <<>> /\ flight = {}
    /\ at = "idle" /\ todo = {} /\ pull = Nothing /\ page = 0 /\ queue = {} /\ draft = {}
    /\ mishaps = 0 /\ judged = {}
    /\ landed = [c \in Comments |-> 0] /\ cut = [c \in Comments |-> 0]
    /\ shifted = {} /\ raced = {} /\ dropped = {}

-----------------------------------------------------------------------------
(* The start of the server decides whether the job exists                   *)

Healthy(c) == c.clone /\ c.cfg /\ c.key

Polls(c) == c.enabled /\ c.git /\ Healthy(c)

Start(c) ==
    /\ up = "down"
    /\ up' = IF Polls(c) THEN "polling" ELSE "quiet"
    /\ allowed' = IF Polls(c) THEN c.allowed ELSE {}
    /\ UNCHANGED <<row, host, job, mishaps, ghost>>

Mishap == mishaps < MaxMishaps /\ mishaps' = mishaps + 1

(* The scheduler is shut down without waiting; a request that is under way  *)
(* may still be carried out.                                                *)
Stop ==
    /\ up # "down" /\ Mishap
    /\ up' = "down" /\ allowed' = {}
    /\ cut' = IF at \in {"putting", "put"} THEN [cut EXCEPT ![Min(queue)] = @ + 1] ELSE cut
    /\ at' = "idle" /\ todo' = {} /\ pull' = Nothing
    /\ page' = 0 /\ queue' = {} /\ draft' = {}
    /\ flight' = {[f EXCEPT !.live = FALSE] : f \in flight}
    /\ UNCHANGED <<row, head, said, judged, landed, shifted, raced, dropped>>

-----------------------------------------------------------------------------
(* The job: proposal/engine.py                                              *)

(* On to the next proposal, or the end of this poll.                        *)
GoOn(rest) ==
    /\ IF rest = {} THEN at' = "idle" /\ pull' = Nothing
                    ELSE at' = "listing" /\ pull' = Max(rest)
    /\ todo' = rest \ {pull'}
    /\ page' = 0 /\ queue' = {} /\ draft' = {}

PollStarts ==
    /\ up = "polling" /\ at = "idle"
    /\ GoOn({p \in Pulls : row[p].status = "open"})
    /\ UNCHANGED <<up, allowed, row, host, mishaps, ghost>>

There(p) == {c \in DOMAIN said : said[c].pull = p /\ said[c].there}

(* The n-th page of a pull request's comments, oldest first.                *)
Page(p, n) ==
    {c \in There(p) :
        Cardinality({d \in There(p) : d <= c}) \in (n - 1) * PageSize + 1 .. n * PageSize}

New(read) == {c \in read : c > row[pull].last}

(* Answer the comments in q, or go on if there is none.                     *)
Answer(q) ==
    \/ q = {} /\ GoOn(todo)
    \/ q # {} /\ at' = "judging" /\ queue' = q /\ draft' = {} /\ UNCHANGED <<todo, pull, page>>

(* Slip: the first page is taken for all of them.                           *)
FirstPageArrives ==
    /\ at = "listing"
    /\ Answer(New(Page(pull, 1)))
    /\ UNCHANGED <<up, allowed, row, host, mishaps, ghost>>

(* A page with fewer comments than it has room for is the last one.         *)
PageArrives ==
    /\ at = "listing"
    /\ LET batch == Page(pull, page + 1)
       IN  \/ Cardinality(batch) < PageSize /\ Answer(New(queue \cup batch))
           \/ /\ Cardinality(batch) = PageSize
              /\ queue' = queue \cup batch /\ page' = page + 1
              /\ UNCHANGED <<at, todo, pull, draft>>
    /\ UNCHANGED <<up, allowed, row, host, mishaps, ghost>>

(* One failure never blocks the other proposals.                            *)
ListFails ==
    /\ at = "listing"
    /\ GoOn(todo)
    /\ UNCHANGED <<up, allowed, row, host, mishaps, ghost>>

(* An answer that is no JSON, or a file that is no text, is not the error   *)
(* apply_review_feedback is prepared for.                                   *)
Unreadable ==
    /\ at \in {"reading", "stating"} /\ Mishap
    /\ GoOn(todo)
    /\ UNCHANGED <<up, allowed, row, host, ghost>>

(* Slip: an answer is listed newest first and worked off as it comes.       *)
NewestIn(q) == Max(q)

OldestIn(q) == Min(q)
AtHand == OldestIn(queue)

Authorized(c) == allowed # {} /\ said[c].by \in allowed

(* last_comment_id is saved.  The row is not read again for that and only   *)
(* the changed columns are written, so its status stays what it has become. *)
Saved ==
    /\ row' = [row EXCEPT ![pull].last = AtHand]
    /\ judged' = judged \cup {AtHand}
    /\ Answer(queue \ {AtHand})
    /\ UNCHANGED <<up, allowed, host, mishaps, landed, cut, shifted, raced, dropped>>

Ignores ==
    /\ at = "judging" /\ ~ Authorized(AtHand)
    /\ Saved

TakesUp ==
    /\ at = "judging" /\ Authorized(AtHand)
    /\ at' = "reading"
    /\ UNCHANGED <<up, allowed, row, host, todo, pull, page, queue, draft, mishaps, ghost>>

(* Slip: the file is read from the base branch.                             *)
ReadReturnsBase ==
    /\ at = "reading"
    /\ draft' = {} /\ at' = "thinking"
    /\ UNCHANGED <<up, allowed, row, host, todo, pull, page, queue, mishaps, ghost>>

ReadReturns ==
    /\ at = "reading"
    /\ draft' = head[pull] /\ at' = "thinking"
    /\ UNCHANGED <<up, allowed, row, host, todo, pull, page, queue, mishaps, ghost>>

ReadFails == at = "reading" /\ Saved

(* The reasoner works in a thread of its own; then the gates decide.        *)
Revises ==
    /\ at = "thinking"
    /\ draft' = draft \cup {AtHand} /\ at' = "stating"
    /\ UNCHANGED <<up, allowed, row, host, todo, pull, page, queue, mishaps, ghost>>

Rejects == at = "thinking" /\ Saved

(* commit_file asks for the file's sha and sends it with the new content.   *)
StatReturns ==
    /\ at = "stating"
    /\ flight' = flight \cup {[pull |-> pull, comment |-> AtHand, draft |-> draft,
                               over |-> head[pull], live |-> TRUE]}
    /\ at' = "putting"
    /\ UNCHANGED <<up, allowed, row, head, said, todo, pull, page, queue, draft,
                   mishaps, ghost>>

StatFails == at = "stating" /\ Saved

PutSucceeds == at = "put" /\ Saved

(* Slip: a failed commit is left for the next poll.                         *)
PutFailsUnsaved ==
    /\ at \in {"putting", "put"}
    /\ GoOn(todo)
    /\ UNCHANGED <<up, allowed, row, host, mishaps, ghost>>

(* Refused, unreachable, or the answer did not come in time.                *)
PutFails == at \in {"putting", "put"} /\ Saved

-----------------------------------------------------------------------------
(* The host, the reviewers and the rest of the server                       *)

Mine(f) == at = "putting" /\ f.live /\ f.pull = pull /\ f.comment = AtHand

(* A commit is accepted if the file is still the one whose sha it names.    *)
(* One to a branch that was deleted with its pull request is refused, which *)
(* is a request that never lands and whose sender is told so.               *)
PutLands(f) ==
    /\ flight' = flight \ {f}
    /\ IF head[f.pull] = f.over
       THEN /\ head' = [head EXCEPT ![f.pull] = f.draft]
            /\ landed' = [landed EXCEPT ![f.comment] = @ + 1]
            /\ dropped' = dropped \cup ((f.over \ f.draft) \cap Pushes)
            /\ at' = IF Mine(f) THEN "put" ELSE at
       ELSE UNCHANGED <<head, landed, dropped, at>>
    /\ UNCHANGED <<up, allowed, row, said, todo, pull, page, queue, draft, mishaps,
                   judged, cut, shifted, raced>>

Comment(p, who) ==
    /\ Len(said) < MaxComments
    /\ said' = Append(said, [pull |-> p, by |-> who, there |-> TRUE])
    /\ UNCHANGED <<up, allowed, row, head, flight, job, mishaps, ghost>>

(* Deleted while its pull request is listed: the later comments move up a   *)
(* page.  At any other time it is as if it had not been written, or as if   *)
(* it were still there.                                                     *)
Delete(c) ==
    /\ at = "listing" /\ said[c].pull = pull /\ said[c].there
    /\ Mishap
    /\ said' = [said EXCEPT ![c].there = FALSE]
    /\ shifted' = shifted \cup {pull}
    /\ UNCHANGED <<up, allowed, row, head, flight, job, judged, landed, cut,
                   raced, dropped>>

Push(p, m) ==
    /\ Mishap
    /\ \A n \in Pushes : n > m => \E q \in Pulls : n \in head[q] \cup dropped
    /\ \A q \in Pulls : m \notin head[q] \cup dropped
    /\ head' = [head EXCEPT ![p] = @ \cup {m}]
    /\ raced' = IF pull = p /\ at \in {"thinking", "stating"} THEN raced \cup {m} ELSE raced
    /\ UNCHANGED <<up, allowed, row, said, flight, job, judged, landed,
                   cut, shifted, dropped>>

(* ProposalEngine.cancel, whose close_pr may have failed, and lifecycle.    *)
Settle(p) ==
    /\ up # "down" /\ row[p].status = "open" /\ Mishap
    /\ row' = [row EXCEPT ![p].status = "settled"]
    /\ UNCHANGED <<up, allowed, host, job, ghost>>

-----------------------------------------------------------------------------
Poll ==
    \/ PageArrives \/ ListFails \/ Ignores \/ TakesUp \/ ReadReturns \/ ReadFails
    \/ Unreadable \/ Revises \/ Rejects \/ StatReturns \/ StatFails \/ PutSucceeds \/ PutFails

Next ==
    \/ \E c \in Configs : Start(c)
    \/ Stop
    \/ PollStarts \/ Poll
    \/ \E f \in flight : PutLands(f)
    \/ \E p \in Pulls, who \in Authors : Comment(p, who)
    \/ \E c \in DOMAIN said : Delete(c)
    \/ \E p \in Pulls, m \in Pushes : Push(p, m)
    \/ \E p \in Pulls : Settle(p)

Spec == Init /\ [][Next]_vars

(* The scheduler starts the job again and again, every await of it comes    *)
(* back, and a host that is asked often enough gives a proper answer.       *)
Fairness ==
    /\ WF_vars(PollStarts)
    /\ WF_vars(Poll)
    /\ \A p \in Pulls, n \in 0..MaxComments : SF_vars(pull = p /\ page = n /\ PageArrives)

FairSpec == Spec /\ Fairness

-----------------------------------------------------------------------------
(* engine.py:500: a comment is "never reprocessed": it gets one commit at   *)
(* most, also if the answer to the commit was lost or came late, and one    *)
(* more for every time the process was stopped between commit and row.      *)
OneCommitPerComment == \A c \in Comments : landed[c] <= 1 + cut[c]

(* last_comment_id stands for all comments up to it: none of them is passed *)
(* over, whatever fails in between, unless comments were deleted while they *)
(* were listed and the pages shifted.                                       *)
NothingSkipped ==
    \A c \in DOMAIN said :
        said[c].there /\ c <= row[said[c].pull].last
            => c \in judged \/ said[c].pull \in shifted

(* A revision keeps what reviewers pushed to the branch.  Only what was     *)
(* pushed while it was being drafted is taken back: the sha that protects   *)
(* the file is fetched after the draft, not with the file.                  *)
PushesKept == dropped \subseteq raced

Moot(c) == ~ said[c].there \/ said[c].pull \in shifted \/ row[said[c].pull].status # "open"

(* Comments on an open proposal are considered in the end, although single  *)
(* requests fail, as long as the server keeps polling.                      *)
EveryCommentConsidered ==
    \A c \in Comments :
        (c \in DOMAIN said /\ up = "polling")
            ~> (up # "polling" \/ (c \in DOMAIN said /\ (c \in judged \/ Moot(c))))
=============================================================================
