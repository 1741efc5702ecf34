----------------------------- MODULE Normalization -----------------------------
(***************************************************************************)
(* The normalization sweep (normalization/engine.py, scanner.py): it reads  *)
(* the compose files of the base branch, formats them (ComposeFormat), lets  *)
(* a model finish what the formatter left (generator.py), and opens one pull *)
(* request per node.  Every request to the Git host is an await: people edit *)
(* and merge between any two of them, and a scheduled sweep and the          *)
(* proposal_normalize tool share one engine and its lock.                    *)
(***************************************************************************)
EXTENDS ComposeFormat

CONSTANTS
    Callers,        \* who asks for sweeps: the scheduler's job, tool calls
    Job,
    Listing,        \* the paths compose files may have, in list_files' order
    NodeOf,         \* NodeOf[p]: the node of file p
    CanonicalOf,    \* CanonicalOf[p]: compose.yaml in the stack of p
    RenameMisnamed, \* NORMALIZATION_RENAME_MISNAMED
    MaxFiles,       \* NORMALIZATION_MAX_FILES_PER_PR
    Start,          \* the trees the base branch may have at first
    Edits,          \* texts a human may write
    Answers,        \* texts the model may answer with
    Texts,          \* all of these, and what becomes of them
    Pulls,          \* bound: pull requests that matter at one time
    MaxMishaps,     \* bound: edits, failures, restarts, rejections
    MaxAnswers      \* bound: answers of the model

Paths  == ToSet(Listing)
Nodes  == {NodeOf[p] : p \in Paths}
Absent == <<>>

ASSUME PathAssumption ==
    /\ Listing \in Seq(Paths) /\ CanonicalOf \in [Paths -> Paths]
    /\ \A p \in Paths : /\ NodeOf[CanonicalOf[p]] = NodeOf[p]
                        /\ CanonicalOf[CanonicalOf[p]] = CanonicalOf[p]
    /\ \A tree \in Start : DOMAIN tree = Paths
    /\ Job \in Callers /\ RenameMisnamed \in BOOLEAN /\ MaxFiles \in Nat
    /\ MaxMishaps \in Nat /\ MaxAnswers \in Nat

VARIABLES
    base,       \* the files of git_base_branch
    pull,       \* pull requests: their branch, what it was made from, their state
    rows,       \* rows[n]: pull requests with an open proposal row of n
    sweep,      \* what each caller waits for
    mishaps, answers

vars == <<base, pull, rows, sweep, mishaps, answers>>

Files == {p \in Paths : base[p] # Absent}

NoPull  == [state |-> "none"]
Live    == {k \in Pulls : pull[k].state = "open"}
Idle    == [at |-> "idle"]
Busy    == {c \in Callers : sweep[c] # Idle}

TypeOK ==
    /\ DOMAIN base = Paths
    /\ \A k \in Live : pull[k].node \in Nodes /\ pull[k].tree # pull[k].fork
    /\ \A n \in Nodes : \A k \in rows[n] : pull[k] # NoPull /\ pull[k].node = n
    /\ \A c \in Busy : /\ sweep[c].todo \subseteq Nodes
                       /\ sweep[c].at = "commit" => sweep[c].node \in sweep[c].todo /\ ~ sweep[c].dry
    /\ mishaps \in 0..MaxMishaps /\ answers \in 0..MaxAnswers

Init ==
    /\ base \in Start
    /\ pull = [k \in Pulls |-> NoPull]
    /\ rows = [n \in Nodes |-> {}]
    /\ sweep = [c \in Callers |-> Idle]
    /\ mishaps = 0 /\ answers = 0

Mishap == mishaps < MaxMishaps /\ mishaps' = mishaps + 1
Goes(c, next) == sweep' = [sweep EXCEPT ![c] = next]
At(c, where)  == sweep[c].at = where
Host   == <<base, pull, rows>>
Budget == <<mishaps, answers>>

-----------------------------------------------------------------------------
(* One file.                                                                *)

(* Slip: the model's answer is taken for what it is.                        *)
EscalateUngated(text) == Answers

(* escalate: the answers that pass the gates.  Only equivalence is asked    *)
(* for; a comment may be gone.                                              *)
Escalate(text) == {t \in Answers : Equivalent(text, t)}

ByRule(text)  == [text |-> text, model |-> FALSE]
ByModel(text) == [text |-> text, model |-> TRUE]

(* _process_file: what may become of a file that was read.  None: it is no  *)
(* compose file, or the formatter can do nothing and the model's answer is  *)
(* refused.  What the formatter leaves undone the model may finish.         *)
Outcomes(text) ==
    LET done == Normalize(text)
    IN IF ~ IsCompose(text) THEN {None}
       ELSE IF done = None THEN {None} \cup {ByModel(t) : t \in Escalate(text)}
       ELSE {ByRule(done.text)} \cup
            (IF done.skipped = {} THEN {} ELSE {ByModel(t) : t \in Escalate(done.text)})

(* Whatever the others are, there are such Texts.                           *)
ASSUME TextAssumption ==
    /\ Texts \subseteq Seq(Line)
    /\ {Absent} \cup Edits \cup Answers \subseteq Texts
    /\ \A tree \in Start : \A p \in Paths : tree[p] \in Texts
    /\ \A t \in Texts : \A o \in Outcomes(t) \ {None} : o.text \in Texts

OutcomesOf == [t \in Texts |-> Outcomes(t)]

NewPath(p) == IF RenameMisnamed THEN CanonicalOf[p] ELSE p

(* The file is as it should be, as far as the formatter can tell.           *)
Settled(p, text) ==
    \/ text = Absent
    \/ None \in OutcomesOf[text]
    \/ ByRule(text) \in OutcomesOf[text] /\ NewPath(p) = p

-----------------------------------------------------------------------------
(* A sweep.                                                                 *)

(* Slip: nothing keeps a second sweep out.                                  *)
LockFreeAlways == TRUE

LockFree == Busy = {}

(* run_sweep, for one node or all; a call made during a sweep gets an error.*)
Sweep(c, ns, dry) ==
    /\ sweep[c] = Idle /\ LockFree
    /\ Goes(c, [at |-> "list", todo |-> ns, dry |-> dry])
    /\ UNCHANGED <<Host, Budget>>

(* list_files.                                                              *)
List(c) ==
    /\ At(c, "list")
    /\ LET found == {p \in Files : NodeOf[p] \in sweep[c].todo} IN
       Goes(c, [at |-> "read", todo |-> {NodeOf[p] : p \in found}, dry |-> sweep[c].dry,
                unread |-> found, seen |-> [p \in Paths |-> Absent]])
    /\ UNCHANGED <<Host, Budget>>

(* read_file, several at a time; one that cannot be read, or is gone by     *)
(* now, is left out.                                                        *)
ReadFile(c, p) ==
    /\ At(c, "read") /\ p \in sweep[c].unread
    /\ \/ Goes(c, [sweep[c] EXCEPT !.unread = @ \ {p}, !.seen[p] = base[p]])
          /\ UNCHANGED mishaps
       \/ Goes(c, [sweep[c] EXCEPT !.unread = @ \ {p}]) /\ Mishap
    /\ UNCHANGED <<Host, answers>>

Reports(c, n) == {p \in Paths : NodeOf[p] = n /\ sweep[c].seen[p] # Absent}

(* On to the next node, or to the end.                                      *)
Onward(c, todo) ==
    IF todo = {} THEN Goes(c, Idle)
    ELSE Goes(c, [at |-> "node", todo |-> todo, dry |-> sweep[c].dry, seen |-> sweep[c].seen])

Scanned(c) ==
    /\ At(c, "read") /\ sweep[c].unread = {}
    /\ Onward(c, {n \in sweep[c].todo : Reports(c, n) # {}})
    /\ UNCHANGED <<Host, Budget>>

NextNode(c, n) == Onward(c, sweep[c].todo \ {n})

(* Slip: a closed pull request is not a finished one.                       *)
FinishedByMerge(k) == pull[k].state = "merged"

(* What retire_if_finished takes as the end of a row.                       *)
Finished(k) == pull[k].state \in {"merged", "closed"}

(* The open row keeps the node from another pull request, unless its own is *)
(* seen to be merged or closed.                                             *)
SkipNode(c, n) ==
    /\ At(c, "node") /\ n \in sweep[c].todo
    /\ \E k \in rows[n] : IF Finished(k) THEN Mishap ELSE UNCHANGED mishaps
    /\ NextNode(c, n)
    /\ UNCHANGED <<Host, answers>>

(* find_open_by_path and retire_if_finished.                                *)
EnterNode(c, n) ==
    /\ At(c, "node") /\ n \in sweep[c].todo
    /\ \/ rows[n] = {} /\ UNCHANGED <<pull, rows>>
       \/ \E k \in {x \in rows[n] : Finished(x)} :
             /\ rows' = [rows EXCEPT ![n] = @ \ {k}]
             /\ pull' = [pull EXCEPT ![k] = NoPull]
    /\ Goes(c, [at |-> "format", todo |-> sweep[c].todo, dry |-> sweep[c].dry, seen |-> sweep[c].seen,
                node |-> n, left |-> Reports(c, n), changes |-> <<>>])
    /\ UNCHANGED <<base, Budget>>

(* p comes no later than q in the listing.                                  *)
ListedBy(p, q) == \E i \in DOMAIN Listing : Listing[i] = p /\ \A j \in 1..i-1 : Listing[j] # q

(* A file at a time, in the order of the listing, in a thread.              *)
FormatFile(c) ==
    /\ At(c, "format")
    /\ \E p \in sweep[c].left :
       /\ \A q \in sweep[c].left : ListedBy(p, q)
       /\ LET old == sweep[c].seen[p]
          IN \E o \in OutcomesOf[old] :
             /\ IF o # None /\ o.model
                THEN answers < MaxAnswers /\ answers' = answers + 1
                ELSE UNCHANGED answers
             /\ Goes(c, [sweep[c] EXCEPT !.left = @ \ {p},
                   !.changes = IF o # None /\ (o.text # old \/ NewPath(p) # p)
                               THEN Append(@, [from |-> p, to |-> NewPath(p),
                                               text |-> o.text, model |-> o.model])
                               ELSE @])
    /\ UNCHANGED <<Host, mishaps>>

(* The first MaxFiles changes; the others are left for a later sweep.       *)
Capped(changes) == SubSeq(changes, 1, IF Len(changes) < MaxFiles THEN Len(changes) ELSE MaxFiles)

Formatted(c)  == At(c, "format") /\ sweep[c].left = {}
MustBranch(c) == Formatted(c) /\ Capped(sweep[c].changes) # <<>> /\ ~ sweep[c].dry

NothingToDo(c) ==
    /\ Formatted(c) /\ (Capped(sweep[c].changes) = <<>> \/ sweep[c].dry)
    /\ NextNode(c, sweep[c].node)
    /\ UNCHANGED <<Host, Budget>>

(* create_branch, from the base as it is by now.                            *)
Branch(c) ==
    /\ MustBranch(c)
    /\ LET s == sweep[c] IN
       Goes(c, [at |-> "commit", todo |-> s.todo, dry |-> FALSE, seen |-> s.seen, node |-> s.node,
                changes |-> Capped(s.changes), fork |-> base, tree |-> base,
                stale |-> {p \in Paths : base[p] # s.seen[p]},
                model |-> {ch.to : ch \in {x \in ToSet(Capped(s.changes)) : x.model}}])
    /\ UNCHANGED <<Host, Budget>>

(* commit_file at the new path; delete_file at the old one follows.         *)
Commit(c) ==
    /\ At(c, "commit") /\ sweep[c].changes # <<>>
    /\ LET ch == Head(sweep[c].changes) IN
       Goes(c, [sweep[c] EXCEPT !.tree[ch.to] = ch.text,
                                !.at = IF ch.from = ch.to THEN "commit" ELSE "delete",
                                !.changes = IF ch.from = ch.to THEN Tail(@) ELSE @])
    /\ UNCHANGED <<Host, Budget>>

Delete(c) ==
    /\ At(c, "delete")
    /\ Goes(c, [sweep[c] EXCEPT !.tree[Head(sweep[c].changes).from] = Absent,
                                !.at = "commit", !.changes = Tail(@)])
    /\ UNCHANGED <<Host, Budget>>

(* open_pr, and the row right after its answer; the answer may get lost.  A *)
(* branch without a difference gets no pull request.                        *)
Open(c) ==
    /\ At(c, "commit") /\ sweep[c].changes = <<>>
    /\ LET s == sweep[c] IN
       /\ IF s.tree = s.fork THEN UNCHANGED <<Host, mishaps>>
          ELSE \E k \in {x \in Pulls : pull[x] = NoPull} :
             /\ pull' = [pull EXCEPT ![k] = [state |-> "open", node |-> s.node, fork |-> s.fork,
                                             tree |-> s.tree, stale |-> s.stale, model |-> s.model]]
             /\ \/ rows' = [rows EXCEPT ![s.node] = @ \cup {k}] /\ UNCHANGED mishaps
                \/ UNCHANGED rows /\ Mishap
             /\ UNCHANGED base
       /\ NextNode(c, s.node)
    /\ UNCHANGED answers

(* A GitError: the sweep ends while listing, else only this node's part.    *)
Fails(c) ==
    /\ \/ At(c, "list") /\ Goes(c, Idle)
       \/ (MustBranch(c) \/ sweep[c].at \in {"commit", "delete"}) /\ NextNode(c, sweep[c].node)
    /\ Mishap
    /\ UNCHANGED <<Host, answers>>

(* A stop of the server.                                                    *)
Restart ==
    /\ Busy # {} /\ Mishap
    /\ sweep' = [c \in Callers |-> Idle]
    /\ UNCHANGED <<Host, answers>>

-----------------------------------------------------------------------------
(* People.                                                                  *)

Edit(p, text) ==
    /\ Mishap /\ base[p] # text
    /\ base' = [base EXCEPT ![p] = text]
    /\ UNCHANGED <<pull, rows, sweep, answers>>

Touched(k)  == {p \in Paths : pull[k].tree[p] # pull[k].fork[p]}
Conflict(k) == \E p \in Touched(k) : base[p] \notin {pull[k].fork[p], pull[k].tree[p]}

(* A finished pull request is of interest while it has an open row.         *)
Finish(k, state) ==
    pull' = [pull EXCEPT ![k] = IF k \in rows[@.node] THEN [state |-> state, node |-> @.node]
                                                        ELSE NoPull]

Merge(k) ==
    /\ k \in Live /\ ~ Conflict(k)
    /\ base' = [p \in Paths |-> IF p \in Touched(k) THEN pull[k].tree[p] ELSE base[p]]
    /\ Finish(k, "merged")
    /\ UNCHANGED <<rows, sweep, Budget>>

(* A pull request in conflict has to be closed; any other may be.           *)
Close(k) ==
    /\ k \in Live
    /\ IF Conflict(k) THEN UNCHANGED mishaps ELSE Mishap
    /\ Finish(k, "closed")
    /\ UNCHANGED <<base, rows, sweep, answers>>

(* proposal_cancel: the row goes, and the pull request if the host hears.   *)
Cancel(n) ==
    /\ \E k \in rows[n] :
          /\ Mishap
          /\ rows' = [rows EXCEPT ![n] = @ \ {k}]
          /\ \/ pull' = [pull EXCEPT ![k] = NoPull]
             \/ k \in Live /\ UNCHANGED pull
    /\ UNCHANGED <<base, sweep, answers>>

Proceed(c) ==
    \/ List(c) \/ Scanned(c) \/ FormatFile(c) \/ NothingToDo(c) \/ Branch(c)
    \/ Commit(c) \/ Delete(c) \/ Open(c)
    \/ \E p \in Paths : ReadFile(c, p)
    \/ \E n \in Nodes : SkipNode(c, n) \/ EnterNode(c, n)

Next ==
    \/ \E c \in Callers : Proceed(c) \/ Fails(c)
                          \/ \E dry \in BOOLEAN : \/ Sweep(c, Nodes, dry)
                                                  \/ \E n \in Nodes : Sweep(c, {n}, dry)
    \/ \E k \in Pulls : Merge(k) \/ Close(k)
    \/ \E n \in Nodes : Cancel(n)
    \/ \E p \in Paths : \E text \in Edits : Edit(p, text)
    \/ Restart

Spec == Init /\ [][Next]_vars

(* The schedule runs full sweeps for ever, each request is answered in the  *)
(* end, and a reviewer decides on every pull request.                       *)
FairSpec ==
    /\ Spec
    /\ SF_vars(Sweep(Job, Nodes, FALSE))
    /\ \A c \in Callers : WF_vars(Proceed(c))
    /\ \A k \in Pulls : WF_vars(Merge(k)) /\ WF_vars(k \in Live /\ Conflict(k) /\ Close(k))

-----------------------------------------------------------------------------
(* engine.py:331, "two sweeps could otherwise both find no open proposal for *)
(* a node and both open a PR for it": whatever the job and the tool do, and  *)
(* after failures, stops and cancels, a node has one open proposal.          *)
OneOpenRowPerNode == \A n \in Nodes : \A j, k \in rows[n] : j = k

(* What is deployed for the stack of p: its one compose file.               *)
StackOf(p) == {q \in Paths : CanonicalOf[q] = CanonicalOf[p]}
FilesOf(tree, p) == {q \in StackOf(p) : tree[q] # Absent}
MeaningOf(tree, p) == {Meaning(tree[q]) : q \in FilesOf(tree, p)}

(* spec-compose-normal-form.md:30 and engine.py:167, "formatting only, no    *)
(* behavior change": a pull request leaves each stack its one file, meaning  *)
(* what it did on the base it was branched from -- whatever was cut off by   *)
(* the cap, renamed, answered by the model or edited elsewhere meanwhile;    *)
(* provided nobody changed that stack between the scan and the branch, and   *)
(* it did not have a compose.yaml beside the file to be renamed.             *)
FormattingOnly ==
    \A k \in Live : \A p \in Paths :
        StackOf(p) \cap pull[k].stale = {} /\ Cardinality(FilesOf(pull[k].fork, p)) = 1 =>
            /\ Cardinality(FilesOf(pull[k].tree, p)) = 1
            /\ MeaningOf(pull[k].tree, p) = MeaningOf(pull[k].fork, p)

(* The comment lines directly above a key or label.                         *)
RowOf(text, line) == CHOOSE i \in {j \in 1..Len(text) : text[j] \in line} : TRUE
NotesAbove(text, line, path) ==
    LET row  == RowOf(text, line)
        from == Upwards(1, row, {i \in 1..Len(text) : IsNote(text[i]) /\ Loose(text[i], path)})
    IN SubSeq(text, from, row - 1)

LaterKeys(text) ==
    {text[i].name : i \in {j \in Lines(text, "key") : \E h \in Lines(text, "key") : h < j}}

(* Every comment is still there, and those directly above a key, but for the *)
(* header of the file, and above a label, still are above it.                *)
NotesKept(old, new) ==
    /\ Comments(new) = Comments(old)
    /\ \A key \in LaterKeys(old) \cap Names(new, "key") :
          IsSuffix(NotesAbove(old, {Key(key)}, Root), NotesAbove(new, {Key(key)}, Root))
    /\ \A l \in Names(new, "entry") :
          IsSuffix(NotesAbove(old, {Entry(l), Item(l)}, Nested),
                   NotesAbove(new, {Entry(l)}, Nested))

(* So the formatter treats every text that can come up.                      *)
FormatterKeepsNotes ==
    \A t \in Texts : \A o \in Outcomes(t) \ {None} : o.model \/ NotesKept(t, o.text)

(* On this branch the one compose file of a stack, at p, has become what is  *)
(* at q, by the formatter alone; nobody changed that stack between the scan  *)
(* and the branch.                                                           *)
FormattedAs(branch, p, q) ==
    /\ q \notin branch.model /\ branch.tree[q] # Absent /\ IsCompose(branch.fork[p])
    /\ StackOf(p) \cap branch.stale = {} /\ FilesOf(branch.fork, p) = {p}
    /\ q \in StackOf(p)

(* Whatever is renamed, cut off by the cap, or changed by others meanwhile,  *)
(* a pull request loses no comment of a file that the formatter alone did.   *)
CommentsKept ==
    \A k \in Live : \A p, q \in Paths :
        FormattedAs(pull[k], p, q) => Comments(pull[k].tree[q]) = Comments(pull[k].fork[p])

(* N-012, comments "stay with the key or line they annotated": what the      *)
(* formatter did on its own keeps them and leaves them where they belong.    *)
CommentsStay ==
    \A k \in Live : \A p, q \in Paths :
        FormattedAs(pull[k], p, q) => NotesKept(pull[k].fork[p], pull[k].tree[q])

(* Everything a sweep has to do gets done: once failures, edits and          *)
(* rejections stop, every compose file comes to the form the formatter wants *)
(* and rests there, however few files a pull request may hold and however    *)
(* often rules undo each other's work.                                       *)
BecomesCanonical == <>[](\A p \in Paths : Settled(p, base[p]))
=============================================================================
