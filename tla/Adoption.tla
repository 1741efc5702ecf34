------------------------------- MODULE Adoption -------------------------------
(***************************************************************************)
(* Adopting a running service into Git, and the clone this happens in.     *)
(*                                                                         *)
(* proposal_adopt_service leaves a draft; proposal_adopt_service_finalize  *)
(* writes its .env into a local clone, pushes a branch of the draft's own, *)
(* commits the compose file through the host's API and opens a pull        *)
(* request (tools/adoption.py).  The secrets_* tools work in the same      *)
(* clone (tools/secrets.py, gitcrypt.py).  Every git command is an await   *)
(* and nothing locks the clone: two tool calls interleave between their    *)
(* commands, and a branch switch, an index or a git-crypt lock of one is   *)
(* the other's too.                                                        *)
(*                                                                         *)
(* A file's content is the set of those who wrote into it: a draft, or     *)
(* Operator for a key of secrets_add.  Files are the .env files, the       *)
(* .gitattributes file (its content: the .env files it lists) and, one per *)
(* draft, the compose file it commits.  A branch is the sequence of trees  *)
(* of its commits.                                                         *)
(***************************************************************************)
EXTENDS Naturals, SequencesExt

CONSTANTS
    Calls,      \* tool calls in the clone at one time
    Drafts,     \* adoption drafts; a draft also names its branch
    EnvOf,      \* EnvOf[d]: the .env file beside the compose file of d
    Paths,      \* the .env files
    Listed,     \* those .gitattributes may list from the start
    ToolPaths,  \* those the secrets_* tools are called with
    Main,       \* git_base_branch
    Attrs,      \* .gitattributes
    Operator,   \* who calls secrets_add
    MaxCalls,   \* bound: tool calls that enter the clone
    Clear,      \* marks a blob that did not pass through git-crypt's filter
    Cipher      \* marks a file of the working tree that holds ciphertext

ASSUME DraftAssumption ==
    /\ EnvOf \in [Drafts -> Paths] /\ ToolPaths \subseteq Paths /\ Listed \subseteq Paths
    /\ Main \notin Drafts /\ Attrs \notin Paths \cup Drafts
    /\ Operator \notin Drafts /\ Clear \notin Drafts \cup {Operator}
    /\ Cipher \notin Drafts \cup {Operator, Clear}
    /\ Drafts \cap Paths = {} /\ MaxCalls \in Nat

VARIABLES
    draft,      \* the AdoptionDraft rows: status, and whether secrets were found
    call,       \* what each tool call waits for
    head,       \* the branch checked out in the clone
    local,      \* the clone's branches
    index,      \* the clone's index
    work,       \* the clone's working tree
    unlocked,   \* git-crypt's filters are configured in the clone
    remote,     \* the host's branches
    pr,         \* the pull request of a draft's branch
    begun,      \* how many calls have started, for the bound
    marred,     \* history: drafts with a finalize call that found something staged or
                \* was overlapped by another call
    misled      \* history: drafts with a finalize call that is_locked told a locked
                \* clone was not locked

clone    == <<head, local, index, work, unlocked>>
host     == <<remote, pr>>
history  == <<begun, marred, misled>>
vars     == <<draft, call, clone, host, history>>

Branches == Drafts \cup {Main}
Files    == Paths \cup {Attrs} \cup Drafts
Writers  == Drafts \cup {Operator}

Tree == [Files -> SUBSET (Writers \cup Paths \cup {Clear, Cipher})]

(* Nothing asks how a draft was decided: finalized, cancelled or expired.   *)
Statuses == {"none", "pending", "decided"}

Finalizing == {"checkout", "check", "unlock", "add", "diff", "commit", "push",
               "branch", "compose", "open"}
Securing   == {"list", "commit list", "check", "unlock", "add"}

Idle == [tool |-> "none"]
Call ==
    {Idle} \cup [tool : {"finalize"}, at : Finalizing, on : Drafts]
           \cup [tool : {"encrypt", "secrets_add"}, at : Securing, on : Paths]
           \cup [tool : {"read"}, at : {"unlock", "lock"}, on : Paths]

TypeOK ==
    /\ draft \in [Drafts -> [status : Statuses, secrets : BOOLEAN]]
    /\ call \in [Calls -> Call]
    /\ head \in Branches
    /\ local \in [Branches -> Seq(Tree)] /\ remote \in [Branches -> Seq(Tree)]
    /\ index \in Tree /\ work \in Tree
    /\ local[head] # <<>> /\ remote[Main] # <<>>
    /\ unlocked \in BOOLEAN
    /\ pr \in [Drafts -> {"none", "open", "closed", "merged"}]
    /\ \A d \in Drafts : pr[d] # "none" => remote[d] # <<>>
    /\ \A c \in Calls : call[c] # Idle /\ call[c].at \in {"compose", "open"} =>
          remote[call[c].on] # <<>>
    /\ begun \in 0..MaxCalls /\ marred \subseteq Drafts /\ misled \subseteq Drafts

-----------------------------------------------------------------------------
(* git and git-crypt, as the subprocesses of gitcrypt.py use them.          *)

Tip(history_)      == Last(history_)
Plain(blob)        == blob \ {Clear}
Encrypted(tree, f) == f \in Paths /\ tree[f] # {} /\ Clear \notin tree[f]

(* What a checkout of f writes into the working tree: ciphertext, unless    *)
(* the smudge filter is configured and f is listed.                         *)
Smudged(tree, f, on) ==
    IF Encrypted(tree, f) /\ ~ (on /\ f \in tree[Attrs])
    THEN tree[f] \cup {Cipher} ELSE Plain(tree[f])

(* A clone of a repository that may already have some encrypted files, of a *)
(* retired service or by secrets_add.                                       *)
Init ==
    /\ draft = [d \in Drafts |-> [status |-> "none", secrets |-> FALSE]]
    /\ call = [c \in Calls |-> Idle]
    /\ head = Main
    /\ \E listed \in SUBSET Listed :
          index = [f \in Files |-> IF f = Attrs THEN listed
                                  ELSE IF f \in listed THEN {Operator} ELSE {}]
    /\ unlocked \in BOOLEAN
    /\ work = [f \in Files |-> Smudged(index, f, unlocked)]
    /\ local = [b \in Branches |-> IF b = Main THEN <<index>> ELSE <<>>]
    /\ remote = local
    /\ pr = [d \in Drafts |-> "none"]
    /\ begun = 0 /\ marred = {} /\ misled = {}

Running == {c \in Calls : call[c] # Idle}
FinalizedBy(cs) == {call[c].on : c \in {x \in cs : call[x] # Idle /\ call[x].tool = "finalize"}}

HeadTree      == Tip(local[head])
NothingStaged == index = HeadTree
(* git status -uno prints nothing.                                          *)
Clean ==
    /\ NothingStaged
    /\ \A f \in Files : index[f] # {} => work[f] = Smudged(index, f, unlocked)

(* Slip: what was looked for is the path somewhere in the file.             *)
HasEntryBySubstring(attrs, p) == attrs # {}

(* has_gitattributes_entry                                                  *)
HasEntry(attrs, p) == p \in attrs

(* is_locked goes by the first file it finds that a line of .gitattributes  *)
(* names, in the order of the lines and, for a pattern, of the directory:   *)
(* any such file here.  Without one it takes the clone for unlocked.        *)
Shown         == {p \in Paths : p \in work[Attrs] /\ work[p] # {}}
LooksLocked   == \E p \in Shown : Cipher \in work[p]
LooksUnlocked == Shown = {} \/ \E p \in Shown : Cipher \notin work[p]

(* git-crypt unlock and git-crypt lock ask for a clean tree, change the     *)
(* filters' configuration and check the encrypted files out again.          *)
Configured(on) == [f \in Files |-> IF index[f] = {} THEN work[f] ELSE Smudged(index, f, on)]

(* git add: what the clean filter leaves alone is staged as it is, be it    *)
(* plaintext or the ciphertext of a checkout without the filter.            *)
Filtered(p, tree, on) ==
    IF on /\ p \in tree[Attrs] THEN tree[p]
    ELSE IF Cipher \in tree[p] THEN tree[p] \ {Cipher} ELSE tree[p] \cup {Clear}

(* git checkout -B: local changes are carried over, or stop it.  A branch   *)
(* nobody is working on is forgotten: the next checkout sets it anew.       *)
Kept(f, target) == HeadTree[f] = target[f] \/ index[f] = target[f]
MayCheckout(target) ==
    \A f \in Files : Kept(f, target) \/ (index[f] = HeadTree[f] /\ work[f] = Smudged(index, f, unlocked))
CheckedOut(b, commits) ==
    /\ MayCheckout(Tip(commits))
    /\ head' = b
    /\ local' = [x \in Branches |-> IF x = b THEN commits
                                     ELSE IF x \in FinalizedBy(Calls) THEN local[x] ELSE <<>>]
    /\ index' = [f \in Files |-> IF Kept(f, Tip(commits)) THEN index[f] ELSE Tip(commits)[f]]
    /\ work' = [f \in Files |-> IF Kept(f, Tip(commits)) THEN work[f]
                               ELSE Smudged(Tip(commits), f, unlocked)]

(* git commit takes whatever is staged, on whatever branch is checked out.  *)
CommitIndex ==
    /\ ~ NothingStaged
    /\ local' = [local EXCEPT ![head] = Append(@, index)]
    /\ UNCHANGED <<head, index, work, unlocked>>

-----------------------------------------------------------------------------
(* Tool calls.                                                              *)

Step(c, next) == call' = [call EXCEPT ![c] = next]
Goes(c, at)   == Step(c, [call[c] EXCEPT !.at = at])
Ends(c)       == Step(c, Idle)
At(c, tool, at) == call[c] # Idle /\ call[c].tool = tool /\ call[c].at = at

(* A call starts; whoever is running has the clone no more to itself.       *)
Starts(c, next) ==
    /\ call[c] = Idle /\ begun < MaxCalls
    /\ begun' = begun + 1
    /\ Step(c, next)
    /\ marred' = marred \cup FinalizedBy(Running)
         \cup (IF next.tool = "finalize" /\ ~ (Running = {} /\ NothingStaged)
                THEN {next.on} ELSE {})
    /\ UNCHANGED misled

(* What docker inspect and cat, run over SSH, tell of the container: nothing *)
(* (no connection, no such container, no compose label, no file), or its    *)
(* compose file and whether its environment has the variables in question.  *)
Inspections == [compose : BOOLEAN, env : BOOLEAN]

(* The model's answer: a placeholder of a masked value may be altered, the   *)
(* confidence low, the text no YAML; or there is no answer.                 *)
Answers == [kind : {"none", "altered", "unsure", "empty", "not YAML", "good"},
            detected : BOOLEAN]

(* AdoptionGenerator.generate: every gate is passed.                        *)
Sanitized(answer) == answer.kind = "good"

(* proposal_adopt_service.  The draft is written after all awaits; a refused *)
(* answer is recorded as a rejected proposal, without a draft.  Keys the     *)
(* model names that are not in the environment are dropped.                 *)
Adopt(d) ==
    /\ draft[d].status = "none"
    /\ \E seen \in Inspections, answer \in Answers :
           /\ seen.compose /\ Sanitized(answer)
           /\ draft' = [draft EXCEPT ![d] = [status |-> "pending",
                                             secrets |-> seen.env /\ answer.detected]]
    /\ UNCHANGED <<call, clone, host, history>>

Decided(d) == draft' = [draft EXCEPT ![d].status = "decided"]

(* proposal_adopt_service_cancel asks for no particular status.             *)
CancelDraft(d) ==
    /\ draft[d].status # "none"
    /\ Decided(d)
    /\ UNCHANGED <<call, clone, host, history>>

(* get_pending finds the draft too old and says so.                         *)
FinalizeLate(d) ==
    /\ draft[d].status = "pending"
    /\ Decided(d)
    /\ UNCHANGED <<call, clone, host, history>>

(* proposal_adopt_service_finalize, up to its first await.                  *)
Finalize(c, d) ==
    /\ draft[d].status = "pending"
    /\ Starts(c, [tool |-> "finalize", on |-> d,
                  at |-> IF draft[d].secrets THEN "checkout" ELSE "branch"])
    /\ UNCHANGED <<draft, clone, host>>

(* Any await of a call may end it with an error.                            *)
Fails(c) ==
    /\ call[c] # Idle
    /\ Ends(c)
    /\ UNCHANGED <<draft, clone, host, history>>

(* write_text and ensure_gitattributes_entry, no await between them.        *)
Written(d, tree) ==
    [tree EXCEPT ![EnvOf[d]] = {d},
                 ![Attrs] = IF HasEntry(@, EnvOf[d]) THEN @ ELSE @ \cup {EnvOf[d]}]

(* git_checkout_branch: the branch as the host has it, else the base.       *)
Upstream(d) == IF remote[d] # <<>> THEN remote[d] ELSE remote[Main]

FinalizeCheckout(c) ==
    /\ At(c, "finalize", "checkout")
    /\ LET d == call[c].on IN
       /\ CheckedOut(d, Upstream(d))
       /\ Goes(c, "check")
    /\ UNCHANGED <<unlocked, draft, host, history>>

(* ensure_unlocked: a clone that does not look locked is taken as it is,    *)
(* and the file is written without another await.                           *)
FinalizeCheck(c) ==
    /\ At(c, "finalize", "check")
    /\ \/ /\ LooksLocked
          /\ Goes(c, "unlock")
          /\ UNCHANGED <<work, misled>>
       \/ /\ LooksUnlocked
          /\ work' = Written(call[c].on, work)
          /\ misled' = IF unlocked THEN misled ELSE misled \cup {call[c].on}
          /\ Goes(c, "add")
    /\ UNCHANGED <<head, local, index, unlocked, draft, host, begun, marred>>

FinalizeUnlock(c) ==
    /\ At(c, "finalize", "unlock")
    /\ Clean
    /\ unlocked' = TRUE
    /\ work' = Written(call[c].on, Configured(TRUE))
    /\ Goes(c, "add")
    /\ UNCHANGED <<head, local, index, draft, host, history>>

(* git_commit_paths: git add, then git diff --cached, then git commit.      *)
FinalizeAdd(c) ==
    /\ At(c, "finalize", "add")
    /\ LET p == EnvOf[call[c].on] IN
       index' = [index EXCEPT ![p] = Filtered(p, work, unlocked), ![Attrs] = work[Attrs]]
    /\ Goes(c, "diff")
    /\ UNCHANGED <<head, local, work, unlocked, draft, host, history>>

FinalizeDiff(c) ==
    /\ At(c, "finalize", "diff")
    /\ Goes(c, IF NothingStaged THEN "push" ELSE "commit")
    /\ UNCHANGED <<clone, draft, host, history>>

FinalizeCommit(c) ==
    /\ At(c, "finalize", "commit")
    /\ CommitIndex
    /\ Goes(c, "push")
    /\ UNCHANGED <<draft, host, history>>

(* Slip: git push --force.                                                  *)
ForcePushes(d) == TRUE

(* git push refuses what is not a fast-forward.                             *)
Pushes(d) == IsPrefix(remote[d], local[d])

FinalizePush(c) ==
    /\ At(c, "finalize", "push")
    /\ LET d == call[c].on IN
       /\ Pushes(d)
       /\ remote' = [remote EXCEPT ![d] = local[d]]
    /\ Goes(c, "compose")
    /\ UNCHANGED <<pr, draft, clone, history>>

(* The host's API: create_branch refuses a branch that exists.              *)
FinalizeBranch(c) ==
    /\ At(c, "finalize", "branch")
    /\ remote[call[c].on] = <<>>
    /\ remote' = [remote EXCEPT ![call[c].on] = remote[Main]]
    /\ Goes(c, "compose") \/ Ends(c)        \* the answer got lost
    /\ UNCHANGED <<pr, draft, clone, history>>

FinalizeCompose(c) ==
    /\ At(c, "finalize", "compose")
    /\ LET d == call[c].on
           tree == [Tip(remote[d]) EXCEPT ![d] = {d}]
       IN remote' = [remote EXCEPT ![d] = IF tree = Tip(@) THEN @ ELSE Append(@, tree)]
    /\ Goes(c, "open") \/ Ends(c)
    /\ UNCHANGED <<pr, draft, clone, history>>

(* open_pr; a second open pull request of one branch is refused.  The rows  *)
(* are written without an await after the answer.                           *)
FinalizeOpen(c) ==
    /\ At(c, "finalize", "open")
    /\ LET d == call[c].on IN
       /\ pr[d] # "open"
       /\ pr' = [pr EXCEPT ![d] = "open"]
       /\ Decided(d) \/ UNCHANGED draft      \* the answer got lost
    /\ Ends(c)
    /\ UNCHANGED <<remote, clone, history>>

-----------------------------------------------------------------------------
(* The secrets_* tools.                                                     *)

(* secrets_encrypt(p), alone or as the first half of secrets_add(p): the    *)
(* entry is written, staged and committed.                                  *)
Encrypt(c, p, tool) ==
    /\ ~ HasEntry(work[Attrs], p)
    /\ Starts(c, [tool |-> tool, on |-> p, at |-> "list"])
    /\ work' = [work EXCEPT ![Attrs] = @ \cup {p}]
    /\ UNCHANGED <<head, local, index, unlocked, draft, host>>

EncryptAdd(c) ==
    /\ \E tool \in {"encrypt", "secrets_add"} : At(c, tool, "list")
    /\ index' = [index EXCEPT ![Attrs] = work[Attrs]]
    /\ Goes(c, "commit list")
    /\ UNCHANGED <<head, local, work, unlocked, draft, host, history>>

EncryptCommit(c) ==
    /\ CommitIndex
    /\ \/ At(c, "encrypt", "commit list") /\ Ends(c)
       \/ At(c, "secrets_add", "commit list") /\ Goes(c, "check")
    /\ UNCHANGED <<draft, host, history>>

(* secrets_add(p), p listed already.                                        *)
SecretsAdd(c, p) ==
    /\ HasEntry(work[Attrs], p)
    /\ Starts(c, [tool |-> "secrets_add", on |-> p, at |-> "check"])
    /\ UNCHANGED <<clone, draft, host>>

(* The file is parsed, the key set and all keys written back; ciphertext    *)
(* does not decode.                                                         *)
WithKey(p, tree) == [tree EXCEPT ![p] = @ \cup {Operator}]
SetsKey(p, tree) == Cipher \notin tree[p] /\ work' = WithKey(p, tree)

SecretsCheck(c) ==
    /\ At(c, "secrets_add", "check")
    /\ \/ LooksLocked /\ Goes(c, "unlock") /\ UNCHANGED work
       \/ LooksUnlocked /\ Goes(c, "add") /\ SetsKey(call[c].on, work)
    /\ UNCHANGED <<head, local, index, unlocked, draft, host, history>>

SecretsUnlock(c) ==
    /\ At(c, "secrets_add", "unlock")
    /\ Clean
    /\ unlocked' = TRUE
    /\ SetsKey(call[c].on, Configured(TRUE))
    /\ Goes(c, "add")
    /\ UNCHANGED <<head, local, index, draft, host, history>>

(* Staged, "but NOT committed".                                             *)
SecretsStage(c) ==
    /\ At(c, "secrets_add", "add")
    /\ LET p == call[c].on IN
       /\ work[p] # {}
       /\ index' = [index EXCEPT ![p] = Filtered(p, work, unlocked)]
    /\ Ends(c)
    /\ UNCHANGED <<head, local, work, unlocked, draft, host, history>>

(* _read_then_relock, for secrets_decrypt and secrets_list_keys: a clone it *)
(* finds locked is unlocked, read and locked again; a failed lock is a      *)
(* warning.                                                                 *)
Read(c, p) ==
    /\ LooksLocked /\ work[p] # {}
    /\ Starts(c, [tool |-> "read", on |-> p, at |-> "unlock"])
    /\ UNCHANGED <<clone, draft, host>>

ReadUnlock(c) ==
    /\ At(c, "read", "unlock")
    /\ Clean
    /\ unlocked' = TRUE
    /\ work' = Configured(TRUE)
    /\ Goes(c, "lock")
    /\ UNCHANGED <<head, local, index, draft, host, history>>

ReadLock(c) ==
    /\ At(c, "read", "lock")
    /\ unlocked' = (unlocked /\ ~ Clean)
    /\ work' = IF Clean THEN Configured(FALSE) ELSE work
    /\ Ends(c)
    /\ UNCHANGED <<head, local, index, draft, host, history>>

-----------------------------------------------------------------------------
(* The operator commits or drops what is staged; a reviewer decides; the    *)
(* server stops between two commands and purges drafts when it starts.      *)
OperatorCommits ==
    /\ Running = {} /\ CommitIndex
    /\ UNCHANGED <<draft, call, host, history>>

Merge(d) ==
    /\ pr[d] = "open"
    /\ pr' = [pr EXCEPT ![d] = "merged"]
    /\ remote' = [remote EXCEPT ![Main] =
          Append(@, [f \in Files |-> IF f = Attrs THEN Tip(@)[f] \cup Tip(remote[d])[f]
                                     ELSE IF Tip(remote[d])[f] = {} THEN Tip(@)[f]
                                     ELSE Tip(remote[d])[f]])]
    /\ UNCHANGED <<draft, call, clone, history>>

Close(d) ==
    /\ pr[d] = "open"
    /\ pr' = [pr EXCEPT ![d] = "closed"]
    /\ UNCHANGED <<remote, draft, call, clone, history>>

(* purge_expired finds some of the pending drafts past their time.          *)
PurgeExpired ==
    \E late \in SUBSET {d \in Drafts : draft[d].status = "pending"} :
        draft' = [d \in Drafts |-> IF d \in late THEN [draft[d] EXCEPT !.status = "decided"]
                                                  ELSE draft[d]]

Restart ==
    /\ call' = [c \in Calls |-> Idle]
    /\ PurgeExpired
    /\ UNCHANGED <<clone, host, history>>

Next ==
    \/ \E d \in Drafts : Adopt(d) \/ CancelDraft(d) \/ FinalizeLate(d)
                         \/ Merge(d) \/ Close(d)
    \/ \E c \in Calls :
          \/ \E d \in Drafts : Finalize(c, d)
          \/ \E p \in ToolPaths : SecretsAdd(c, p) \/ Read(c, p)
                              \/ \E tool \in {"encrypt", "secrets_add"} : Encrypt(c, p, tool)
          \/ FinalizeCheckout(c) \/ FinalizeCheck(c) \/ FinalizeUnlock(c)
          \/ FinalizeAdd(c) \/ FinalizeDiff(c) \/ FinalizeCommit(c) \/ FinalizePush(c)
          \/ FinalizeBranch(c) \/ FinalizeCompose(c) \/ FinalizeOpen(c)
          \/ EncryptAdd(c) \/ EncryptCommit(c)
          \/ SecretsCheck(c) \/ SecretsUnlock(c) \/ SecretsStage(c)
          \/ ReadUnlock(c) \/ ReadLock(c) \/ Fails(c)
    \/ OperatorCommits \/ Restart

Spec == Init /\ [][Next]_vars

-----------------------------------------------------------------------------
(* What the host's base branch has at p, now or at some time.               *)
OfTheBase(blob, p) == \E tree \in ToSet(remote[Main]) : tree[p] = blob

(* The file of the draft, encrypted -- but for a draft whose finalize took  *)
(* the locked clone for unlocked.                                           *)
OwnBlob(blob, d) == blob = {d} \/ (d \in misled /\ blob = {d, Clear})

Exact(d) ==
    /\ draft[d].secrets => OwnBlob(Tip(remote[d])[EnvOf[d]], d)
    /\ \A p \in Paths :
          (draft[d].secrets /\ p = EnvOf[d]) \/ OfTheBase(Tip(remote[d])[p], p)

(* gitcrypt.py:4: "Encryption only happens through a real git commit        *)
(* against a working tree with git-crypt's clean filter configured".  The   *)
(* branch behind a pull request carries its draft's .env and no other       *)
(* change to one, and it carries it encrypted unless is_locked told the     *)
(* finalize that a locked clone was not locked -- after failures, stops,    *)
(* retries that resume the branch, relocks and other people's entries,      *)
(* provided each call for the draft had the clone to itself and found       *)
(* nothing staged.                                                          *)
UndisturbedIsExact ==
    \A d \in Drafts : pr[d] # "none" /\ d \notin marred => Exact(d)

(* What the docstrings say of every finalize: it "git-crypt-encrypts a .env *)
(* in the local homelab clone and pushes it" (tools/adoption.py:11), for    *)
(* which ensure_unlocked is to "unlock the repo if currently locked"        *)
(* (gitcrypt.py:112).  But is_locked sees no lock where no listed file is   *)
(* there yet.                                                               *)
EnvIsEncrypted ==
    \A d \in Drafts : pr[d] # "none" /\ d \notin marred /\ draft[d].secrets =>
        Clear \notin Tip(remote[d])[EnvOf[d]]

(* The compose file goes to the branch through the host's API, behind the   *)
(* clone's back.  However two calls for one draft, or a resumed one, cross, *)
(* no push takes it from under the pull request.                            *)
PullRequestKeepsCompose ==
    \A d \in Drafts : pr[d] # "none" => Tip(remote[d])[d] = {d}

(* tools/adoption.py:307: "two adoptions of the same service ... never      *)
(* collide on one branch".  Nothing of one draft is on the branch of        *)
(* another, unless it was merged into the base.                             *)
NeverOnAnothersBranch ==
    \A d, e \in Drafts : d # e /\ remote[e] # <<>> =>
        \A p \in Paths : d \in Tip(remote[e])[p] => OfTheBase(Tip(remote[e])[p], p)
=============================================================================
