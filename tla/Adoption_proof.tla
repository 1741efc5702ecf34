---------------------------- MODULE Adoption_proof ----------------------------
(***************************************************************************)
(* Proofs about Adoption, for any number of drafts, tool calls and .env    *)
(* files, however the calls interleave between their git commands: a pull  *)
(* request keeps its compose file, and the branch of a draft whose calls   *)
(* had the clone to themselves carries its .env and no other change.       *)
(***************************************************************************)
EXTENDS Adoption, TLAPS

-----------------------------------------------------------------------------
(* Histories of trees                                                       *)

LEMMA PrefixSays ==
    ASSUME NEW S, NEW s \in Seq(S), NEW t \in Seq(S), IsPrefix(s, t)
    PROVE  Len(s) <= Len(t) /\ \A i \in 1..Len(s) : s[i] = t[i]
<1>1. Len(s) <= Len(t) /\ SubSeq(s, 1, Len(s)) = SubSeq(t, 1, Len(s))
  BY DEF IsPrefix
<1>2. ASSUME NEW i \in 1..Len(s) PROVE s[i] = t[i]
  <2>1. SubSeq(s, 1, Len(s))[i] = s[i] /\ SubSeq(t, 1, Len(s))[i] = t[i]
    BY <1>1
  <2> QED BY <1>1, <2>1
<1> QED BY <1>1, <1>2

LEMMA Appended ==
    ASSUME NEW S, NEW s \in Seq(S), NEW e \in S
    PROVE  /\ Append(s, e) \in Seq(S) /\ Append(s, e) # <<>> /\ Tip(Append(s, e)) = e
           /\ ToSet(s) \subseteq ToSet(Append(s, e))
<1>1. /\ Append(s, e) \in Seq(S) /\ Len(Append(s, e)) = Len(s) + 1
      /\ Append(s, e)[Len(s) + 1] = e /\ \A i \in 1..Len(s) : Append(s, e)[i] = s[i]
  OBVIOUS
<1>2. Len(s) \in Nat /\ DOMAIN s = 1..Len(s) /\ DOMAIN Append(s, e) = 1..(Len(s) + 1)
  BY <1>1
<1> QED BY <1>1, <1>2 DEF Tip, Last, ToSet

LEMMA TipIsIn ==
    ASSUME NEW S, NEW s \in Seq(S), s # <<>>
    PROVE  /\ Len(s) \in Nat /\ Len(s) >= 1 /\ DOMAIN s = 1..Len(s)
           /\ Tip(s) = s[Len(s)] /\ Tip(s) \in S /\ Tip(s) \in ToSet(s)
BY DEF Tip, Last, ToSet

-----------------------------------------------------------------------------
(* Tool calls                                                               *)

LEMMA CallTypes ==
    ASSUME TypeOK, NEW c \in Calls, call[c] # Idle
    PROVE  /\ call[c].tool \in {"finalize", "encrypt", "secrets_add", "read"}
           /\ call[c].tool = "finalize" => call[c].at \in Finalizing /\ call[c].on \in Drafts
           /\ call[c].tool \in {"encrypt", "secrets_add"} =>
                 call[c].at \in Securing /\ call[c].on \in Paths
           /\ call[c].tool = "read" => call[c].at \in {"unlock", "lock"} /\ call[c].on \in Paths
BY DEF TypeOK, Call

LEMMA Steps ==
    ASSUME TypeOK, NEW c \in Calls, NEW next \in Call, Step(c, next)
    PROVE  /\ call' \in [Calls -> Call]
           /\ \A x \in Calls : call'[x] = IF x = c THEN next ELSE call[x]
BY DEF TypeOK, Step

LEMMA GoesTypes ==
    ASSUME TypeOK, NEW c \in Calls, call[c] # Idle, NEW at, Goes(c, at),
           \/ call[c].tool = "finalize" /\ at \in Finalizing
           \/ call[c].tool \in {"encrypt", "secrets_add"} /\ at \in Securing
           \/ call[c].tool = "read" /\ at \in {"unlock", "lock"}
    PROVE  /\ call' \in [Calls -> Call]
           /\ \A x \in Calls : x # c => call'[x] = call[x]
           /\ call'[c] # Idle /\ call'[c].at = at
           /\ call'[c].tool = call[c].tool /\ call'[c].on = call[c].on
<1> DEFINE next == [call[c] EXCEPT !.at = at]
<1>1. call[c] \in Call
  BY DEF TypeOK
<1>2. next \in Call /\ next # Idle /\ next.at = at /\ next.tool = call[c].tool /\ next.on = call[c].on
  BY <1>1 DEF Call, Idle
<1> HIDE DEF next
<1> QED BY <1>2, Steps DEF Goes, next

LEMMA EndsTypes ==
    ASSUME TypeOK, NEW c \in Calls, Ends(c)
    PROVE  call' \in [Calls -> Call] /\ \A x \in Calls : call'[x] = IF x = c THEN Idle ELSE call[x]
<1>1. Idle \in Call
  BY DEF Call
<1> QED BY <1>1, Steps DEF Ends

-----------------------------------------------------------------------------
(* The clone                                                                *)

Blobs == Writers \cup Paths \cup {Clear, Cipher}

LEMMA FileKinds ==
    /\ Paths \subseteq Files /\ Attrs \in Files /\ Drafts \subseteq Files
    /\ \A d \in Drafts : EnvOf[d] \in Paths /\ d \notin Paths /\ d # Attrs
    /\ Attrs \notin Paths /\ Main \in Branches /\ Main \notin Drafts /\ Drafts \subseteq Branches
    /\ ToolPaths \subseteq Paths /\ Listed \subseteq Paths
BY DraftAssumption DEF Files, Branches

LEMMA HeadTypes ==
    ASSUME TypeOK
    PROVE  /\ head \in Branches /\ local[head] \in Seq(Tree) /\ local[head] # <<>>
           /\ HeadTree \in Tree
BY TipIsIn DEF TypeOK, HeadTree

LEMMA TreeTypes ==
    ASSUME NEW tree \in Tree
    PROVE  /\ tree \in [Files -> SUBSET Blobs] /\ \A f \in Files : tree[f] \subseteq Blobs
           /\ \A f \in Files, v \in SUBSET Blobs : [tree EXCEPT ![f] = v] \in Tree
BY DEF Tree, Blobs

LEMMA UpstreamTypes ==
    ASSUME TypeOK, NEW d \in Drafts
    PROVE  Upstream(d) \in Seq(Tree) /\ Upstream(d) # <<>>
BY FileKinds DEF TypeOK, Upstream

LEMMA SmudgedTypes ==
    ASSUME NEW tree \in Tree, NEW f \in Files, NEW on
    PROVE  Smudged(tree, f, on) \subseteq Blobs
BY TreeTypes DEF Smudged, Plain, Blobs

LEMMA ConfiguredTypes == ASSUME TypeOK, NEW on PROVE Configured(on) \in Tree
<1>1. \A f \in Files : work[f] \subseteq Blobs /\ Smudged(index, f, on) \subseteq Blobs
  BY TreeTypes, SmudgedTypes DEF TypeOK
<1>2. Configured(on) \in [Files -> SUBSET Blobs]
  BY <1>1 DEF Configured
<1> QED BY <1>2 DEF Tree, Blobs

(* A checkout leaves what was staged, and what was not is as checked out.   *)
LEMMA Checkouts ==
    ASSUME TypeOK, NEW b \in Branches, NEW commits \in Seq(Tree), commits # <<>>,
           CheckedOut(b, commits)
    PROVE  /\ head' = b /\ local' \in [Branches -> Seq(Tree)] /\ local'[b] = commits
           /\ index' \in Tree /\ work' \in Tree
           /\ \A f \in Files : index[f] = HeadTree[f] => index'[f] = Tip(commits)[f]
           /\ \A x \in Branches : x # b => local'[x] \in {local[x], <<>>}
           /\ \A d \in FinalizedBy(Calls) : d # b /\ d \in Branches => local'[d] = local[d]
<1>1. Tip(commits) \in Tree /\ index \in Tree /\ work \in Tree /\ local \in [Branches -> Seq(Tree)]
  BY TipIsIn DEF TypeOK
<1>2. \A f \in Files : /\ Tip(commits)[f] \subseteq Blobs /\ index[f] \subseteq Blobs
                       /\ work[f] \subseteq Blobs
                       /\ Smudged(Tip(commits), f, unlocked) \subseteq Blobs
  BY <1>1, TreeTypes, SmudgedTypes
<1>3. index' \in Tree /\ work' \in Tree
  <2>1. index' \in [Files -> SUBSET Blobs] /\ work' \in [Files -> SUBSET Blobs]
    BY <1>2 DEF CheckedOut
  <2> QED BY <2>1 DEF Tree, Blobs
<1>4. local' \in [Branches -> Seq(Tree)]
  <2>1. <<>> \in Seq(Tree)
    OBVIOUS
  <2> QED BY <1>1, <2>1 DEF CheckedOut
<1>5. \A f \in Files : index[f] = HeadTree[f] => index'[f] = Tip(commits)[f]
  BY DEF CheckedOut, Kept
<1> QED BY <1>3, <1>4, <1>5 DEF CheckedOut

LEMMA Commits ==
    ASSUME TypeOK, CommitIndex
    PROVE  /\ local' \in [Branches -> Seq(Tree)] /\ UNCHANGED <<head, index, work, unlocked>>
           /\ local'[head] = Append(local[head], index) /\ local'[head] # <<>>
           /\ Tip(local'[head]) = index
           /\ \A b \in Branches : b # head => local'[b] = local[b]
<1>1. index \in Tree /\ local \in [Branches -> Seq(Tree)] /\ head \in Branches
  BY DEF TypeOK
<1>2. Append(local[head], index) \in Seq(Tree) /\ Append(local[head], index) # <<>>
      /\ Tip(Append(local[head], index)) = index
  BY <1>1, Appended
<1> QED BY <1>1, <1>2 DEF CommitIndex

-----------------------------------------------------------------------------
(* What a step does to the clone's branches and index, and to the host's.   *)

Touches ==      \* files of the index that are no compose files
    /\ UNCHANGED <<head, local>>
    /\ \A d \in Drafts : index'[d] = index[d]

LEMMA CloneSteps ==
    ASSUME TypeOK, [Next]_vars
    PROVE  \/ Touches
           \/ CommitIndex
           \/ \E d \in Drafts : CheckedOut(d, Upstream(d))
<1> USE DEF clone, host, history
<1>1. ASSUME UNCHANGED <<head, local, index>> PROVE Touches
  BY <1>1 DEF Touches
<1>2. ASSUME NEW d \in Drafts,
             Adopt(d) \/ CancelDraft(d) \/ FinalizeLate(d) \/ Merge(d) \/ Close(d)
      PROVE  Touches
  BY <1>1, <1>2 DEF Adopt, CancelDraft, FinalizeLate, Merge, Close
<1>3. ASSUME NEW c \in Calls, NEW d \in Drafts, Finalize(c, d) PROVE Touches
  BY <1>1, <1>3 DEF Finalize
<1>4. ASSUME NEW c \in Calls, NEW p \in ToolPaths,
             SecretsAdd(c, p) \/ Read(c, p) \/ \E t \in {"encrypt", "secrets_add"} : Encrypt(c, p, t)
      PROVE  Touches
  BY <1>1, <1>4 DEF SecretsAdd, Read, Encrypt
<1>5. ASSUME NEW c \in Calls,
             \/ FinalizeCheck(c) \/ FinalizeUnlock(c) \/ FinalizeDiff(c)
             \/ FinalizePush(c) \/ FinalizeBranch(c) \/ FinalizeCompose(c) \/ FinalizeOpen(c)
             \/ SecretsCheck(c) \/ SecretsUnlock(c) \/ ReadUnlock(c) \/ ReadLock(c) \/ Fails(c)
      PROVE  Touches
  BY <1>1, <1>5 DEF FinalizeCheck, FinalizeUnlock, FinalizeDiff, FinalizePush, FinalizeBranch,
                    FinalizeCompose, FinalizeOpen, SecretsCheck, SecretsUnlock, ReadUnlock,
                    ReadLock, Fails
<1>6. ASSUME NEW c \in Calls, FinalizeAdd(c) \/ EncryptAdd(c) \/ SecretsStage(c) PROVE Touches
  <2>1. call[c] # Idle /\ (FinalizeAdd(c) => EnvOf[call[c].on] \in Paths)
        /\ (SecretsStage(c) => call[c].on \in Paths)
    BY <1>6, CallTypes, FileKinds DEF FinalizeAdd, EncryptAdd, SecretsStage, At
  <2>2. ASSUME NEW p \in Paths, NEW v, NEW w,
               \/ index' = [index EXCEPT ![p] = v, ![Attrs] = w]
               \/ index' = [index EXCEPT ![p] = v]
               \/ index' = [index EXCEPT ![Attrs] = w]
        PROVE  \A d \in Drafts : index'[d] = index[d]
    BY <2>2, FileKinds DEF TypeOK, Tree
  <2>3. \A d \in Drafts : index'[d] = index[d]
    <3>1. CASE FinalizeAdd(c)
      BY <2>1, <2>2, <3>1 DEF FinalizeAdd
    <3>2. CASE EncryptAdd(c)
      BY <3>2, FileKinds DEF EncryptAdd, TypeOK, Tree
    <3>3. CASE SecretsStage(c)
      BY <2>1, <2>2, <3>3 DEF SecretsStage
    <3> QED BY <1>6, <3>1, <3>2, <3>3
  <2> QED BY <1>6, <2>3 DEF Touches, FinalizeAdd, EncryptAdd, SecretsStage
<1>7. ASSUME NEW c \in Calls, FinalizeCommit(c) \/ EncryptCommit(c) PROVE CommitIndex
  BY <1>7 DEF FinalizeCommit, EncryptCommit
<1>8. ASSUME NEW c \in Calls, FinalizeCheckout(c)
      PROVE  \E d \in Drafts : CheckedOut(d, Upstream(d))
  BY <1>8, CallTypes DEF FinalizeCheckout, At
<1>9. ASSUME OperatorCommits PROVE CommitIndex
  BY <1>9 DEF OperatorCommits
<1>10. ASSUME Restart \/ UNCHANGED vars PROVE Touches
  BY <1>1, <1>10 DEF Restart, vars
<1> QED
  BY <1>2, <1>3, <1>4, <1>5, <1>6, <1>7, <1>8, <1>9, <1>10 DEF Next

LEMMA HostSteps ==
    ASSUME TypeOK, [Next]_vars
    PROVE  \/ UNCHANGED remote
           \/ \E c \in Calls : FinalizePush(c) \/ FinalizeBranch(c) \/ FinalizeCompose(c)
           \/ \E d \in Drafts : Merge(d)
<1> USE DEF clone, host, history
<1>1. ASSUME NEW d \in Drafts,
             Adopt(d) \/ CancelDraft(d) \/ FinalizeLate(d) \/ Close(d)
      PROVE  UNCHANGED remote
  BY <1>1 DEF Adopt, CancelDraft, FinalizeLate, Close
<1>2. ASSUME NEW c \in Calls, NEW d \in Drafts, Finalize(c, d) PROVE UNCHANGED remote
  BY <1>2 DEF Finalize
<1>3. ASSUME NEW c \in Calls, NEW p \in ToolPaths,
             SecretsAdd(c, p) \/ Read(c, p) \/ \E t \in {"encrypt", "secrets_add"} : Encrypt(c, p, t)
      PROVE  UNCHANGED remote
  BY <1>3 DEF SecretsAdd, Read, Encrypt
<1>4. ASSUME NEW c \in Calls,
             \/ FinalizeCheckout(c) \/ FinalizeCheck(c) \/ FinalizeUnlock(c) \/ FinalizeAdd(c)
             \/ FinalizeDiff(c) \/ FinalizeCommit(c) \/ FinalizeOpen(c) \/ EncryptAdd(c)
             \/ EncryptCommit(c) \/ SecretsCheck(c) \/ SecretsUnlock(c) \/ SecretsStage(c)
             \/ ReadUnlock(c) \/ ReadLock(c) \/ Fails(c)
      PROVE  UNCHANGED remote
  BY <1>4 DEF FinalizeCheckout, FinalizeCheck, FinalizeUnlock, FinalizeAdd, FinalizeDiff,
              FinalizeCommit, FinalizeOpen, EncryptAdd, EncryptCommit, SecretsCheck,
              SecretsUnlock, SecretsStage, ReadUnlock, ReadLock, Fails
<1>5. ASSUME OperatorCommits \/ Restart \/ UNCHANGED vars PROVE UNCHANGED remote
  BY <1>5 DEF OperatorCommits, Restart, vars
<1> QED
  BY <1>1, <1>2, <1>3, <1>4, <1>5 DEF Next

(* Nothing is taken from the host: a push is refused unless it adds to what *)
(* the host has, and its own commits come on top.                           *)
LEMMA PushGrows ==
    ASSUME TypeOK, NEW c \in Calls, FinalizePush(c)
    PROVE  /\ remote' \in [Branches -> Seq(Tree)]
           /\ \A b \in Branches : /\ Len(remote[b]) <= Len(remote'[b])
                                  /\ \A i \in 1..Len(remote[b]) : remote'[b][i] = remote[b][i]
<1>1. PICK d \in Drafts : d = call[c].on /\ d \in Branches
  BY CallTypes, FileKinds DEF FinalizePush, At
<1>2. local[d] \in Seq(Tree) /\ remote \in [Branches -> Seq(Tree)]
  BY <1>1 DEF TypeOK
<1>3. Len(remote[d]) <= Len(local[d]) /\ \A i \in 1..Len(remote[d]) : local[d][i] = remote[d][i]
  BY <1>1, <1>2, PrefixSays DEF FinalizePush, Pushes
<1>4. \A b \in Branches : Len(remote[b]) \in Nat
  BY <1>2
<1> QED BY <1>1, <1>2, <1>3, <1>4 DEF FinalizePush

LEMMA AppendGrows ==
    ASSUME TypeOK, NEW b \in Branches, NEW tree \in Tree,
           remote' = [remote EXCEPT ![b] = Append(@, tree)]
    PROVE  /\ remote' \in [Branches -> Seq(Tree)]
           /\ \A x \in Branches : /\ Len(remote[x]) <= Len(remote'[x])
                                  /\ \A i \in 1..Len(remote[x]) : remote'[x][i] = remote[x][i]
           /\ Tip(remote'[b]) = tree
<1>1. remote \in [Branches -> Seq(Tree)] /\ \A x \in Branches : Len(remote[x]) \in Nat
  BY DEF TypeOK
<1>2. /\ Append(remote[b], tree) \in Seq(Tree) /\ Len(Append(remote[b], tree)) = Len(remote[b]) + 1
      /\ \A i \in 1..Len(remote[b]) : Append(remote[b], tree)[i] = remote[b][i]
      /\ Tip(Append(remote[b], tree)) = tree
  BY <1>1, Appended
<1> QED BY <1>1, <1>2

LEMMA ComposeTree ==
    ASSUME TypeOK, NEW c \in Calls, FinalizeCompose(c)
    PROVE  \E d \in Drafts, tree \in Tree :
              /\ d = call[c].on /\ d \in Branches /\ remote[d] # <<>>
              /\ tree = [Tip(remote[d]) EXCEPT ![d] = {d}]
              /\ Tip(remote'[d]) = tree
              /\ \/ tree = Tip(remote[d]) /\ UNCHANGED remote
                 \/ remote' = [remote EXCEPT ![d] = Append(@, tree)]
<1>1. PICK d \in Drafts : d = call[c].on /\ d \in Branches /\ d \in Files
  BY CallTypes, FileKinds DEF FinalizeCompose, At
<1>2. remote[d] # <<>> /\ remote[d] \in Seq(Tree)
  BY <1>1 DEF TypeOK, FinalizeCompose, At
<1>3. PICK tree \in Tree : tree = [Tip(remote[d]) EXCEPT ![d] = {d}]
  <2>1. Tip(remote[d]) \in Tree
    BY <1>2, TipIsIn
  <2>2. {d} \in SUBSET Blobs
    BY <1>1 DEF Blobs, Writers
  <2> QED BY <1>1, <2>1, <2>2, TreeTypes
<1>4. remote' = [remote EXCEPT ![d] = IF tree = Tip(remote[d]) THEN remote[d]
                                      ELSE Append(remote[d], tree)]
  BY <1>1, <1>3 DEF FinalizeCompose
<1>5. CASE tree = Tip(remote[d])
  BY <1>1, <1>2, <1>3, <1>4, <1>5 DEF TypeOK
<1>6. CASE tree # Tip(remote[d])
  BY <1>1, <1>2, <1>3, <1>4, <1>6, AppendGrows
<1> QED BY <1>5, <1>6

Merged(d) == [f \in Files |-> IF f = Attrs THEN Tip(remote[Main])[f] \cup Tip(remote[d])[f]
                              ELSE IF Tip(remote[d])[f] = {} THEN Tip(remote[Main])[f]
                              ELSE Tip(remote[d])[f]]

LEMMA MergedTree ==
    ASSUME TypeOK, NEW d \in Drafts, Merge(d)
    PROVE  /\ Merged(d) \in Tree /\ remote[d] # <<>> /\ remote[Main] # <<>>
           /\ remote' = [remote EXCEPT ![Main] = Append(@, Merged(d))]
<1>1. remote[d] # <<>> /\ remote[Main] # <<>> /\ remote[d] \in Seq(Tree) /\ remote[Main] \in Seq(Tree)
  BY FileKinds DEF Merge, TypeOK
<1>2. Tip(remote[d]) \in [Files -> SUBSET Blobs] /\ Tip(remote[Main]) \in [Files -> SUBSET Blobs]
  BY <1>1, TipIsIn, TreeTypes
<1>3. Merged(d) \in [Files -> SUBSET Blobs]
  BY <1>2 DEF Merged
<1>4. Main \in Branches /\ remote \in [Branches -> Seq(Tree)]
  BY FileKinds DEF TypeOK
<1> QED BY <1>1, <1>3, <1>4 DEF Merge, Merged, Tree, Blobs

LEMMA HostGrows ==
    ASSUME TypeOK, [Next]_vars
    PROVE  /\ remote' \in [Branches -> Seq(Tree)]
           /\ \A b \in Branches : /\ Len(remote[b]) <= Len(remote'[b])
                                  /\ \A i \in 1..Len(remote[b]) : remote'[b][i] = remote[b][i]
<1>1. remote \in [Branches -> Seq(Tree)] /\ \A b \in Branches : Len(remote[b]) \in Nat
  BY DEF TypeOK
<1>2. CASE UNCHANGED remote
  BY <1>1, <1>2
<1>3. ASSUME NEW c \in Calls, FinalizeBranch(c)
      PROVE  /\ remote' \in [Branches -> Seq(Tree)]
             /\ \A b \in Branches : /\ Len(remote[b]) <= Len(remote'[b])
                                    /\ \A i \in 1..Len(remote[b]) : remote'[b][i] = remote[b][i]
  <2>1. PICK d \in Drafts : d = call[c].on
    BY <1>3, CallTypes DEF FinalizeBranch, At
  <2>2. /\ remote[d] = <<>> /\ remote' = [remote EXCEPT ![d] = remote[Main]]
        /\ Main \in Branches /\ d \in Branches
    BY <1>3, <2>1, FileKinds DEF FinalizeBranch
  <2> QED BY <1>1, <2>2
<1>4. ASSUME NEW c \in Calls, FinalizeCompose(c)
      PROVE  /\ remote' \in [Branches -> Seq(Tree)]
             /\ \A b \in Branches : /\ Len(remote[b]) <= Len(remote'[b])
                                    /\ \A i \in 1..Len(remote[b]) : remote'[b][i] = remote[b][i]
  BY <1>2, <1>4, ComposeTree, AppendGrows
<1>5. ASSUME NEW d \in Drafts, Merge(d)
      PROVE  /\ remote' \in [Branches -> Seq(Tree)]
             /\ \A b \in Branches : /\ Len(remote[b]) <= Len(remote'[b])
                                    /\ \A i \in 1..Len(remote[b]) : remote'[b][i] = remote[b][i]
  BY <1>5, MergedTree, AppendGrows, FileKinds
<1> QED BY <1>2, <1>3, <1>4, <1>5, HostSteps, PushGrows

LEMMA HostKeeps ==
    ASSUME TypeOK, [Next]_vars, NEW b \in Branches
    PROVE  /\ remote[b] # <<>> => remote'[b] # <<>>
           /\ ToSet(remote[b]) \subseteq ToSet(remote'[b])
<1>1. /\ remote[b] \in Seq(Tree) /\ remote'[b] \in Seq(Tree)
      /\ Len(remote[b]) <= Len(remote'[b])
      /\ \A i \in 1..Len(remote[b]) : remote'[b][i] = remote[b][i]
  BY HostGrows DEF TypeOK
<1> QED BY <1>1 DEF ToSet

-----------------------------------------------------------------------------
(* Types                                                                    *)

ClonePlaces == {"check", "unlock", "add", "diff", "commit", "push"}
USE DEF ClonePlaces

(* A finalize call between its checkout and its push has a branch here.     *)
InClone(c) ==
    call[c] # Idle /\ call[c].tool = "finalize" /\ call[c].at \in ClonePlaces
CloneInv == \A c \in Calls : InClone(c) => local[call[c].on] # <<>>

(* A call that is past its branch's creation at the host.                   *)
AtHost(c) == call[c] # Idle /\ call[c].at \in {"compose", "open"}

LEMMA InitTypes == Init => TypeOK /\ CloneInv
<1> SUFFICES ASSUME Init PROVE TypeOK /\ CloneInv
  OBVIOUS
<1>1. index \in Tree /\ work \in Tree
  <2>1. PICK listed \in SUBSET Listed :
            index = [f \in Files |-> IF f = Attrs THEN listed
                                    ELSE IF f \in listed THEN {Operator} ELSE {}]
    BY DEF Init
  <2>2. index \in [Files -> SUBSET Blobs]
    BY <2>1, FileKinds DEF Blobs, Writers
  <2>3. index \in Tree
    BY <2>2 DEF Tree, Blobs
  <2>4. work \in [Files -> SUBSET Blobs]
    BY <2>3, SmudgedTypes DEF Init
  <2> QED BY <2>3, <2>4 DEF Tree, Blobs
<1>2. /\ local \in [Branches -> Seq(Tree)] /\ remote \in [Branches -> Seq(Tree)]
      /\ local[head] # <<>> /\ remote[Main] # <<>> /\ head \in Branches
  <2>1. <<index>> \in Seq(Tree) /\ <<>> \in Seq(Tree) /\ <<index>> # <<>> /\ Main \in Branches
    BY <1>1, FileKinds
  <2>2. PICK one : one = <<index>>
    OBVIOUS
  <2>3. local = [b \in Branches |-> IF b = Main THEN one ELSE <<>>] /\ remote = local /\ head = Main
    BY <2>2 DEF Init
  <2> QED BY <2>1, <2>2, <2>3
<1>3. call \in [Calls -> Call] /\ \A c \in Calls : call[c] = Idle
  BY DEF Init, Call
<1> QED BY <1>1, <1>2, <1>3, DraftAssumption DEF Init, TypeOK, CloneInv, InClone, Statuses

LEMMA StartTypes ==
    ASSUME TypeOK, NEW c \in Calls, NEW next \in Call, Starts(c, next),
           next.at \notin {"compose", "open"}, ~ (next.tool = "finalize" /\ next.at \in ClonePlaces),
           next # Idle, next.tool = "finalize" => next.on \in Drafts
    PROVE  /\ call' \in [Calls -> Call] /\ begun' \in 0..MaxCalls /\ marred' \subseteq Drafts /\ misled' \subseteq Drafts
           /\ \A x \in Calls : call'[x] = IF x = c THEN next ELSE call[x]
           /\ ~ AtHost(c)' /\ ~ InClone(c)'
<1>1. call' \in [Calls -> Call] /\ \A x \in Calls : call'[x] = IF x = c THEN next ELSE call[x]
  BY Steps DEF Starts
<1>2. begun' \in 0..MaxCalls
  BY DraftAssumption DEF Starts, TypeOK
<1>3. FinalizedBy(Running) \subseteq Drafts
  BY CallTypes DEF FinalizedBy, Running
<1>4. marred' \subseteq Drafts /\ misled' \subseteq Drafts
  BY <1>3 DEF Starts, TypeOK
<1>5. ~ AtHost(c)' /\ ~ InClone(c)'
  BY <1>1 DEF AtHost, InClone
<1> QED BY <1>1, <1>2, <1>4, <1>5

(* What is left to show of a step whose trees are of their type.            *)
LEMMA TypesFrom ==
    ASSUME TypeOK, CloneInv, [Next]_vars,
           draft' \in [Drafts -> [status : Statuses, secrets : BOOLEAN]],
           call' \in [Calls -> Call], unlocked' \in BOOLEAN, index' \in Tree, work' \in Tree,
           pr' \in [Drafts -> {"none", "open", "closed", "merged"}],
           \A d \in Drafts : pr'[d] = pr[d] \/ remote[d] # <<>>,
           \A c \in Calls : AtHost(c)' => \/ AtHost(c) /\ call'[c].on = call[c].on
                                          \/ remote'[call'[c].on] # <<>>,
           \A c \in Calls : InClone(c)' => \/ InClone(c) /\ call'[c].on = call[c].on
                                           \/ local'[call'[c].on] # <<>>,
           begun' \in 0..MaxCalls, marred' \subseteq Drafts, misled' \subseteq Drafts
    PROVE  TypeOK' /\ CloneInv'
<1>1. /\ head' \in Branches /\ local' \in [Branches -> Seq(Tree)] /\ local'[head'] # <<>>
      /\ \A c \in Calls : InClone(c) => local'[call[c].on] # <<>>
  <2>1. \A c \in Calls : InClone(c) => call[c].on \in Drafts /\ call[c].on \in Branches
                                       /\ call[c].on \in FinalizedBy(Calls)
    BY CallTypes, FileKinds DEF InClone, FinalizedBy
  <2>2. CASE Touches
    BY <2>2 DEF Touches, TypeOK, CloneInv
  <2>3. CASE CommitIndex
    BY <2>1, <2>3, Commits DEF TypeOK, CloneInv
  <2>4. ASSUME NEW d \in Drafts, CheckedOut(d, Upstream(d))
        PROVE  /\ head' \in Branches /\ local' \in [Branches -> Seq(Tree)] /\ local'[head'] # <<>>
               /\ \A c \in Calls : InClone(c) => local'[call[c].on] # <<>>
    <3>1. d \in Branches /\ Upstream(d) \in Seq(Tree) /\ Upstream(d) # <<>>
      BY FileKinds, UpstreamTypes
    <3> QED BY <2>1, <2>4, <3>1, Checkouts DEF CloneInv
  <2> QED BY <2>2, <2>3, <2>4, CloneSteps
<1>2. remote' \in [Branches -> Seq(Tree)] /\ remote'[Main] # <<>>
  BY HostGrows, HostKeeps, FileKinds DEF TypeOK
<1>3. \A d \in Drafts : pr'[d] # "none" => remote'[d] # <<>>
  BY HostKeeps, FileKinds DEF TypeOK
<1>4. ASSUME NEW c \in Calls, AtHost(c)' PROVE remote'[call'[c].on] # <<>>
  <2>1. CASE AtHost(c) /\ call'[c].on = call[c].on
    <3>1. remote[call[c].on] # <<>>
      BY <2>1 DEF TypeOK, AtHost
    <3>2. call[c].on \in Branches
      <4>1. call[c].tool = "finalize"
        BY <2>1, CallTypes DEF AtHost, Securing
      <4> QED BY <2>1, <4>1, CallTypes, FileKinds DEF AtHost
    <3> QED BY <2>1, <3>1, <3>2, HostKeeps
  <2> QED BY <1>4, <2>1
<1>5. CloneInv'
  BY <1>1 DEF CloneInv
<1>6. \A c \in Calls : call'[c] # Idle /\ call'[c].at \in {"compose", "open"} => remote'[call'[c].on] # <<>>
  BY <1>4 DEF AtHost
<1> QED BY <1>1, <1>2, <1>3, <1>5, <1>6 DEF TypeOK

(* Steps of no call, and those that end one.                                *)
LEMMA DraftTypes ==
    ASSUME TypeOK, CloneInv, [Next]_vars, UNCHANGED <<clone, history>>,
           \A c \in Calls : call'[c] = call[c] \/ call'[c] = Idle, call' \in [Calls -> Call],
           draft' \in [Drafts -> [status : Statuses, secrets : BOOLEAN]],
           pr' \in [Drafts -> {"none", "open", "closed", "merged"}],
           \A d \in Drafts : pr'[d] = pr[d] \/ remote[d] # <<>>
    PROVE  TypeOK' /\ CloneInv'
<1>1. \A c \in Calls : /\ AtHost(c)' => AtHost(c) /\ call'[c].on = call[c].on
                       /\ InClone(c)' => InClone(c) /\ call'[c].on = call[c].on
  BY DEF AtHost, InClone
<1>2. index' \in Tree /\ work' \in Tree /\ unlocked' \in BOOLEAN /\ begun' \in 0..MaxCalls
      /\ marred' \subseteq Drafts /\ misled' \subseteq Drafts
  BY DEF TypeOK, clone, history
<1> QED BY <1>1, <1>2, TypesFrom

(* Steps of a call within the clone, or at the host.                        *)
LEMMA MovingTypes ==
    ASSUME TypeOK, CloneInv, [Next]_vars, UNCHANGED <<draft, pr, begun, marred>>,
           misled' \subseteq Drafts, NEW c \in Calls, call[c] # Idle, NEW at, Goes(c, at),
           \/ call[c].tool = "finalize" /\ at \in Finalizing
           \/ call[c].tool \in {"encrypt", "secrets_add"} /\ at \in Securing
           \/ call[c].tool = "read" /\ at \in {"unlock", "lock"},
           index' \in Tree, work' \in Tree, unlocked' \in BOOLEAN,
           AtHost(c) \/ at \notin {"compose", "open"} \/ remote'[call[c].on] # <<>>,
           \/ InClone(c)
           \/ at \notin ClonePlaces \/ call[c].tool # "finalize"
           \/ local'[call[c].on] # <<>>
    PROVE  TypeOK' /\ CloneInv'
<1>1. /\ call' \in [Calls -> Call] /\ call'[c].on = call[c].on /\ call'[c].tool = call[c].tool
      /\ call'[c] # Idle /\ call'[c].at = at
      /\ \A x \in Calls : x # c => call'[x] = call[x]
  BY GoesTypes
<1>2. \A x \in Calls : /\ AtHost(x)' => \/ AtHost(x) /\ call'[x].on = call[x].on
                                        \/ remote'[call'[x].on] # <<>>
                       /\ InClone(x)' => \/ InClone(x) /\ call'[x].on = call[x].on
                                         \/ local'[call'[x].on] # <<>>
  BY <1>1 DEF AtHost, InClone
<1>3. draft' \in [Drafts -> [status : Statuses, secrets : BOOLEAN]]
      /\ pr' \in [Drafts -> {"none", "open", "closed", "merged"}] /\ begun' \in 0..MaxCalls
      /\ marred' \subseteq Drafts /\ misled' \subseteq Drafts /\ \A d \in Drafts : pr'[d] = pr[d]
  BY DEF TypeOK, history
<1> QED BY <1>1, <1>2, <1>3, TypesFrom

LEMMA MoveTypes ==
    ASSUME TypeOK, CloneInv, [Next]_vars, UNCHANGED <<draft, pr, history>>,
           NEW c \in Calls, call[c] # Idle, NEW at, Goes(c, at),
           \/ call[c].tool = "finalize" /\ at \in Finalizing
           \/ call[c].tool \in {"encrypt", "secrets_add"} /\ at \in Securing
           \/ call[c].tool = "read" /\ at \in {"unlock", "lock"},
           index' \in Tree, work' \in Tree, unlocked' \in BOOLEAN,
           AtHost(c) \/ at \notin {"compose", "open"} \/ remote'[call[c].on] # <<>>,
           \/ InClone(c)
           \/ at \notin ClonePlaces \/ call[c].tool # "finalize"
           \/ local'[call[c].on] # <<>>
    PROVE  TypeOK' /\ CloneInv'
<1>1. UNCHANGED <<draft, pr, begun, marred>> /\ misled' \subseteq Drafts
  BY DEF history, TypeOK
<1> QED BY <1>1, MovingTypes

LEMMA EndTypes ==
    ASSUME TypeOK, CloneInv, [Next]_vars, UNCHANGED <<draft, pr, history>>,
           NEW c \in Calls, Ends(c), index' \in Tree, work' \in Tree, unlocked' \in BOOLEAN
    PROVE  TypeOK' /\ CloneInv'
<1>1. call' \in [Calls -> Call] /\ \A x \in Calls : call'[x] = IF x = c THEN Idle ELSE call[x]
  BY EndsTypes
<1>2. \A x \in Calls : /\ AtHost(x)' => AtHost(x) /\ call'[x].on = call[x].on
                       /\ InClone(x)' => InClone(x) /\ call'[x].on = call[x].on
  BY <1>1 DEF AtHost, InClone
<1>3. draft' \in [Drafts -> [status : Statuses, secrets : BOOLEAN]]
      /\ pr' \in [Drafts -> {"none", "open", "closed", "merged"}] /\ begun' \in 0..MaxCalls
      /\ marred' \subseteq Drafts /\ misled' \subseteq Drafts /\ \A d \in Drafts : pr'[d] = pr[d]
  BY DEF TypeOK, history
<1> QED BY <1>1, <1>2, <1>3, TypesFrom

LEMMA BeginTypes ==
    ASSUME TypeOK, CloneInv, [Next]_vars, UNCHANGED <<draft, pr>>,
           NEW c \in Calls, NEW next \in Call, Starts(c, next),
           next.at \notin {"compose", "open"},
           ~ (next.tool = "finalize" /\ next.at \in ClonePlaces),
           next # Idle, next.tool = "finalize" => next.on \in Drafts,
           index' \in Tree, work' \in Tree, unlocked' \in BOOLEAN
    PROVE  TypeOK' /\ CloneInv'
<1>1. /\ call' \in [Calls -> Call] /\ begun' \in 0..MaxCalls /\ marred' \subseteq Drafts /\ misled' \subseteq Drafts
      /\ \A x \in Calls : call'[x] = IF x = c THEN next ELSE call[x]
      /\ ~ AtHost(c)' /\ ~ InClone(c)'
  BY StartTypes
<1>2. \A x \in Calls : /\ AtHost(x)' => AtHost(x) /\ call'[x].on = call[x].on
                       /\ InClone(x)' => InClone(x) /\ call'[x].on = call[x].on
  BY <1>1 DEF AtHost, InClone
<1>3. draft' \in [Drafts -> [status : Statuses, secrets : BOOLEAN]]
      /\ pr' \in [Drafts -> {"none", "open", "closed", "merged"}]
      /\ \A d \in Drafts : pr'[d] = pr[d]
  BY DEF TypeOK
<1> QED BY <1>1, <1>2, <1>3, TypesFrom

(* What is written into a tree fits into it.                                *)
LEMMA Writes ==
    ASSUME TypeOK, NEW p \in Paths, NEW d \in Drafts
    PROVE  /\ \A tree \in Tree : Written(d, tree) \in Tree /\ WithKey(p, tree) \in Tree
           /\ [work EXCEPT ![Attrs] = @ \cup {p}] \in Tree
           /\ \A on \in BOOLEAN : Filtered(p, work, on) \in SUBSET Blobs
           /\ [index EXCEPT ![p] = Filtered(p, work, unlocked), ![Attrs] = work[Attrs]] \in Tree
           /\ [index EXCEPT ![Attrs] = work[Attrs]] \in Tree
           /\ [index EXCEPT ![p] = Filtered(p, work, unlocked)] \in Tree
<1>1. /\ work \in [Files -> SUBSET Blobs] /\ index \in [Files -> SUBSET Blobs]
      /\ p \in Files /\ Attrs \in Files /\ EnvOf[d] \in Files /\ EnvOf[d] \in Paths
      /\ unlocked \in BOOLEAN
  BY FileKinds, TreeTypes DEF TypeOK
<1>2. d \in Blobs /\ p \in Blobs /\ EnvOf[d] \in Blobs /\ Operator \in Blobs /\ Clear \in Blobs
  BY <1>1 DEF Blobs, Writers
<1>3. \A on \in BOOLEAN : Filtered(p, work, on) \in SUBSET Blobs
  BY <1>1, <1>2 DEF Filtered
<1>4. \A tree \in [Files -> SUBSET Blobs] : Written(d, tree) \in [Files -> SUBSET Blobs]
  BY <1>1, <1>2 DEF Written, HasEntry
<1>5. /\ \A tree \in [Files -> SUBSET Blobs] : WithKey(p, tree) \in [Files -> SUBSET Blobs]
      /\ [work EXCEPT ![Attrs] = @ \cup {p}] \in [Files -> SUBSET Blobs]
  BY <1>1, <1>2 DEF WithKey
<1>6. /\ [index EXCEPT ![p] = Filtered(p, work, unlocked), ![Attrs] = work[Attrs]] \in [Files -> SUBSET Blobs]
      /\ [index EXCEPT ![Attrs] = work[Attrs]] \in [Files -> SUBSET Blobs]
      /\ [index EXCEPT ![p] = Filtered(p, work, unlocked)] \in [Files -> SUBSET Blobs]
  BY <1>1, <1>3
<1> QED BY <1>3, <1>4, <1>5, <1>6 DEF Tree, Blobs

LEMMA NextTypes == TypeOK /\ CloneInv /\ [Next]_vars => TypeOK' /\ CloneInv'
<1> SUFFICES ASSUME TypeOK, CloneInv, [Next]_vars PROVE TypeOK' /\ CloneInv'
  OBVIOUS
<1> USE DEF host, history
<1>0. index \in Tree /\ work \in Tree /\ unlocked \in BOOLEAN /\ call \in [Calls -> Call]
      /\ draft \in [Drafts -> [status : Statuses, secrets : BOOLEAN]]
      /\ pr \in [Drafts -> {"none", "open", "closed", "merged"}]
      /\ \A d \in Drafts : pr[d] # "none" => remote[d] # <<>>
      /\ misled \subseteq Drafts
  BY DEF TypeOK
(* Drafts and pull requests.                                                *)
<1>1. ASSUME NEW d \in Drafts, Adopt(d) \/ CancelDraft(d) \/ FinalizeLate(d) \/ Close(d)
      PROVE  TypeOK' /\ CloneInv'
  <2>1. draft' \in [Drafts -> [status : Statuses, secrets : BOOLEAN]]
        /\ pr' \in [Drafts -> {"none", "open", "closed", "merged"}]
        /\ \A e \in Drafts : pr'[e] = pr[e] \/ remote[e] # <<>>
    <3>1. CASE Adopt(d)
      <4>1. PICK seen \in Inspections, answer \in Answers :
                draft' = [draft EXCEPT ![d] = [status |-> "pending",
                                               secrets |-> seen.env /\ answer.detected]]
        BY <3>1 DEF Adopt
      <4>2. seen.env \in BOOLEAN /\ answer.detected \in BOOLEAN
        BY DEF Inspections, Answers
      <4> QED BY <1>0, <3>1, <4>1, <4>2 DEF Adopt, Statuses
    <3>2. CASE CancelDraft(d) \/ FinalizeLate(d)
      BY <1>0, <3>2 DEF CancelDraft, FinalizeLate, Decided, Statuses
    <3>3. CASE Close(d)
      BY <1>0, <3>3 DEF Close
    <3> QED BY <1>1, <3>1, <3>2, <3>3
  <2> QED BY <1>0, <1>1, <2>1, DraftTypes DEF Adopt, CancelDraft, FinalizeLate, Close
<1>2. ASSUME NEW d \in Drafts, Merge(d) PROVE TypeOK' /\ CloneInv'
  <2>1. pr' \in [Drafts -> {"none", "open", "closed", "merged"}]
        /\ \A e \in Drafts : pr'[e] = pr[e] \/ remote[e] # <<>>
    BY <1>0, <1>2 DEF Merge
  <2> QED BY <1>0, <1>2, <2>1, DraftTypes DEF Merge
<1>3. CASE Restart
  <2>1. draft' \in [Drafts -> [status : Statuses, secrets : BOOLEAN]]
    BY <1>0, <1>3 DEF Restart, PurgeExpired, Statuses
  <2>2. call' \in [Calls -> Call] /\ \A c \in Calls : call'[c] = Idle
    BY <1>3 DEF Restart, Call
  <2> QED BY <1>0, <1>3, <2>1, <2>2, DraftTypes DEF Restart
<1>4. CASE OperatorCommits
  <2>1. UNCHANGED <<draft, pr, history, call>> /\ UNCHANGED <<index, work, unlocked>>
    BY <1>4, Commits DEF OperatorCommits
  <2>2. begun' \in 0..MaxCalls /\ marred' \subseteq Drafts /\ misled' \subseteq Drafts
    BY <2>1 DEF TypeOK
  <2> QED BY <1>0, <2>1, <2>2, TypesFrom DEF AtHost, InClone
<1>5. CASE UNCHANGED vars
  BY <1>0, <1>5, DraftTypes DEF vars
(* Calls begin and end.                                                     *)
<1>6. ASSUME NEW c \in Calls, NEW d \in Drafts, Finalize(c, d) PROVE TypeOK' /\ CloneInv'
  <2>1. PICK next : /\ next = [tool |-> "finalize", on |-> d,
                               at |-> IF draft[d].secrets THEN "checkout" ELSE "branch"]
                    /\ Starts(c, next)
    BY <1>6 DEF Finalize
  <2>2. /\ next \in Call /\ next # Idle /\ next.tool = "finalize" /\ next.on = d
        /\ next.at \in {"checkout", "branch"}
    BY <2>1 DEF Call, Idle, Finalizing
  <2> QED BY <1>0, <1>6, <2>1, <2>2, BeginTypes DEF Finalize, clone
<1>7. ASSUME NEW c \in Calls, NEW p \in ToolPaths,
             SecretsAdd(c, p) \/ Read(c, p) \/ \E t \in {"encrypt", "secrets_add"} : Encrypt(c, p, t)
      PROVE  TypeOK' /\ CloneInv'
  <2>0. p \in Paths
    BY FileKinds
  <2>1. CASE SecretsAdd(c, p)
    <3>1. PICK next : next = [tool |-> "secrets_add", on |-> p, at |-> "check"] /\ Starts(c, next)
      BY <2>1 DEF SecretsAdd
    <3>2. next \in Call /\ next # Idle /\ next.tool = "secrets_add" /\ next.at = "check"
      BY <2>0, <3>1 DEF Call, Idle, Securing
    <3> QED BY <1>0, <2>1, <3>1, <3>2, BeginTypes DEF SecretsAdd, clone
  <2>2. CASE Read(c, p)
    <3>1. PICK next : next = [tool |-> "read", on |-> p, at |-> "unlock"] /\ Starts(c, next)
      BY <2>2 DEF Read
    <3>2. next \in Call /\ next # Idle /\ next.tool = "read" /\ next.at = "unlock"
      BY <2>0, <3>1 DEF Call, Idle
    <3> QED BY <1>0, <2>2, <3>1, <3>2, BeginTypes DEF Read, clone
  <2>3. ASSUME NEW t \in {"encrypt", "secrets_add"}, Encrypt(c, p, t) PROVE TypeOK' /\ CloneInv'
    <3>1. PICK next : next = [tool |-> t, on |-> p, at |-> "list"] /\ Starts(c, next)
      BY <2>3 DEF Encrypt
    <3>2. next \in Call /\ next # Idle /\ next.tool # "finalize" /\ next.at = "list"
      BY <2>0, <3>1 DEF Call, Idle, Securing
    <3>3. work' \in Tree
      <4>1. work' = [work EXCEPT ![Attrs] = @ \cup {p}] /\ p \in Blobs
        BY <2>0, <2>3 DEF Encrypt, Blobs
      <4>2. work \in [Files -> SUBSET Blobs] /\ Attrs \in Files
        BY <1>0, TreeTypes, FileKinds
      <4>3. work' \in [Files -> SUBSET Blobs]
        BY <4>1, <4>2
      <4> QED BY <4>3 DEF Tree, Blobs
    <3> QED BY <1>0, <2>3, <3>1, <3>2, <3>3, BeginTypes DEF Encrypt
  <2> QED BY <1>7, <2>1, <2>2, <2>3
<1>8. ASSUME NEW c \in Calls, Fails(c) PROVE TypeOK' /\ CloneInv'
  BY <1>0, <1>8, EndTypes DEF Fails, clone
<1>9. ASSUME NEW c \in Calls, FinalizeOpen(c) PROVE TypeOK' /\ CloneInv'
  <2>1. PICK d \in Drafts : d = call[c].on
    BY <1>9, CallTypes DEF FinalizeOpen, At
  <2>2. remote[d] # <<>>
    BY <1>9, <2>1 DEF FinalizeOpen, At, TypeOK
  <2>3. draft' \in [Drafts -> [status : Statuses, secrets : BOOLEAN]]
    BY <1>0, <1>9, <2>1 DEF FinalizeOpen, Decided, Statuses
  <2>4. pr' = [pr EXCEPT ![d] = "open"]
    BY <1>9, <2>1 DEF FinalizeOpen
  <2>5. pr' \in [Drafts -> {"none", "open", "closed", "merged"}]
        /\ \A e \in Drafts : pr'[e] = pr[e] \/ remote[e] # <<>>
    BY <1>0, <2>2, <2>4
  <2>6. call' \in [Calls -> Call] /\ \A x \in Calls : call'[x] = call[x] \/ call'[x] = Idle
    BY <1>9, EndsTypes DEF FinalizeOpen
  <2> QED BY <1>9, <2>3, <2>5, <2>6, DraftTypes DEF FinalizeOpen
(* Calls at work in the clone.                                              *)
<1>10. ASSUME NEW c \in Calls, FinalizeCheckout(c) PROVE TypeOK' /\ CloneInv'
  <2>1. PICK d \in Drafts : d = call[c].on /\ CheckedOut(d, Upstream(d)) /\ Goes(c, "check")
    BY <1>10, CallTypes DEF FinalizeCheckout, At
  <2>2. index' \in Tree /\ work' \in Tree /\ local'[d] # <<>>
    BY <2>1, UpstreamTypes, Checkouts, FileKinds
  <2> QED
    BY <1>0, <1>10, <2>1, <2>2, MoveTypes DEF FinalizeCheckout, At, Finalizing
<1>11. ASSUME NEW c \in Calls, FinalizeCheck(c) \/ FinalizeUnlock(c) PROVE TypeOK' /\ CloneInv'
  <2>1. call[c] # Idle /\ call[c].tool = "finalize" /\ call[c].on \in Drafts /\ InClone(c)
    BY <1>11, CallTypes DEF FinalizeCheck, FinalizeUnlock, At, InClone, ClonePlaces
  <2>2. work' \in Tree /\ unlocked' \in BOOLEAN /\ index' \in Tree
    <3>1. Written(call[c].on, work) \in Tree /\ Written(call[c].on, Configured(TRUE)) \in Tree
      BY <1>0, <2>1, Writes, ConfiguredTypes, FileKinds
    <3> QED BY <1>0, <1>11, <3>1 DEF FinalizeCheck, FinalizeUnlock
  <2>3. misled' \subseteq Drafts /\ UNCHANGED <<draft, pr, begun, marred>>
    BY <1>11, <2>1 DEF FinalizeCheck, FinalizeUnlock, TypeOK
  <2>4. PICK at \in {"unlock", "add"} : Goes(c, at)
    BY <1>11 DEF FinalizeCheck, FinalizeUnlock
  <2> QED BY <1>0, <2>1, <2>2, <2>3, <2>4, MovingTypes DEF Finalizing
<1>12. ASSUME NEW c \in Calls, FinalizeAdd(c) PROVE TypeOK' /\ CloneInv'
  <2>1. PICK d \in Drafts : d = call[c].on /\ InClone(c) /\ EnvOf[d] \in Paths
    BY <1>12, CallTypes, FileKinds DEF FinalizeAdd, At, InClone
  <2>2. index' \in Tree
    BY <1>12, <2>1, Writes DEF FinalizeAdd
  <2> QED BY <1>0, <1>12, <2>1, <2>2, MoveTypes DEF FinalizeAdd, At, Finalizing
<1>22. ASSUME NEW c \in Calls, FinalizeDiff(c) PROVE TypeOK' /\ CloneInv'
  <2>1. InClone(c) /\ UNCHANGED <<index, work, unlocked>>
    BY <1>22 DEF FinalizeDiff, At, InClone, ClonePlaces, clone
  <2>2. PICK at \in {"push", "commit"} : Goes(c, at)
    BY <1>22 DEF FinalizeDiff
  <2> QED BY <1>0, <1>22, <2>1, <2>2, MoveTypes DEF FinalizeDiff, At, Finalizing
<1>13. ASSUME NEW c \in Calls, FinalizeCommit(c) PROVE TypeOK' /\ CloneInv'
  <2>1. InClone(c) /\ UNCHANGED <<index, work, unlocked>>
    BY <1>13, Commits DEF FinalizeCommit, At, InClone
  <2> QED BY <1>0, <1>13, <2>1, MoveTypes DEF FinalizeCommit, At, Finalizing
<1>14. ASSUME NEW c \in Calls, FinalizePush(c) PROVE TypeOK' /\ CloneInv'
  <2>1. PICK d \in Drafts : d = call[c].on /\ InClone(c) /\ d \in Branches
    BY <1>14, CallTypes, FileKinds DEF FinalizePush, At, InClone
  <2>2. remote'[d] # <<>>
    BY <1>14, <2>1 DEF FinalizePush, CloneInv, TypeOK
  <2> QED BY <1>0, <1>14, <2>1, <2>2, MoveTypes DEF FinalizePush, At, Finalizing, clone
<1>15. ASSUME NEW c \in Calls, FinalizeBranch(c) PROVE TypeOK' /\ CloneInv'
  <2>1. PICK d \in Drafts : d = call[c].on /\ d \in Branches
    BY <1>15, CallTypes, FileKinds DEF FinalizeBranch, At
  <2>2. remote'[d] # <<>>
    BY <1>15, <2>1 DEF FinalizeBranch, TypeOK
  <2>3. CASE Goes(c, "compose")
    BY <1>0, <1>15, <2>1, <2>2, <2>3, MoveTypes DEF FinalizeBranch, At, Finalizing, clone
  <2>4. CASE Ends(c)
    BY <1>0, <1>15, <2>4, EndTypes DEF FinalizeBranch, clone
  <2> QED BY <1>15, <2>3, <2>4 DEF FinalizeBranch
<1>16. ASSUME NEW c \in Calls, FinalizeCompose(c) PROVE TypeOK' /\ CloneInv'
  <2>1. AtHost(c)
    BY <1>16 DEF FinalizeCompose, At, AtHost
  <2>2. CASE Goes(c, "open")
    BY <1>0, <1>16, <2>1, <2>2, MoveTypes DEF FinalizeCompose, At, Finalizing, clone
  <2>3. CASE Ends(c)
    BY <1>0, <1>16, <2>3, EndTypes DEF FinalizeCompose, clone
  <2> QED BY <1>16, <2>2, <2>3 DEF FinalizeCompose
<1>17. ASSUME NEW c \in Calls, EncryptAdd(c) PROVE TypeOK' /\ CloneInv'
  <2>1. index' \in Tree
    <3>1. work \in [Files -> SUBSET Blobs] /\ index \in [Files -> SUBSET Blobs] /\ Attrs \in Files
      BY <1>0, TreeTypes, FileKinds
    <3>2. index' \in [Files -> SUBSET Blobs]
      BY <1>17, <3>1 DEF EncryptAdd
    <3> QED BY <3>2 DEF Tree, Blobs
  <2> QED BY <1>0, <1>17, <2>1, MoveTypes DEF EncryptAdd, At, Securing
<1>18. ASSUME NEW c \in Calls, EncryptCommit(c) PROVE TypeOK' /\ CloneInv'
  <2>1. UNCHANGED <<index, work, unlocked>>
    BY <1>18, Commits DEF EncryptCommit
  <2>2. CASE At(c, "encrypt", "commit list") /\ Ends(c)
    BY <1>0, <1>18, <2>1, <2>2, EndTypes DEF EncryptCommit
  <2>3. CASE At(c, "secrets_add", "commit list") /\ Goes(c, "check")
    BY <1>0, <1>18, <2>1, <2>3, MoveTypes DEF EncryptCommit, At, Securing
  <2> QED BY <1>18, <2>2, <2>3 DEF EncryptCommit
<1>19. ASSUME NEW c \in Calls, SecretsCheck(c) \/ SecretsUnlock(c) PROVE TypeOK' /\ CloneInv'
  <2>1. call[c] # Idle /\ call[c].tool = "secrets_add" /\ call[c].on \in Paths
    BY <1>19, CallTypes DEF SecretsCheck, SecretsUnlock, At
  <2>2. \A tree \in Tree : WithKey(call[c].on, tree) \in Tree
    <3>1. \A tree \in [Files -> SUBSET Blobs] : WithKey(call[c].on, tree) \in [Files -> SUBSET Blobs]
      BY <2>1, FileKinds DEF WithKey, Blobs, Writers
    <3> QED BY <3>1 DEF Tree, Blobs
  <2>3. work' \in Tree /\ unlocked' \in BOOLEAN /\ index' \in Tree
    BY <1>0, <1>19, <2>2, ConfiguredTypes DEF SecretsCheck, SecretsUnlock, SetsKey
  <2>4. UNCHANGED <<draft, pr, history>>
    BY <1>19 DEF SecretsCheck, SecretsUnlock
  <2>5. PICK at \in {"unlock", "add"} : Goes(c, at)
    BY <1>19 DEF SecretsCheck, SecretsUnlock
  <2> QED BY <1>0, <2>1, <2>3, <2>4, <2>5, MoveTypes DEF Securing
<1>20. ASSUME NEW c \in Calls, SecretsStage(c) PROVE TypeOK' /\ CloneInv'
  <2>1. PICK p \in Paths : p = call[c].on
    BY <1>20, CallTypes DEF SecretsStage, At
  <2>2. index' \in Tree
    <3>1. index \in [Files -> SUBSET Blobs] /\ work \in [Files -> SUBSET Blobs] /\ p \in Files
          /\ Clear \in Blobs
      BY <1>0, TreeTypes, FileKinds DEF Blobs
    <3>2. index' \in [Files -> SUBSET Blobs]
      BY <1>20, <2>1, <3>1 DEF SecretsStage, Filtered
    <3> QED BY <3>2 DEF Tree, Blobs
  <2> QED BY <1>0, <1>20, <2>2, EndTypes DEF SecretsStage
<1>21. ASSUME NEW c \in Calls, ReadUnlock(c) \/ ReadLock(c) PROVE TypeOK' /\ CloneInv'
  <2>1. Configured(TRUE) \in Tree /\ Configured(FALSE) \in Tree
    BY ConfiguredTypes
  <2> QED BY <1>0, <1>21, <2>1, MoveTypes, EndTypes DEF ReadUnlock, ReadLock, At
<1> QED
  BY <1>1, <1>2, <1>3, <1>4, <1>5, <1>6, <1>7, <1>8, <1>9, <1>10, <1>11, <1>12, <1>13, <1>14,
     <1>15, <1>16, <1>17, <1>18, <1>19, <1>20, <1>21, <1>22 DEF Next

LEMMA Typed == Spec => [](TypeOK /\ CloneInv)
BY InitTypes, NextTypes, PTL DEF Spec

(* Trees, branches and calls keep their types, a pull request always has a  *)
(* branch, and so does every call that pushes or commits to one.            *)
THEOREM TypeCorrect == Spec => []TypeOK
BY Typed, PTL

-----------------------------------------------------------------------------
(* Compose files                                                            *)

(* No git command of the clone stages a compose file, so the index has the  *)
(* one of the branch that is checked out.                                   *)
StageInv == \A d \in Drafts : index[d] = HeadTree[d]

(* Along every branch, here and at the host, a compose file once there      *)
(* stays: that, and not the order of the calls, is what protects it.        *)
Growing(trees) ==
    \A d \in Drafts : \A i, j \in DOMAIN trees :
        i <= j => trees[i][d] \subseteq trees[j][d] /\ trees[j][d] \subseteq {d}
GrowInv == \A b \in Branches : Growing(local[b]) /\ Growing(remote[b])

Composed(d) == remote[d] # <<>> /\ Tip(remote[d])[d] = {d}
OpenInv ==
    /\ PullRequestKeepsCompose
    /\ \A c \in Calls : At(c, "finalize", "open") => Composed(call[c].on)

LEMMA NextStage == ASSUME TypeOK, StageInv, [Next]_vars PROVE StageInv'
<1>1. CASE Touches
  BY <1>1 DEF Touches, StageInv, HeadTree
<1>2. CASE CommitIndex
  BY <1>2, Commits DEF StageInv, HeadTree
<1>3. ASSUME NEW b \in Drafts, CheckedOut(b, Upstream(b)) PROVE StageInv'
  <2>1. b \in Branches /\ Drafts \subseteq Files
    BY FileKinds
  <2> QED BY <1>3, <2>1, UpstreamTypes, Checkouts DEF StageInv, HeadTree
<1> QED BY <1>1, <1>2, <1>3, CloneSteps

LEMMA GrowingAppend ==
    ASSUME NEW trees \in Seq(Tree), trees # <<>>, Growing(trees), NEW tree \in Tree,
           \A d \in Drafts : Tip(trees)[d] \subseteq tree[d] /\ tree[d] \subseteq {d}
    PROVE  Growing(Append(trees, tree))
<1> DEFINE more == Append(trees, tree)
           n == Len(trees)
<1>1. /\ n \in Nat /\ n >= 1 /\ DOMAIN trees = 1..n /\ DOMAIN more = 1..(n + 1)
      /\ more[n + 1] = tree /\ (\A i \in 1..n : more[i] = trees[i]) /\ Tip(trees) = trees[n]
  BY TipIsIn
<1> HIDE DEF more, n
<1>2. SUFFICES ASSUME NEW d \in Drafts, NEW i \in 1..(n + 1), NEW j \in 1..(n + 1), i <= j
               PROVE  more[i][d] \subseteq more[j][d] /\ more[j][d] \subseteq {d}
  BY <1>1 DEF Growing, more
<1>3. CASE j \in 1..n
  <2>1. i \in 1..n
    BY <1>1, <1>2, <1>3
  <2> QED BY <1>1, <1>2, <1>3, <2>1 DEF Growing
<1>4. CASE j = n + 1 /\ i \in 1..n
  <2>1. i <= n /\ n \in 1..n
    BY <1>1, <1>4
  <2> QED BY <1>1, <1>4, <2>1 DEF Growing
<1>5. CASE j = n + 1 /\ i = n + 1
  BY <1>1, <1>5
<1> QED BY <1>1, <1>3, <1>4, <1>5

LEMMA GrowingTip ==
    ASSUME NEW trees \in Seq(Tree), trees # <<>>, Growing(trees), NEW d \in Drafts
    PROVE  /\ Tip(trees)[d] \subseteq {d}
           /\ \A i \in 1..Len(trees) : trees[i][d] \subseteq Tip(trees)[d]
BY TipIsIn DEF Growing

LEMMA GrowingNothing == Growing(<<>>)
BY DEF Growing

LEMMA NextGrow == ASSUME TypeOK, StageInv, GrowInv, [Next]_vars PROVE GrowInv'
<1>1. local \in [Branches -> Seq(Tree)] /\ remote \in [Branches -> Seq(Tree)]
      /\ \A b \in Branches : Growing(local[b]) /\ Growing(remote[b])
  BY DEF TypeOK, GrowInv
<1>2. \A b \in Branches : Growing(local'[b])
  <2>1. CASE Touches
    BY <1>1, <2>1 DEF Touches
  <2>2. CASE CommitIndex
    <3>1. \A d \in Drafts : HeadTree[d] \subseteq index[d] /\ index[d] \subseteq {d}
      BY <1>1, HeadTypes, GrowingTip DEF StageInv, HeadTree
    <3>2. index \in Tree /\ local[head] \in Seq(Tree) /\ local[head] # <<>> /\ head \in Branches
      BY DEF TypeOK
    <3>3. Growing(Append(local[head], index))
      BY <1>1, <3>1, <3>2, GrowingAppend DEF HeadTree
    <3> QED BY <1>1, <2>2, <3>3, Commits
  <2>3. ASSUME NEW d \in Drafts, CheckedOut(d, Upstream(d))
        PROVE  \A b \in Branches : Growing(local'[b])
    <3>1. d \in Branches /\ Main \in Branches
      BY FileKinds
    <3>2. Growing(Upstream(d))
      BY <1>1, <3>1 DEF Upstream
    <3> QED BY <1>1, <2>3, <3>1, <3>2, UpstreamTypes, Checkouts, GrowingNothing
  <2> QED BY <2>1, <2>2, <2>3, CloneSteps
<1>3. \A b \in Branches : Growing(remote'[b])
  <2>1. CASE UNCHANGED remote
    BY <1>1, <2>1
  <2>2. ASSUME NEW c \in Calls, FinalizePush(c) \/ FinalizeBranch(c)
        PROVE  \A b \in Branches : Growing(remote'[b])
    <3>1. PICK d \in Branches : d = call[c].on
      BY <2>2, CallTypes, FileKinds DEF FinalizePush, FinalizeBranch, At
    <3>2. \/ remote' = [remote EXCEPT ![d] = local[d]]
          \/ remote' = [remote EXCEPT ![d] = remote[Main]] /\ Main \in Branches
      BY <2>2, <3>1, FileKinds DEF FinalizePush, FinalizeBranch
    <3> QED BY <1>1, <3>1, <3>2
  <2>3. ASSUME NEW c \in Calls, FinalizeCompose(c)
        PROVE  \A b \in Branches : Growing(remote'[b])
    <3>1. PICK d \in Drafts, tree \in Tree :
              /\ d \in Branches /\ remote[d] # <<>> /\ tree = [Tip(remote[d]) EXCEPT ![d] = {d}]
              /\ UNCHANGED remote \/ remote' = [remote EXCEPT ![d] = Append(@, tree)]
      BY <2>3, ComposeTree
    <3>2. Tip(remote[d]) \in [Files -> SUBSET Blobs] /\ Drafts \subseteq Files
      BY <1>1, <3>1, TipIsIn, TreeTypes, FileKinds
    <3>3. \A e \in Drafts : Tip(remote[d])[e] \subseteq tree[e] /\ tree[e] \subseteq {e}
      BY <1>1, <3>1, <3>2, GrowingTip
    <3>4. Growing(Append(remote[d], tree))
      <4>1. remote[d] \in Seq(Tree) /\ remote[d] # <<>> /\ Growing(remote[d])
        BY <1>1, <3>1
      <4> HIDE <3>1
      <4> QED BY <3>3, <4>1, GrowingAppend
    <3> QED BY <1>1, <2>1, <3>1, <3>4
  <2>4. ASSUME NEW d \in Drafts, Merge(d)
        PROVE  \A b \in Branches : Growing(remote'[b])
    <3>1. /\ Merged(d) \in Tree /\ remote[d] # <<>> /\ remote[Main] # <<>>
          /\ remote' = [remote EXCEPT ![Main] = Append(@, Merged(d))]
          /\ d \in Branches /\ Main \in Branches
      BY <2>4, MergedTree, FileKinds
    <3>2. \A e \in Drafts : /\ Tip(remote[Main])[e] \subseteq {e} /\ Tip(remote[d])[e] \subseteq {e}
                            /\ e \in Files /\ e # Attrs
      BY <1>1, <3>1, GrowingTip, FileKinds
    <3>3. \A e \in Drafts : Tip(remote[Main])[e] \subseteq Merged(d)[e] /\ Merged(d)[e] \subseteq {e}
      BY <3>2 DEF Merged
    <3>4. Growing(Append(remote[Main], Merged(d)))
      BY <1>1, <3>1, <3>3, GrowingAppend
    <3> QED BY <1>1, <3>1, <3>4
  <2> QED BY <2>1, <2>2, <2>3, <2>4, HostSteps
<1> QED BY <1>2, <1>3 DEF GrowInv

(* What is on the branch stays, whoever pushes.                             *)
LEMMA ComposeStays ==
    ASSUME TypeOK, StageInv, GrowInv, [Next]_vars, NEW d \in Drafts, Composed(d)
    PROVE  Composed(d)'
<1>1. /\ d \in Branches /\ remote[d] \in Seq(Tree) /\ remote'[d] \in Seq(Tree)
      /\ remote[d] # <<>> /\ remote'[d] # <<>> /\ Tip(remote[d])[d] = {d}
  BY FileKinds, HostGrows, HostKeeps DEF Composed, TypeOK
<1>2. PICK n \in Nat : /\ n = Len(remote[d]) /\ n >= 1 /\ n <= Len(remote'[d])
                       /\ remote'[d][n] = Tip(remote[d])
  <2>1. Len(remote[d]) \in Nat /\ Len(remote[d]) >= 1 /\ Tip(remote[d]) = remote[d][Len(remote[d])]
    BY <1>1, TipIsIn
  <2>2. Len(remote[d]) <= Len(remote'[d]) /\ \A i \in 1..Len(remote[d]) : remote'[d][i] = remote[d][i]
    BY <1>1, HostGrows
  <2> QED BY <2>1, <2>2
<1>3. Growing(remote'[d])
  BY <1>1, NextGrow DEF GrowInv
<1>4. Tip(remote'[d])[d] \subseteq {d} /\ remote'[d][n][d] \subseteq Tip(remote'[d])[d]
  <2>1. n \in 1..Len(remote'[d])
    BY <1>1, <1>2
  <2> QED BY <1>1, <1>3, <2>1, GrowingTip
<1> QED BY <1>1, <1>2, <1>4 DEF Composed

(* What a step does to a call.                                              *)
LEMMA CallSteps ==
    ASSUME TypeOK, [Next]_vars, NEW c \in Calls
    PROVE  \/ call'[c] = call[c]
           \/ call'[c] = Idle
           \/ \E d \in Drafts : Finalize(c, d)
           \/ /\ call'[c] # Idle /\ call'[c].tool # "finalize"
              /\ call[c] = Idle \/ call[c].tool # "finalize"
           \/ FinalizeCheckout(c) \/ FinalizeCheck(c) \/ FinalizeUnlock(c) \/ FinalizeAdd(c)
           \/ FinalizeDiff(c) \/ FinalizeCommit(c)
           \/ FinalizePush(c) \/ FinalizeBranch(c) \/ FinalizeCompose(c)
<1> USE DEF clone, host, history
<1>0. call \in [Calls -> Call]
  BY DEF TypeOK
<1>1. ASSUME NEW x \in Calls, x # c, \E next : Step(x, next) PROVE call'[c] = call[c]
  BY <1>0, <1>1 DEF Step
<1>2. ASSUME NEW x \in Calls, x # c,
             \/ \E d \in Drafts : Finalize(x, d)
             \/ \E p \in ToolPaths : SecretsAdd(x, p) \/ Read(x, p)
                                     \/ \E t \in {"encrypt", "secrets_add"} : Encrypt(x, p, t)
             \/ FinalizeCheckout(x) \/ FinalizeCheck(x) \/ FinalizeUnlock(x) \/ FinalizeAdd(x)
             \/ FinalizeDiff(x) \/ FinalizeCommit(x) \/ FinalizePush(x) \/ FinalizeBranch(x)
             \/ FinalizeCompose(x) \/ FinalizeOpen(x)
             \/ EncryptAdd(x) \/ EncryptCommit(x) \/ SecretsCheck(x) \/ SecretsUnlock(x) \/ SecretsStage(x)
             \/ ReadUnlock(x) \/ ReadLock(x) \/ Fails(x)
      PROVE  call'[c] = call[c]
  BY <1>1, <1>2 DEF Finalize, SecretsAdd, Read, Encrypt, FinalizeCheckout, FinalizeCheck, FinalizeUnlock,
        FinalizeAdd, FinalizeDiff, FinalizeCommit, FinalizePush, FinalizeBranch, FinalizeCompose, FinalizeOpen,
        EncryptAdd, EncryptCommit, SecretsCheck, SecretsUnlock, SecretsStage, ReadUnlock, ReadLock, Fails,
        Starts, Goes, Ends
<1>3. ASSUME NEW p \in ToolPaths,
             SecretsAdd(c, p) \/ Read(c, p) \/ \E t \in {"encrypt", "secrets_add"} : Encrypt(c, p, t)
      PROVE  call[c] = Idle /\ call'[c] # Idle /\ call'[c].tool # "finalize"
  <2>1. PICK next : /\ Step(c, next) /\ call[c] = Idle
                    /\ next.tool \in {"secrets_add", "read", "encrypt"}
    <3>1. CASE SecretsAdd(c, p)
      BY <3>1 DEF SecretsAdd, Starts
    <3>2. CASE Read(c, p)
      BY <3>2 DEF Read, Starts
    <3>3. CASE \E t \in {"encrypt", "secrets_add"} : Encrypt(c, p, t)
      BY <3>3 DEF Encrypt, Starts
    <3> QED BY <1>3, <3>1, <3>2, <3>3
  <2>2. call'[c] = next
    BY <1>0, <2>1 DEF Step
  <2> QED BY <2>1, <2>2 DEF Idle
<1>4. ASSUME EncryptAdd(c) \/ EncryptCommit(c) \/ SecretsCheck(c) \/ SecretsUnlock(c) \/ ReadUnlock(c)
      PROVE  \/ call'[c] = Idle
             \/ /\ call'[c] # Idle /\ call'[c].tool # "finalize"
                /\ call[c].tool # "finalize"
  <2>1. CASE Ends(c)
    BY <2>1, EndsTypes
  <2>2. CASE EncryptAdd(c)
    BY <2>2, GoesTypes DEF EncryptAdd, At, Securing
  <2>3. CASE EncryptCommit(c) /\ At(c, "secrets_add", "commit list") /\ Goes(c, "check")
    BY <2>3, GoesTypes DEF At, Securing
  <2>4. CASE SecretsCheck(c) \/ SecretsUnlock(c)
    <3>1. PICK at \in {"unlock", "add"} : Goes(c, at) /\ At(c, "secrets_add", call[c].at)
      BY <2>4 DEF SecretsCheck, SecretsUnlock, At
    <3> QED BY <3>1, GoesTypes DEF At, Securing
  <2>5. CASE ReadUnlock(c)
    BY <2>5, GoesTypes DEF ReadUnlock, At
  <2> QED BY <1>4, <2>1, <2>2, <2>3, <2>4, <2>5 DEF EncryptCommit
<1>5. ASSUME FinalizeOpen(c) \/ SecretsStage(c) \/ ReadLock(c) \/ Fails(c) PROVE call'[c] = Idle
  BY <1>5, EndsTypes DEF FinalizeOpen, SecretsStage, ReadLock, Fails
<1>6. ASSUME NEW d \in Drafts,
             Adopt(d) \/ CancelDraft(d) \/ FinalizeLate(d) \/ Merge(d) \/ Close(d)
      PROVE  call'[c] = call[c]
  BY <1>6 DEF Adopt, CancelDraft, FinalizeLate, Merge, Close
<1>7. ASSUME OperatorCommits \/ UNCHANGED vars PROVE call'[c] = call[c]
  BY <1>7 DEF OperatorCommits, vars
<1>8. ASSUME Restart PROVE call'[c] = Idle
  BY <1>8 DEF Restart
<1> QED
  BY <1>2, <1>3, <1>4, <1>5, <1>6, <1>7, <1>8 DEF Next

(* Where the steps of a finalize call take it.                              *)
LEMMA FinalizeSteps ==
    ASSUME TypeOK, [Next]_vars, NEW c \in Calls, call'[c] # Idle, call'[c].tool = "finalize"
    PROVE  \/ call'[c] = call[c]
           \/ \E d \in Drafts : /\ Finalize(c, d) /\ call'[c].on = d
                                /\ call'[c].at = IF draft[d].secrets THEN "checkout" ELSE "branch"
           \/ /\ call[c] # Idle /\ call[c].tool = "finalize" /\ call'[c].on = call[c].on
              /\ call[c].on \in Drafts
              /\ \/ FinalizeCheckout(c) /\ call[c].at = "checkout" /\ call'[c].at = "check"
                 \/ FinalizeCheck(c) /\ call[c].at = "check" /\ call'[c].at = "unlock"
                      /\ UNCHANGED clone
                 \/ FinalizeCheck(c) /\ call[c].at = "check" /\ call'[c].at = "add"
                      /\ work' = Written(call[c].on, work)
                      /\ misled' = IF unlocked THEN misled ELSE misled \cup {call[c].on}
                 \/ FinalizeUnlock(c) /\ call[c].at = "unlock" /\ call'[c].at = "add"
                 \/ FinalizeAdd(c) /\ call[c].at = "add" /\ call'[c].at = "diff"
                 \/ FinalizeDiff(c) /\ call[c].at = "diff"
                      /\ call'[c].at = IF NothingStaged THEN "push" ELSE "commit"
                 \/ FinalizeCommit(c) /\ call[c].at = "commit" /\ call'[c].at = "push"
                 \/ FinalizePush(c) /\ call[c].at = "push" /\ call'[c].at = "compose"
                 \/ FinalizeBranch(c) /\ call[c].at = "branch" /\ call'[c].at = "compose"
                 \/ FinalizeCompose(c) /\ call[c].at = "compose" /\ call'[c].at = "open"
<1>1. ASSUME NEW d \in Drafts, Finalize(c, d)
      PROVE  /\ call'[c].on = d
             /\ call'[c].at = IF draft[d].secrets THEN "checkout" ELSE "branch"
  <2>1. PICK next : /\ next = [tool |-> "finalize", on |-> d,
                               at |-> IF draft[d].secrets THEN "checkout" ELSE "branch"]
                    /\ Step(c, next)
    BY <1>1 DEF Finalize, Starts
  <2>2. call'[c] = next
    BY <2>1 DEF Step, TypeOK
  <2> QED BY <2>1, <2>2
<1>2. ASSUME NEW at \in Finalizing, call[c] # Idle, call[c].tool = "finalize", Goes(c, at)
      PROVE  call'[c].on = call[c].on /\ call[c].on \in Drafts /\ call'[c].at = at
  BY <1>2, GoesTypes, CallTypes
<1>3. \A at \in {"check", "unlock", "add", "diff", "push", "commit", "compose", "open"} : at \in Finalizing
  BY DEF Finalizing
<1>4. CASE FinalizeCheckout(c)
  BY <1>2, <1>3, <1>4 DEF FinalizeCheckout, At
<1>5. CASE FinalizeCheck(c)
  <2>1. CASE Goes(c, "unlock") /\ UNCHANGED work
    BY <1>2, <1>3, <1>5, <2>1 DEF FinalizeCheck, At, clone
  <2>2. CASE /\ Goes(c, "add") /\ work' = Written(call[c].on, work)
             /\ misled' = IF unlocked THEN misled ELSE misled \cup {call[c].on}
    BY <1>2, <1>3, <1>5, <2>2 DEF FinalizeCheck, At
  <2> QED BY <1>5, <2>1, <2>2 DEF FinalizeCheck
<1>11. CASE FinalizeUnlock(c)
  BY <1>2, <1>3, <1>11 DEF FinalizeUnlock, At
<1>6. CASE FinalizeAdd(c)
  BY <1>2, <1>3, <1>6 DEF FinalizeAdd, At
<1>12. CASE FinalizeDiff(c)
  <2>1. PICK at : at = (IF NothingStaged THEN "push" ELSE "commit") /\ Goes(c, at)
    BY <1>12 DEF FinalizeDiff
  <2>2. at \in Finalizing
    BY <1>3, <2>1
  <2> QED BY <1>2, <1>12, <2>1, <2>2 DEF FinalizeDiff, At
<1>7. CASE FinalizeCommit(c)
  BY <1>2, <1>3, <1>7 DEF FinalizeCommit, At
<1>8. CASE FinalizePush(c)
  BY <1>2, <1>3, <1>8 DEF FinalizePush, At
<1>9. CASE FinalizeBranch(c)
  BY <1>2, <1>3, <1>9, EndsTypes DEF FinalizeBranch, At
<1>10. CASE FinalizeCompose(c)
  BY <1>2, <1>3, <1>10, EndsTypes DEF FinalizeCompose, At
<1> QED
  BY <1>1, <1>4, <1>5, <1>6, <1>7, <1>8, <1>9, <1>10, <1>11, <1>12, CallSteps

LEMMA NextOpen == ASSUME TypeOK, StageInv, GrowInv, OpenInv, [Next]_vars PROVE OpenInv'
<1>1. \A d \in Drafts : Composed(d) => Composed(d)'
  BY ComposeStays
<1> USE DEF host, clone, history
<1>2. ASSUME NEW d \in Drafts, pr'[d] # "none" PROVE Composed(d)'
  <2>1. CASE pr[d] # "none"
    BY <1>1, <2>1 DEF OpenInv, PullRequestKeepsCompose, Composed, TypeOK
  <2>2. CASE pr'[d] # pr[d] /\ pr[d] = "none"
    <3>1. PICK c \in Calls : FinalizeOpen(c) /\ call[c].on = d
      <4>1. CASE \E c \in Calls : FinalizeOpen(c)
        <5>1. PICK c \in Calls : FinalizeOpen(c)
          BY <4>1
        <5>2. PICK e \in Drafts : e = call[c].on /\ pr' = [pr EXCEPT ![e] = "open"]
          BY <5>1, CallTypes DEF FinalizeOpen, At
        <5>3. e = d
          BY <2>2, <5>2 DEF TypeOK
        <5> QED BY <5>1, <5>2, <5>3
      <4>2. CASE ~ \E c \in Calls : FinalizeOpen(c)
        <5>1. UNCHANGED pr \/ \E e \in Drafts : pr[e] = "open" /\ pr' \in {[pr EXCEPT ![e] = "merged"],
                                                                          [pr EXCEPT ![e] = "closed"]}
          BY <4>2 DEF Next, Adopt, CancelDraft, FinalizeLate, Merge, Close, Finalize, SecretsAdd,
                Read, Encrypt, FinalizeCheckout, FinalizeCheck, FinalizeUnlock, FinalizeAdd,
        FinalizeDiff, FinalizeCommit,
                FinalizePush, FinalizeBranch, FinalizeCompose, EncryptAdd, EncryptCommit,
                SecretsCheck, SecretsUnlock, SecretsStage, ReadUnlock, ReadLock, Fails, OperatorCommits, Restart, vars
        <5> QED BY <2>2, <5>1 DEF TypeOK
      <4> QED BY <4>1, <4>2
    <3> QED BY <1>1, <3>1 DEF FinalizeOpen, OpenInv
  <2> QED BY <1>2, <2>1, <2>2
<1>3. ASSUME NEW c \in Calls, At(c, "finalize", "open")' PROVE Composed(call[c].on)'
                                                               /\ call'[c].on = call[c].on
  <2>1. CASE call'[c] = call[c]
    <3>1. call[c].on \in Drafts /\ At(c, "finalize", "open")
      BY <1>3, <2>1, CallTypes DEF At
    <3> QED BY <1>1, <2>1, <3>1 DEF OpenInv
  <2>2. CASE FinalizeCompose(c) /\ call'[c].on = call[c].on
    <3>1. PICK d \in Drafts, tree \in Tree :
              /\ d = call[c].on /\ d \in Branches /\ remote[d] # <<>>
              /\ tree = [Tip(remote[d]) EXCEPT ![d] = {d}] /\ Tip(remote'[d]) = tree
      BY <2>2, ComposeTree
    <3>2. Tip(remote[d]) \in [Files -> SUBSET Blobs] /\ d \in Files
      <4>1. remote[d] \in Seq(Tree)
        BY <3>1 DEF TypeOK
      <4> QED BY <3>1, <4>1, TipIsIn, TreeTypes, FileKinds
    <3> QED BY <2>2, <3>1, <3>2, HostKeeps DEF Composed
  <2>3. call'[c] # Idle /\ call'[c].tool = "finalize" /\ call'[c].at = "open"
    BY <1>3 DEF At
  <2> QED BY <2>1, <2>2, <2>3, FinalizeSteps
<1>4. PullRequestKeepsCompose'
  BY <1>2 DEF PullRequestKeepsCompose, Composed
<1> QED BY <1>3, <1>4 DEF OpenInv

(* tools/adoption.py commits the compose file through the host's API and    *)
(* pushes from the clone: for any number of calls and drafts, however their *)
(* commands cross, the branch of a pull request ends in its compose file.   *)
THEOREM KeepsCompose == Spec => []PullRequestKeepsCompose
<1>1. Init => StageInv /\ GrowInv /\ OpenInv
  <2> SUFFICES ASSUME Init PROVE StageInv /\ GrowInv /\ OpenInv
    OBVIOUS
  <2>1. \A d \in Drafts : index[d] = {}
    <3>1. \A d \in Drafts : d \in Files /\ d # Attrs /\ d \notin Listed
      BY FileKinds
    <3>2. PICK listed \in SUBSET Listed :
              index = [f \in Files |-> IF f = Attrs THEN listed
                                      ELSE IF f \in listed THEN {Operator} ELSE {}]
      BY DEF Init
    <3> QED BY <3>1, <3>2
  <2>2. head = Main /\ Tip(<<index>>) = index /\ Growing(<<index>>)
    <3>1. PICK one : one = <<index>>
      OBVIOUS
    <3>2. Len(one) = 1 /\ DOMAIN one = {1} /\ one[1] = index
      BY <3>1
    <3>3. Tip(one) = index /\ Growing(one)
      BY <2>1, <3>2 DEF Tip, Last, Growing
    <3> QED BY <3>1, <3>3 DEF Init
  <2>3. \A b \in Branches : local[b] = (IF b = Main THEN <<index>> ELSE <<>>) /\ remote[b] = local[b]
    BY DEF Init
  <2>4. GrowInv
    BY <2>2, <2>3, GrowingNothing DEF GrowInv
  <2>5. StageInv
    BY <2>2, <2>3, FileKinds DEF StageInv, HeadTree
  <2>6. OpenInv
    BY DEF Init, OpenInv, PullRequestKeepsCompose, At
  <2> QED BY <2>4, <2>5, <2>6
<1>2. TypeOK /\ StageInv /\ GrowInv /\ OpenInv /\ [Next]_vars => StageInv' /\ GrowInv' /\ OpenInv'
  BY NextStage, NextGrow, NextOpen
<1>3. OpenInv => PullRequestKeepsCompose
  BY DEF OpenInv
<1> QED BY <1>1, <1>2, <1>3, TypeCorrect, PTL DEF Spec
-----------------------------------------------------------------------------
(* Undisturbed drafts                                                       *)

Works(c, d) == call[c] # Idle /\ call[c].tool = "finalize" /\ call[c].on = d

(* A draft's branch and calls come after its row, whose secrets they obey.  *)
DraftInv == \A d \in Drafts :
    /\ draft[d].status = "none" => remote[d] = <<>> /\ \A c \in Calls : ~ Works(c, d)
    /\ \A c \in Calls : Works(c, d) =>
          /\ InClone(c) \/ call[c].at = "checkout" => draft[d].secrets
          /\ call[c].at = "branch" => ~ draft[d].secrets

(* Besides the draft's own, tree has the .env files some tree of trees has. *)
Fits(tree, d, trees) == \A p \in Paths : p # EnvOf[d] => \E t \in trees : t[p] = tree[p]
Has(tree, d)         == OwnBlob(tree[EnvOf[d]], d)

ExactInv == \A d \in Drafts : d \notin marred /\ remote[d] # <<>> => Exact(d)

(* The one call for an unmarred draft, from command to command.             *)
Sole(c, d) ==
    /\ Running = {c}
    /\ call[c].at = "checkout" => NothingStaged
    /\ InClone(c) => head = d /\ Fits(index, d, ToSet(remote[Main]))
    /\ call[c].at = "add" => /\ unlocked \/ d \in misled
                             /\ work[EnvOf[d]] = {d} /\ EnvOf[d] \in work[Attrs]
    /\ call[c].at \in {"diff", "commit"} => Has(index, d)
    /\ call[c].at = "push" => Has(HeadTree, d) /\ Fits(HeadTree, d, ToSet(remote[Main]))
SoleInv == \A c \in Calls, d \in Drafts : Works(c, d) /\ d \notin marred => Sole(c, d)

LEMMA ExactSays ==
    ASSUME NEW d \in Drafts
    PROVE  /\ Exact(d) /\ draft[d].secrets => Fits(Tip(remote[d]), d, ToSet(remote[Main]))
           /\ /\ Has(Tip(remote[d]), d) /\ Fits(Tip(remote[d]), d, ToSet(remote[Main]))
              /\ draft[d].secrets
              => Exact(d)
BY DEF Exact, OfTheBase, Fits, Has

(* Nothing is forgotten of a draft once it is there, and nobody is unmarred. *)
LEMMA DraftSteps ==
    ASSUME TypeOK, [Next]_vars, NEW d \in Drafts
    PROVE  /\ draft'[d].status = "none" => draft[d].status = "none"
           /\ \/ draft'[d].secrets = draft[d].secrets
              \/ draft[d].status = "none" /\ UNCHANGED <<call, host>>
           /\ marred \subseteq marred' /\ misled \subseteq misled'
<1> USE DEF host, history
<1>0. draft \in [Drafts -> [status : Statuses, secrets : BOOLEAN]]
  BY DEF TypeOK
<1>1. ASSUME NEW e \in Drafts, Adopt(e) PROVE draft'[d].status = "none" => draft[d].status = "none"
  <2>1. PICK seen, answer : draft' = [draft EXCEPT ![e] = [status |-> "pending",
                                          secrets |-> seen.env /\ answer.detected]]
    BY <1>1 DEF Adopt
  <2> QED BY <1>0, <2>1
<1>2. ASSUME NEW e \in Drafts, Adopt(e)
      PROVE  /\ draft'[d] = draft[d] \/ draft[d].status = "none"
             /\ UNCHANGED <<call, host, marred, misled>>
  <2>1. draft[e].status = "none" /\ \A x \in Drafts : x # e => draft'[x] = draft[x]
    BY <1>0, <1>2 DEF Adopt
  <2> QED BY <1>2, <2>1 DEF Adopt
<1>3. ASSUME NEW e \in Drafts, CancelDraft(e) \/ FinalizeLate(e) \/ Merge(e) \/ Close(e)
      PROVE  /\ draft'[d].status = "none" => draft[d].status = "none"
             /\ draft'[d].secrets = draft[d].secrets /\ UNCHANGED <<marred, misled>>
  BY <1>0, <1>3 DEF CancelDraft, FinalizeLate, Merge, Close, Decided
<1>4. ASSUME NEW c \in Calls,
             \/ \E e \in Drafts : Finalize(c, e)
             \/ \E p \in ToolPaths : SecretsAdd(c, p) \/ Read(c, p)
                                     \/ \E t \in {"encrypt", "secrets_add"} : Encrypt(c, p, t)
      PROVE  UNCHANGED <<draft, misled>> /\ marred \subseteq marred'
  BY <1>4 DEF Finalize, SecretsAdd, Read, Encrypt, Starts
<1>5. ASSUME NEW c \in Calls, FinalizeOpen(c)
      PROVE  /\ draft'[d].status = "none" => draft[d].status = "none"
             /\ draft'[d].secrets = draft[d].secrets /\ UNCHANGED <<marred, misled>>
  BY <1>0, <1>5 DEF FinalizeOpen, Decided
<1>6. ASSUME NEW c \in Calls,
             \/ FinalizeCheckout(c) \/ FinalizeCheck(c) \/ FinalizeUnlock(c) \/ FinalizeAdd(c)
             \/ FinalizeDiff(c) \/ FinalizeCommit(c) \/ FinalizePush(c) \/ FinalizeBranch(c) \/ FinalizeCompose(c)
             \/ EncryptAdd(c) \/ EncryptCommit(c) \/ SecretsCheck(c) \/ SecretsUnlock(c) \/ SecretsStage(c)
             \/ ReadUnlock(c) \/ ReadLock(c) \/ Fails(c)
      PROVE  UNCHANGED <<draft, marred>> /\ misled \subseteq misled'
  BY <1>6 DEF FinalizeCheckout, FinalizeCheck, FinalizeUnlock, FinalizeAdd,
        FinalizeDiff, FinalizeCommit, FinalizePush,
        FinalizeBranch, FinalizeCompose, EncryptAdd, EncryptCommit, SecretsCheck, SecretsUnlock, SecretsStage,
        ReadUnlock, ReadLock, Fails
<1>7. ASSUME Restart
      PROVE  /\ draft'[d].status = "none" => draft[d].status = "none"
             /\ draft'[d].secrets = draft[d].secrets /\ UNCHANGED <<marred, misled>>
  BY <1>0, <1>7 DEF Restart, PurgeExpired
<1>8. ASSUME OperatorCommits \/ UNCHANGED vars PROVE UNCHANGED <<draft, marred, misled>>
  BY <1>8 DEF OperatorCommits, vars
<1> QED BY <1>1, <1>2, <1>3, <1>4, <1>5, <1>6, <1>7, <1>8 DEF Next

(* A call that starts mars whoever is at work.                              *)
LEMMA Starting ==
    ASSUME TypeOK, [Next]_vars, NEW c \in Calls, call[c] = Idle, call'[c] # Idle
    PROVE  FinalizedBy(Running) \subseteq marred'
<1> USE DEF host, history, clone
<1>0. call \in [Calls -> Call]
  BY DEF TypeOK
<1>1. ASSUME NEW x \in Calls,
             \/ \E d \in Drafts : Finalize(x, d)
             \/ \E p \in ToolPaths : SecretsAdd(x, p) \/ Read(x, p)
                                     \/ \E t \in {"encrypt", "secrets_add"} : Encrypt(x, p, t)
      PROVE  FinalizedBy(Running) \subseteq marred'
  BY <1>1 DEF Finalize, SecretsAdd, Read, Encrypt, Starts
<1>2. ASSUME NEW x \in Calls, call[x] # Idle, \E next : Step(x, next) PROVE FALSE
  BY <1>0, <1>2 DEF Step
<1>3. ASSUME NEW x \in Calls,
             \/ FinalizeCheckout(x) \/ FinalizeCheck(x) \/ FinalizeUnlock(x) \/ FinalizeAdd(x)
             \/ FinalizeDiff(x) \/ FinalizeCommit(x) \/ FinalizePush(x) \/ FinalizeBranch(x)
             \/ FinalizeCompose(x) \/ FinalizeOpen(x)
             \/ EncryptAdd(x) \/ EncryptCommit(x) \/ SecretsCheck(x) \/ SecretsUnlock(x) \/ SecretsStage(x)
             \/ ReadUnlock(x) \/ ReadLock(x) \/ Fails(x)
      PROVE  FALSE
  BY <1>2, <1>3 DEF FinalizeCheckout, FinalizeCheck, FinalizeUnlock, FinalizeAdd,
        FinalizeDiff, FinalizeCommit, FinalizePush,
        FinalizeBranch, FinalizeCompose, FinalizeOpen, EncryptAdd, EncryptCommit, SecretsCheck, SecretsUnlock,
        SecretsStage, ReadUnlock, ReadLock, Fails, At, Goes, Ends
<1>4. ASSUME NEW d \in Drafts,
             Adopt(d) \/ CancelDraft(d) \/ FinalizeLate(d) \/ Merge(d) \/ Close(d)
      PROVE  FALSE
  BY <1>4 DEF Adopt, CancelDraft, FinalizeLate, Merge, Close
<1>5. ASSUME OperatorCommits \/ Restart \/ UNCHANGED vars PROVE FALSE
  BY <1>5 DEF OperatorCommits, Restart, vars
<1> QED BY <1>1, <1>3, <1>4, <1>5 DEF Next

(* While one call has the clone to itself, nothing moves but by its steps.  *)
LEMMA Quiet ==
    ASSUME TypeOK, [Next]_vars, NEW c \in Calls, NEW d \in Drafts, Works(c, d),
           Running = {c}, d \notin marred', call'[c] # Idle
    PROVE  Running' = {c} /\ (call'[c] = call[c] => UNCHANGED clone)
<1> USE DEF host, history, clone
<1>0. call \in [Calls -> Call] /\ \A x \in Calls : call[x] # Idle => x = c
  BY DEF TypeOK, Running
<1>1. d \in FinalizedBy(Running)
  BY DEF FinalizedBy, Running, Works
<1>2. Running' = {c}
  <2>1. \A x \in Calls : call'[x] # Idle => x = c
    BY <1>0, <1>1, Starting
  <2> QED BY <2>1 DEF Running
<1>3. ASSUME NEW x \in Calls,
             \/ \E e \in Drafts : Finalize(x, e)
             \/ \E p \in ToolPaths : SecretsAdd(x, p) \/ Read(x, p)
                                     \/ \E t \in {"encrypt", "secrets_add"} : Encrypt(x, p, t)
      PROVE  FALSE
  BY <1>1, <1>3 DEF Finalize, SecretsAdd, Read, Encrypt, Starts
<1>4. ASSUME NEW x \in Calls, call[x] # Idle, call[x].tool # "finalize" PROVE FALSE
  BY <1>0, <1>4 DEF Works
<1>5. ASSUME NEW x \in Calls,
             \/ EncryptAdd(x) \/ EncryptCommit(x) \/ SecretsCheck(x) \/ SecretsUnlock(x) \/ SecretsStage(x)
             \/ ReadUnlock(x) \/ ReadLock(x)
      PROVE  FALSE
  BY <1>4, <1>5 DEF EncryptAdd, EncryptCommit, SecretsCheck, SecretsUnlock, SecretsStage, ReadUnlock, ReadLock, At
<1>6. ASSUME NEW x \in Calls, NEW at, call[x] # Idle, call[x].at # at, Goes(x, at)
      PROVE  call'[c] # call[c]
  <2>1. x = c /\ call[c] \in [tool : {"finalize"}, at : Finalizing, on : Drafts]
    BY <1>0, <1>6 DEF Works, Call
  <2>2. call'[c] = [call[c] EXCEPT !.at = at]
    BY <1>0, <1>6, <2>1 DEF Goes, Step
  <2>3. call'[c].at = at
    BY <2>1, <2>2
  <2> QED BY <1>6, <2>1, <2>3
<1>7. ASSUME NEW x \in Calls,
             \/ FinalizeCheckout(x) \/ FinalizeCheck(x) \/ FinalizeUnlock(x) \/ FinalizeAdd(x)
             \/ FinalizeDiff(x) \/ FinalizeCommit(x)
      PROVE  call'[c] # call[c]
  <2>1. CASE FinalizeDiff(x)
    <3>1. PICK at \in {"push", "commit"} : Goes(x, at)
      BY <2>1 DEF FinalizeDiff
    <3>2. call[x] # Idle /\ call[x].at # at
      BY <2>1 DEF FinalizeDiff, At
    <3> QED BY <1>6, <3>1, <3>2
  <2>2. CASE FinalizeCheck(x)
    BY <1>6, <2>2 DEF FinalizeCheck, At
  <2> QED
    BY <1>6, <1>7, <2>1, <2>2 DEF FinalizeCheckout, FinalizeUnlock, FinalizeAdd, FinalizeCommit, At
<1>8. ASSUME NEW x \in Calls,
             FinalizePush(x) \/ FinalizeBranch(x) \/ FinalizeCompose(x) \/ FinalizeOpen(x) \/ Fails(x)
      PROVE  UNCHANGED clone
  BY <1>8 DEF FinalizePush, FinalizeBranch, FinalizeCompose, FinalizeOpen, Fails
<1>9. ASSUME NEW e \in Drafts,
             Adopt(e) \/ CancelDraft(e) \/ FinalizeLate(e) \/ Merge(e) \/ Close(e)
      PROVE  UNCHANGED clone
  BY <1>9 DEF Adopt, CancelDraft, FinalizeLate, Merge, Close
<1>10. ASSUME Restart \/ UNCHANGED vars PROVE UNCHANGED clone
  BY <1>10 DEF Restart, vars
<1>11. ~ OperatorCommits
  BY DEF OperatorCommits
<1> QED BY <1>2, <1>3, <1>5, <1>7, <1>8, <1>9, <1>10, <1>11 DEF Next

(* Only the calls for a draft add to its branch.                            *)
LEMMA OwnHostSteps ==
    ASSUME TypeOK, [Next]_vars, NEW d \in Drafts, remote'[d] # remote[d]
    PROVE  \E c \in Calls : /\ Works(c, d)
                            /\ FinalizePush(c) \/ FinalizeBranch(c) \/ FinalizeCompose(c)
<1>0. remote \in [Branches -> Seq(Tree)] /\ d \in Branches /\ d # Main
  BY FileKinds DEF TypeOK
<1>1. ASSUME NEW c \in Calls, FinalizePush(c) \/ FinalizeBranch(c) \/ FinalizeCompose(c)
      PROVE  Works(c, d)
  <2>1. PICK e \in Drafts : e = call[c].on /\ Works(c, e)
    BY <1>1, CallTypes DEF FinalizePush, FinalizeBranch, FinalizeCompose, At, Works
  <2>2. \E trees : remote' = [remote EXCEPT ![e] = trees]
    <3>1. CASE FinalizePush(c)
      BY <2>1, <3>1 DEF FinalizePush
    <3>2. CASE FinalizeBranch(c)
      BY <2>1, <3>2 DEF FinalizeBranch
    <3>3. CASE FinalizeCompose(c)
      BY <2>1, <3>3 DEF FinalizeCompose
    <3> QED BY <1>1, <3>1, <3>2, <3>3
  <2>3. e = d
    BY <1>0, <2>2
  <2> QED BY <2>1, <2>3
<1>2. ASSUME NEW e \in Drafts, Merge(e) PROVE remote'[d] = remote[d]
  BY <1>0, <1>2, MergedTree
<1> QED BY <1>1, <1>2, HostSteps
LEMMA NextDraft == ASSUME TypeOK, DraftInv, [Next]_vars PROVE DraftInv'
<1>1. ASSUME NEW c \in Calls, NEW d \in Drafts, Works(c, d)'
      PROVE  /\ Works(c, d) => draft'[d].secrets = draft[d].secrets /\ draft'[d].status # "none"
             /\ ~ Works(c, d) => /\ Finalize(c, d) /\ UNCHANGED draft
                                 /\ call'[c].at = IF draft[d].secrets THEN "checkout" ELSE "branch"
  <2>1. CASE Works(c, d)
    BY <2>1, DraftSteps DEF DraftInv
  <2>2. CASE ~ Works(c, d)
    BY <1>1, <2>2, FinalizeSteps DEF Works, Finalize
  <2> QED BY <2>1, <2>2
<1>2. ASSUME NEW d \in Drafts, draft'[d].status = "none"
      PROVE  remote'[d] = <<>> /\ \A c \in Calls : ~ Works(c, d)'
  <2>1. draft[d].status = "none" /\ remote[d] = <<>> /\ \A c \in Calls : ~ Works(c, d)
    BY <1>2, DraftSteps DEF DraftInv
  <2>2. \A c \in Calls : ~ Finalize(c, d)
    BY <2>1 DEF Finalize
  <2> QED BY <1>1, <2>1, <2>2, OwnHostSteps
<1>3. ASSUME NEW c \in Calls, NEW d \in Drafts, Works(c, d)'
      PROVE  /\ InClone(c)' \/ call'[c].at = "checkout" => draft'[d].secrets
             /\ call'[c].at = "branch" => ~ draft'[d].secrets
  <2>1. CASE ~ Works(c, d)
    BY <1>1, <1>3, <2>1 DEF InClone
  <2>2. CASE Works(c, d)
    <3>1. \/ call'[c] = call[c]
          \/ /\ call[c].at = "checkout" \/ InClone(c)
             /\ call'[c].at # "branch"
          \/ call'[c].at \in {"compose", "open"}
          \/ Finalize(c, d)
      BY <1>3, <2>2, FinalizeSteps DEF Works, InClone
    <3>2. ~ Finalize(c, d)
      BY <2>2 DEF Finalize, Starts, Works
    <3>3. /\ InClone(c) \/ call[c].at = "checkout" => draft[d].secrets
          /\ call[c].at = "branch" => ~ draft[d].secrets
      BY <2>2 DEF DraftInv
    <3> QED BY <1>1, <1>3, <2>2, <3>1, <3>2, <3>3 DEF InClone
  <2> QED BY <2>1, <2>2
<1> QED BY <1>2, <1>3 DEF DraftInv

LEMMA NextExact ==
    ASSUME TypeOK, DraftInv, ExactInv, SoleInv, [Next]_vars PROVE ExactInv'
<1> SUFFICES ASSUME NEW d \in Drafts, d \notin marred', remote'[d] # <<>> PROVE Exact(d)'
  BY DEF ExactInv
<1>1. d \notin marred /\ d \in Branches /\ d # Main /\ Main \in Branches
  BY DraftSteps, FileKinds
<1>2. ToSet(remote[Main]) \subseteq ToSet(remote'[Main])
  BY <1>1, HostKeeps
<1>5. misled \subseteq misled'
  BY DraftSteps
<1>3. CASE remote'[d] = remote[d]
  <2>1. Exact(d) /\ draft[d].status # "none"
    BY <1>1, <1>3 DEF ExactInv, DraftInv
  <2>2. draft'[d].secrets = draft[d].secrets
    BY <2>1, DraftSteps
  <2> QED BY <1>2, <1>3, <1>5, <2>1, <2>2 DEF Exact, OfTheBase, OwnBlob
<1>4. CASE remote'[d] # remote[d]
  <2>1. PICK c \in Calls : Works(c, d) /\ (FinalizePush(c) \/ FinalizeBranch(c) \/ FinalizeCompose(c))
    BY <1>4, OwnHostSteps
  <2>2. /\ draft'[d].secrets = draft[d].secrets /\ call[c].on = d
        /\ remote \in [Branches -> Seq(Tree)] /\ Sole(c, d)
    BY <1>1, <2>1, DraftSteps DEF DraftInv, TypeOK, Works, SoleInv
  <2>3. CASE FinalizePush(c)
    <3>1. remote' = [remote EXCEPT ![d] = local[d]] /\ call[c].at = "push" /\ InClone(c)
      BY <2>2, <2>3 DEF FinalizePush, At, InClone
    <3>2. remote'[d] = local[d] /\ remote'[Main] = remote[Main] /\ HeadTree = Tip(local[d])
      BY <1>1, <2>2, <3>1 DEF Sole, HeadTree
    <3>3. /\ draft'[d].secrets /\ Has(Tip(remote'[d]), d)
          /\ Fits(Tip(remote'[d]), d, ToSet(remote'[Main]))
      BY <2>1, <2>2, <3>1, <3>2 DEF DraftInv, Sole
    <3> QED BY <1>5, <3>3 DEF Exact, OfTheBase, Fits, Has, OwnBlob
  <2>4. CASE FinalizeBranch(c)
    <3>1. remote'[d] = remote[Main] /\ remote'[Main] = remote[Main] /\ ~ draft'[d].secrets
      BY <1>1, <2>1, <2>2, <2>4 DEF FinalizeBranch, At, DraftInv
    <3>2. Tip(remote[Main]) \in ToSet(remote[Main])
      BY <1>1, <2>2, TipIsIn DEF TypeOK
    <3> QED BY <3>1, <3>2 DEF Exact, OfTheBase
  <2>5. CASE FinalizeCompose(c)
    <3>1. PICK tree \in Tree : /\ remote[d] # <<>> /\ tree = [Tip(remote[d]) EXCEPT ![d] = {d}]
                               /\ Tip(remote'[d]) = tree
      BY <2>2, <2>5, ComposeTree
    <3>2. \A p \in Paths : Tip(remote'[d])[p] = Tip(remote[d])[p]
      <4>1. Tip(remote[d]) \in [Files -> SUBSET Blobs]
        BY <1>1, <2>2, <3>1, TipIsIn, TreeTypes
      <4> QED BY <3>1, <4>1, FileKinds
    <3>3. Exact(d)
      BY <1>1, <3>1 DEF ExactInv
    <3>4. EnvOf[d] \in Paths
      BY FileKinds
    <3> QED BY <1>2, <2>2, <3>2, <3>3, <3>4, <1>5 DEF Exact, OfTheBase, OwnBlob
  <2> QED BY <2>1, <2>3, <2>4, <2>5
<1> QED BY <1>3, <1>4

(* A checkout with nothing staged: the branch as the host has it.           *)
LEMMA SoleCheckout ==
    ASSUME TypeOK, DraftInv, ExactInv, [Next]_vars, NEW c \in Calls, NEW d \in Drafts,
           Works(c, d), d \notin marred, Sole(c, d), FinalizeCheckout(c)
    PROVE  head' = d /\ Fits(index', d, ToSet(remote'[Main]))
<1>1. CheckedOut(d, Upstream(d)) /\ UNCHANGED remote /\ NothingStaged /\ draft[d].secrets
  BY DEF FinalizeCheckout, Works, At, host, Sole, DraftInv
<1>2. Upstream(d) \in Seq(Tree) /\ Upstream(d) # <<>> /\ d \in Branches /\ Main \in Branches
  BY UpstreamTypes, FileKinds
<1>3. head' = d /\ \A f \in Files : index'[f] = Tip(Upstream(d))[f]
  BY <1>1, <1>2, Checkouts DEF NothingStaged
<1>4. Fits(Tip(Upstream(d)), d, ToSet(remote[Main]))
  <2>1. CASE remote[d] # <<>>
    BY <1>1, <2>1, ExactSays DEF Upstream, ExactInv
  <2>2. CASE remote[d] = <<>>
    <3>1. Tip(remote[Main]) \in ToSet(remote[Main])
      BY <1>2, TipIsIn DEF TypeOK
    <3> QED BY <2>2, <3>1 DEF Upstream, Fits
  <2> QED BY <2>1, <2>2
<1> QED BY <1>1, <1>3, <1>4, FileKinds DEF Fits

LEMMA SoleWrites ==
    ASSUME NEW d \in Drafts, NEW tree \in Tree
    PROVE  Written(d, tree)[EnvOf[d]] = {d} /\ EnvOf[d] \in Written(d, tree)[Attrs]
<1>1. tree \in [Files -> SUBSET Blobs] /\ EnvOf[d] \in Files /\ Attrs \in Files /\ EnvOf[d] # Attrs
  BY FileKinds, TreeTypes
<1> QED BY <1>1 DEF Written, HasEntry

(* The file is listed: with the filter on its blob is the draft's alone, and *)
(* without it nothing but plaintext of the draft.                           *)
LEMMA SoleAdd ==
    ASSUME TypeOK, NEW c \in Calls, NEW d \in Drafts, Works(c, d), Sole(c, d), FinalizeAdd(c)
    PROVE  Has(index', d) /\ Fits(index', d, ToSet(remote[Main]))
<1>1. /\ index' = [index EXCEPT ![EnvOf[d]] = Filtered(EnvOf[d], work, unlocked), ![Attrs] = work[Attrs]]
      /\ unlocked \/ d \in misled
      /\ work[EnvOf[d]] = {d} /\ EnvOf[d] \in work[Attrs] /\ Fits(index, d, ToSet(remote[Main]))
  BY DEF FinalizeAdd, Works, At, Sole, InClone
<1>2. /\ index \in [Files -> SUBSET Blobs] /\ EnvOf[d] \in Files /\ Attrs \in Files /\ EnvOf[d] # Attrs
      /\ Paths \subseteq Files /\ Attrs \notin Paths
  BY FileKinds, TreeTypes DEF TypeOK
<1>3. OwnBlob(Filtered(EnvOf[d], work, unlocked), d)
  <2>1. Cipher # d
    BY DraftAssumption
  <2>2. CASE unlocked
    BY <1>1, <2>2 DEF Filtered, OwnBlob
  <2>3. CASE ~ unlocked
    <3>1. Filtered(EnvOf[d], work, unlocked) = {d, Clear}
      BY <1>1, <2>1, <2>3 DEF Filtered
    <3> QED BY <1>1, <2>3, <3>1 DEF OwnBlob
  <2> QED BY <2>2, <2>3
<1>4. /\ index'[EnvOf[d]] = Filtered(EnvOf[d], work, unlocked)
      /\ \A p \in Paths : p # EnvOf[d] => index'[p] = index[p]
  BY <1>1, <1>2
<1>5. Has(index', d)
  BY <1>3, <1>4 DEF Has
<1>6. Fits(index', d, ToSet(remote[Main]))
  BY <1>1, <1>4 DEF Fits
<1> QED BY <1>5, <1>6

LEMMA NextSole ==
    ASSUME TypeOK, DraftInv, ExactInv, SoleInv, [Next]_vars PROVE SoleInv'
<1> SUFFICES ASSUME NEW c \in Calls, NEW d \in Drafts, Works(c, d)', d \notin marred'
             PROVE  Sole(c, d)'
  BY DEF SoleInv
<1> DEFINE base == ToSet(remote[Main])
<1>1. d \notin marred /\ base \subseteq base' /\ misled \subseteq misled'
  BY DraftSteps, HostKeeps, FileKinds
<1>2. CASE Finalize(c, d) /\ call'[c].at \in {"checkout", "branch"}
  <2>1. PICK next : /\ next = [tool |-> "finalize", on |-> d,
                               at |-> IF draft[d].secrets THEN "checkout" ELSE "branch"]
                    /\ Starts(c, next)
    BY <1>2 DEF Finalize
  <2>2. Running = {} /\ NothingStaged
    BY <2>1 DEF Starts
  <2>3. Running' = {c}
    <3>1. \A x \in Calls : x # c => call'[x] = Idle
      BY <2>1, <2>2 DEF Starts, Step, TypeOK, Running
    <3> QED BY <3>1 DEF Running, Works
  <2>4. NothingStaged'
    BY <1>2, <2>2 DEF Finalize, clone, NothingStaged, HeadTree
  <2> QED BY <1>2, <2>3, <2>4 DEF Sole, InClone
<1>3. CASE Works(c, d)
  <2>1. Sole(c, d) /\ Running' = {c} /\ (call'[c] = call[c] => UNCHANGED clone)
    BY <1>1, <1>3, Quiet DEF SoleInv, Sole, Works
  <2>0. /\ \A tree : Fits(tree, d, base) => Fits(tree, d, base')
        /\ \A blob : OwnBlob(blob, d) => blob = {d} \/ (d \in misled' /\ blob = {d, Clear})
    BY <1>1 DEF Fits, OwnBlob
  <2>2. CASE call'[c] = call[c]
    <3>1. UNCHANGED <<head, local, index, work, unlocked>>
      BY <2>1, <2>2 DEF clone
    <3>2. InClone(c)' => InClone(c)
      BY <2>2 DEF InClone
    <3>3. HeadTree' = HeadTree /\ (NothingStaged => NothingStaged')
      BY <3>1 DEF HeadTree, NothingStaged
    <3> QED BY <1>1, <2>0, <2>1, <2>2, <3>1, <3>2, <3>3 DEF Sole, Has, OwnBlob
  <2>3. CASE FinalizeCheckout(c) /\ call'[c].at = "check"
    <3>1. head' = d /\ Fits(index', d, base')
      BY <1>1, <1>3, <2>1, <2>3, SoleCheckout
    <3> QED BY <2>1, <2>3, <3>1 DEF Sole
  <2>4. CASE /\ FinalizeCheck(c) \/ FinalizeUnlock(c)
             /\ call[c].at \in {"check", "unlock"} /\ call'[c].at \in {"unlock", "add"}
             /\ call'[c].at = "add" => /\ unlocked' \/ d \in misled'
                                       /\ \E tree \in Tree : work' = Written(d, tree)
    <3>1. call'[c].at = "add" => work'[EnvOf[d]] = {d} /\ EnvOf[d] \in work'[Attrs]
      BY <2>4, SoleWrites
    <3>2. UNCHANGED <<head, index, remote>> /\ InClone(c)
      BY <1>3, <2>4 DEF FinalizeCheck, FinalizeUnlock, host, InClone, Works
    <3> QED BY <2>1, <2>4, <3>1, <3>2 DEF Sole
  <2>5. CASE FinalizeAdd(c) /\ call[c].at = "add" /\ call'[c].at = "diff"
    <3>1. Has(index', d) /\ Fits(index', d, base)
      BY <1>3, <2>1, <2>5, SoleAdd
    <3>2. UNCHANGED <<head, remote, misled>> /\ InClone(c)
      BY <1>3, <2>5 DEF FinalizeAdd, host, history, InClone, Works
    <3> QED BY <2>1, <2>5, <3>1, <3>2 DEF Sole, Has, OwnBlob
  <2>9. CASE /\ FinalizeDiff(c) /\ call[c].at = "diff"
             /\ call'[c].at = IF NothingStaged THEN "push" ELSE "commit"
    <3>1. UNCHANGED <<head, local, index, remote, misled>> /\ InClone(c) /\ HeadTree' = HeadTree
      BY <1>3, <2>9 DEF FinalizeDiff, clone, host, history, InClone, Works, HeadTree
    <3>2. call'[c].at = "push" => HeadTree' = index
      BY <2>9, <3>1 DEF NothingStaged
    <3> QED BY <2>1, <2>9, <3>1, <3>2 DEF Sole, Has, OwnBlob
  <2>6. CASE FinalizeCommit(c) /\ call[c].at = "commit" /\ call'[c].at = "push"
    <3>1. UNCHANGED <<head, index, remote, misled>> /\ InClone(c) /\ HeadTree' = index
      BY <1>3, <2>6, Commits DEF FinalizeCommit, host, history, InClone, Works, HeadTree
    <3> QED BY <2>1, <2>6, <3>1 DEF Sole, Has, OwnBlob, Fits
  <2>10. \/ FinalizeCheck(c) /\ call[c].at = "check" /\ call'[c].at = "add"
                /\ work' = Written(call[c].on, work)
                /\ misled' = IF unlocked THEN misled ELSE misled \cup {call[c].on}
         \/ FinalizeUnlock(c) /\ call[c].at = "unlock" /\ call'[c].at = "add"
         => (unlocked' \/ d \in misled') /\ \E tree \in Tree : work' = Written(d, tree)
    <3>1. call[c].on = d /\ work \in Tree /\ Configured(TRUE) \in Tree
      BY <1>3, ConfiguredTypes DEF Works, TypeOK
    <3>2. CASE /\ work' = Written(call[c].on, work)
               /\ misled' = IF unlocked THEN misled ELSE misled \cup {call[c].on}
               /\ FinalizeCheck(c)
      <4>1. UNCHANGED unlocked
        BY <3>2 DEF FinalizeCheck
      <4> QED BY <3>1, <3>2, <4>1
    <3>3. CASE FinalizeUnlock(c)
      BY <3>1, <3>3 DEF FinalizeUnlock
    <3> QED BY <3>2, <3>3
  <2>7. CASE call'[c].at \in {"compose", "open"}
    BY <2>1, <2>7 DEF Sole, InClone
  <2>8. ~ Finalize(c, d)
    BY <1>3 DEF Finalize, Starts, Works
  <2> QED BY <1>3, <2>2, <2>3, <2>4, <2>5, <2>6, <2>7, <2>8, <2>9, <2>10, FinalizeSteps DEF Works
<1> QED BY <1>2, <1>3, FinalizeSteps DEF Works

(* gitcrypt.py and tools/adoption.py: for any number of drafts, calls and   *)
(* .env files, the branch behind a pull request whose calls had the clone   *)
(* to themselves carries its draft's .env and no other change to one, and   *)
(* carries it encrypted unless is_locked took a locked clone for unlocked   *)
(* -- after every failure, stop, retry and relock on the way.               *)
THEOREM UndisturbedExact == Spec => []UndisturbedIsExact
<1>1. Init => DraftInv /\ ExactInv /\ SoleInv
  <2> SUFFICES ASSUME Init PROVE DraftInv /\ ExactInv /\ SoleInv
    OBVIOUS
  <2>1. \A d \in Drafts : remote[d] = <<>>
    BY FileKinds DEF Init
  <2>2. \A c \in Calls, d \in Drafts : ~ Works(c, d)
    BY DEF Init, Works
  <2> QED BY <2>1, <2>2 DEF DraftInv, ExactInv, SoleInv
<1>2. TypeOK /\ DraftInv /\ ExactInv /\ SoleInv /\ [Next]_vars => DraftInv' /\ ExactInv' /\ SoleInv'
  BY NextDraft, NextExact, NextSole
<1>3. TypeOK /\ ExactInv => UndisturbedIsExact
  BY DEF TypeOK, ExactInv, UndisturbedIsExact
<1> QED BY <1>1, <1>2, <1>3, TypeCorrect, PTL DEF Spec
=============================================================================
