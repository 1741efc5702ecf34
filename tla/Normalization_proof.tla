-------------------------- MODULE Normalization_proof --------------------------
(* The lock of the normalization engine keeps a node from having two open   *)
(* proposals, and its pull requests only format, for every number of        *)
(* callers, nodes, files, texts, pull requests and faults.                  *)
EXTENDS Normalization, FiniteSetTheorems, WellFoundedInduction, TLAPS

(* What a sweep must have in hand at each place for the rest to make sense. *)
Shape ==
    /\ DOMAIN sweep = Callers /\ DOMAIN rows = Nodes
    /\ \A c \in Callers :
          /\ "at" \in DOMAIN sweep[c]
          /\ sweep[c].at \in {"format", "commit", "delete"} =>
                "node" \in DOMAIN sweep[c] /\ sweep[c].node \in Nodes

(* engine.py:331: one sweep at a time.                                      *)
OneSweep == \A c, d \in Busy : c = d

(* From the look for an open row until its own is written, the node a sweep *)
(* is at has none.                                                          *)
NodeIsFree ==
    \A c \in Callers :
        sweep[c].at \in {"format", "commit", "delete"} => rows[sweep[c].node] = {}

IInv == Shape /\ OneSweep /\ NodeIsFree /\ OneOpenRowPerNode

LEMMA InitIInv == Init => IInv
BY DEF Init, IInv, Shape, OneSweep, Busy, NodeIsFree, OneOpenRowPerNode, Idle

(* A caller that goes on, or ends, lets nobody else in; and a step that     *)
(* writes no row can only disturb its own sweep.                            *)
LEMMA GoesOn ==
    ASSUME IInv, NEW c \in Busy, NEW next, Goes(c, next), UNCHANGED rows,
           "at" \in DOMAIN next,
           next.at \in {"format", "commit", "delete"} =>
              "node" \in DOMAIN next /\ next.node \in Nodes /\ rows[next.node] = {}
    PROVE  IInv'
<1>1. \A d \in Callers : sweep'[d] = IF d = c THEN next ELSE sweep[d]
  BY DEF Goes, IInv, Shape
<1>2. Shape'
  BY <1>1 DEF Goes, IInv, Shape
<1>3. OneSweep' /\ NodeIsFree' /\ OneOpenRowPerNode'
  BY <1>1 DEF IInv, OneSweep, Busy, NodeIsFree, OneOpenRowPerNode
<1> QED
  BY <1>2, <1>3 DEF IInv

(* The same for a step that leaves the caller's place and node alone.       *)
LEMMA StaysOn ==
    ASSUME IInv, NEW c \in Busy, NEW next, Goes(c, next), UNCHANGED rows,
           DOMAIN next = DOMAIN sweep[c],
           sweep[c].at \in {"read", "format", "commit", "delete"},
           next.at \in {"format", "commit", "delete"} =>
              sweep[c].at \in {"format", "commit", "delete"} /\ next.node = sweep[c].node
    PROVE  IInv'
BY GoesOn DEF IInv, Shape, NodeIsFree, Busy

(* The end of a node's part.                                                *)
LEMMA GoesOnward ==
    ASSUME NEW c, NEW todo, Onward(c, todo)
    PROVE  \E next : /\ Goes(c, next) /\ "at" \in DOMAIN next
                     /\ next.at \in {"idle", "node"}
BY DEF Onward, Idle

LEMMA OnwardKeeps ==
    ASSUME IInv, NEW c \in Busy, NEW todo, Onward(c, todo), UNCHANGED rows
    PROVE  IInv'
BY GoesOnward, GoesOn

LEMMA StepIInv == IInv /\ [Next]_vars => IInv'
<1> SUFFICES ASSUME IInv, [Next]_vars PROVE IInv'
  OBVIOUS
<1> USE DEF Host, Budget
<1>0. \A c \in Callers : c \in Busy <=> sweep[c] # Idle
  BY DEF Busy
<1>1. ASSUME NEW c \in Callers, NEW ns, NEW dry, Sweep(c, ns, dry) PROVE IInv'
  <2>1. \A d \in Callers : sweep[d] = Idle
    BY <1>1 DEF Sweep, LockFree, Busy
  <2>2. \A d \in Callers : d # c => sweep'[d] = Idle
    BY <1>1, <2>1 DEF Sweep, Goes, IInv, Shape
  <2>3. sweep'[c].at = "list" /\ "at" \in DOMAIN sweep'[c] /\ DOMAIN sweep' = Callers
    BY <1>1 DEF Sweep, Goes, IInv, Shape
  <2>4. rows' = rows
    BY <1>1 DEF Sweep
  <2> QED
    BY <2>2, <2>3, <2>4
       DEF IInv, Shape, OneSweep, Busy, NodeIsFree, OneOpenRowPerNode, Idle
<1>2. ASSUME NEW c \in Callers, List(c) PROVE IInv'
  <2>1. c \in Busy
    BY <1>2, <1>0 DEF List, At, Idle
  <2> QED
    BY <1>2, <2>1, GoesOn DEF List
<1>3. ASSUME NEW c \in Callers, NEW p \in Paths, ReadFile(c, p) PROVE IInv'
  <2>1. c \in Busy /\ sweep[c].at = "read"
    BY <1>3, <1>0 DEF ReadFile, At, Idle
  <2>2. PICK unread, seen :
           Goes(c, [sweep[c] EXCEPT !.unread = unread, !.seen = seen])
           \/ Goes(c, [sweep[c] EXCEPT !.unread = unread])
    BY <1>3 DEF ReadFile
  <2>3. "at" \in DOMAIN sweep[c]
    BY <2>1 DEF IInv, Shape, Busy
  <2>4. CASE Goes(c, [sweep[c] EXCEPT !.unread = unread, !.seen = seen])
    <3> DEFINE next == [sweep[c] EXCEPT !.unread = unread, !.seen = seen]
    <3>1. DOMAIN next = DOMAIN sweep[c] /\ next.at = "read"
      BY <2>1, <2>3
    <3> QED
      BY <1>3, <2>1, <2>4, <3>1, StaysOn DEF ReadFile
  <2>5. CASE Goes(c, [sweep[c] EXCEPT !.unread = unread])
    <3> DEFINE next == [sweep[c] EXCEPT !.unread = unread]
    <3>1. DOMAIN next = DOMAIN sweep[c] /\ next.at = "read"
      BY <2>1, <2>3
    <3> QED
      BY <1>3, <2>1, <2>5, <3>1, StaysOn DEF ReadFile
  <2> QED
    BY <2>2, <2>4, <2>5
<1>4. ASSUME NEW c \in Callers, Scanned(c) PROVE IInv'
  <2>1. c \in Busy
    BY <1>4, <1>0 DEF Scanned, At, Idle
  <2> QED
    BY <1>4, <2>1, OnwardKeeps DEF Scanned
<1>5. ASSUME NEW c \in Callers, NEW n \in Nodes, SkipNode(c, n) PROVE IInv'
  <2>1. c \in Busy
    BY <1>5, <1>0 DEF SkipNode, At, Idle
  <2> QED
    BY <1>5, <2>1, OnwardKeeps DEF SkipNode, NextNode
<1>6. ASSUME NEW c \in Callers, NEW n \in Nodes, EnterNode(c, n) PROVE IInv'
  <2>1. c \in Busy
    BY <1>6, <1>0 DEF EnterNode, At, Idle
  <2>2. /\ DOMAIN rows' = Nodes
        /\ \A m \in Nodes : rows'[m] \subseteq rows[m]
        /\ rows'[n] = {}
    BY <1>6 DEF EnterNode, IInv, Shape, OneOpenRowPerNode
  <2>3. /\ sweep'[c].at = "format" /\ sweep'[c].node = n
        /\ {"at", "node"} \subseteq DOMAIN sweep'[c]
        /\ DOMAIN sweep' = Callers
        /\ \A d \in Callers : d # c => sweep'[d] = sweep[d]
    BY <1>6 DEF EnterNode, Goes, IInv, Shape
  <2>4. Shape' /\ OneOpenRowPerNode'
    BY <2>2, <2>3 DEF IInv, Shape, OneOpenRowPerNode
  <2>5. OneSweep'
    BY <2>1, <2>3 DEF IInv, OneSweep, Busy
  <2>6. NodeIsFree'
    BY <2>2, <2>3 DEF IInv, NodeIsFree, Shape
  <2> QED
    BY <2>4, <2>5, <2>6 DEF IInv
<1>7. ASSUME NEW c \in Callers, FormatFile(c) PROVE IInv'
  <2>1. c \in Busy /\ sweep[c].at = "format"
    BY <1>7, <1>0 DEF FormatFile, At, Idle
  <2>2. PICK left, changes :
           Goes(c, [sweep[c] EXCEPT !.left = left, !.changes = changes])
    BY <1>7 DEF FormatFile
  <2> QED
    BY <1>7, <2>1, <2>2, StaysOn DEF FormatFile, Shape, IInv
<1>8. ASSUME NEW c \in Callers, NothingToDo(c) PROVE IInv'
  <2>1. c \in Busy
    BY <1>8, <1>0 DEF NothingToDo, Formatted, At, Idle
  <2> QED
    BY <1>8, <2>1, OnwardKeeps DEF NothingToDo, NextNode
<1>9. ASSUME NEW c \in Callers, Branch(c) PROVE IInv'
  <2>1. c \in Busy /\ sweep[c].at = "format"
    BY <1>9, <1>0 DEF Branch, MustBranch, Formatted, At, Idle
  <2>2. sweep[c].node \in Nodes /\ rows[sweep[c].node] = {}
    BY <2>1 DEF IInv, Shape, NodeIsFree, Busy
  <2> QED
    BY <1>9, <2>1, <2>2, GoesOn DEF Branch
<1>10. ASSUME NEW c \in Callers, Commit(c) PROVE IInv'
  <2>1. c \in Busy /\ sweep[c].at = "commit"
    BY <1>10, <1>0 DEF Commit, At, Idle
  <2>2. PICK tree, at, changes :
           Goes(c, [sweep[c] EXCEPT !.tree = tree, !.at = at, !.changes = changes])
    BY <1>10 DEF Commit
  <2> DEFINE next == [sweep[c] EXCEPT !.tree = tree, !.at = at, !.changes = changes]
  <2>3. "node" \in DOMAIN sweep[c]
    BY <2>1 DEF IInv, Shape, Busy
  <2>4. DOMAIN next = DOMAIN sweep[c] /\ next.node = sweep[c].node
    BY <2>3
  <2>5. UNCHANGED rows
    BY <1>10 DEF Commit
  <2> HIDE DEF next
  <2> QED
    BY <2>1, <2>2, <2>4, <2>5, StaysOn DEF next
<1>11. ASSUME NEW c \in Callers, Delete(c) PROVE IInv'
  <2>1. c \in Busy /\ sweep[c].at = "delete"
    BY <1>11, <1>0 DEF Delete, At, Idle
  <2>2. PICK tree, at, changes :
           Goes(c, [sweep[c] EXCEPT !.tree = tree, !.at = at, !.changes = changes])
    BY <1>11 DEF Delete
  <2> DEFINE next == [sweep[c] EXCEPT !.tree = tree, !.at = at, !.changes = changes]
  <2>3. "node" \in DOMAIN sweep[c]
    BY <2>1 DEF IInv, Shape, Busy
  <2>4. DOMAIN next = DOMAIN sweep[c] /\ next.node = sweep[c].node
    BY <2>3
  <2>5. UNCHANGED rows
    BY <1>11 DEF Delete
  <2> HIDE DEF next
  <2> QED
    BY <2>1, <2>2, <2>4, <2>5, StaysOn DEF next
<1>12. ASSUME NEW c \in Callers, Open(c) PROVE IInv'
  <2>1. c \in Busy /\ sweep[c].at = "commit"
    BY <1>12, <1>0 DEF Open, At, Idle
  <2>2. Onward(c, sweep[c].todo \ {sweep[c].node})
    BY <1>12 DEF Open, NextNode
  <2>3. CASE rows' = rows
    BY <2>1, <2>2, <2>3, OnwardKeeps
  <2>4. CASE \E k \in Pulls : rows' = [rows EXCEPT ![sweep[c].node] = @ \cup {k}]
    <3>1. PICK k \in Pulls : rows' = [rows EXCEPT ![sweep[c].node] = @ \cup {k}]
      BY <2>4
    <3>2. sweep[c].node \in Nodes /\ rows[sweep[c].node] = {}
      BY <2>1 DEF IInv, Shape, NodeIsFree, Busy
    <3>3. PICK next : Goes(c, next) /\ "at" \in DOMAIN next /\ next.at \in {"idle", "node"}
      BY <2>2, GoesOnward
    <3>4. /\ DOMAIN sweep' = Callers /\ sweep'[c] = next
          /\ \A d \in Callers : d # c => sweep'[d] = sweep[d]
      BY <3>3, <2>1 DEF Goes, IInv, Shape, Busy
    <3>5. Shape'
      BY <3>1, <3>3, <3>4 DEF IInv, Shape
    <3>6. \A d \in Callers : d # c => sweep[d] = Idle
      BY <2>1 DEF IInv, OneSweep, Busy
    <3>7. OneSweep' /\ NodeIsFree'
      BY <3>3, <3>4, <3>6 DEF OneSweep, Busy, NodeIsFree, Idle
    <3>8. OneOpenRowPerNode'
      BY <3>1, <3>2 DEF IInv, Shape, OneOpenRowPerNode
    <3> QED
      BY <3>5, <3>7, <3>8 DEF IInv
  <2> QED
    BY <1>12, <2>3, <2>4 DEF Open
<1>13. ASSUME NEW c \in Callers, Fails(c) PROVE IInv'
  <2>1. c \in Busy
    BY <1>13, <1>0 DEF Fails, MustBranch, Formatted, At, Idle
  <2>2. CASE Goes(c, Idle)
    BY <1>13, <2>1, <2>2, GoesOn DEF Fails, Idle
  <2>3. CASE NextNode(c, sweep[c].node)
    BY <1>13, <2>1, <2>3, OnwardKeeps DEF Fails, NextNode
  <2> QED
    BY <1>13, <2>2, <2>3 DEF Fails
<1>14. CASE Restart
  BY <1>14
     DEF Restart, IInv, Shape, OneSweep, Busy, NodeIsFree, OneOpenRowPerNode, Idle
<1>15. ASSUME NEW n \in Nodes, Cancel(n) PROVE IInv'
  <2>1. PICK k : rows' = [rows EXCEPT ![n] = @ \ {k}]
    BY <1>15 DEF Cancel
  <2>2. DOMAIN rows' = Nodes /\ \A m \in Nodes : rows'[m] \subseteq rows[m]
    BY <2>1 DEF IInv, Shape
  <2>3. sweep' = sweep
    BY <1>15 DEF Cancel
  <2> QED
    BY <2>2, <2>3 DEF IInv, Shape, OneSweep, Busy, NodeIsFree, OneOpenRowPerNode
<1>16. CASE UNCHANGED <<rows, sweep>>
  BY <1>16 DEF IInv, Shape, OneSweep, Busy, NodeIsFree, OneOpenRowPerNode
<1>17. ASSUME NEW k \in Pulls, Merge(k) \/ Close(k) PROVE UNCHANGED <<rows, sweep>>
  BY <1>17 DEF Merge, Close
<1>18. ASSUME NEW p \in Paths, NEW text \in Edits, Edit(p, text)
       PROVE  UNCHANGED <<rows, sweep>>
  BY <1>18 DEF Edit
<1>19. UNCHANGED vars => UNCHANGED <<rows, sweep>>
  BY DEF vars
<1> QED
  BY <1>1, <1>2, <1>3, <1>4, <1>5, <1>6, <1>7, <1>8, <1>9, <1>10, <1>11, <1>12, <1>13,
     <1>14, <1>15, <1>16, <1>17, <1>18, <1>19
     DEF Next, Proceed

(* engine.py:331: "two sweeps could otherwise both find no open proposal    *)
(* for a node and both open a PR for it".                                   *)
THEOREM OneRowPerNode == Spec => []OneOpenRowPerNode
<1>1. Spec => []IInv
  BY InitIInv, StepIInv, PTL DEF Spec
<1> QED
  BY <1>1, PTL DEF IInv

-----------------------------------------------------------------------------
(* A pull request keeps the meaning of every stack.                         *)

(* What a sweep may do to one of the files it saw, and to several.          *)
Rewrites(seen, ch) ==
    /\ ch.from \in Paths /\ ch.to = NewPath(ch.from) /\ seen[ch.from] # Absent
    /\ ch.text \in Texts \ {Absent} /\ Meaning(ch.text) = Meaning(seen[ch.from])

Plan(seen, changes) ==
    /\ changes \in Seq(ToSet(changes))
    /\ \A ch \in ToSet(changes) : Rewrites(seen, ch)

(* A file for each path, of a text that can come up.                        *)
Tree(tree) == DOMAIN tree = Paths /\ \A p \in Paths : tree[p] \in Texts

HostInv == Tree(base) /\ DOMAIN pull = Pulls /\ \A k \in Live : Tree(pull[k].tree)

(* What a sweep has read ...                                                *)
HasRead(s) ==
    /\ s.at \in {"read", "node", "format", "commit", "delete"} =>
          "seen" \in DOMAIN s /\ Tree(s.seen)
    /\ s.at = "read" => "unread" \in DOMAIN s /\ s.unread \subseteq Paths

(* ... is to format, and has formatted ...                                  *)
HasFormatted(s) ==
    s.at = "format" =>
        /\ {"left", "changes"} \subseteq DOMAIN s
        /\ \A p \in s.left : p \in Paths /\ s.seen[p] # Absent
        /\ Plan(s.seen, s.changes)

(* ... and has still to put on the branch, with what that was made from.    *)
HasBranched(s) ==
    s.at \in {"commit", "delete"} =>
        /\ {"changes", "fork", "tree", "stale"} \subseteq DOMAIN s
        /\ Plan(s.seen, s.changes)
        /\ Tree(s.tree)
        /\ \A p \in Paths \ s.stale : s.fork[p] = s.seen[p]
        /\ s.at = "delete" =>
              LET ch == Head(s.changes)
              IN s.changes # <<>> /\ ch.from # ch.to /\ s.tree[ch.to] = ch.text

(* f is the one file of the stack of p, and nobody touched the stack        *)
(* between the scan and the branch.                                         *)
Undisturbed(s, p, f) == StackOf(p) \cap s.stale = {} /\ FilesOf(s.fork, p) = {f}

(* It still has one file, under its old name or its new one, and means what *)
(* it did.                                                                  *)
Kept(s, p, f) ==
    \E g \in {f, NewPath(f)} : /\ FilesOf(s.tree, p) = {g}
                               /\ Meaning(s.tree[g]) = Meaning(s.fork[f])

(* Between the commit at its new path and the deletion at its old one it    *)
(* may be there twice.                                                      *)
Twofold(s, p, f) ==
    LET ch == Head(s.changes)
    IN /\ s.at = "delete" /\ ch.from = f
       /\ ch.to \in FilesOf(s.tree, p) /\ FilesOf(s.tree, p) \subseteq {f, ch.to}

KeepsStacks(s) ==
    s.at \in {"commit", "delete"} =>
        \A p, f \in Paths : Undisturbed(s, p, f) =>
            \/ Kept(s, p, f) /\ (s.at = "delete" => Head(s.changes).from # f)
            \/ Twofold(s, p, f)

SweepOK(s) == HasRead(s) /\ HasFormatted(s) /\ HasBranched(s) /\ KeepsStacks(s)
SweepInv == \A c \in Callers : SweepOK(sweep[c])

MInv == HostInv /\ SweepInv /\ FormattingOnly

-----------------------------------------------------------------------------
(* What the formatter and the model may make of a text means the same.      *)

LEMMA FormatterKeepsMeaning ==
    ASSUME NEW text, Normalize(text) # None
    PROVE  /\ "text" \in DOMAIN Normalize(text)
           /\ Equivalent(text, Normalize(text).text)
<1> DEFINE reshaped == Reshape(text)
           rooted   == Ordered(reshaped, Root, "N-005")
           ordered  == Ordered(rooted, Nested, "N-009")
<1>1. Normalize(text) = ordered /\ SameMeaning(text, reshaped.text)
  BY DEF Normalize
<1>2. \A result, path, rule :
         "text" \in DOMAIN result =>
            /\ "text" \in DOMAIN Ordered(result, path, rule)
            /\ \/ Ordered(result, path, rule).text = result.text
               \/ SameMeaning(result.text, Ordered(result, path, rule).text)
  BY DEF Ordered
<1>3. "text" \in DOMAIN reshaped
  BY DEF Reshape
<1> HIDE DEF reshaped
<1>4. /\ "text" \in DOMAIN rooted
      /\ rooted.text = reshaped.text \/ SameMeaning(reshaped.text, rooted.text)
  BY <1>2, <1>3
<1> HIDE DEF rooted
<1>5. /\ "text" \in DOMAIN ordered
      /\ ordered.text = rooted.text \/ SameMeaning(rooted.text, ordered.text)
  BY <1>2, <1>4
<1> QED
  BY <1>1, <1>4, <1>5 DEF SameMeaning, Equivalent

LEMMA OutcomesKeepMeaning ==
    ASSUME NEW text, NEW o \in Outcomes(text), o # None
    PROVE  /\ "text" \in DOMAIN o /\ "model" \in DOMAIN o /\ o.model \in BOOLEAN
           /\ o.text # Absent /\ Meaning(o.text) = Meaning(text)
<1>1. IsCompose(text)
  BY DEF Outcomes
<1>2. Equivalent(text, o.text) /\ o = [text |-> o.text, model |-> o.model] /\ o.model \in BOOLEAN
  <2>1. CASE Normalize(text) = None
    <3>1. \E t \in Escalate(text) : o = ByModel(t)
      BY <1>1, <2>1 DEF Outcomes
    <3> QED
      BY <3>1 DEF ByModel, Escalate
  <2>2. CASE Normalize(text) # None
    <3> DEFINE done == Normalize(text)
    <3>1. Equivalent(text, done.text)
      BY <2>2, FormatterKeepsMeaning
    <3>2. o = ByRule(done.text) \/ \E t \in Escalate(done.text) : o = ByModel(t)
      BY <1>1, <2>2 DEF Outcomes
    <3> HIDE DEF done
    <3>3. \A t \in Escalate(done.text) : Equivalent(text, t)
      BY <3>1 DEF Escalate, Equivalent
    <3>4. CASE o = ByRule(done.text)
      BY <3>1, <3>4 DEF ByRule
    <3>5. ASSUME NEW t \in Escalate(done.text), o = ByModel(t)
          PROVE  /\ Equivalent(text, o.text)
                 /\ o = [text |-> o.text, model |-> o.model] /\ o.model \in BOOLEAN
      BY <3>3, <3>5 DEF ByModel
    <3> QED
      BY <3>2, <3>4, <3>5
  <2> QED
    BY <2>1, <2>2
<1>3. "keys" \in DOMAIN Meaning(text) /\ Meaning(text) = Meaning(o.text)
  BY <1>1, <1>2 DEF Meaning, Equivalent
<1>4. ~ IsCompose(Absent)
  BY DEF IsCompose, Absent, Names, Lines
<1>5. "keys" \notin DOMAIN Meaning(Absent)
  BY <1>4 DEF Meaning
<1> QED
  BY <1>2, <1>3, <1>5

-----------------------------------------------------------------------------
(* Stacks.                                                                  *)

(* A file keeps its stack when it is renamed.                               *)
LEMMA RenamedInStack ==
    ASSUME NEW p \in Paths, NEW q \in Paths
    PROVE  /\ NewPath(q) \in Paths
           /\ NewPath(q) \in StackOf(p) <=> q \in StackOf(p)
BY PathAssumption DEF NewPath, StackOf

LEMMA SoleFile ==
    ASSUME NEW tree, NEW p \in Paths
    PROVE  Cardinality(FilesOf(tree, p)) = 1 <=> \E f \in Paths : FilesOf(tree, p) = {f}
<1>1. IsFiniteSet(Paths)
  <2>1. \A q \in Paths : \E i \in DOMAIN Listing : Listing[i] = q
    BY DEF Paths, ToSet
  <2>2. Listing \in Seq(Paths) /\ DOMAIN Listing = 1..Len(Listing)
    BY PathAssumption
  <2> QED
    BY <2>1, <2>2 DEF IsFiniteSet
<1>2. FilesOf(tree, p) \subseteq Paths
  BY DEF FilesOf, StackOf
<1>3. IsFiniteSet(FilesOf(tree, p))
  BY <1>1, <1>2, FS_Subset
<1> QED
  BY <1>2, <1>3, FS_Singleton

LEMMA PlanOf ==
    ASSUME NEW seen, NEW S, NEW changes \in Seq(S), \A ch \in S : Rewrites(seen, ch)
    PROVE  Plan(seen, changes)
<1>1. /\ DOMAIN changes = 1..Len(changes) /\ Len(changes) \in Nat
      /\ changes = [i \in 1..Len(changes) |-> changes[i]]
      /\ \A i \in 1..Len(changes) : changes[i] \in S /\ changes[i] \in ToSet(changes)
  BY DEF ToSet
<1>2. changes \in Seq(ToSet(changes))
  BY <1>1
<1> QED
  BY <1>1, <1>2 DEF Plan, ToSet

LEMMA PlanParts ==
    ASSUME NEW seen, NEW changes, Plan(seen, changes)
    PROVE  /\ changes # <<>> => Rewrites(seen, Head(changes)) /\ Plan(seen, Tail(changes))
           /\ \A n \in 0..Len(changes) : Plan(seen, SubSeq(changes, 1, n))
           /\ \A ch : Rewrites(seen, ch) => Plan(seen, Append(changes, ch))
<1> DEFINE S == ToSet(changes)
<1>1. changes \in Seq(S) /\ \A ch \in S : Rewrites(seen, ch)
  BY DEF Plan
<1> HIDE DEF S
<1>2. ASSUME changes # <<>> PROVE Rewrites(seen, Head(changes)) /\ Plan(seen, Tail(changes))
  <2>1. Head(changes) \in S /\ Tail(changes) \in Seq(S)
    BY <1>1, <1>2
  <2> QED
    BY <1>1, <2>1, PlanOf
<1>3. ASSUME NEW n \in 0..Len(changes) PROVE Plan(seen, SubSeq(changes, 1, n))
  <2>1. SubSeq(changes, 1, n) \in Seq(S)
    BY <1>1
  <2> QED
    BY <1>1, <2>1, PlanOf
<1>4. ASSUME NEW ch, Rewrites(seen, ch) PROVE Plan(seen, Append(changes, ch))
  <2> DEFINE all == S \cup {ch}
  <2>1. Append(changes, ch) \in Seq(all)
    BY <1>1
  <2>2. \A x \in all : Rewrites(seen, x)
    BY <1>1, <1>4
  <2> HIDE DEF all
  <2> QED
    BY <2>1, <2>2, PlanOf
<1> QED
  BY <1>2, <1>3, <1>4

(* A planned change of a stack with one file is one of that file.           *)
LEMMA OnlyTheFileChanges ==
    ASSUME NEW s, HasBranched(s), s.at \in {"commit", "delete"},
           NEW p \in Paths, NEW f \in Paths, Undisturbed(s, p, f),
           NEW ch, Rewrites(s.seen, ch)
    PROVE  /\ f \in StackOf(p)
           /\ ch.from \in Paths /\ ch.to \in Paths /\ ch.to = NewPath(ch.from)
           /\ ch.text # Absent
           /\ ch.from \in StackOf(p) <=> ch.from = f
           /\ ch.to \in StackOf(p) <=> ch.from = f
           /\ ch.from = f => Meaning(ch.text) = Meaning(s.fork[f])
<1>1. f \in StackOf(p)
  BY DEF Undisturbed, FilesOf
<1>2. \A q \in StackOf(p) : q \in Paths \ s.stale
  BY DEF Undisturbed, StackOf
<1>3. \A q \in StackOf(p) : s.seen[q] = s.fork[q]
  BY <1>2 DEF HasBranched
<1>4. /\ ch.from \in Paths /\ ch.to \in Paths /\ ch.to = NewPath(ch.from)
      /\ ch.text # Absent
      /\ s.seen[ch.from] # Absent /\ Meaning(ch.text) = Meaning(s.seen[ch.from])
  BY RenamedInStack DEF Rewrites
<1>5. \A q \in StackOf(p) : s.fork[q] # Absent => q = f
  BY DEF Undisturbed, FilesOf
<1>6. ch.from \in StackOf(p) <=> ch.from = f
  BY <1>1, <1>3, <1>4, <1>5
<1> QED
  BY <1>1, <1>3, <1>4, <1>6, RenamedInStack

-----------------------------------------------------------------------------
(* The steps of a sweep, as operations on what it has in hand.              *)

LEMMA CommitKeeps ==
    ASSUME NEW s, SweepOK(s), "at" \in DOMAIN s, s.at = "commit", s.changes # <<>>,
           NEW ch, ch = Head(s.changes),
           NEW next,
           next = [s EXCEPT !.tree[ch.to] = ch.text,
                            !.at = IF ch.from = ch.to THEN "commit" ELSE "delete",
                            !.changes = IF ch.from = ch.to THEN Tail(@) ELSE @]
    PROVE  SweepOK(next)
<1> USE DEF SweepOK
<1>1. /\ {"seen", "changes", "fork", "tree", "stale"} \subseteq DOMAIN s
      /\ Tree(s.tree) /\ DOMAIN s.tree = Paths /\ Plan(s.seen, s.changes)
      /\ Rewrites(s.seen, ch) /\ Plan(s.seen, Tail(s.changes))
  BY PlanParts DEF HasRead, HasBranched, Tree
<1>2. /\ DOMAIN next = DOMAIN s
      /\ next.seen = s.seen /\ next.fork = s.fork /\ next.stale = s.stale
      /\ next.tree = [s.tree EXCEPT ![ch.to] = ch.text]
      /\ next.at = IF ch.from = ch.to THEN "commit" ELSE "delete"
      /\ next.changes = IF ch.from = ch.to THEN Tail(s.changes) ELSE s.changes
  BY <1>1
<1>3. ch.to \in Paths /\ Tree(next.tree)
  BY <1>1, <1>2, RenamedInStack DEF Rewrites, Tree
<1>4. HasRead(next) /\ HasFormatted(next)
  BY <1>2 DEF HasRead, HasFormatted
<1>5. HasBranched(next)
  BY <1>1, <1>2, <1>3 DEF HasBranched
<1>6. ASSUME NEW p \in Paths, NEW f \in Paths, Undisturbed(next, p, f)
      PROVE  \/ Kept(next, p, f) /\ (next.at = "delete" => Head(next.changes).from # f)
             \/ Twofold(next, p, f)
  <2>1. Undisturbed(s, p, f)
    BY <1>2, <1>6 DEF Undisturbed
  <2>2. PICK g \in {f, NewPath(f)} :
           FilesOf(s.tree, p) = {g} /\ Meaning(s.tree[g]) = Meaning(s.fork[f])
    BY <2>1 DEF KeepsStacks, Twofold, Kept
  <2>3. /\ ch.to = NewPath(ch.from) /\ ch.text # Absent
        /\ ch.to \in StackOf(p) <=> ch.from = f
        /\ ch.from = f => Meaning(ch.text) = Meaning(s.fork[f])
    BY <1>1, <2>1, OnlyTheFileChanges
  <2>4. FilesOf(next.tree, p) = IF ch.from = f THEN {g, ch.to} ELSE {g}
    <3>1. \A q \in Paths : next.tree[q] = IF q = ch.to THEN ch.text ELSE s.tree[q]
      BY <1>1, <1>2, <1>3
    <3>2. FilesOf(next.tree, p) = IF ch.to \notin StackOf(p) THEN FilesOf(s.tree, p)
                                  ELSE FilesOf(s.tree, p) \cup {ch.to}
      BY <1>3, <2>3, <3>1 DEF FilesOf, StackOf
    <3> QED
      BY <2>2, <2>3, <3>2
  <2>5. g \in StackOf(p) /\ g \in Paths
    BY <2>2 DEF FilesOf, StackOf
  <2>6. CASE ch.from # f
    <3>1. next.tree[g] = s.tree[g]
      BY <1>1, <1>2, <2>3, <2>5, <2>6
    <3> QED
      BY <1>2, <2>2, <2>4, <2>6, <3>1 DEF Kept
  <2>7. CASE ch.from = f /\ ch.to = f
    BY <1>1, <1>2, <2>2, <2>3, <2>4, <2>7 DEF Kept
  <2>8. CASE ch.from = f /\ ch.to # f
    BY <1>2, <2>2, <2>3, <2>4, <2>8 DEF Twofold
  <2> QED
    BY <2>6, <2>7, <2>8
<1> QED
  BY <1>4, <1>5, <1>6 DEF KeepsStacks

LEMMA DeleteKeeps ==
    ASSUME NEW s, SweepOK(s), "at" \in DOMAIN s, s.at = "delete",
           NEW ch, ch = Head(s.changes),
           NEW next,
           next = [s EXCEPT !.tree[ch.from] = Absent, !.at = "commit", !.changes = Tail(@)]
    PROVE  SweepOK(next)
<1> USE DEF SweepOK
<1>1. /\ {"seen", "changes", "fork", "tree", "stale"} \subseteq DOMAIN s
      /\ Tree(s.tree) /\ DOMAIN s.tree = Paths
      /\ ch.from # ch.to /\ s.tree[ch.to] = ch.text
      /\ Rewrites(s.seen, ch) /\ Plan(s.seen, Tail(s.changes))
  BY PlanParts DEF HasRead, HasBranched, Tree
<1>2. /\ DOMAIN next = DOMAIN s
      /\ next.seen = s.seen /\ next.fork = s.fork /\ next.stale = s.stale
      /\ next.tree = [s.tree EXCEPT ![ch.from] = Absent]
      /\ next.at = "commit" /\ next.changes = Tail(s.changes)
  BY <1>1
<1>3. ch.from \in Paths /\ Tree(next.tree)
  BY <1>1, <1>2, TextAssumption DEF Rewrites, Tree
<1>4. HasRead(next) /\ HasFormatted(next)
  BY <1>2 DEF HasRead, HasFormatted
<1>5. HasBranched(next)
  BY <1>1, <1>2, <1>3 DEF HasBranched
<1>6. ASSUME NEW p \in Paths, NEW f \in Paths, Undisturbed(next, p, f)
      PROVE  Kept(next, p, f)
  <2>1. Undisturbed(s, p, f)
    BY <1>2, <1>6 DEF Undisturbed
  <2>2. \/ Kept(s, p, f) /\ ch.from # f
        \/ Twofold(s, p, f)
    BY <2>1 DEF KeepsStacks
  <2>3. /\ ch.from \in StackOf(p) <=> ch.from = f
        /\ ch.to = NewPath(ch.from) /\ ch.to \in Paths
        /\ ch.from = f => Meaning(ch.text) = Meaning(s.fork[f])
    BY <1>1, <2>1, OnlyTheFileChanges
  <2>4. FilesOf(next.tree, p) = IF ch.from = f THEN FilesOf(s.tree, p) \ {f}
                                               ELSE FilesOf(s.tree, p)
    <3>1. \A q \in Paths : next.tree[q] = IF q = ch.from THEN Absent ELSE s.tree[q]
      BY <1>1, <1>2, <1>3
    <3>2. FilesOf(next.tree, p) = IF ch.from \notin StackOf(p) THEN FilesOf(s.tree, p)
                                  ELSE FilesOf(s.tree, p) \ {ch.from}
      BY <1>3, <3>1 DEF FilesOf, StackOf
    <3> QED
      BY <2>3, <3>2
  <2>5. CASE ch.from # f
    <3>1. PICK g \in {f, NewPath(f)} :
             FilesOf(s.tree, p) = {g} /\ Meaning(s.tree[g]) = Meaning(s.fork[f])
      BY <2>2, <2>5 DEF Twofold, Kept
    <3>2. g \in StackOf(p) /\ g \in Paths
      BY <3>1 DEF FilesOf, StackOf
    <3>3. next.tree[g] = s.tree[g]
      BY <1>1, <1>2, <2>3, <2>5, <3>2
    <3> QED
      BY <1>2, <2>4, <2>5, <3>1, <3>3 DEF Kept
  <2>6. CASE ch.from = f
    <3>1. FilesOf(next.tree, p) = {ch.to}
      BY <1>1, <2>2, <2>4, <2>6 DEF Twofold
    <3>2. next.tree[ch.to] = ch.text
      BY <1>1, <1>2, <2>3
    <3> QED
      BY <1>2, <2>3, <2>6, <3>1, <3>2 DEF Kept
  <2> QED
    BY <2>5, <2>6
<1> QED
  BY <1>2, <1>4, <1>5, <1>6 DEF KeepsStacks

(* A new branch is still what it was made from.                             *)
LEMMA BranchStarts ==
    ASSUME NEW s, SweepOK(s), s.at = "format", NEW tree, Tree(tree),
           NEW next, {"seen", "changes", "fork", "tree", "stale"} \subseteq DOMAIN next,
           next.at = "commit", next.seen = s.seen, next.changes = Capped(s.changes),
           next.fork = tree, next.tree = tree,
           next.stale = {p \in Paths : tree[p] # s.seen[p]}
    PROVE  SweepOK(next)
<1> USE DEF SweepOK
<1>1. HasRead(next) /\ HasFormatted(next)
  BY DEF HasRead, HasFormatted
<1>2. Plan(s.seen, Capped(s.changes))
  <2>1. Plan(s.seen, s.changes) /\ Len(s.changes) \in Nat
    BY DEF HasFormatted, Plan
  <2>2. PICK n \in 0..Len(s.changes) : Capped(s.changes) = SubSeq(s.changes, 1, n)
    BY <2>1, PathAssumption DEF Capped
  <2>3. Plan(s.seen, SubSeq(s.changes, 1, n))
    BY <2>1, PlanParts
  <2> QED
    BY <2>2, <2>3
<1>3. HasBranched(next)
  BY <1>2 DEF HasBranched
<1>4. KeepsStacks(next)
  BY DEF KeepsStacks, Undisturbed, Kept
<1> QED
  BY <1>1, <1>3, <1>4

(* What FormattingOnly asks of a pull request.                              *)
LEMMA BranchKeepsStacks ==
    ASSUME NEW s, SweepOK(s), s.at = "commit",
           NEW p \in Paths, StackOf(p) \cap s.stale = {}, Cardinality(FilesOf(s.fork, p)) = 1
    PROVE  /\ Cardinality(FilesOf(s.tree, p)) = 1
           /\ MeaningOf(s.tree, p) = MeaningOf(s.fork, p)
<1>1. PICK f \in Paths : FilesOf(s.fork, p) = {f}
  BY SoleFile
<1>2. PICK g \in {f, NewPath(f)} :
         FilesOf(s.tree, p) = {g} /\ Meaning(s.tree[g]) = Meaning(s.fork[f])
  BY <1>1 DEF SweepOK, KeepsStacks, Undisturbed, Twofold, Kept
<1>3. g \in Paths
  BY <1>2, RenamedInStack
<1>4. Cardinality(FilesOf(s.tree, p)) = 1
  BY <1>2, <1>3, SoleFile
<1> QED
  BY <1>1, <1>2, <1>4 DEF MeaningOf

(* The file at p became o.                                                  *)
Became(s, p, o) ==
    [s EXCEPT !.left = @ \ {p},
              !.changes = IF o # None /\ (o.text # s.seen[p] \/ NewPath(p) # p)
                          THEN Append(@, [from |-> p, to |-> NewPath(p),
                                          text |-> o.text, model |-> o.model])
                          ELSE @]

(* A file that is formatted adds a change that is one, or none.             *)
LEMMA FormatKeeps ==
    ASSUME NEW s, SweepOK(s), "at" \in DOMAIN s, s.at = "format",
           NEW p \in s.left, NEW o \in OutcomesOf[s.seen[p]]
    PROVE  SweepOK(Became(s, p, o))
<1> DEFINE next == Became(s, p, o)
<1> USE DEF SweepOK
<1>1. /\ {"seen", "left", "changes"} \subseteq DOMAIN s
      /\ p \in Paths /\ s.seen[p] # Absent /\ Plan(s.seen, s.changes)
      /\ s.seen[p] \in Texts
  BY DEF HasRead, HasFormatted, Tree
<1> DEFINE ch == [from |-> p, to |-> NewPath(p), text |-> o.text, model |-> o.model]
<1>2. o \in Outcomes(s.seen[p])
  BY <1>1 DEF OutcomesOf, Tree
<1>3. o # None => Rewrites(s.seen, ch)
  BY <1>1, <1>2, OutcomesKeepMeaning, TextAssumption DEF Rewrites
<1> HIDE DEF ch
<1>4. /\ DOMAIN next = DOMAIN s /\ next.at = "format"
      /\ next.seen = s.seen /\ next.left = s.left \ {p}
      /\ next.changes = s.changes \/ (o # None /\ next.changes = Append(s.changes, ch))
  BY <1>1 DEF ch, Became
<1> HIDE DEF next
<1>5. Plan(s.seen, next.changes)
  <2>1. \A x : Rewrites(s.seen, x) => Plan(s.seen, Append(s.changes, x))
    BY <1>1, PlanParts
  <2> QED
    BY <1>1, <1>3, <1>4, <2>1
<1> QED
  <2>1. SweepOK(next)
    BY <1>1, <1>4, <1>5 DEF HasRead, HasFormatted, HasBranched, KeepsStacks
  <2> QED
    BY <2>1 DEF next

LEMMA SweepGoes ==
    ASSUME Shape, SweepInv, NEW c \in Callers, NEW next, Goes(c, next), SweepOK(next)
    PROVE  SweepInv'
<1>1. \A d \in Callers : sweep'[d] = IF d = c THEN next ELSE sweep[d]
  BY DEF Goes, Shape
<1> QED
  BY <1>1 DEF SweepInv

LEMMA NothingInHand ==
    ASSUME NEW s, s.at \in {"idle", "list"}
    PROVE  SweepOK(s)
BY DEF SweepOK, HasRead, HasFormatted, HasBranched, KeepsStacks

LEMMA SweepGoesOnward ==
    ASSUME Shape, SweepInv, NEW c \in Callers,
           sweep[c].at \in {"read", "node", "format", "commit", "delete"},
           NEW todo, Onward(c, todo)
    PROVE  SweepInv'
<1>1. CASE Goes(c, Idle)
  BY <1>1, NothingInHand, SweepGoes DEF Idle
<1>2. ASSUME NEW next, Goes(c, next), "seen" \in DOMAIN next,
             next.at = "node", next.seen = sweep[c].seen
      PROVE  SweepInv'
  <2>1. HasRead(sweep[c])
    BY DEF SweepInv, SweepOK
  <2>2. SweepOK(next)
    BY <1>2, <2>1 DEF SweepOK, HasRead, HasFormatted, HasBranched, KeepsStacks
  <2> QED
    BY <1>2, <2>2, SweepGoes
<1> QED
  BY <1>1, <1>2 DEF Onward

LEMMA StepSweepInv == IInv /\ HostInv /\ SweepInv /\ [Next]_vars => SweepInv'
<1> SUFFICES ASSUME IInv, HostInv, SweepInv, [Next]_vars PROVE SweepInv'
  OBVIOUS
<1> USE DEF At
<1>0. Shape /\ \A c \in Callers : SweepOK(sweep[c]) /\ "at" \in DOMAIN sweep[c]
  BY DEF IInv, Shape, SweepInv
<1>1. ASSUME NEW c \in Callers, NEW ns, NEW dry, Sweep(c, ns, dry) PROVE SweepInv'
  <2>1. SweepOK([at |-> "list", todo |-> ns, dry |-> dry])
    BY NothingInHand
  <2> QED
    BY <1>0, <1>1, <2>1, SweepGoes DEF Sweep
<1>2. ASSUME NEW c \in Callers, List(c) PROVE SweepInv'
  <2>1. PICK next : /\ Goes(c, next) /\ next.at = "read" /\ {"unread", "seen"} \subseteq DOMAIN next
                    /\ next.unread \subseteq Paths /\ next.seen = [p \in Paths |-> Absent]
    BY <1>2 DEF List, Files
  <2>2. SweepOK(next)
    BY <2>1, TextAssumption DEF SweepOK, HasRead, HasFormatted, HasBranched, KeepsStacks, Tree
  <2> QED
    BY <1>0, <2>1, <2>2, SweepGoes
<1>3. ASSUME NEW c \in Callers, NEW p \in Paths, ReadFile(c, p) PROVE SweepInv'
  <2>1. /\ sweep[c].at = "read" /\ {"at", "seen", "unread"} \subseteq DOMAIN sweep[c]
        /\ DOMAIN sweep[c].seen = Paths /\ sweep[c].unread \subseteq Paths
        /\ Tree(sweep[c].seen) /\ Tree(base)
    BY <1>0, <1>3 DEF ReadFile, SweepOK, HasRead, HostInv, Tree
  <2>2. \A next : next.at = "read" /\ {"seen", "unread"} \subseteq DOMAIN next
                  /\ Tree(next.seen) /\ next.unread \subseteq Paths => SweepOK(next)
    BY DEF SweepOK, HasRead, HasFormatted, HasBranched, KeepsStacks
  <2>3. CASE Goes(c, [sweep[c] EXCEPT !.unread = @ \ {p}, !.seen[p] = base[p]])
    <3> DEFINE next == [sweep[c] EXCEPT !.unread = @ \ {p}, !.seen[p] = base[p]]
    <3>1. /\ next.at = "read" /\ {"seen", "unread"} \subseteq DOMAIN next
          /\ next.unread = sweep[c].unread \ {p}
          /\ next.seen = [sweep[c].seen EXCEPT ![p] = base[p]] /\ Tree(next.seen)
      BY <2>1 DEF Tree
    <3> HIDE DEF next
    <3>2. SweepOK(next)
      BY <2>1, <2>2, <3>1
    <3> QED
      BY <1>0, <2>3, <3>2, SweepGoes DEF next
  <2>4. CASE Goes(c, [sweep[c] EXCEPT !.unread = @ \ {p}])
    <3> DEFINE next == [sweep[c] EXCEPT !.unread = @ \ {p}]
    <3>1. /\ next.at = "read" /\ {"seen", "unread"} \subseteq DOMAIN next
          /\ next.unread = sweep[c].unread \ {p} /\ next.seen = sweep[c].seen
      BY <2>1
    <3> HIDE DEF next
    <3>2. SweepOK(next)
      BY <2>1, <2>2, <3>1
    <3> QED
      BY <1>0, <2>4, <3>2, SweepGoes DEF next
  <2> QED
    BY <1>3, <2>3, <2>4 DEF ReadFile
<1>4. ASSUME NEW c \in Callers, NEW n,
             Scanned(c) \/ SkipNode(c, n) \/ NothingToDo(c) \/ Open(c)
      PROVE  SweepInv'
  <2>1. sweep[c].at \in {"read", "node", "format", "commit"}
    BY <1>4 DEF Scanned, SkipNode, NothingToDo, Formatted, Open
  <2>2. \E todo : Onward(c, todo)
    BY <1>4 DEF Scanned, SkipNode, NothingToDo, Open, NextNode
  <2> QED
    BY <1>0, <2>1, <2>2, SweepGoesOnward
<1>5. ASSUME NEW c \in Callers, NEW n, EnterNode(c, n) PROVE SweepInv'
  <2>1. PICK next : /\ Goes(c, next) /\ next.at = "format"
                    /\ {"seen", "left", "changes"} \subseteq DOMAIN next
                    /\ next.seen = sweep[c].seen /\ next.left = Reports(c, n)
                    /\ next.changes = <<>>
    BY <1>5 DEF EnterNode
  <2>2. Plan(next.seen, <<>>)
    BY PlanOf DEF Plan, ToSet
  <2>3. SweepOK(next)
    BY <1>0, <1>5, <2>1, <2>2
       DEF EnterNode, SweepOK, HasRead, HasFormatted, HasBranched, KeepsStacks, Reports
  <2> QED
    BY <1>0, <2>1, <2>3, SweepGoes
<1>6. ASSUME NEW c \in Callers, FormatFile(c) PROVE SweepInv'
  <2>1. PICK p \in sweep[c].left :
           \E o \in OutcomesOf[sweep[c].seen[p]] : Goes(c, Became(sweep[c], p, o))
    BY <1>6, Zenon DEF FormatFile, Became
  <2>2. PICK o \in OutcomesOf[sweep[c].seen[p]] : Goes(c, Became(sweep[c], p, o))
    BY <2>1
  <2>3. sweep[c].at = "format" /\ SweepOK(sweep[c]) /\ "at" \in DOMAIN sweep[c]
    BY <1>0, <1>6 DEF FormatFile
  <2>4. SweepOK(Became(sweep[c], p, o))
    BY <2>3, FormatKeeps
  <2> QED
    BY <1>0, <2>2, <2>4, SweepGoes
<1>7. ASSUME NEW c \in Callers, Branch(c) PROVE SweepInv'
  <2>1. sweep[c].at = "format"
    BY <1>7 DEF Branch, MustBranch, Formatted
  <2>2. PICK next :
           /\ Goes(c, next) /\ {"seen", "changes", "fork", "tree", "stale"} \subseteq DOMAIN next
           /\ next.at = "commit" /\ next.seen = sweep[c].seen
           /\ next.changes = Capped(sweep[c].changes) /\ next.fork = base /\ next.tree = base
           /\ next.stale = {p \in Paths : base[p] # sweep[c].seen[p]}
    BY <1>7 DEF Branch
  <2>3. SweepOK(next)
    BY <1>0, <2>1, <2>2, BranchStarts DEF HostInv
  <2> QED
    BY <1>0, <2>2, <2>3, SweepGoes
<1>8. ASSUME NEW c \in Callers, Commit(c) PROVE SweepInv'
  BY <1>0, <1>8, CommitKeeps, SweepGoes DEF Commit
<1>9. ASSUME NEW c \in Callers, Delete(c) PROVE SweepInv'
  BY <1>0, <1>9, DeleteKeeps, SweepGoes DEF Delete
<1>10. ASSUME NEW c \in Callers, Fails(c) PROVE SweepInv'
  <2>1. CASE Goes(c, Idle)
    BY <1>0, <2>1, NothingInHand, SweepGoes DEF Idle
  <2>2. CASE /\ sweep[c].at \in {"format", "commit", "delete"}
             /\ NextNode(c, sweep[c].node)
    BY <1>0, <2>2, SweepGoesOnward DEF NextNode
  <2> QED
    BY <1>10, <2>1, <2>2 DEF Fails, MustBranch, Formatted
<1>11. CASE Restart
  <2>1. \A c \in Callers : sweep'[c].at = "idle"
    BY <1>11 DEF Restart, Idle
  <2> QED
    BY <2>1, NothingInHand DEF SweepInv
<1>12. CASE UNCHANGED sweep
  BY <1>12 DEF SweepInv
<1>13. ASSUME NEW k, NEW n, NEW p, NEW text,
              Merge(k) \/ Close(k) \/ Cancel(n) \/ Edit(p, text) \/ UNCHANGED vars
       PROVE  UNCHANGED sweep
  BY <1>13 DEF Merge, Close, Cancel, Edit, vars
<1> QED
  BY <1>1, <1>2, <1>3, <1>4, <1>5, <1>6, <1>7, <1>8, <1>9, <1>10, <1>11, <1>12, <1>13
     DEF Next, Proceed

(* Pull requests are as they were opened until they are merged or closed.   *)
LEMMA PullsShrink ==
    ASSUME FormattingOnly, \A k \in Live' : k \in Live /\ pull'[k] = pull[k]
    PROVE  FormattingOnly'
BY DEF FormattingOnly

LEMMA StepPulls ==
    IInv /\ MInv /\ [Next]_vars => HostInv' /\ FormattingOnly'
<1> SUFFICES ASSUME IInv, MInv, [Next]_vars PROVE HostInv' /\ FormattingOnly'
  OBVIOUS
<1>0. HostInv /\ FormattingOnly /\ DOMAIN pull = Pulls
  BY DEF MInv, HostInv
<1> DEFINE Shrunk == \A k \in Live' : k \in Live /\ pull'[k] = pull[k]
<1>1. ASSUME Shrunk, DOMAIN pull' = Pulls, UNCHANGED base PROVE HostInv' /\ FormattingOnly'
  BY <1>0, <1>1, PullsShrink DEF HostInv
<1>2. CASE UNCHANGED <<base, pull>>
  BY <1>0, <1>1, <1>2 DEF Live
<1>3. ASSUME NEW c \in Callers,
             \/ List(c) \/ Scanned(c) \/ FormatFile(c) \/ NothingToDo(c)
             \/ Branch(c) \/ Commit(c) \/ Delete(c) \/ Fails(c)
             \/ (\E p \in Paths : ReadFile(c, p)) \/ (\E n \in Nodes : SkipNode(c, n))
             \/ \E dry \in BOOLEAN : Sweep(c, Nodes, dry) \/ \E n \in Nodes : Sweep(c, {n}, dry)
      PROVE  HostInv' /\ FormattingOnly'
  <2>1. UNCHANGED <<base, pull>>
    BY <1>3 DEF Sweep, List, ReadFile, Scanned, SkipNode, FormatFile, NothingToDo, Branch,
                Commit, Delete, Fails, Host
  <2> QED
    BY <1>2, <2>1
<1>4. ASSUME NEW k, NEW v, pull' = [pull EXCEPT ![k] = v], v.state # "open", UNCHANGED base
      PROVE  HostInv' /\ FormattingOnly'
  <2>1. DOMAIN pull' = Pulls /\ \A j \in Pulls : j # k => pull'[j] = pull[j]
    BY <1>0, <1>4
  <2>2. k \in Pulls => pull'[k] = v
    BY <1>0, <1>4
  <2> QED
    BY <1>1, <1>4, <2>1, <2>2 DEF Live
<1>5. ASSUME NEW c \in Callers, NEW n \in Nodes, EnterNode(c, n) PROVE HostInv' /\ FormattingOnly'
  <2>1. NoPull.state # "open"
    BY DEF NoPull
  <2> QED
    BY <1>2, <1>4, <1>5, <2>1 DEF EnterNode
<1>6. ASSUME NEW n \in Nodes, Cancel(n) PROVE HostInv' /\ FormattingOnly'
  <2>1. NoPull.state # "open"
    BY DEF NoPull
  <2> QED
    BY <1>2, <1>4, <1>6, <2>1 DEF Cancel
<1>7. ASSUME NEW k \in Pulls, NEW state \in {"merged", "closed"}, Finish(k, state)
      PROVE  \E v : pull' = [pull EXCEPT ![k] = v] /\ v.state # "open"
  <2>1. pull' = [pull EXCEPT ![k] = IF k \in rows[pull[k].node]
                                    THEN [state |-> state, node |-> pull[k].node] ELSE NoPull]
    BY <1>7 DEF Finish
  <2>2. CASE k \in rows[pull[k].node]
    <3> DEFINE v == [state |-> state, node |-> pull[k].node]
    <3>1. v.state # "open" /\ pull' = [pull EXCEPT ![k] = v]
      BY <2>1, <2>2
    <3> QED
      BY <3>1
  <2>3. CASE k \notin rows[pull[k].node]
    <3>1. NoPull.state # "open" /\ pull' = [pull EXCEPT ![k] = NoPull]
      BY <2>1, <2>3 DEF NoPull
    <3> QED
      BY <3>1
  <2> QED
    BY <2>2, <2>3
<1>8. ASSUME NEW k \in Pulls, Close(k) PROVE HostInv' /\ FormattingOnly'
  BY <1>4, <1>7, <1>8 DEF Close
<1>9. ASSUME NEW k \in Pulls, Merge(k) PROVE HostInv' /\ FormattingOnly'
  <2>1. PICK v : pull' = [pull EXCEPT ![k] = v] /\ v.state # "open"
    BY <1>7, <1>9 DEF Merge
  <2>2. DOMAIN pull' = Pulls /\ \A j \in Pulls : pull'[j] = IF j = k THEN v ELSE pull[j]
    BY <1>0, <2>1
  <2>3. Shrunk
    BY <2>1, <2>2 DEF Live
  <2>4. Tree(base')
    BY <1>0, <1>9 DEF Merge, HostInv, Tree
  <2> QED
    BY <1>0, <2>2, <2>3, <2>4, PullsShrink DEF HostInv
<1>10. ASSUME NEW p \in Paths, NEW text \in Edits, Edit(p, text) PROVE HostInv' /\ FormattingOnly'
  <2>1. Shrunk /\ DOMAIN pull' = Pulls
    BY <1>0, <1>10 DEF Edit, Live
  <2>2. Tree(base')
    BY <1>0, <1>10, TextAssumption DEF Edit, HostInv, Tree
  <2> QED
    BY <1>0, <2>1, <2>2, PullsShrink DEF HostInv
<1>11. ASSUME NEW c \in Callers, Open(c) PROVE HostInv' /\ FormattingOnly'
  <2>1. sweep[c].at = "commit" /\ SweepOK(sweep[c])
    BY <1>11 DEF Open, At, MInv, SweepInv
  <2>2. CASE UNCHANGED <<base, pull>>
    BY <1>2, <2>2
  <2>3. ASSUME NEW k \in Pulls, NEW v, pull' = [pull EXCEPT ![k] = v], UNCHANGED base,
               v.tree = sweep[c].tree, v.fork = sweep[c].fork, v.stale = sweep[c].stale
        PROVE  HostInv' /\ FormattingOnly'
    <3>1. DOMAIN pull' = Pulls /\ \A j \in Pulls : pull'[j] = IF j = k THEN v ELSE pull[j]
      BY <1>0, <2>3
    <3>2. HostInv'
      BY <1>0, <2>1, <2>3, <3>1 DEF HostInv, Live, SweepOK, HasBranched
    <3>3. ASSUME NEW p \in Paths, StackOf(p) \cap v.stale = {}, Cardinality(FilesOf(v.fork, p)) = 1
          PROVE  Cardinality(FilesOf(v.tree, p)) = 1 /\ MeaningOf(v.tree, p) = MeaningOf(v.fork, p)
      BY <2>1, <2>3, <3>3, BranchKeepsStacks
    <3>4. \A j \in Live' : j = k \/ (j \in Live /\ pull'[j] = pull[j])
      BY <3>1 DEF Live
    <3> QED
      BY <1>0, <3>1, <3>2, <3>3, <3>4 DEF FormattingOnly
  <2>4. CASE sweep[c].tree # sweep[c].fork
    <3>1. PICK k \in Pulls :
             pull' = [pull EXCEPT ![k] =
                        [state |-> "open", node |-> sweep[c].node, fork |-> sweep[c].fork,
                         tree |-> sweep[c].tree, stale |-> sweep[c].stale,
                         model |-> sweep[c].model]]
      BY <1>11, <2>4 DEF Open
    <3>2. UNCHANGED base
      BY <1>11, <2>4 DEF Open
    <3> DEFINE v == [state |-> "open", node |-> sweep[c].node, fork |-> sweep[c].fork,
                     tree |-> sweep[c].tree, stale |-> sweep[c].stale, model |-> sweep[c].model]
    <3>3. v.tree = sweep[c].tree /\ v.fork = sweep[c].fork /\ v.stale = sweep[c].stale
      OBVIOUS
    <3>4. pull' = [pull EXCEPT ![k] = v]
      BY <3>1
    <3> HIDE DEF v
    <3> QED
      BY <2>3, <3>2, <3>3, <3>4
  <2> QED
    BY <1>11, <2>2, <2>4 DEF Open, Host
<1>12. ASSUME Restart \/ UNCHANGED vars PROVE HostInv' /\ FormattingOnly'
  BY <1>2, <1>12 DEF Restart, Host, vars
<1>13. ASSUME NEW c \in Callers, Proceed(c) PROVE HostInv' /\ FormattingOnly'
  BY <1>3, <1>5, <1>11, <1>13 DEF Proceed
<1> HIDE DEF Shrunk
<1> QED
  BY <1>3, <1>6, <1>8, <1>9, <1>10, <1>12, <1>13 DEF Next

LEMMA InitMInv == Init => MInv
<1> SUFFICES ASSUME Init PROVE MInv
  OBVIOUS
<1>1. Live = {}
  BY DEF Init, Live, NoPull
<1>2. HostInv
  BY <1>1, PathAssumption, TextAssumption DEF Init, HostInv, Tree
<1>3. \A c \in Callers : sweep[c].at = "idle"
  BY DEF Init, Idle
<1> QED
  BY <1>1, <1>2, <1>3, NothingInHand DEF MInv, SweepInv, FormattingOnly

(* engine.py:167, "formatting only, no behavior change": a pull request      *)
(* leaves each stack its one file, meaning what it did, whatever was cut off *)
(* by the cap, renamed, answered by the model or edited elsewhere meanwhile, *)
(* for any texts, files, callers and faults.                                *)
THEOREM OnlyFormats == Spec => []FormattingOnly
<1>1. IInv /\ MInv /\ [Next]_vars => IInv' /\ MInv'
  BY StepIInv, StepSweepInv, StepPulls DEF MInv
<1>2. Spec => [](IInv /\ MInv)
  BY InitIInv, InitMInv, <1>1, PTL DEF Spec
<1> QED
  BY <1>2, PTL DEF MInv

-----------------------------------------------------------------------------
(* A pull request keeps the comments.  What is to be kept of a text is a     *)
(* set R of pairs of texts, before and after; the formatter's doing and a    *)
(* file left alone must be in it.                                            *)

ByTheFormatter(R) ==
    /\ \A t \in Texts : IsCompose(t) => <<t, t>> \in R
    /\ \A t \in Texts : \A o \in Outcomes(t) \ {None} : o.model \/ <<t, o.text>> \in R

(* Of the changes planned ...                                                *)
PlannedNotes(R, s) ==
    s.at = "format" =>
        \A ch \in ToSet(s.changes) : ch.model \/ <<s.seen[ch.from], ch.text>> \in R

(* ... and of the branch, whose changes of the model's are known as such.    *)
BranchNotes(R, s) ==
    s.at \in {"commit", "delete"} =>
        /\ "model" \in DOMAIN s
        /\ \A ch \in ToSet(s.changes) :
              (ch.model /\ ch.to \in s.model) \/ <<s.seen[ch.from], ch.text>> \in R
        /\ \A p, q \in Paths : FormattedAs(s, p, q) => <<s.fork[p], s.tree[q]>> \in R

NotesOK(R, s) == PlannedNotes(R, s) /\ BranchNotes(R, s)

PullNotes(R) ==
    \A k \in Live : \A p, q \in Paths :
        FormattedAs(pull[k], p, q) => <<pull[k].fork[p], pull[k].tree[q]>> \in R

NotesInv(R) == PullNotes(R) /\ \A c \in Callers : NotesOK(R, sweep[c])

LEMMA ChangesOf ==
    ASSUME NEW S, NEW changes \in Seq(S)
    PROVE  /\ changes # <<>> => Head(changes) \in ToSet(changes)
                                /\ ToSet(Tail(changes)) \subseteq ToSet(changes)
           /\ \A n \in 0..Len(changes) : ToSet(SubSeq(changes, 1, n)) \subseteq ToSet(changes)
           /\ \A ch : ToSet(Append(changes, ch)) \subseteq ToSet(changes) \cup {ch}
<1>1. changes # <<>> => Head(changes) \in ToSet(changes)
                        /\ ToSet(Tail(changes)) \subseteq ToSet(changes)
  BY DEF ToSet
<1>2. ASSUME NEW n \in 0..Len(changes)
      PROVE  ToSet(SubSeq(changes, 1, n)) \subseteq ToSet(changes)
  BY DEF ToSet
<1>3. ASSUME NEW ch PROVE ToSet(Append(changes, ch)) \subseteq ToSet(changes) \cup {ch}
  BY DEF ToSet
<1> QED
  BY <1>1, <1>2, <1>3

LEMMA PlanChanges ==
    ASSUME NEW seen, NEW changes, Plan(seen, changes)
    PROVE  /\ changes # <<>> => Head(changes) \in ToSet(changes)
                                /\ ToSet(Tail(changes)) \subseteq ToSet(changes)
           /\ ToSet(Capped(changes)) \subseteq ToSet(changes)
           /\ \A ch : ToSet(Append(changes, ch)) \subseteq ToSet(changes) \cup {ch}
<1>1. changes \in Seq(ToSet(changes)) /\ Len(changes) \in Nat
  BY DEF Plan
<1>2. PICK n \in 0..Len(changes) : Capped(changes) = SubSeq(changes, 1, n)
  BY <1>1, PathAssumption DEF Capped
<1> QED
  BY <1>1, <1>2, ChangesOf

(* A commit at the new path of the one file of a stack brings what the       *)
(* formatter made of it, or the model.                                       *)
LEMMA CommitKeepsNotes ==
    ASSUME NEW R, NEW s, SweepOK(s), NotesOK(R, s), "at" \in DOMAIN s,
           s.at = "commit", s.changes # <<>>,
           NEW ch, ch = Head(s.changes),
           NEW next,
           next = [s EXCEPT !.tree[ch.to] = ch.text,
                            !.at = IF ch.from = ch.to THEN "commit" ELSE "delete",
                            !.changes = IF ch.from = ch.to THEN Tail(@) ELSE @]
    PROVE  NotesOK(R, next)
<1>1. /\ {"seen", "changes", "fork", "tree", "stale", "model"} \subseteq DOMAIN s
      /\ DOMAIN s.tree = Paths /\ Plan(s.seen, s.changes) /\ Rewrites(s.seen, ch)
      /\ ch \in ToSet(s.changes) /\ ToSet(Tail(s.changes)) \subseteq ToSet(s.changes)
      /\ HasBranched(s)
  BY PlanParts, PlanChanges DEF SweepOK, HasRead, HasBranched, Tree, NotesOK, BranchNotes
<1>2. /\ next.seen = s.seen /\ next.fork = s.fork /\ next.stale = s.stale
      /\ next.model = s.model /\ DOMAIN next = DOMAIN s
      /\ next.tree = [s.tree EXCEPT ![ch.to] = ch.text]
      /\ next.at \in {"commit", "delete"}
      /\ next.changes = Tail(s.changes) \/ next.changes = s.changes
  BY <1>1
<1>3. \A q \in Paths : next.tree[q] = IF q = ch.to THEN ch.text ELSE s.tree[q]
  BY <1>1, <1>2
<1>4. ASSUME NEW p \in Paths, NEW q \in Paths, FormattedAs(next, p, q)
      PROVE  <<next.fork[p], next.tree[q]>> \in R
  <2>1. CASE q # ch.to
    <3>1. FormattedAs(s, p, q)
      BY <1>2, <1>3, <1>4, <2>1 DEF FormattedAs
    <3> QED
      BY <1>2, <1>3, <2>1, <3>1 DEF NotesOK, BranchNotes
  <2>2. CASE q = ch.to
    <3>1. Undisturbed(s, p, p) /\ q \in StackOf(p) /\ q \notin s.model
      BY <1>2, <1>4 DEF FormattedAs, Undisturbed
    <3>2. ch.from = p
      BY <1>1, <2>2, <3>1, OnlyTheFileChanges
    <3>3. s.seen[p] = s.fork[p]
      <4>1. p \in Paths \ s.stale
        BY <3>1 DEF Undisturbed, FilesOf, StackOf
      <4> QED
        BY <1>1, <4>1 DEF HasBranched
    <3>4. <<s.seen[ch.from], ch.text>> \in R
      BY <1>1, <2>2, <3>1 DEF NotesOK, BranchNotes
    <3> QED
      BY <1>2, <1>3, <2>2, <3>2, <3>3, <3>4
  <2> QED
    BY <2>1, <2>2
<1>5. BranchNotes(R, next)
  BY <1>1, <1>2, <1>4 DEF NotesOK, BranchNotes
<1> QED
  BY <1>2, <1>5 DEF NotesOK, PlannedNotes

LEMMA DeleteKeepsNotes ==
    ASSUME NEW R, NEW s, SweepOK(s), NotesOK(R, s), "at" \in DOMAIN s, s.at = "delete",
           NEW ch, ch = Head(s.changes),
           NEW next,
           next = [s EXCEPT !.tree[ch.from] = Absent, !.at = "commit", !.changes = Tail(@)]
    PROVE  NotesOK(R, next)
<1>1. /\ {"seen", "changes", "fork", "tree", "stale", "model"} \subseteq DOMAIN s
      /\ DOMAIN s.tree = Paths
      /\ ToSet(Tail(s.changes)) \subseteq ToSet(s.changes)
  BY PlanChanges DEF SweepOK, HasRead, HasBranched, Tree, NotesOK, BranchNotes
<1>2. /\ next.seen = s.seen /\ next.fork = s.fork /\ next.stale = s.stale
      /\ next.model = s.model /\ DOMAIN next = DOMAIN s
      /\ next.tree = [s.tree EXCEPT ![ch.from] = Absent]
      /\ next.at = "commit" /\ next.changes = Tail(s.changes)
  BY <1>1
<1>3. \A q \in Paths : next.tree[q] = IF q = ch.from THEN Absent ELSE s.tree[q]
  BY <1>1, <1>2
<1>4. ASSUME NEW p \in Paths, NEW q \in Paths, FormattedAs(next, p, q)
      PROVE  <<next.fork[p], next.tree[q]>> \in R
  <2>1. q # ch.from
    BY <1>3, <1>4 DEF FormattedAs
  <2>2. FormattedAs(s, p, q)
    BY <1>2, <1>3, <1>4, <2>1 DEF FormattedAs
  <2> QED
    BY <1>2, <1>3, <2>1, <2>2 DEF NotesOK, BranchNotes
<1>5. BranchNotes(R, next)
  BY <1>1, <1>2, <1>4 DEF NotesOK, BranchNotes
<1> QED
  BY <1>2, <1>5 DEF NotesOK, PlannedNotes

(* On a new branch every file is as it was.                                  *)
LEMMA BranchStartsNotes ==
    ASSUME NEW R, ByTheFormatter(R),
           NEW s, SweepOK(s), NotesOK(R, s), s.at = "format", NEW tree, Tree(tree),
           NEW next, {"seen", "changes", "fork", "tree", "stale", "model"} \subseteq DOMAIN next,
           next.at = "commit", next.seen = s.seen, next.changes = Capped(s.changes),
           next.fork = tree, next.tree = tree,
           next.model = {ch.to : ch \in {x \in ToSet(Capped(s.changes)) : x.model}}
    PROVE  NotesOK(R, next)
<1>1. ToSet(Capped(s.changes)) \subseteq ToSet(s.changes)
  BY PlanChanges DEF SweepOK, HasFormatted
<1>2. ASSUME NEW ch \in ToSet(next.changes)
      PROVE  (ch.model /\ ch.to \in next.model) \/ <<next.seen[ch.from], ch.text>> \in R
  BY <1>1, <1>2 DEF NotesOK, PlannedNotes
<1>3. ASSUME NEW p \in Paths, NEW q \in Paths, FormattedAs(next, p, q)
      PROVE  <<next.fork[p], next.tree[q]>> \in R
  <2>1. q \in FilesOf(tree, p) /\ FilesOf(tree, p) = {p} /\ IsCompose(tree[p])
    BY <1>3 DEF FormattedAs, FilesOf
  <2>2. q = p /\ tree[p] \in Texts
    BY <2>1 DEF Tree
  <2> QED
    BY <2>1, <2>2 DEF ByTheFormatter
<1> QED
  BY <1>2, <1>3 DEF NotesOK, PlannedNotes, BranchNotes

LEMMA FormatKeepsNotes ==
    ASSUME NEW R, ByTheFormatter(R),
           NEW s, SweepOK(s), NotesOK(R, s), "at" \in DOMAIN s, s.at = "format",
           NEW p \in s.left, NEW o \in OutcomesOf[s.seen[p]]
    PROVE  NotesOK(R, Became(s, p, o))
<1> DEFINE next == Became(s, p, o)
           ch == [from |-> p, to |-> NewPath(p), text |-> o.text, model |-> o.model]
<1>1. /\ {"seen", "left", "changes"} \subseteq DOMAIN s
      /\ s.seen[p] \in Texts /\ Plan(s.seen, s.changes)
  BY DEF SweepOK, HasRead, HasFormatted, Tree
<1>2. o \in Outcomes(s.seen[p])
  BY <1>1 DEF OutcomesOf
<1>3. o # None => ch.model \/ <<s.seen[ch.from], ch.text>> \in R
  BY <1>1, <1>2 DEF ByTheFormatter
<1> HIDE DEF ch
<1>4. /\ next.at = "format" /\ next.seen = s.seen
      /\ next.changes = s.changes \/ (o # None /\ next.changes = Append(s.changes, ch))
  BY <1>1 DEF ch, Became
<1> HIDE DEF next
<1>5. ToSet(Append(s.changes, ch)) \subseteq ToSet(s.changes) \cup {ch}
  BY <1>1, PlanChanges
<1>6. NotesOK(R, next)
  BY <1>3, <1>4, <1>5 DEF NotesOK, PlannedNotes, BranchNotes
<1> QED
  BY <1>6 DEF next

LEMMA NotesGo ==
    ASSUME NEW R, Shape, NotesInv(R), UNCHANGED pull,
           NEW c \in Callers, NEW next, Goes(c, next), NotesOK(R, next)
    PROVE  NotesInv(R)'
<1>1. \A d \in Callers : sweep'[d] = IF d = c THEN next ELSE sweep[d]
  BY DEF Goes, Shape
<1> QED
  BY <1>1 DEF NotesInv, PullNotes, Live

(* Where nothing is planned, or yet, there is nothing to keep.               *)
LEMMA NoNotes ==
    ASSUME NEW R, NEW s, s.at \in {"idle", "list", "read", "node"}
    PROVE  NotesOK(R, s)
BY DEF NotesOK, PlannedNotes, BranchNotes

LEMMA NoPullClosed == NoPull.state # "open"
BY DEF NoPull

LEMMA StepNotes ==
    ASSUME NEW R, ByTheFormatter(R), IInv, HostInv, SweepInv, NotesInv(R), [Next]_vars
    PROVE  NotesInv(R)'
<1> USE DEF At
<1>0. /\ Shape /\ DOMAIN pull = Pulls /\ PullNotes(R) /\ Tree(base)
      /\ \A c \in Callers : /\ SweepOK(sweep[c]) /\ NotesOK(R, sweep[c])
                            /\ "at" \in DOMAIN sweep[c]
  BY DEF IInv, Shape, HostInv, SweepInv, NotesInv
<1>1. ASSUME NEW c \in Callers, NEW next, Goes(c, next), UNCHANGED pull,
             next.at \in {"idle", "list", "read", "node"}
      PROVE  NotesInv(R)'
  BY <1>0, <1>1, NoNotes, NotesGo
<1>2. ASSUME NEW c \in Callers, NEW todo, Onward(c, todo), UNCHANGED pull PROVE NotesInv(R)'
  <2>1. PICK next : Goes(c, next) /\ next.at \in {"idle", "node"}
    BY <1>2, GoesOnward
  <2> QED
    BY <1>1, <1>2, <2>1
<1>3. ASSUME \A k \in Live' : k \in Live /\ pull'[k] = pull[k] PROVE PullNotes(R)'
  BY <1>0, <1>3 DEF PullNotes
<1>4. ASSUME NEW k, NEW v, pull' = [pull EXCEPT ![k] = v], v.state # "open" PROVE PullNotes(R)'
  <2>1. \A j \in Pulls : pull'[j] = IF j = k THEN v ELSE pull[j]
    BY <1>0, <1>4
  <2> QED
    BY <1>3, <1>4, <2>1 DEF Live
<1>5. ASSUME NEW c \in Callers, NEW ns, NEW dry, Sweep(c, ns, dry) PROVE NotesInv(R)'
  <2>1. Goes(c, [at |-> "list", todo |-> ns, dry |-> dry]) /\ UNCHANGED pull
    BY <1>5 DEF Sweep, Host
  <2> QED
    BY <1>1, <2>1
<1>6. ASSUME NEW c \in Callers, List(c) PROVE NotesInv(R)'
  <2>1. PICK next : Goes(c, next) /\ next.at = "read" /\ UNCHANGED pull
    BY <1>6 DEF List, Host
  <2> QED
    BY <1>1, <2>1
<1>7. ASSUME NEW c \in Callers, NEW p \in Paths, ReadFile(c, p) PROVE NotesInv(R)'
  <2>1. sweep[c].at = "read" /\ UNCHANGED pull
    BY <1>7 DEF ReadFile, Host
  <2>2. PICK next : Goes(c, next) /\ next.at = "read"
    <3>1. \/ Goes(c, [sweep[c] EXCEPT !.unread = @ \ {p}, !.seen[p] = base[p]])
          \/ Goes(c, [sweep[c] EXCEPT !.unread = @ \ {p}])
      BY <1>7 DEF ReadFile
    <3>2. /\ [sweep[c] EXCEPT !.unread = @ \ {p}, !.seen[p] = base[p]].at = "read"
          /\ [sweep[c] EXCEPT !.unread = @ \ {p}].at = "read"
      BY <1>0, <2>1
    <3> QED
      BY <3>1, <3>2
  <2> QED
    BY <1>1, <2>1, <2>2
<1>8. ASSUME NEW c \in Callers, NEW n, Scanned(c) \/ SkipNode(c, n) \/ NothingToDo(c)
      PROVE  NotesInv(R)'
  <2>1. UNCHANGED pull /\ \E todo : Onward(c, todo)
    BY <1>8 DEF Scanned, SkipNode, NothingToDo, NextNode, Host
  <2> QED
    BY <1>2, <2>1
<1>9. ASSUME NEW c \in Callers, NEW n, EnterNode(c, n) PROVE NotesInv(R)'
  <2>1. PICK next : Goes(c, next) /\ next.at = "format" /\ next.changes = <<>>
    BY <1>9 DEF EnterNode
  <2>2. NotesOK(R, next)
    BY <2>1 DEF NotesOK, PlannedNotes, BranchNotes, ToSet
  <2>3. \A d \in Callers : sweep'[d] = IF d = c THEN next ELSE sweep[d]
    BY <1>0, <2>1 DEF Goes, Shape
  <2>4. PullNotes(R)'
    <3>1. CASE UNCHANGED pull
      BY <1>3, <3>1 DEF Live
    <3>2. CASE \E k : pull' = [pull EXCEPT ![k] = NoPull]
      BY <1>4, <3>2, NoPullClosed
    <3> QED
      BY <1>9, <3>1, <3>2 DEF EnterNode
  <2> QED
    BY <1>0, <2>2, <2>3, <2>4 DEF NotesInv
<1>10. ASSUME NEW c \in Callers, FormatFile(c) PROVE NotesInv(R)'
  <2>1. PICK p \in sweep[c].left :
           \E o \in OutcomesOf[sweep[c].seen[p]] : Goes(c, Became(sweep[c], p, o))
    BY <1>10, Zenon DEF FormatFile, Became
  <2>2. PICK o \in OutcomesOf[sweep[c].seen[p]] : Goes(c, Became(sweep[c], p, o))
    BY <2>1
  <2>3. sweep[c].at = "format" /\ UNCHANGED pull
    BY <1>10 DEF FormatFile, Host
  <2>4. NotesOK(R, Became(sweep[c], p, o))
    BY <1>0, <2>3, FormatKeepsNotes
  <2> QED
    BY <1>0, <2>2, <2>3, <2>4, NotesGo
<1>11. ASSUME NEW c \in Callers, Branch(c) PROVE NotesInv(R)'
  <2>1. sweep[c].at = "format" /\ UNCHANGED pull
    BY <1>11 DEF Branch, MustBranch, Formatted, Host
  <2>2. PICK next :
           /\ Goes(c, next)
           /\ {"seen", "changes", "fork", "tree", "stale", "model"} \subseteq DOMAIN next
           /\ next.at = "commit" /\ next.seen = sweep[c].seen
           /\ next.changes = Capped(sweep[c].changes) /\ next.fork = base /\ next.tree = base
           /\ next.model = {ch.to : ch \in {x \in ToSet(Capped(sweep[c].changes)) : x.model}}
    BY <1>11 DEF Branch
  <2>3. NotesOK(R, next)
    BY <1>0, <2>1, <2>2, BranchStartsNotes
  <2> QED
    BY <1>0, <2>1, <2>2, <2>3, NotesGo
<1>12. ASSUME NEW c \in Callers, Commit(c) PROVE NotesInv(R)'
  BY <1>0, <1>12, CommitKeepsNotes, NotesGo DEF Commit, Host
<1>13. ASSUME NEW c \in Callers, Delete(c) PROVE NotesInv(R)'
  BY <1>0, <1>13, DeleteKeepsNotes, NotesGo DEF Delete, Host
<1>14. ASSUME NEW c \in Callers, Open(c) PROVE NotesInv(R)'
  <2>1. NotesOK(R, sweep[c]) /\ sweep[c].at = "commit"
    BY <1>0, <1>14 DEF Open
  <2>2. PICK todo : Onward(c, todo)
    BY <1>14 DEF Open, NextNode
  <2>3. CASE UNCHANGED pull
    BY <1>2, <2>2, <2>3
  <2>4. ASSUME NEW k \in Pulls, NEW v, pull' = [pull EXCEPT ![k] = v],
               v.tree = sweep[c].tree, v.fork = sweep[c].fork,
               v.stale = sweep[c].stale, v.model = sweep[c].model
        PROVE  NotesInv(R)'
    <3>1. \A j \in Pulls : pull'[j] = IF j = k THEN v ELSE pull[j]
      BY <1>0, <2>4
    <3>2. \A p, q \in Paths : FormattedAs(v, p, q) => <<v.fork[p], v.tree[q]>> \in R
      BY <2>1, <2>4 DEF NotesOK, BranchNotes, FormattedAs
    <3>3. \A j \in Live' : j = k \/ (j \in Live /\ pull'[j] = pull[j])
      BY <3>1 DEF Live
    <3>4. PullNotes(R)'
      BY <1>0, <3>1, <3>2, <3>3 DEF PullNotes
    <3>5. PICK next : Goes(c, next) /\ next.at \in {"idle", "node"}
      BY <2>2, GoesOnward
    <3>6. \A d \in Callers : sweep'[d] = IF d = c THEN next ELSE sweep[d]
      BY <1>0, <3>5 DEF Goes, Shape
    <3>7. NotesOK(R, next)
      BY <3>5, NoNotes
    <3> QED
      BY <1>0, <3>4, <3>6, <3>7 DEF NotesInv
  <2>5. CASE sweep[c].tree # sweep[c].fork
    <3>1. PICK k \in Pulls :
             pull' = [pull EXCEPT ![k] =
                        [state |-> "open", node |-> sweep[c].node, fork |-> sweep[c].fork,
                         tree |-> sweep[c].tree, stale |-> sweep[c].stale,
                         model |-> sweep[c].model]]
      BY <1>14, <2>5 DEF Open
    <3> DEFINE v == [state |-> "open", node |-> sweep[c].node, fork |-> sweep[c].fork,
                     tree |-> sweep[c].tree, stale |-> sweep[c].stale, model |-> sweep[c].model]
    <3>2. /\ v.tree = sweep[c].tree /\ v.fork = sweep[c].fork
          /\ v.stale = sweep[c].stale /\ v.model = sweep[c].model
      OBVIOUS
    <3>3. pull' = [pull EXCEPT ![k] = v]
      BY <3>1
    <3> HIDE DEF v
    <3> QED
      BY <2>4, <3>2, <3>3
  <2> QED
    BY <1>14, <2>3, <2>5 DEF Open, Host
<1>15. ASSUME NEW c \in Callers, Fails(c) PROVE NotesInv(R)'
  <2>1. UNCHANGED pull
    BY <1>15 DEF Fails, Host
  <2>2. CASE Goes(c, Idle)
    BY <1>1, <2>1, <2>2 DEF Idle
  <2>3. CASE NextNode(c, sweep[c].node)
    BY <1>2, <2>1, <2>3 DEF NextNode
  <2> QED
    BY <1>15, <2>2, <2>3 DEF Fails
<1>16. CASE Restart
  <2>1. UNCHANGED pull /\ \A c \in Callers : sweep'[c].at = "idle"
    BY <1>16 DEF Restart, Host, Idle
  <2>2. PullNotes(R)'
    BY <1>3, <2>1 DEF Live
  <2> QED
    BY <2>1, <2>2, NoNotes DEF NotesInv
<1>17. ASSUME UNCHANGED sweep, PullNotes(R)' PROVE NotesInv(R)'
  BY <1>0, <1>17 DEF NotesInv
<1>18. ASSUME NEW k \in Pulls, Merge(k) \/ Close(k) PROVE NotesInv(R)'
  <2>1. PICK state \in {"merged", "closed"} : Finish(k, state)
    BY <1>18 DEF Merge, Close
  <2>2. PICK v : pull' = [pull EXCEPT ![k] = v] /\ v.state # "open"
    <3>1. CASE k \in rows[pull[k].node]
      <4> DEFINE v == [state |-> state, node |-> pull[k].node]
      <4>1. v.state # "open" /\ pull' = [pull EXCEPT ![k] = v]
        BY <2>1, <3>1 DEF Finish
      <4> QED
        BY <4>1
    <3>2. CASE k \notin rows[pull[k].node]
      <4>1. NoPull.state # "open" /\ pull' = [pull EXCEPT ![k] = NoPull]
        BY <2>1, <3>2 DEF Finish, NoPull
      <4> QED
        BY <4>1
    <3> QED
      BY <3>1, <3>2
  <2>3. UNCHANGED sweep
    BY <1>18 DEF Merge, Close
  <2> QED
    BY <1>4, <1>17, <2>2, <2>3
<1>19. ASSUME NEW n \in Nodes, Cancel(n) PROVE NotesInv(R)'
  <2>1. UNCHANGED sweep
    BY <1>19 DEF Cancel
  <2>2. CASE UNCHANGED pull
    BY <1>3, <1>17, <2>1, <2>2 DEF Live
  <2>3. CASE \E k : pull' = [pull EXCEPT ![k] = NoPull]
    BY <1>4, <1>17, <2>1, <2>3, NoPullClosed
  <2> QED
    BY <1>19, <2>2, <2>3 DEF Cancel
<1>20. ASSUME NEW p, NEW text, Edit(p, text) \/ UNCHANGED vars PROVE NotesInv(R)'
  <2>1. UNCHANGED <<pull, sweep>>
    BY <1>20 DEF Edit, vars
  <2> QED
    BY <1>3, <1>17, <2>1 DEF Live
<1>21. ASSUME NEW c \in Callers, Proceed(c) PROVE NotesInv(R)'
  BY <1>6, <1>7, <1>8, <1>9, <1>10, <1>11, <1>12, <1>13, <1>14, <1>21 DEF Proceed
<1> QED
  BY <1>5, <1>15, <1>16, <1>18, <1>19, <1>20, <1>21 DEF Next

LEMMA InitNotes == ASSUME NEW R, Init PROVE NotesInv(R)
<1>1. Live = {}
  BY DEF Init, Live, NoPull
<1>2. \A c \in Callers : sweep[c].at = "idle"
  BY DEF Init, Idle
<1> QED
  BY <1>1, <1>2, NoNotes DEF NotesInv, PullNotes

-----------------------------------------------------------------------------
(* The comments, and where they are, of a text that is left alone.           *)

LEMMA LeastOf ==
    ASSUME NEW S \in SUBSET Nat, S # {}
    PROVE  \E n \in S : \A m \in S : n <= m
<1>1. PICK n \in S : \A m \in S : ~ (<<m, n>> \in OpToRel(<, Nat))
  BY NatLessThanWellFounded, WFMin
<1>2. \A m \in S : ~ (m < n)
  BY <1>1 DEF OpToRel
<1> QED
  BY <1>2

LEMMA UpwardsIn ==
    ASSUME NEW low \in Nat, NEW to \in Nat, low <= to, NEW lines
    PROVE  Upwards(low, to, lines) \in low..to
<1> DEFINE S == {s \in low..to : s..to-1 \subseteq lines}
<1>1. to \in S /\ S \in SUBSET Nat
  OBVIOUS
<1>2. PICK s \in S : \A m \in S : s <= m
  <2> HIDE DEF S
  <2> QED
    BY <1>1, LeastOf
<1>3. s = low \/ s - 1 \notin lines
  <2> SUFFICES ASSUME s # low, s - 1 \in lines PROVE FALSE
    OBVIOUS
  <2>1. s - 1 \in low..to /\ (s - 1)..(to - 1) \subseteq lines
    OBVIOUS
  <2> QED
    BY <1>2, <2>1
<1> QED
  BY <1>3 DEF Upwards

LEMMA SuffixOfItself ==
    ASSUME NEW text \in Seq(Line), NEW from \in Nat, NEW row \in Nat,
           from \in 1..row, row <= Len(text)
    PROVE  IsSuffix(SubSeq(text, from, row - 1), SubSeq(text, from, row - 1))
<1> DEFINE s == SubSeq(text, from, row - 1)
<1>1. s \in Seq(Line)
  OBVIOUS
<1> HIDE DEF s
<1>2. Reverse(s) \in Seq(Line)
  BY <1>1 DEF Reverse
<1>3. IsSuffix(s, s)
  BY <1>2 DEF IsSuffix, IsPrefix
<1> QED
  BY <1>3 DEF s

LEMMA NotesAboveItself ==
    ASSUME NEW text \in Seq(Line), NEW line, NEW path,
           NEW i \in 1..Len(text), text[i] \in line
    PROVE  IsSuffix(NotesAbove(text, line, path), NotesAbove(text, line, path))
<1> DEFINE row   == RowOf(text, line)
           lines == {j \in 1..Len(text) : IsNote(text[j]) /\ Loose(text[j], path)}
           from  == Upwards(1, row, lines)
<1>1. row \in 1..Len(text)
  BY DEF RowOf
<1> HIDE DEF row, lines
<1>2. from \in 1..row
  BY <1>1, UpwardsIn
<1> HIDE DEF from
<1>3. IsSuffix(SubSeq(text, from, row - 1), SubSeq(text, from, row - 1))
  BY <1>1, <1>2, SuffixOfItself
<1> QED
  BY <1>3 DEF NotesAbove, row, lines, from

(* A line is what it is called.                                              *)
LEMMA LineForms ==
    ASSUME NEW line \in Line
    PROVE  /\ line.is = "key" => line = Key(line.name)
           /\ line.is = "entry" => line = Entry(line.name)
<1>1. CASE \E k \in RootKeys : line = Key(k)
  BY <1>1 DEF Key
<1>2. CASE \E l \in Labels : line = Entry(l)
  BY <1>2 DEF Entry
<1>3. CASE \E l \in Labels : line = Item(l)
  <2>1. line.is = "item"
    BY <1>3 DEF Item
  <2> QED
    BY <2>1
<1>4. CASE \E n \in Notes : line = Note(n)
  <2>1. line.is = "note"
    BY <1>4 DEF Note
  <2> QED
    BY <2>1
<1>5. CASE \E n \in Notes : line = DeepNote(n)
  <2>1. PICK n \in Notes : line = [is |-> "deep note", name |-> n]
    BY <1>5 DEF DeepNote
  <2>2. line.is = "deep note"
    BY <2>1, Zenon
  <2> QED
    BY <2>2
<1>6. CASE line = Blank
  <2>1. line.is = "blank"
    BY <1>6 DEF Blank
  <2> QED
    BY <2>1
<1> QED
  BY <1>1, <1>2, <1>3, <1>4, <1>5, <1>6 DEF Line

LEMMA NotesKeptItself ==
    ASSUME NEW text \in Seq(Line), IsCompose(text)
    PROVE  NotesKept(text, text)
<1>1. ASSUME NEW key \in Names(text, "key")
      PROVE  IsSuffix(NotesAbove(text, {Key(key)}, Root), NotesAbove(text, {Key(key)}, Root))
  <2>1. PICK i \in 1..Len(text) : text[i].is = "key" /\ text[i].name = key
    BY <1>1 DEF Names, Lines
  <2>2. text[i] \in Line
    OBVIOUS
  <2>3. text[i] = Key(key)
    BY <2>1, <2>2, LineForms
  <2> QED
    BY <2>3, NotesAboveItself
<1>2. ASSUME NEW l \in Names(text, "entry")
      PROVE  IsSuffix(NotesAbove(text, {Entry(l), Item(l)}, Nested),
                      NotesAbove(text, {Entry(l)}, Nested))
  <2>1. PICK i \in 1..Len(text) : text[i].is = "entry" /\ text[i].name = l
    BY <1>2 DEF Names, Lines
  <2>2. text[i] \in Line
    OBVIOUS
  <2>3. text[i] = Entry(l)
    BY <2>1, <2>2, LineForms
  <2>4. Lines(text, "item") = {}
    BY <2>1 DEF IsCompose, Parses, Lines
  <2>5. {j \in 1..Len(text) : text[j] \in {Entry(l), Item(l)}}
          = {j \in 1..Len(text) : text[j] \in {Entry(l)}}
    BY <2>4 DEF Lines, Item
  <2>6. RowOf(text, {Entry(l), Item(l)}) = RowOf(text, {Entry(l)})
    BY <2>5 DEF RowOf
  <2>7. NotesAbove(text, {Entry(l), Item(l)}, Nested) = NotesAbove(text, {Entry(l)}, Nested)
    BY <2>6 DEF NotesAbove
  <2>8. IsSuffix(NotesAbove(text, {Entry(l)}, Nested), NotesAbove(text, {Entry(l)}, Nested))
    BY <2>3, NotesAboveItself
  <2> QED
    BY <2>7, <2>8
<1>3. \A key \in LaterKeys(text) \cap Names(text, "key") : key \in Names(text, "key")
  OBVIOUS
<1> QED
  BY <1>1, <1>2, <1>3 DEF NotesKept

-----------------------------------------------------------------------------
LEMMA StepAll == IInv /\ MInv /\ [Next]_vars => IInv' /\ MInv'
BY StepIInv, StepSweepInv, StepPulls DEF MInv

(* formatter.py checks every stage by its comments: no more is needed.       *)
LEMMA FormatterKeepsComments ==
    ASSUME NEW text, Normalize(text) # None
    PROVE  Comments(Normalize(text).text) = Comments(text)
<1> DEFINE reshaped == Reshape(text)
           rooted   == Ordered(reshaped, Root, "N-005")
           ordered  == Ordered(rooted, Nested, "N-009")
<1>1. Normalize(text) = ordered /\ SameMeaning(text, reshaped.text)
  BY DEF Normalize
<1>2. \A result, path, rule :
         "text" \in DOMAIN result =>
            /\ "text" \in DOMAIN Ordered(result, path, rule)
            /\ \/ Ordered(result, path, rule).text = result.text
               \/ SameMeaning(result.text, Ordered(result, path, rule).text)
  BY DEF Ordered
<1>3. "text" \in DOMAIN reshaped
  BY DEF Reshape
<1> HIDE DEF reshaped
<1>4. /\ "text" \in DOMAIN rooted
      /\ rooted.text = reshaped.text \/ SameMeaning(reshaped.text, rooted.text)
  BY <1>2, <1>3
<1> HIDE DEF rooted
<1>5. ordered.text = rooted.text \/ SameMeaning(rooted.text, ordered.text)
  BY <1>2, <1>4
<1> QED
  BY <1>1, <1>4, <1>5 DEF SameMeaning

LEMMA OutcomesKeepComments ==
    ASSUME NEW text, NEW o \in Outcomes(text), o # None
    PROVE  o.model \/ Comments(o.text) = Comments(text)
<1> DEFINE done == Normalize(text)
<1>1. CASE done # None /\ o = ByRule(done.text)
  BY <1>1, FormatterKeepsComments DEF ByRule
<1>2. CASE \E t : o = ByModel(t)
  BY <1>2 DEF ByModel
<1> QED
  BY <1>1, <1>2 DEF Outcomes

(* No pull request loses a comment of a file that the formatter alone did,   *)
(* for any texts, files, callers and faults.                                 *)
THEOREM NoCommentLost == Spec => []CommentsKept
<1> DEFINE R == {r \in Texts \X Texts : Comments(r[2]) = Comments(r[1])}
<1>1. ByTheFormatter(R)
  <2>1. ASSUME NEW t \in Texts, NEW o \in Outcomes(t) \ {None}
        PROVE  o.model \/ <<t, o.text>> \in R
    <3>1. o.text \in Texts
      BY TextAssumption
    <3> QED
      BY <3>1, OutcomesKeepComments
  <2>2. \A t \in Texts : <<t, t>> \in R
    OBVIOUS
  <2> QED
    BY <2>1, <2>2 DEF ByTheFormatter
<1>2. NotesInv(R) => CommentsKept
  BY DEF NotesInv, PullNotes, CommentsKept
<1> HIDE DEF R
<1>3. Init => IInv /\ MInv /\ NotesInv(R)
  BY InitIInv, InitMInv, InitNotes
<1>4. (IInv /\ MInv /\ NotesInv(R)) /\ [Next]_vars => (IInv /\ MInv /\ NotesInv(R))'
  BY <1>1, StepAll, StepNotes DEF MInv
<1> QED
  BY <1>2, <1>3, <1>4, PTL DEF Spec

(* N-012, comments "stay with the key or line they annotated", in every pull *)
(* request there ever is, if the formatter leaves them there in every text:  *)
(* renaming, the cap, faults and other people's changes take nothing away.   *)
THEOREM CommentsStayPut == FormatterKeepsNotes => (Spec => []CommentsStay)
<1> SUFFICES ASSUME FormatterKeepsNotes PROVE Spec => []CommentsStay
  OBVIOUS
<1> DEFINE R == {r \in Texts \X Texts : NotesKept(r[1], r[2])}
<1>1. ByTheFormatter(R)
  <2>1. ASSUME NEW t \in Texts, NEW o \in Outcomes(t) \ {None}
        PROVE  o.model \/ <<t, o.text>> \in R
    <3>1. o.text \in Texts
      BY TextAssumption
    <3> QED
      BY <3>1 DEF FormatterKeepsNotes
  <2>2. \A t \in Texts : IsCompose(t) => <<t, t>> \in R
    BY NotesKeptItself, TextAssumption
  <2> QED
    BY <2>1, <2>2 DEF ByTheFormatter
<1>2. NotesInv(R) => CommentsStay
  BY DEF NotesInv, PullNotes, CommentsStay
<1> HIDE DEF R
<1>3. Init => IInv /\ MInv /\ NotesInv(R)
  BY InitIInv, InitMInv, InitNotes
<1>4. (IInv /\ MInv /\ NotesInv(R)) /\ [Next]_vars => (IInv /\ MInv /\ NotesInv(R))'
  BY <1>1, StepAll, StepNotes DEF MInv
<1> QED
  BY <1>2, <1>3, <1>4, PTL DEF Spec
=============================================================================
