---------------------------- MODULE MCNormalization ----------------------------
(* Instances of Normalization for TLC: a node with two stacks, the file of   *)
(* the second one under a former name.                                      *)
EXTENDS Normalization

CONSTANTS app, oldName, newName, n1, job, tool, k1, k2, k3

MCListing     == <<app, oldName, newName>>
MCPaths       == {app, oldName, newName}
MCNodeOf      == [p \in MCPaths |-> n1]
MCCanonicalOf == [p \in MCPaths |-> IF p = oldName THEN newName ELSE p]
MCLabelRank   == [l \in {"a", "b"} |-> IF l = "a" THEN 1 ELSE 2]

Good    == <<Key("services"), Entry("a")>>
Tangled == <<Key("version"), Blank, Key("networks"), Note("n"), Key("services"),
             Item("b"), DeepNote("m"), Item("a")>>
Doubled == <<Key("services"), Item("a"), Item("a")>>
Twice   == <<Key("services"), Entry("a"), Entry("a"), Note("n")>>
Other   == <<Key("services"), Entry("b")>>
TBD     == <<Key("networks")>>

Tree(a, o) == (app :> a) @@ (oldName :> o) @@ (newName :> Absent)
MCStart   == {Tree(Tangled, Twice), Tree(Doubled, Other), Tree(TBD, Twice)}
MCEdits   == {Good, Absent}
MCAnswers == {Good, Other}

(* The texts that come up: the formatter rests after three rounds.          *)
Grown(texts) == texts \cup UNION {{o.text : o \in Outcomes(t) \ {None}} : t \in texts}
MCTexts == Grown(Grown(Grown({tree[p] : tree \in MCStart, p \in MCPaths} \cup MCEdits \cup MCAnswers)))

(* What the formatter does to every text of up to four of these lines: the   *)
(* meaning and the comments are kept, a file with nothing left undone is     *)
(* left alone the next time, and any other comes to rest the time after.     *)
SomeLines ==
    {Key("services"), Key("networks"), Key("version"), Item("a"), Item("b"),
     Entry("a"), Entry("b"), Note("n"), DeepNote("m"), Blank}
ShortTexts == {t \in UNION {[1..n -> SomeLines] : n \in 1..4} : IsCompose(t)}

ASSUME FormatterLaws ==
    \A t \in ShortTexts :
        LET once  == Normalize(t)
            twice == Normalize(once.text)
        IN once # None =>
              /\ SameMeaning(t, once.text) /\ twice # None
              /\ once.skipped = {} => twice.text = once.text
              /\ Normalize(twice.text).text = twice.text

(* And the comments stay where they belong, in texts of one line more.       *)
NotesLaw ==
    \A t \in {x \in UNION {[1..n -> SomeLines] : n \in 1..5} : IsCompose(x)} :
        LET once == Normalize(t) IN once # None => NotesKept(t, once.text)
=============================================================================
