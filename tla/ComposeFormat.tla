----------------------------- MODULE ComposeFormat -----------------------------
(***************************************************************************)
(* The deterministic formatter of compose files (normalization/formatter.py *)
(* and the rules it applies, rules.py) as operators on texts.               *)
(*                                                                         *)
(* A text is a sequence of lines.  A root key stands for its line and its   *)
(* value; only services has a value of lines, and these are the labels of   *)
(* one service, so that "the mapping at services/<name>/labels" is the      *)
(* nested mapping here.  The labels are a list (items) or a mapping         *)
(* (entries); notes are comments, at the margin or deeper.  The environment *)
(* list is reshaped as the labels are, and the keys of a service reordered  *)
(* as the labels are: neither has lines of its own here.                    *)
(***************************************************************************)
EXTENDS Naturals, FiniteSets, SequencesExt

CONSTANTS
    Labels,     \* label keys
    LabelRank,  \* their alphabetical order
    Notes       \* comment texts

ASSUME LabelAssumption == LabelRank \in [Labels -> Nat]

RootKeys == {"name", "x-base", "x-env", "services", "volumes", "networks", "models", "version"}

Key(k)      == [is |-> "key", name |-> k]
Item(l)     == [is |-> "item", name |-> l]       \* - l=...
Entry(l)    == [is |-> "entry", name |-> l]      \* l: ...
Note(n)     == [is |-> "note", name |-> n]       \* # n
DeepNote(n) == [is |-> "deep note", name |-> n]  \* # n, indented as labels are
Blank       == [is |-> "blank"]

Line == {Key(k) : k \in RootKeys} \cup {Item(l) : l \in Labels} \cup {Entry(l) : l \in Labels}
        \cup {Note(n) : n \in Notes} \cup {DeepNote(n) : n \in Notes} \cup {Blank}

None == [none |-> TRUE]

IsNote(line)  == line.is \in {"note", "deep note"}
Margin(line)  == line.is \in {"note", "key"}
Lines(text, is) == {i \in 1..Len(text) : text[i].is = is}
Names(text, is) == {text[i].name : i \in Lines(text, is)}
Distinct(text, is) == Cardinality(Names(text, is)) = Cardinality(Lines(text, is))

(* The text is YAML, and its root keys have the values they are taken to    *)
(* have: labels under services, all of one form, nothing under other keys.  *)
Parses(text) ==
    /\ \A i \in 1..Len(text) : text[i].is \in {"item", "entry"} =>
          \E s \in 1..i : /\ text[s] = Key("services")
                          /\ \A j \in s+1..i : text[j].is # "key"
    /\ Lines(text, "item") = {} \/ Lines(text, "entry") = {}

(* ruamel refuses a repeated key, PyYAML takes the last one.                *)
Loads(text) == Parses(text) /\ Distinct(text, "key") /\ Distinct(text, "entry")

-----------------------------------------------------------------------------
(* rules.py                                                                 *)

(* A file without services: is not a compose file (R-008).                  *)
IsCompose(text) == Parses(text) /\ "services" \in Names(text, "key")

(* The order of top-level keys: name, extension fields as they are, the     *)
(* known keys, others by name.                                              *)
TopLevelRank(k) ==
    CASE k = "name" -> 0
      [] k \in {"x-base", "x-env"} -> 1
      [] k = "services" -> 2
      [] k = "volumes"  -> 3
      [] k = "networks" -> 4
      [] k = "models"   -> 5
      [] k = "version"  -> 6

(* What Docker makes of a text: version is nothing, a list of labels is a   *)
(* mapping.                                                                 *)
Meaning(text) ==
    IF IsCompose(text)
    THEN [keys   |-> Names(text, "key") \ {"version"},
          labels |-> Names(text, "item") \cup Names(text, "entry")]
    ELSE [text |-> text]

Equivalent(before, after) ==
    Parses(before) /\ Parses(after) /\ Meaning(before) = Meaning(after)

-----------------------------------------------------------------------------
(* formatter.py, stage 1: values                                            *)

Comments(text) ==
    [n \in Notes |-> Cardinality({i \in 1..Len(text) : IsNote(text[i]) /\ text[i].name = n})]
SameMeaning(before, after) ==
    Equivalent(before, after) /\ Comments(before) = Comments(after)

VersionRow(text) == CHOOSE i \in 1..Len(text) : text[i] = Key("version")

(* What follows the line up to the next key is attached to it as comments.  *)
VersionHolds(text) ==
    LET i == VersionRow(text) IN i < Len(text) /\ (IsNote(text[i + 1]) \/ text[i + 1] = Blank)

(* Returns the text and the rules that could not be applied.                *)
WithoutVersion(text) ==
    IF "version" \notin Names(text, "key") THEN [text |-> text, skipped |-> {}]
    ELSE IF VersionHolds(text) THEN [text |-> text, skipped |-> {"N-004"}]
    ELSE [text |-> RemoveAt(text, VersionRow(text)), skipped |-> {}]

(* A list with a repeated key has no mapping form.                          *)
WithLabelMapping(text) ==
    IF ~ Distinct(text, "item") THEN [text |-> text, skipped |-> {"N-007"}]
    ELSE [text |-> [i \in 1..Len(text) |->
                       IF text[i].is = "item" THEN Entry(text[i].name) ELSE text[i]],
          skipped |-> {}]

(* No blank line first or last.                                             *)
Dump(text) ==
    LET solid == {i \in 1..Len(text) : text[i] # Blank}
        first == CHOOSE i \in solid : \A j \in solid : i <= j
        last  == CHOOSE i \in solid : \A j \in solid : j <= i
    IN IF solid = {} THEN <<>> ELSE SubSeq(text, first, last)

Reshape(text) ==
    LET v == WithoutVersion(text)
        l == WithLabelMapping(v.text)
    IN [text |-> Dump(l.text), skipped |-> v.skipped \cup l.skipped]

-----------------------------------------------------------------------------
(* formatter.py, stage 2: order                                             *)

Root   == [key |-> "key",   rank |-> [k \in RootKeys |-> TopLevelRank(k)]]
Nested == [key |-> "entry", rank |-> LabelRank]

(* Between two keys: a blank line, or a comment no deeper than the keys.    *)
Loose(line, path) ==
    line = Blank \/ (IsNote(line) /\ (path = Nested \/ Margin(line)))

(* Slip: a comment does not go with the key below it.                       *)
LeadOfNone(text, from, row) == row

(* Where a key's comments start, below the blank lines that stay.           *)
Lead(text, from, row) ==
    CHOOSE s \in from..row :
        (\A i \in from..s-1 : text[i] = Blank) /\ (s = row \/ text[s] # Blank)

(* From where on all lines before "to" are among the given ones.            *)
Upwards(low, to, lines) ==
    CHOOSE s \in low..to : s..to-1 \subseteq lines /\ (s = low \/ s - 1 \notin lines)

(* The k-th by rank, and where ranks are the same by place.                 *)
Kth(keys, rank, k) ==
    CHOOSE i \in keys :
        k = Cardinality({j \in keys : rank[j] < rank[i] \/ (rank[j] = rank[i] /\ j <= i)})

(* The keys at path in the order of their rank, each with the comments      *)
(* above it; blank lines stay between them, and so does a file header.      *)
ReorderMapping(text, path) ==
    LET keys  == Lines(text, path.key)
        n     == Cardinality(keys)
        at  == [k \in 1..n |-> Kth(keys, [i \in keys |-> i], k)]
        order == [k \in 1..n |-> Kth(1..n, [j \in 1..n |-> path.rank[text[at[j]].name]], k)]
        loose == {i \in 1..Len(text) : Loose(text[i], path)}
        notes == {i \in 1..Len(text) : IsNote(text[i])}
        ends  == {i \in at[n]+1..Len(text) : path = Nested /\ text[i].is = "key"}
        end   == CHOOSE i \in ends \cup {Len(text) + 1} : \A j \in ends : i <= j
        tail  == Upwards(at[n] + 1, end, loose)
        start == [k \in 1..n |-> IF k > 1 THEN Upwards(at[k - 1] + 1, at[k], loose)
                                 ELSE IF path = Root THEN at[1]
                                 ELSE Upwards(1, at[1], notes)]
        lead  == [k \in 1..n |-> Lead(text, start[k], at[k])]
        next  == [k \in 1..n |-> IF k < n THEN start[k + 1] ELSE tail]
    IN IF n < 2 THEN text
       ELSE SubSeq(text, 1, start[1] - 1)
            \o FlattenSeq([k \in 1..n |-> SubSeq(text, start[k], lead[k] - 1)
                                          \o SubSeq(text, lead[order[k]], next[order[k]] - 1)])
            \o SubSeq(text, tail, Len(text))

(* One mapping after the other; a reordering that fails its check is left.  *)
Ordered(result, path, rule) ==
    LET reordered == ReorderMapping(result.text, path)
    IN IF SameMeaning(result.text, reordered)
       THEN [result EXCEPT !.text = reordered]
       ELSE [result EXCEPT !.skipped = @ \cup {rule}]

(* yamllint's default: at most two blank lines in a row.                    *)
LintError(text) ==
    \E i \in 1..Len(text) : i + 2 <= Len(text) /\ \A j \in i..i+2 : text[j] = Blank

(* normalize: None, or the new text and the rules left to the model.        *)
Normalize(text) ==
    LET reshaped == Reshape(text)
        ordered  == Ordered(Ordered(reshaped, Root, "N-005"), Nested, "N-009")
    IN IF \/ ~ Loads(text) \/ ~ IsCompose(text)
          \/ ~ SameMeaning(text, reshaped.text)
          \/ LintError(ordered.text)
       THEN None ELSE ordered
=============================================================================
