--------------------------- MODULE OneShotQuestion ---------------------------
(***************************************************************************)
(* What every human gate of the control plane promises: a question that is *)
(* put to a human is answered at most once, and the action it asks about   *)
(* happens at most once, and only after the answer was yes.                *)
(*                                                                         *)
(* models/patch_approval.py:5: "Only a human following the Approve link    *)
(* and confirming the page it opens moves the row on to execution;         *)
(* everything else (Cancel, the TTL running out, a second click) resolves  *)
(* it without running anything."                                           *)
(***************************************************************************)
EXTENDS Naturals

CONSTANT Questions

VARIABLES
    answer,     \* where each question stands
    acted       \* how often the action of each question was performed

vars == <<answer, acted>>

Answers == {"unasked", "open", "granted", "refused"}

TypeOK ==
    /\ answer \in [Questions -> Answers]
    /\ acted \in [Questions -> {0, 1}]

Init ==
    /\ answer = [q \in Questions |-> "unasked"]
    /\ acted = [q \in Questions |-> 0]

Ask(q) ==
    /\ answer[q] = "unasked"
    /\ answer' = [answer EXCEPT ![q] = "open"]
    /\ UNCHANGED acted

Grant(q) ==
    /\ answer[q] = "open"
    /\ answer' = [answer EXCEPT ![q] = "granted"]
    /\ UNCHANGED acted

(* The TTL, a cancellation, a wrong answer, an undeliverable question.     *)
(* Several questions may lapse at once when the server starts.             *)
Refuse(closed) ==
    /\ closed # {}
    /\ \A q \in closed : answer[q] = "open"
    /\ answer' = [q \in Questions |-> IF q \in closed THEN "refused" ELSE answer[q]]
    /\ UNCHANGED acted

Act(q) ==
    /\ answer[q] = "granted"
    /\ acted[q] = 0
    /\ acted' = [acted EXCEPT ![q] = 1]
    /\ UNCHANGED answer

Next ==
    \/ \E q \in Questions : Ask(q) \/ Grant(q) \/ Act(q)
    \/ \E closed \in SUBSET Questions : Refuse(closed)

Spec == Init /\ [][Next]_vars
=============================================================================
