----------------------------- MODULE ConfigReport -----------------------------
(***************************************************************************)
(* The configuration report at work: the operator edits the environment,   *)
(* reads the report, and removes keys it says do nothing; a restart builds *)
(* the server from what is left.                                           *)
(***************************************************************************)
EXTENDS Naturals, Environment

CONSTANTS
    Environments,   \* the environments the operator may start from
    MaxEdits        \* bound on the keys set or changed by hand

VARIABLE edits      \* how many were set or changed

vars == <<env, edits>>

Init ==
    /\ env \in Environments
    /\ edits = 0

Edit(s, v) ==
    /\ edits < MaxEdits
    /\ Change(s, v)
    /\ edits' = edits + 1

Next ==
    \/ \E s \in Settings : \E v \in ValuesOf[s] : Edit(s, v)
    \/ Remove /\ UNCHANGED edits

Spec == Init /\ [][Next]_vars
=============================================================================
