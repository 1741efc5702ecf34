------------------------------- MODULE PassHook -------------------------------
(***************************************************************************)
(* When the after-discovery hook runs (discovery/engine.py: run_source,    *)
(* run_all, _pass_complete; discovery/scheduler.py).                       *)
(*                                                                         *)
(* Discovery passes of several sources and of tool calls finish beside     *)
(* each other.  Each then wants the hook to look at what it wrote, and the *)
(* first that finds no run in progress runs it -- in its own job or tool   *)
(* call -- for all who finish meanwhile.  What a run does is the subject   *)
(* of Proposals.                                                           *)
(***************************************************************************)
CONSTANTS
    Jobs,       \* the scheduled passes, one per enabled source
    ToolCalls   \* concurrent discovery_run_now and proposal_verify calls

VARIABLES
    at,         \* what each job or call is doing
    pending,    \* _hook_pending
    locked,     \* _hook_lock is held
    unread      \* whose registry changes no run has seen from its start

vars == <<at, pending, locked, unread>>

Callers == Jobs \cup ToolCalls

Running == {c \in Callers : at[c] = "hook"}

TypeOK ==
    /\ at \in [Callers -> {"idle", "pass", "hook"}]
    /\ pending \in BOOLEAN
    /\ locked \in BOOLEAN
    /\ unread \subseteq Callers
    /\ locked <=> Running # {}

Init ==
    /\ at = [c \in Callers |-> "idle"]
    /\ pending = FALSE
    /\ locked = FALSE
    /\ unread = {}

-----------------------------------------------------------------------------
Goes(c, from, to) ==
    /\ at[c] = from
    /\ at' = [at EXCEPT ![c] = to]

PassStarts(c) ==
    /\ Goes(c, "idle", "pass")
    /\ UNCHANGED <<pending, locked, unread>>

(* run_all: the pass of one source is applied, the next one is asked.       *)
SourceDone(c) ==
    /\ c \in ToolCalls /\ at[c] = "pass"
    /\ unread' = unread \cup {c}
    /\ UNCHANGED <<at, pending, locked>>

(* _pass_complete: a run in progress is asked to loop once more; otherwise  *)
(* the caller starts one.  Taking a free lock does not yield.               *)
Complete(c, written) ==
    \/ /\ locked
       /\ Goes(c, "pass", "idle")
       /\ pending' = TRUE /\ unread' = written
       /\ UNCHANGED locked
    \/ /\ ~ locked
       /\ Goes(c, "pass", "hook")
       /\ pending' = FALSE /\ locked' = TRUE /\ unread' = {}

(* The (last) pass was applied, or it failed and wrote nothing.             *)
PassFinishes(c) == Complete(c, unread \cup {c}) \/ Complete(c, unread)

(* Slip: the request is cleared when the run ends, not when it begins.      *)
RunEndsForgetfully(c) ==
    /\ Goes(c, "hook", "idle")
    /\ pending' = FALSE /\ locked' = FALSE
    /\ UNCHANGED unread

(* The hook returned, or raised and was logged.                             *)
RunEnds(c) ==
    \/ /\ pending /\ Goes(c, "hook", "hook")
       /\ pending' = FALSE /\ unread' = {}
       /\ UNCHANGED locked
    \/ /\ ~ pending /\ Goes(c, "hook", "idle")
       /\ locked' = FALSE
       /\ UNCHANGED <<pending, unread>>

(* Slip: the lock is not given back on the way out.                         *)
CancelHoldingLock(c) ==
    /\ at[c] # "idle" /\ Goes(c, at[c], "idle")
    /\ UNCHANGED <<pending, locked, unread>>

(* The client cancels the tool call.  The lock is released, the request of  *)
(* whoever relied on this run stays where it is.                            *)
Cancel(c) ==
    /\ at[c] # "idle" /\ Goes(c, at[c], "idle")
    /\ locked' = (locked /\ at[c] # "hook")
    /\ UNCHANGED <<pending, unread>>

Restart ==
    /\ at' = [c \in Callers |-> "idle"]
    /\ pending' = FALSE /\ locked' = FALSE
    /\ UNCHANGED unread

Next ==
    \/ \E c \in Callers : PassStarts(c) \/ SourceDone(c) \/ PassFinishes(c) \/ RunEnds(c)
    \/ \E c \in ToolCalls : Cancel(c)
    \/ Restart

Spec == Init /\ [][Next]_vars

-----------------------------------------------------------------------------
(* engine.py:197: "Serializing also keeps two runs from auto-creating a     *)
(* proposal for the same finding at once."  What Proposals takes for        *)
(* granted: the hook runs in one place at a time.                           *)
OneRunAtATime == \A c, d \in Running : c = d

(* Changes of c that nobody will look at before another pass finishes.      *)
Forgotten(c) ==
    c \in unread /\ at[c] # "pass" /\ ~ (locked /\ pending)

(* engine.py:203: "the run in progress loops once more for this request".   *)
(* Changes are forgotten in no other way than by a cancelled tool call or a *)
(* stop of the server: handing over a request and finishing a run cannot    *)
(* cross.                                                                   *)
ForgottenOnlyWhenCut ==
    [][\A c \in Callers : ~ Forgotten(c) /\ Forgotten(c)' =>
           Restart \/ \E d \in ToolCalls : Cancel(d)]_vars
=============================================================================
