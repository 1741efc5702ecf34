--------------------------- MODULE DiscoveryEngine ---------------------------
(***************************************************************************)
(* The discovery engine whole: the passes of ServiceRegistry write, the    *)
(* hook of PassHook reads what they have written (discovery/engine.py:     *)
(* run_source, run_all, _pass_complete).  A job goes from its pass to      *)
(* _pass_complete without a wait in between; a tool call may go on to its  *)
(* next source first.                                                      *)
(***************************************************************************)
EXTENDS ServiceRegistry

ASSUME TaskAssumption == Sources \cap ToolTasks = {}

VARIABLES
    at, pending, locked, unread,    \* of PassHook
    known       \* the registry as the latest run of the hook found it

Hook == INSTANCE PassHook WITH Jobs <- Sources, ToolCalls <- ToolTasks

hook == <<at, pending, locked, unread>>
engine == <<vars, hook, known>>

Rows == <<registered, stale>>

EngineTypeOK ==
    /\ TypeOK /\ Hook!TypeOK
    /\ known \in (SUBSET Services) \X (SUBSET Services)
    /\ \A t \in Tasks : pass[t] # Idle => at[t] = "pass"

EngineInit == Init /\ Hook!Init /\ known = Rows

-----------------------------------------------------------------------------
(* A run that begins in this step finds the registry as the step leaves it. *)
Begins == at' # at /\ \E t \in Tasks : at[t] # "hook" /\ at'[t] = "hook"
Reads == known' = Rows'
Keeps == known' = known

(* run_all: the next source of a tool call.                                 *)
NextSource(t) == t \in ToolTasks /\ at[t] = "pass" /\ UNCHANGED hook

Fetch(t, src) ==
    /\ PassFetch(t, src)
    /\ Hook!PassStarts(t) \/ NextSource(t)
    /\ Keeps

(* A pass of run_all that is not the last.                                  *)
Continue(t) ==
    /\ \/ PassReconcile(t) /\ Hook!SourceDone(t)
       \/ PassFail(t) /\ NextSource(t)
    /\ Keeps

(* Both end in _pass_complete: one that failed may owe a run to its earlier *)
(* sources, and asks for one in any case.                                   *)
Finish(t) ==
    /\ \/ PassReconcile(t) /\ Hook!Complete(t, unread \cup {t})
       \/ PassFail(t) /\ Hook!Complete(t, unread)
    /\ IF Begins THEN Reads ELSE Keeps

RunEnds(t) ==
    /\ Hook!RunEnds(t)
    /\ UNCHANGED vars
    /\ IF pending THEN Reads ELSE Keeps

Cancel(t) ==
    /\ Hook!Cancel(t)
    /\ pass' = [pass EXCEPT ![t] = Idle]
    /\ Keeps
    /\ UNCHANGED <<registered, stale, missed, enabled, reports>>

Edit == Operator /\ UNCHANGED <<hook, known>>

Stop(configured) == Restart(configured) /\ Hook!Restart /\ Keeps

Change(src, x) == WorldChanges(src, x) /\ UNCHANGED <<hook, known>>

EngineNext ==
    \/ \E t \in Tasks, src \in Sources : Fetch(t, src)
    \/ \E t \in Tasks : Continue(t) \/ Finish(t) \/ RunEnds(t)
    \/ \E t \in ToolTasks : Cancel(t)
    \/ Edit
    \/ \E configured \in SUBSET Sources : Stop(configured)
    \/ \E src \in Sources, x \in Services : Change(src, x)

EngineSpec == EngineInit /\ [][EngineNext]_engine

(* The scheduler starts a job whose previous run has ended, every wait of a *)
(* hook run has a timeout, and a source that keeps being asked is heard in  *)
(* the end, although any single pass may fail.  Nothing is assumed of tool  *)
(* calls, except that a run of the hook they have taken over ends.          *)
EngineFairness ==
    /\ \A src \in Sources :
          /\ WF_engine(Fetch(src, src))
          /\ SF_engine(PassReconcile(src) /\ Finish(src))
    /\ \A t \in Tasks : WF_engine(RunEnds(t))

EngineFairSpec == EngineSpec /\ EngineFairness

-----------------------------------------------------------------------------
(* engine.py:196: "One hook run reads everything they have written".  Once  *)
(* the homelab and the operator have come to rest, the hook has read the    *)
(* registry as it stays, although passes failed, calls were cancelled while *)
(* they ran the hook for others, and the server was restarted.              *)
HookKnowsInTheEnd == Quiet /\ <>[](enabled # {}) => <>[](known = Rows)

(* engine.py:203: "the run in progress loops once more for this request".   *)
ForgottenOnlyWhenCut == Hook!ForgottenOnlyWhenCut
=============================================================================
