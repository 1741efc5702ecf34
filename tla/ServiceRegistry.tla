--------------------------- MODULE ServiceRegistry ---------------------------
(***************************************************************************)
(* The service registry's provenance rows and staleness flags, as the      *)
(* discovery passes of several sources write them                          *)
(* (registry/store.py: reconcile, _upsert_source, _mark_stale,             *)
(* create_service, delete_service; discovery/engine.py: _discover).        *)
(*                                                                         *)
(* A pass asks its source, waits, and then reconciles the answer in one    *)
(* uninterrupted synchronous step.  Between the two the operator's tools,  *)
(* the passes of other sources, and a tool-triggered pass of the very same *)
(* source may run, so an answer can be applied late and out of order.      *)
(*                                                                         *)
(* A discovered item stands for the service it resolves to: matching by    *)
(* name, router, URL host or reasoner is the subject of ServiceMatching.   *)
(***************************************************************************)
EXTENDS Integers

CONSTANTS
    Services,       \* service identities
    Sources,        \* discovery sources (traefik, authentik, docker, dockhand)
    Manual,         \* the provenance of a hand-registered service
    ToolTasks,      \* concurrent discovery_run_now calls
    StaleThreshold  \* discovery_stale_after_misses

ASSUME ThresholdAssumption == StaleThreshold \in Nat \ {0}
ASSUME ManualAssumption == Manual \notin Sources

VARIABLES
    registered,     \* rows of the service table
    stale,          \* the services whose stale flag is set
    missed,         \* service -> provenance -> missed_passes, or NoRow
    enabled,        \* sources configured in this process
    reports,        \* what each source would answer now (the outside world)
    pass            \* the passes in flight

vars == <<registered, stale, missed, enabled, reports, pass>>

Provenances == Sources \cup {Manual}

(* A scheduled job of a source runs at most one pass at a time; a tool call *)
(* adds a pass of any source beside it.                                     *)
Tasks == Sources \cup ToolTasks

NoRow == -1

(* missed_passes is only ever compared with the threshold, so counting     *)
(* stops there.                                                            *)
MissCap == StaleThreshold

Idle == [phase |-> "idle"]
Answered(src, seen) == [phase |-> "answered", source |-> src, seen |-> seen]

PassState == {Idle} \cup
             [phase: {"answered"}, source: Sources, seen: SUBSET Services]

TypeOK ==
    /\ registered \subseteq Services
    /\ stale \subseteq registered
    /\ missed \in [Services -> [Provenances -> {NoRow} \cup 0..MissCap]]
    /\ \A x \in Services, s \in Provenances :
          missed[x][s] # NoRow => x \in registered
    /\ enabled \subseteq Sources
    /\ reports \in [Sources -> SUBSET Services]
    /\ pass \in [Tasks -> PassState]

Init ==
    /\ registered = {}
    /\ stale = {}
    /\ missed = [x \in Services |-> [s \in Provenances |-> NoRow]]
    /\ enabled = Sources
    /\ reports \in [Sources -> SUBSET Services]
    /\ pass = [t \in Tasks |-> Idle]

-----------------------------------------------------------------------------
(* The provenance rows after a pass of src that saw the services in seen.  *)
RowsAfter(src, seen) ==
    [x \in Services |->
        [missed[x] EXCEPT ![src] =
            IF x \in seen THEN 0
            ELSE IF @ = NoRow \/ @ = MissCap THEN @ ELSE @ + 1]]

(* Every discovery source with a row for x has missed it often enough.     *)
AllLost(rows, x) ==
    /\ \E s \in Sources : rows[x][s] # NoRow
    /\ \A s \in Sources : rows[x][s] # NoRow => rows[x][s] >= StaleThreshold

(* Slip: one source losing a service is enough to call it stale.           *)
NewlyStaleBySource(src, seen) ==
    {x \in registered \ seen : RowsAfter(src, seen)[x][src] >= StaleThreshold}

(* The services a pass of src newly marks stale: it lost them itself, and  *)
(* no other discovery source still reports them.                           *)
NewlyStale(src, seen) ==
    LET rows == RowsAfter(src, seen)
    IN  {x \in registered \ seen :
            rows[x][src] >= StaleThreshold /\ AllLost(rows, x)}

Reconcile(src, seen) ==
    /\ registered' = registered \cup seen
    /\ missed' = RowsAfter(src, seen)
    /\ stale' = (stale \ seen) \cup NewlyStale(src, seen)

-----------------------------------------------------------------------------
(* src.discover() answers with what the source sees at that moment.        *)
PassFetch(t, src) ==
    /\ src \in enabled
    /\ t \in Sources => t = src
    /\ pass[t] = Idle
    /\ pass' = [pass EXCEPT ![t] = Answered(src, reports[src])]
    /\ UNCHANGED <<registered, stale, missed, enabled, reports>>

PassReconcile(t) ==
    /\ pass[t].phase = "answered"
    /\ Reconcile(pass[t].source, pass[t].seen)
    /\ pass' = [pass EXCEPT ![t] = Idle]
    /\ UNCHANGED <<enabled, reports>>

(* The source or the reasoner raised, or the tool call was cancelled: a     *)
(* failed event is recorded and the registry is left alone.                 *)
PassFail(t) ==
    /\ pass[t].phase = "answered"
    /\ pass' = [pass EXCEPT ![t] = Idle]
    /\ UNCHANGED <<registered, stale, missed, enabled, reports>>

CreateService(x) ==
    /\ x \notin registered
    /\ registered' = registered \cup {x}
    /\ missed' = [missed EXCEPT ![x][Manual] = 0]
    /\ UNCHANGED <<stale, enabled, reports, pass>>

DeleteService(x) ==
    /\ x \in registered
    /\ registered' = registered \ {x}
    /\ stale' = stale \ {x}
    /\ missed' = [missed EXCEPT ![x] = [s \in Provenances |-> NoRow]]
    /\ UNCHANGED <<enabled, reports, pass>>

(* The process stops anywhere and comes back, perhaps with other sources    *)
(* configured.  The database survives, the passes in flight do not.         *)
Restart(configured) ==
    /\ enabled' = configured
    /\ pass' = [t \in Tasks |-> Idle]
    /\ UNCHANGED <<registered, stale, missed, reports>>

(* The homelab itself changes: a source starts or stops seeing a service.  *)
WorldChanges(src, x) ==
    /\ reports' = [reports EXCEPT ![src] =
                      IF x \in @ THEN @ \ {x} ELSE @ \cup {x}]
    /\ UNCHANGED <<registered, stale, missed, enabled, pass>>

Discovery ==
    \/ \E t \in Tasks, src \in Sources : PassFetch(t, src)
    \/ \E t \in Tasks : PassReconcile(t)
    \/ \E t \in Tasks : PassFail(t)

Operator == \E x \in Services : CreateService(x) \/ DeleteService(x)

Environment ==
    \/ \E configured \in SUBSET Sources : Restart(configured)
    \/ \E src \in Sources, x \in Services : WorldChanges(src, x)

Next == Discovery \/ Operator \/ Environment

Spec == Init /\ [][Next]_vars

-----------------------------------------------------------------------------
(* registry/store.py:474: "Stale only once every discovery source that     *)
(* reported the service has lost it" -- and, the other way round, a         *)
(* service all of whose sources have lost it is never left looking alive.  *)
(* Whatever order the passes of several sources are applied in, the flag    *)
(* agrees with the rows.                                                    *)
StaleIffAllLost ==
    \A x \in Services : x \in stale <=> AllLost(missed, x)

(* From some point on nobody edits the registry, the homelab and the        *)
(* configuration stay as they are.                                          *)
Quiet == <>[][ /\ UNCHANGED <<enabled, reports>>
               /\ ~ Operator ]_vars

(* The same comment: "One source dropping a service another still sees      *)
(* used to flip stale back and forth on every pass, forever."  In a quiet   *)
(* homelab every flag comes to rest.                                        *)
FlagsSettle ==
    Quiet => \A x \in Services : <>[](x \in stale) \/ <>[](x \notin stale)
=============================================================================
