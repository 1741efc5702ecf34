------------------------ MODULE DiscoveryEngine_proof ------------------------
(***************************************************************************)
(* Proofs about the discovery engine and its two parts, for any services,  *)
(* sources, tool calls and threshold.  ServiceRegistry: the stale flag     *)
(* agrees with the provenance rows whatever order passes are applied in.   *)
(* PassHook: the lock is held exactly while the hook runs, it runs once at *)
(* a time, and no request for a run is forgotten.  DiscoveryEngine: it     *)
(* implements both, so that what is proved of each part on its own holds   *)
(* of the whole.  ServiceMatching: names stay apart, and when an identical *)
(* pass records nothing.                                                   *)
(***************************************************************************)
EXTENDS DiscoveryEngine, ServiceMatching, SequenceTheorems, WellFoundedInduction, TLAPS

(* ServiceRegistry                                                          *)

(* The rows after a pass are well-typed and keep to registered services.   *)
LEMMA RowsAfterType ==
    ASSUME TypeOK, NEW src \in Sources, NEW seen \in SUBSET Services
    PROVE  /\ RowsAfter(src, seen) \in
                 [Services -> [Provenances -> {NoRow} \cup 0..MissCap]]
           /\ \A x \in Services, s \in Provenances :
                 s # src => RowsAfter(src, seen)[x][s] = missed[x][s]
           /\ \A x \in seen : RowsAfter(src, seen)[x][src] = 0
           /\ \A x \in Services \ seen :
                 /\ missed[x][src] = NoRow => RowsAfter(src, seen)[x][src] = NoRow
                 /\ missed[x][src] # NoRow =>
                       /\ RowsAfter(src, seen)[x][src] # NoRow
                       /\ RowsAfter(src, seen)[x][src] >= missed[x][src]
<1>1. src \in Provenances
  BY DEF Provenances
<1>2. \A x \in Services : missed[x] \in [Provenances -> {NoRow} \cup 0..MissCap]
  BY DEF TypeOK
<1>3. MissCap \in Nat /\ MissCap > 0 /\ NoRow = -1
  BY ThresholdAssumption DEF MissCap, NoRow
<1> DEFINE new(x) == IF x \in seen THEN 0
                     ELSE IF missed[x][src] = NoRow \/ missed[x][src] = MissCap
                          THEN missed[x][src] ELSE missed[x][src] + 1
<1>4. \A x \in Services :
         RowsAfter(src, seen)[x] = [missed[x] EXCEPT ![src] = new(x)]
  BY DEF RowsAfter
<1>5. \A x \in Services : /\ new(x) \in {NoRow} \cup 0..MissCap
                          /\ x \in seen => new(x) = 0
                          /\ x \notin seen /\ missed[x][src] = NoRow => new(x) = NoRow
                          /\ x \notin seen /\ missed[x][src] # NoRow =>
                                new(x) # NoRow /\ new(x) >= missed[x][src]
  <2> TAKE x \in Services
  <2>1. missed[x][src] \in {NoRow} \cup 0..MissCap
    BY <1>1, <1>2
  <2> QED BY <2>1, <1>3
<1>6. \A x \in Services :
         /\ RowsAfter(src, seen)[x] \in [Provenances -> {NoRow} \cup 0..MissCap]
         /\ RowsAfter(src, seen)[x][src] = new(x)
         /\ \A s \in Provenances : s # src => RowsAfter(src, seen)[x][s] = missed[x][s]
  <2> HIDE DEF new
  <2> TAKE x \in Services
  <2>1. missed[x] \in [Provenances -> {NoRow} \cup 0..MissCap]
    BY <1>2
  <2>2. RowsAfter(src, seen)[x] = [missed[x] EXCEPT ![src] = new(x)]
    BY <1>4
  <2>3. new(x) \in {NoRow} \cup 0..MissCap
    BY <1>5
  <2> QED BY <1>1, <2>1, <2>2, <2>3
<1>7. RowsAfter(src, seen) \in [Services -> [Provenances -> {NoRow} \cup 0..MissCap]]
  BY <1>6 DEF RowsAfter
<1> HIDE DEF new
<1> QED
  BY <1>5, <1>6, <1>7

-----------------------------------------------------------------------------
(* Types and referential integrity: no row and no stale flag outlives its   *)
(* service.                                                                 *)
THEOREM RegistryTypeCorrect == Spec => []TypeOK
<1>1. Init => TypeOK
  BY DEF Init, TypeOK, Idle, PassState, Provenances, Tasks
<1>2. TypeOK /\ [Next]_vars => TypeOK'
  <2> SUFFICES ASSUME TypeOK, [Next]_vars PROVE TypeOK'
    OBVIOUS
  <2>1. ASSUME NEW t \in Tasks, NEW src \in Sources, PassFetch(t, src)
        PROVE  TypeOK'
    <3>1. Answered(src, reports[src]) \in PassState
      BY DEF TypeOK, Answered, PassState
    <3> QED BY <2>1, <3>1 DEF TypeOK, PassFetch, Tasks
  <2>2. ASSUME NEW t \in Tasks, PassReconcile(t)
        PROVE  TypeOK'
    <3>1. /\ pass[t].source \in Sources
          /\ pass[t].seen \in SUBSET Services
      BY <2>2 DEF PassReconcile, TypeOK, PassState, Idle
    <3>2. pass' \in [Tasks -> PassState]
      BY <2>2 DEF PassReconcile, TypeOK, PassState
    <3> DEFINE src == pass[t].source
               seen == pass[t].seen
    <3>3. registered' = registered \cup seen /\ missed' = RowsAfter(src, seen)
      BY <2>2 DEF PassReconcile, Reconcile
    <3>4. registered' \subseteq Services /\ stale' \subseteq registered'
      BY <2>2, <3>1 DEF PassReconcile, Reconcile, NewlyStale, TypeOK
    <3> HIDE DEF src, seen
    <3>5. missed' \in [Services -> [Provenances -> {NoRow} \cup 0..MissCap]]
      BY <3>1, <3>3, RowsAfterType DEF src, seen
    <3>6. \A x \in Services, s \in Provenances :
             missed'[x][s] # NoRow => x \in registered'
      BY <3>1, <3>3, RowsAfterType DEF TypeOK, src, seen
    <3>7. UNCHANGED <<enabled, reports>>
      BY <2>2 DEF PassReconcile
    <3> QED BY <3>2, <3>4, <3>5, <3>6, <3>7 DEF TypeOK
  <2>3. ASSUME NEW t \in Tasks, PassFail(t)
        PROVE  TypeOK'
    BY <2>3 DEF PassFail, TypeOK, PassState
  <2>4. ASSUME NEW x \in Services, CreateService(x)
        PROVE  TypeOK'
    <3>1. missed' \in [Services -> [Provenances -> {NoRow} \cup 0..MissCap]]
      <4>1. 0 \in {NoRow} \cup 0..MissCap
        BY ThresholdAssumption DEF MissCap
      <4>2. missed[x] \in [Provenances -> {NoRow} \cup 0..MissCap]
        BY DEF TypeOK
      <4>3. [missed[x] EXCEPT ![Manual] = 0] \in
               [Provenances -> {NoRow} \cup 0..MissCap]
        BY <4>1, <4>2
      <4>4. missed' = [missed EXCEPT ![x] = [missed[x] EXCEPT ![Manual] = 0]]
        BY <2>4 DEF CreateService, TypeOK
      <4> QED BY <4>3, <4>4 DEF TypeOK
    <3>2. \A y \in Services, s \in Provenances :
             missed'[y][s] # NoRow => y \in registered'
      BY <2>4 DEF CreateService, TypeOK
    <3> QED BY <2>4, <3>1, <3>2 DEF CreateService, TypeOK
  <2>5. ASSUME NEW x \in Services, DeleteService(x)
        PROVE  TypeOK'
    <3>1. [s \in Provenances |-> NoRow] \in [Provenances -> {NoRow} \cup 0..MissCap]
      OBVIOUS
    <3>2. missed' \in [Services -> [Provenances -> {NoRow} \cup 0..MissCap]]
      BY <2>5, <3>1 DEF DeleteService, TypeOK
    <3>3. \A y \in Services, s \in Provenances :
             missed'[y][s] # NoRow => y \in registered'
      BY <2>5 DEF DeleteService, TypeOK
    <3> QED BY <2>5, <3>2, <3>3 DEF DeleteService, TypeOK
  <2>6. ASSUME NEW configured \in SUBSET Sources, Restart(configured)
        PROVE  TypeOK'
    BY <2>6 DEF Restart, TypeOK, PassState
  <2>7. ASSUME NEW src \in Sources, NEW x \in Services, WorldChanges(src, x)
        PROVE  TypeOK'
    BY <2>7 DEF WorldChanges, TypeOK
  <2>8. CASE UNCHANGED vars
    BY <2>8 DEF vars, TypeOK
  <2> QED
    BY <2>1, <2>2, <2>3, <2>4, <2>5, <2>6, <2>7, <2>8
       DEF Next, Discovery, Operator, Environment
<1> QED
  BY <1>1, <1>2, PTL DEF Spec

-----------------------------------------------------------------------------
(* The heart of the argument: one pass keeps flags and rows in agreement.   *)
LEMMA ReconcileKeepsAgreement ==
    ASSUME TypeOK, StaleIffAllLost,
           NEW src \in Sources, NEW seen \in SUBSET Services,
           Reconcile(src, seen)
    PROVE  StaleIffAllLost'
<1> DEFINE counts == RowsAfter(src, seen)
<1>1. missed' = counts /\ stale' = (stale \ seen) \cup NewlyStale(src, seen)
  BY DEF Reconcile
<1>2. src \in Provenances /\ Sources \subseteq Provenances
  BY DEF Provenances
<1>3. /\ \A x \in Services, s \in Sources : s # src => counts[x][s] = missed[x][s]
      /\ \A x \in seen : counts[x][src] = 0
      /\ \A x \in Services \ seen :
             /\ missed[x][src] = NoRow => counts[x][src] = NoRow
             /\ missed[x][src] # NoRow =>
                   counts[x][src] # NoRow /\ counts[x][src] >= missed[x][src]
  BY <1>2, RowsAfterType
<1>4. StaleThreshold \in Nat /\ StaleThreshold > 0 /\ NoRow = -1
  BY ThresholdAssumption DEF NoRow
<1>5. \A x \in Services, s \in Sources : missed[x][s] \in Int /\ counts[x][s] \in Int
  <2>1. counts \in [Services -> [Provenances -> {NoRow} \cup 0..MissCap]]
    BY RowsAfterType
  <2> HIDE DEF counts
  <2> QED BY <2>1, <1>2, <1>4 DEF TypeOK, MissCap
<1> HIDE DEF counts
<1> SUFFICES ASSUME NEW x \in Services
             PROVE  x \in stale' <=> AllLost(counts, x)
  BY <1>1 DEF StaleIffAllLost, AllLost
(* Seen: the flag is cleared and this source's row is at zero.             *)
<1>6. CASE x \in seen
  <2>1. x \notin stale'
    BY <1>1, <1>6 DEF NewlyStale
  <2>2. ~ AllLost(counts, x)
    BY <1>3, <1>4, <1>6 DEF AllLost
  <2> QED BY <2>1, <2>2
(* No row of this source: neither the rows nor the flag of x change.       *)
<1>7. CASE x \notin seen /\ missed[x][src] = NoRow
  <2>1. \A s \in Sources : counts[x][s] = missed[x][s]
    BY <1>3, <1>7
  <2>2. x \notin NewlyStale(src, seen)
    BY <1>3, <1>4, <1>7 DEF NewlyStale, counts
  <2>3. AllLost(counts, x) <=> AllLost(missed, x)
    BY <2>1 DEF AllLost
  <2> QED BY <1>1, <1>7, <2>2, <2>3 DEF StaleIffAllLost
(* Missed once more: the flag can only be raised, exactly when the last of  *)
(* the rows reaches the threshold.                                          *)
<1>8. CASE x \notin seen /\ missed[x][src] # NoRow
  <2>1. x \in registered
    BY <1>2, <1>8 DEF TypeOK
  <2>2. counts[x][src] # NoRow /\ counts[x][src] >= missed[x][src]
    BY <1>3, <1>8
  <2>3. AllLost(missed, x) => AllLost(counts, x)
    BY <1>3, <1>4, <1>5, <1>8, <2>2 DEF AllLost
  <2>4. x \in NewlyStale(src, seen) <=> AllLost(counts, x)
    BY <1>8, <2>1, <2>2 DEF NewlyStale, AllLost, counts
  <2> QED BY <1>1, <1>8, <2>3, <2>4 DEF StaleIffAllLost
<1> QED
  BY <1>6, <1>7, <1>8

(* registry/store.py:474 for every number of sources, services, concurrent  *)
(* passes, restarts and failures: stale exactly when every discovery source *)
(* with a row for the service has lost it.                                  *)
THEOREM StaleFlagCorrect == Spec => []StaleIffAllLost
<1>1. Init => StaleIffAllLost
  <2> SUFFICES ASSUME Init, NEW x \in Services
               PROVE  x \notin stale /\ ~ AllLost(missed, x)
    BY DEF StaleIffAllLost
  <2>1. \A s \in Sources : missed[x][s] = NoRow
    BY DEF Init, Provenances
  <2> QED BY <2>1 DEF Init, AllLost
<1>2. TypeOK /\ StaleIffAllLost /\ [Next]_vars => StaleIffAllLost'
  <2> SUFFICES ASSUME TypeOK, StaleIffAllLost, [Next]_vars
               PROVE  StaleIffAllLost'
    OBVIOUS
  <2>1. ASSUME NEW t \in Tasks, PassReconcile(t)
        PROVE  StaleIffAllLost'
    <3>1. /\ pass[t].source \in Sources
          /\ pass[t].seen \in SUBSET Services
      BY <2>1 DEF PassReconcile, TypeOK, PassState, Idle
    <3>2. Reconcile(pass[t].source, pass[t].seen)
      BY <2>1 DEF PassReconcile
    <3> QED BY <3>1, <3>2, ReconcileKeepsAgreement
  <2>2. ASSUME NEW y \in Services, CreateService(y)
        PROVE  StaleIffAllLost'
    <3>1. \A x \in Services, s \in Sources : missed'[x][s] = missed[x][s]
      BY <2>2, ManualAssumption DEF CreateService, TypeOK, Provenances
    <3>2. \A x \in Services : AllLost(missed', x) <=> AllLost(missed, x)
      BY <3>1 DEF AllLost
    <3> QED BY <2>2, <3>2 DEF CreateService, StaleIffAllLost, AllLost
  <2>3. ASSUME NEW y \in Services, DeleteService(y)
        PROVE  StaleIffAllLost'
    <3>1. \A s \in Sources : missed'[y][s] = NoRow
      BY <2>3 DEF DeleteService, TypeOK, Provenances
    <3>2. \A x \in Services \ {y} : missed'[x] = missed[x]
      BY <2>3 DEF DeleteService, TypeOK
    <3>3. \A x \in Services \ {y} : AllLost(missed', x) <=> AllLost(missed, x)
      BY <3>2 DEF AllLost
    <3>4. ~ AllLost(missed', y)
      BY <3>1 DEF AllLost
    <3> QED BY <2>3, <3>3, <3>4 DEF DeleteService, StaleIffAllLost, AllLost
  <2>4. ASSUME UNCHANGED <<stale, missed>>
        PROVE  StaleIffAllLost'
    BY <2>4 DEF StaleIffAllLost, AllLost
  <2> QED
    BY <2>1, <2>2, <2>3, <2>4
       DEF Next, Discovery, Operator, Environment, PassFetch, PassFail,
           Restart, WorldChanges, vars
<1> QED
  BY <1>1, <1>2, RegistryTypeCorrect, PTL DEF Spec

-----------------------------------------------------------------------------
(* PassHook                                                                 *)

HookInv == Hook!TypeOK /\ Hook!OneRunAtATime

USE DEF HookInv, Hook!OneRunAtATime, Hook!Running, Hook!Goes

LEMMA HookInit == Hook!Init => HookInv
BY DEF Hook!Init, Hook!TypeOK

(* Handing over to a run in progress, or starting one.                      *)
LEMMA HookCompleteKeeps ==
    ASSUME HookInv, NEW c \in Hook!Callers, NEW written \in SUBSET Hook!Callers,
           Hook!Complete(c, written)
    PROVE  HookInv'
<1>1. CASE locked /\ Hook!Goes(c, "pass", "idle") /\ UNCHANGED locked
  <2>1. Hook!Running' = Hook!Running
    BY <1>1 DEF Hook!TypeOK
  <2> QED BY <1>1, <2>1 DEF Hook!TypeOK, Hook!Complete
<1>2. CASE ~ locked /\ Hook!Goes(c, "pass", "hook") /\ locked' /\ unread' = {}
  <2>1. Hook!Running' = {c}
    BY <1>2 DEF Hook!TypeOK
  <2> QED BY <1>2, <2>1 DEF Hook!TypeOK, Hook!Complete
<1> QED BY <1>1, <1>2 DEF Hook!Complete

LEMMA HookRunEndsKeeps ==
    ASSUME HookInv, NEW c \in Hook!Callers, Hook!RunEnds(c)
    PROVE  HookInv'
<1>1. Hook!Running = {c} /\ locked
  BY DEF Hook!RunEnds, Hook!TypeOK
<1>2. CASE pending /\ Hook!Goes(c, "hook", "hook") /\ UNCHANGED locked
  <2>1. Hook!Running' = {c}
    BY <1>1, <1>2 DEF Hook!TypeOK
  <2> QED BY <1>1, <1>2, <2>1 DEF Hook!TypeOK, Hook!RunEnds
<1>3. CASE ~ pending /\ Hook!Goes(c, "hook", "idle") /\ locked' = FALSE
  <2>1. Hook!Running' = {}
    BY <1>1, <1>3 DEF Hook!TypeOK
  <2> QED BY <1>3, <2>1 DEF Hook!TypeOK, Hook!RunEnds
<1> QED BY <1>2, <1>3 DEF Hook!RunEnds

(* The lock goes with the caller that held it.                              *)
LEMMA HookCancelKeeps ==
    ASSUME HookInv, NEW c \in ToolTasks, Hook!Cancel(c)
    PROVE  HookInv'
<1>1. c \in Hook!Callers
  BY DEF Hook!Callers
<1>2. CASE at[c] = "hook"
  <2>1. Hook!Running = {c} /\ Hook!Running' = {}
    BY <1>1, <1>2 DEF Hook!TypeOK, Hook!Cancel
  <2> QED BY <1>1, <1>2, <2>1 DEF Hook!TypeOK, Hook!Cancel
<1>3. CASE at[c] # "hook"
  <2>1. Hook!Running' = Hook!Running
    BY <1>1, <1>3 DEF Hook!TypeOK, Hook!Cancel
  <2> QED BY <1>1, <1>3, <2>1 DEF Hook!TypeOK, Hook!Cancel
<1> QED BY <1>2, <1>3

LEMMA HookNext == HookInv /\ [Hook!Next]_(Hook!vars) => HookInv'
<1> SUFFICES ASSUME HookInv, [Hook!Next]_(Hook!vars) PROVE HookInv'
  OBVIOUS
<1>1. ASSUME NEW c \in Hook!Callers, Hook!PassStarts(c) PROVE HookInv'
  BY <1>1 DEF Hook!PassStarts, Hook!TypeOK
<1>2. ASSUME NEW c \in Hook!Callers, Hook!SourceDone(c) PROVE HookInv'
  BY <1>2 DEF Hook!SourceDone, Hook!TypeOK
<1>3. ASSUME NEW c \in Hook!Callers, Hook!PassFinishes(c) PROVE HookInv'
  <2>1. unread \cup {c} \in SUBSET Hook!Callers /\ unread \in SUBSET Hook!Callers
    BY DEF Hook!TypeOK
  <2> QED BY <1>3, <2>1, HookCompleteKeeps DEF Hook!PassFinishes
<1>4. CASE Hook!Restart
  BY <1>4 DEF Hook!Restart, Hook!TypeOK
<1>5. CASE UNCHANGED Hook!vars
  BY <1>5 DEF Hook!vars, Hook!TypeOK
<1> QED BY <1>1, <1>2, <1>3, <1>4, <1>5, HookRunEndsKeeps, HookCancelKeeps DEF Hook!Next

(* Types, and that _hook_lock is held exactly while somebody runs the hook. *)
THEOREM HookTypeCorrect == Hook!Spec => []Hook!TypeOK
BY HookInit, HookNext, PTL DEF Hook!Spec

(* The after-discovery hook never runs twice at a time, whatever is         *)
(* cancelled (discovery/engine.py _pass_complete).                          *)
THEOREM HookSerialized == Hook!Spec => []Hook!OneRunAtATime
BY HookInit, HookNext, PTL DEF Hook!Spec

(* A run that ends without a request forgets nothing: what is unread then   *)
(* was so before.                                                           *)
LEMMA HookForgetsNothing ==
    ASSUME HookInv, [Hook!Next]_(Hook!vars), NEW c \in Hook!Callers,
           ~ Hook!Forgotten(c), Hook!Forgotten(c)'
    PROVE  Hook!Restart \/ \E d \in ToolTasks : Hook!Cancel(d)
<1> USE DEF Hook!Forgotten, Hook!TypeOK
<1>1. ASSUME NEW t \in Hook!Callers, Hook!PassStarts(t) PROVE FALSE
  BY <1>1 DEF Hook!PassStarts
<1>2. ASSUME NEW t \in Hook!Callers, Hook!SourceDone(t) PROVE FALSE
  BY <1>2 DEF Hook!SourceDone
<1>3. ASSUME NEW t \in Hook!Callers, Hook!PassFinishes(t) PROVE FALSE
  BY <1>3 DEF Hook!PassFinishes, Hook!Complete
<1>4. ASSUME NEW t \in Hook!Callers, Hook!RunEnds(t) PROVE FALSE
  BY <1>4 DEF Hook!RunEnds
<1>5. ASSUME UNCHANGED Hook!vars PROVE FALSE
  BY <1>5 DEF Hook!vars
<1> QED BY <1>1, <1>2, <1>3, <1>4, <1>5 DEF Hook!Next

(* discovery/engine.py:203, for any number of jobs and calls: changes are   *)
(* forgotten in no other way than by a cancelled tool call or a stop.       *)
THEOREM HookNeverForgets == Hook!Spec => Hook!ForgottenOnlyWhenCut
<1>1. Hook!Spec => []HookInv
  BY HookInit, HookNext, PTL DEF Hook!Spec
<1>2. HookInv /\ [Hook!Next]_(Hook!vars)
         => [\A c \in Hook!Callers : ~ Hook!Forgotten(c) /\ Hook!Forgotten(c)' =>
                 Hook!Restart \/ \E d \in ToolTasks : Hook!Cancel(d)]_(Hook!vars)
  BY HookForgetsNothing
<1> QED BY <1>1, <1>2, PTL DEF Hook!Spec, Hook!ForgottenOnlyWhenCut

-----------------------------------------------------------------------------
(* DiscoveryEngine                                                          *)

(* A pass that is not idle waits to be applied.                             *)
PassShape ==
    /\ pass = [t \in Tasks |-> pass[t]]
    /\ \A t \in Tasks : pass[t] = Idle \/ pass[t].phase = "answered"

LEMMA PassShapeInit == EngineInit => PassShape
BY DEF EngineInit, Init, PassShape

LEMMA PassShapeNext == PassShape /\ [EngineNext]_engine => PassShape'
<1> SUFFICES ASSUME PassShape, [EngineNext]_engine PROVE PassShape'
  OBVIOUS
<1>1. ASSUME NEW t \in Tasks, NEW src \in Sources, PassFetch(t, src) PROVE PassShape'
  BY <1>1 DEF PassFetch, PassShape, Answered
<1>2. ASSUME NEW t \in Tasks, pass' = [pass EXCEPT ![t] = Idle] PROVE PassShape'
  BY <1>2 DEF PassShape
<1>3. ASSUME pass' = [t \in Tasks |-> Idle] PROVE PassShape'
  BY <1>3 DEF PassShape
<1>4. ASSUME pass' = pass PROVE PassShape'
  BY <1>4 DEF PassShape
<1>5. ToolTasks \subseteq Tasks
  BY DEF Tasks
<1> QED
  BY <1>1, <1>2, <1>3, <1>4, <1>5
     DEF EngineNext, engine, vars, Fetch, Continue, Finish, RunEnds, Cancel, Edit, Stop,
         Change, PassReconcile, PassFail, Operator, CreateService, DeleteService,
         Restart, WorldChanges

(* Every step of the engine is a step of the registry, or leaves it alone:  *)
(* a cancelled call is one whose pass failed.                               *)
LEMMA StepOfRegistry == PassShape /\ [EngineNext]_engine => [Next]_vars
<1> SUFFICES ASSUME PassShape, [EngineNext]_engine PROVE [Next]_vars
  OBVIOUS
<1>1. ASSUME NEW t \in Tasks, NEW src \in Sources, Fetch(t, src) PROVE Next
  BY <1>1 DEF Fetch, Next, Discovery
<1>2. ASSUME NEW t \in Tasks, Continue(t) \/ Finish(t) PROVE Next
  BY <1>2 DEF Continue, Finish, Next, Discovery
<1>3. ASSUME NEW t \in Tasks, RunEnds(t) PROVE UNCHANGED vars
  BY <1>3 DEF RunEnds
<1>4. ASSUME NEW t \in ToolTasks, Cancel(t) PROVE [Next]_vars
  <2>1. t \in Tasks
    BY DEF Tasks
  <2>2. CASE pass[t].phase = "answered"
    BY <1>4, <2>1, <2>2 DEF Cancel, PassFail, Next, Discovery
  <2>3. CASE pass[t] = Idle
    BY <1>4, <2>1, <2>3 DEF Cancel, PassShape, vars
  <2> QED BY <2>1, <2>2, <2>3 DEF PassShape
<1>5. CASE Edit
  BY <1>5 DEF Edit, Next
<1>6. ASSUME NEW configured \in SUBSET Sources, Stop(configured) PROVE Next
  BY <1>6 DEF Stop, Next, Environment
<1>7. ASSUME NEW src \in Sources, NEW x \in Services, Change(src, x) PROVE Next
  BY <1>7 DEF Change, Next, Environment
<1> QED BY <1>1, <1>2, <1>3, <1>4, <1>5, <1>6, <1>7 DEF EngineNext, engine

(* The engine implements ServiceRegistry: whatever the hook does beside     *)
(* them, passes and tools write as they are specified to.                   *)
THEOREM ImplementsRegistry == EngineSpec => Spec
<1>1. EngineInit => Init
  BY DEF EngineInit
<1> QED
  BY <1>1, PassShapeInit, PassShapeNext, StepOfRegistry, PTL DEF EngineSpec, Spec

(* registry/store.py:474 in the whole engine, hook runs, cancelled calls    *)
(* and restarts included.                                                   *)
THEOREM EngineStaleFlagCorrect == EngineSpec => []StaleIffAllLost
BY ImplementsRegistry, StaleFlagCorrect, PTL

-----------------------------------------------------------------------------
(* Every step of the engine is a step of the hook, or leaves it alone: a    *)
(* job's answer is fetched and its pass begun in one, and a pass is applied *)
(* together with the request for a run.                                     *)
LEMMA StepOfHook == [EngineNext]_engine => [Hook!Next]_(Hook!vars)
<1> SUFFICES ASSUME [EngineNext]_engine PROVE [Hook!Next]_(Hook!vars)
  OBVIOUS
<1> USE DEF Hook!Callers, Tasks
<1>1. ASSUME NEW t \in Tasks, NEW src \in Sources, Fetch(t, src)
      PROVE  Hook!Next \/ UNCHANGED hook
  BY <1>1 DEF Fetch, NextSource, Hook!Next
<1>2. ASSUME NEW t \in Tasks, Continue(t) PROVE Hook!Next \/ UNCHANGED hook
  BY <1>2 DEF Continue, NextSource, Hook!Next
<1>3. ASSUME NEW t \in Tasks, Finish(t) PROVE Hook!Next
  BY <1>3 DEF Finish, Hook!PassFinishes, Hook!Next
<1>4. ASSUME NEW t \in Tasks, RunEnds(t) PROVE Hook!Next
  BY <1>4 DEF RunEnds, Hook!Next
<1>5. ASSUME NEW t \in ToolTasks, Cancel(t) PROVE Hook!Next
  BY <1>5 DEF Cancel, Hook!Next
<1>6. ASSUME NEW configured \in SUBSET Sources, Stop(configured) PROVE Hook!Next
  BY <1>6 DEF Stop, Hook!Next
<1>7. CASE Edit
  BY <1>7 DEF Edit, hook, Hook!vars
<1>8. ASSUME NEW src \in Sources, NEW x \in Services, Change(src, x) PROVE UNCHANGED hook
  BY <1>8 DEF Change
<1> QED
  BY <1>1, <1>2, <1>3, <1>4, <1>5, <1>6, <1>7, <1>8 DEF EngineNext, engine, hook, Hook!vars

(* The engine implements PassHook: what passes write does not change when   *)
(* and where the hook runs.                                                 *)
THEOREM ImplementsHook == EngineSpec => Hook!Spec
<1>1. EngineInit => Hook!Init
  BY DEF EngineInit
<1> QED
  BY <1>1, StepOfHook, PTL DEF EngineSpec, Hook!Spec

(* engine.py:197 in the whole engine: the hook runs in one place at a time. *)
THEOREM EngineSerialized == EngineSpec => []Hook!OneRunAtATime
BY ImplementsHook, HookSerialized, PTL

(* engine.py:203 in the whole engine: a request for a run is lost in no      *)
(* other way than by a cancelled tool call or a stop.                       *)
THEOREM EngineNeverForgets == EngineSpec => ForgottenOnlyWhenCut
BY ImplementsHook, HookNeverForgets, PTL DEF ForgottenOnlyWhenCut

-----------------------------------------------------------------------------
LEMMA KnownAndPass ==
    TypeOK /\ TypeOK' /\ Hook!TypeOK /\ EngineTypeOK /\ Hook!TypeOK' /\ [EngineNext]_engine
        => EngineTypeOK'
<1> SUFFICES ASSUME TypeOK, TypeOK', Hook!TypeOK, Hook!TypeOK', EngineTypeOK,
                    [EngineNext]_engine
             PROVE  EngineTypeOK'
  OBVIOUS
<1>1. known' \in (SUBSET Services) \X (SUBSET Services)
  <2>1. known' = known \/ known' = Rows'
    BY DEF EngineNext, engine, Fetch, Continue, Finish, RunEnds, Cancel, Edit, Stop, Change,
           Reads, Keeps
  <2>2. Rows' \in (SUBSET Services) \X (SUBSET Services)
    BY DEF Rows, TypeOK
  <2> QED BY <2>1, <2>2 DEF EngineTypeOK
<1>2. ASSUME NEW u \in Tasks, pass'[u] # Idle PROVE at'[u] = "pass"
  <2> USE DEF TypeOK, Hook!TypeOK, EngineTypeOK, Hook!Callers, Tasks, Hook!Goes
  <2>1. ASSUME NEW t \in Tasks, NEW src \in Sources, Fetch(t, src) PROVE at'[u] = "pass"
    BY <1>2, <2>1 DEF Fetch, NextSource, hook, PassFetch, Hook!PassStarts
  <2>2. ASSUME NEW t \in Tasks, Continue(t) PROVE at'[u] = "pass"
    BY <1>2, <2>2 DEF Continue, NextSource, hook, PassReconcile, PassFail, Hook!SourceDone
  <2>3. ASSUME NEW t \in Tasks, Finish(t) PROVE at'[u] = "pass"
    BY <1>2, <2>3 DEF Finish, PassReconcile, PassFail, Hook!Complete
  <2>4. ASSUME NEW t \in Tasks, RunEnds(t) PROVE at'[u] = "pass"
    BY <1>2, <2>4 DEF RunEnds, vars, Hook!RunEnds
  <2>5. ASSUME NEW t \in ToolTasks, Cancel(t) PROVE at'[u] = "pass"
    BY <1>2, <2>5 DEF Cancel, Hook!Cancel
  <2>6. CASE Edit
    BY <1>2, <2>6 DEF Edit, Operator, CreateService, DeleteService, hook
  <2>7. ASSUME NEW configured \in SUBSET Sources, Stop(configured) PROVE at'[u] = "pass"
    BY <1>2, <2>7 DEF Stop, Restart
  <2>8. ASSUME NEW src \in Sources, NEW x \in Services, Change(src, x) PROVE at'[u] = "pass"
    BY <1>2, <2>8 DEF Change, WorldChanges, hook
  <2>9. CASE UNCHANGED engine
    BY <1>2, <2>9 DEF engine, vars, hook
  <2> QED BY <2>1, <2>2, <2>3, <2>4, <2>5, <2>6, <2>7, <2>8, <2>9 DEF EngineNext
<1> QED BY <1>1, <1>2 DEF EngineTypeOK

(* Types of the whole, and a pass in flight belongs to a job or call that   *)
(* has begun it.                                                            *)
THEOREM EngineTypeCorrect == EngineSpec => []EngineTypeOK
<1>1. EngineInit => known \in (SUBSET Services) \X (SUBSET Services)
  BY DEF EngineInit, Init, Rows
<1>2. EngineInit /\ TypeOK /\ Hook!TypeOK => EngineTypeOK
  BY <1>1 DEF EngineTypeOK, EngineInit, Init, Idle
<1>3. EngineSpec => []TypeOK
  BY ImplementsRegistry, RegistryTypeCorrect, PTL
<1>4. EngineSpec => []Hook!TypeOK
  BY ImplementsHook, HookTypeCorrect, PTL
<1> QED BY <1>2, <1>3, <1>4, KnownAndPass, PTL DEF EngineSpec

-----------------------------------------------------------------------------
(* ServiceMatching                                                          *)

(* What the sources report is merged item by item.  MatchingTypes: whatever *)
(* passes, the operator and the homelab do, no two services get one name.    *)
(* IdenticalPass: a second pass with the same answer records nothing, unless *)
(* two items of it meet in one row or share what they are matched by.        *)

(* A set of natural numbers has a least member.                             *)
LEMMA LeastMember ==
    ASSUME NEW S \in SUBSET Nat, S # {}
    PROVE  \E n \in S : \A m \in S : n <= m
<1>1. PICK n \in S : \A m \in S : ~ (<<m, n>> \in OpToRel(<, Nat))
  BY NatLessThanWellFounded, WFMin
<1>2. \A m \in S : ~ (m < n)
  BY <1>1 DEF OpToRel
<1> QED BY <1>2

(* Induction over the items of a list, for a property given as the set S of *)
(* positions that have it: none of those that lack it is the least.         *)
LEMMA UpTo ==
    ASSUME NEW L \in Nat, NEW S, 0 \in S,
           \A k \in 1..L : k - 1 \in S => k \in S
    PROVE  0..L \subseteq S
<1> DEFINE Bad == 0..L \ S
<1>1. SUFFICES ASSUME Bad # {} PROVE FALSE
  OBVIOUS
<1>2. PICK n \in Bad : \A m \in Bad : n <= m
  <2>1. Bad \subseteq Nat
    OBVIOUS
  <2> HIDE DEF Bad
  <2> QED BY <1>1, <2>1, LeastMember
<1>3. n \in 1..L /\ n - 1 \in 0..L /\ ~ (n <= n - 1)
  OBVIOUS
<1>4. n - 1 \notin Bad
  <2> HIDE DEF Bad
  <2> QED BY <1>2, <1>3
<1> QED BY <1>3, <1>4

(* The table after each item.                                               *)
LEMMA MergedSteps ==
    ASSUME NEW table, NEW items, NEW thoughts, Len(items) \in Nat
    PROVE  /\ Merged(table, items, thoughts)[0] = table
           /\ \A k \in 1..Len(items) :
                 Merged(table, items, thoughts)[k] =
                    MergeOne(Merged(table, items, thoughts)[k - 1], items[k], thoughts[k])
<1> DEFINE L == Len(items)
           step(t, k) == MergeOne(t, items[k], thoughts[k])
           Good(f, n) == f = [k \in 0..n |-> IF k = 0 THEN table ELSE step(f[k - 1], k)]
           S == {n \in 0..L : \E f : Good(f, n)}
<1>1. 0..L \subseteq S
  <2>1. 0 \in S
    <3> DEFINE g == [k \in 0..0 |-> table]
    <3>1. g = [k \in 0..0 |-> IF k = 0 THEN table ELSE step(g[k - 1], k)]
      <4> HIDE DEF step
      <4> QED OBVIOUS
    <3>2. 0 \in 0..L
      OBVIOUS
    <3> HIDE DEF g, step, L
    <3> QED BY <3>1, <3>2
  <2>2. ASSUME NEW n \in 1..L, n - 1 \in S PROVE n \in S
    <3>1. PICK f : Good(f, n - 1)
      BY <2>2
    <3> DEFINE g == [k \in 0..n |-> IF k = n THEN step(f[n - 1], n) ELSE f[k]]
    <3> HIDE DEF step
    <3>2. \A k \in 0..n-1 : g[k] = f[k]
      OBVIOUS
    <3>3. g[n] = step(f[n - 1], n)
      OBVIOUS
    <3>4. \A k \in 0..n : g[k] = IF k = 0 THEN table ELSE step(g[k - 1], k)
      <4>1. \A k \in 0..n-1 : f[k] = IF k = 0 THEN table ELSE step(f[k - 1], k)
        BY <3>1
      <4>2. TAKE k \in 0..n
      <4>3. CASE k = n
        BY <4>3, <3>2, <3>3
      <4>4. CASE k # n
        <5>1. k \in 0..n-1 /\ (k # 0 => k - 1 \in 0..n-1)
          BY <4>4
        <5> HIDE DEF g
        <5> QED BY <5>1, <3>2, <4>1
      <4> QED BY <4>3, <4>4
    <3>5. Good(g, n)
      <4>1. g = [k \in 0..n |-> g[k]]
        OBVIOUS
      <4> HIDE DEF g
      <4> QED BY <4>1, <3>4
    <3> HIDE DEF g, Good
    <3> QED BY <3>5
  <2> HIDE DEF S, L
  <2> QED BY <2>1, <2>2, UpTo DEF L
<1>2. PICK f : Good(f, L)
  BY <1>1
<1>3. Good(Merged(table, items, thoughts), L)
  <2>1. Merged(table, items, thoughts) = CHOOSE g : Good(g, L)
    BY DEF Merged
  <2> HIDE DEF Good
  <2> QED BY <2>1, <1>2
<1> HIDE DEF step
<1> DEFINE after == Merged(table, items, thoughts)
<1>4. \A k \in 0..L : after[k] = IF k = 0 THEN table ELSE step(after[k - 1], k)
  <2> HIDE DEF after
  <2>1. after = [k \in 0..L |-> IF k = 0 THEN table ELSE step(after[k - 1], k)]
    BY <1>3 DEF after
  <2> QED BY <2>1
<1>5. 0 \in 0..L /\ \A k \in 1..L : k \in 0..L /\ k # 0
  OBVIOUS
<1> HIDE DEF after, L
<1>6. after[0] = table /\ \A k \in 1..L : after[k] = step(after[k - 1], k)
  BY <1>4, <1>5
<1> QED BY <1>6 DEF after, L, step

(* What is left of a list is a list of the same.                            *)
LEMMA ThoseType ==
    ASSUME NEW X, NEW listed \in Seq(X), NEW S
    PROVE  Those(listed, S) \in Seq(X)
<1> DEFINE L == Len(listed)
           step(t, k) == IF listed[k] \in S THEN Append(t, listed[k]) ELSE t
           Good(f, n) == f = [k \in 0..n |-> IF k = 0 THEN <<>> ELSE step(f[k - 1], k)]
           T == {n \in 0..L : \E f : Good(f, n) /\ f[n] \in Seq(X)}
<1>1. L \in Nat /\ \A k \in 1..L : \A t \in Seq(X) : step(t, k) \in Seq(X)
  OBVIOUS
<1>2. 0..L \subseteq T
  <2>1. 0 \in T
    <3> DEFINE g == [k \in 0..0 |-> <<>>]
    <3>1. g[0] = <<>>
      OBVIOUS
    <3>2. g = [k \in 0..0 |-> IF k = 0 THEN <<>> ELSE step(g[k - 1], k)]
      <4> HIDE DEF step
      <4> QED OBVIOUS
    <3>3. 0 \in 0..L /\ <<>> \in Seq(X)
      BY <1>1
    <3> HIDE DEF g, step, L
    <3> QED BY <3>1, <3>2, <3>3
  <2>2. ASSUME NEW n \in 1..L, n - 1 \in T PROVE n \in T
    <3> HIDE DEF step, L
    <3>1. PICK f : Good(f, n - 1) /\ f[n - 1] \in Seq(X)
      BY <2>2
    <3>5. n \in Nat /\ n # 0 /\ n - 1 \in Nat /\ n \in 0..L
      BY <1>1
    <3> DEFINE g == [k \in 0..n |-> IF k = n THEN step(f[n - 1], n) ELSE f[k]]
    <3>2. \A k \in 0..n-1 : g[k] = f[k]
      BY <3>5
    <3>3. g[n] = step(f[n - 1], n)
      BY <3>5
    <3>4. \A k \in 0..n : g[k] = IF k = 0 THEN <<>> ELSE step(g[k - 1], k)
      <4>1. \A k \in 0..n-1 : f[k] = IF k = 0 THEN <<>> ELSE step(f[k - 1], k)
        BY <3>1
      <4>2. TAKE k \in 0..n
      <4>3. CASE k = n
        BY <4>3, <3>2, <3>3, <3>5
      <4>4. CASE k # n
        <5>1. k \in 0..n-1 /\ (k # 0 => k - 1 \in 0..n-1)
          BY <4>4, <3>5
        <5> HIDE DEF g
        <5> QED BY <5>1, <3>2, <4>1
      <4> QED BY <4>3, <4>4
    <3>6. g = [k \in 0..n |-> g[k]]
      OBVIOUS
    <3> HIDE DEF g
    <3>7. Good(g, n)
      BY <3>4, <3>6
    <3>8. g[n] \in Seq(X)
      BY <3>1, <3>3, <1>1
    <3> HIDE DEF Good
    <3> QED BY <3>5, <3>7, <3>8
  <2> HIDE DEF T, L
  <2> QED BY <1>1, <2>1, <2>2, UpTo
<1>3. PICK f : Good(f, L) /\ f[L] \in Seq(X)
  <2> HIDE DEF Good, L
  <2> QED BY <1>1, <1>2
<1> DEFINE kept == CHOOSE g : Good(g, L)
<1>4. Those(listed, S) = kept[L]
  BY DEF Those
<1>5. Good(kept, L)
  <2> HIDE DEF Good
  <2> QED BY <1>3
<1>6. kept[L] \in Seq(X)
  <2> HIDE DEF step, kept, L
  <2> DEFINE V == {n \in 0..L : kept[n] \in Seq(X)}
  <2>1. \A k \in 0..L : kept[k] = IF k = 0 THEN <<>> ELSE step(kept[k - 1], k)
    BY <1>5
  <2>2. 0 \in V
    <3>1. 0 \in 0..L /\ <<>> \in Seq(X)
      BY <1>1
    <3> QED BY <2>1, <3>1
  <2>3. ASSUME NEW n \in 1..L, n - 1 \in V PROVE n \in V
    <3>1. n \in 0..L /\ n # 0
      BY <1>1
    <3>2. kept[n] = step(kept[n - 1], n)
      BY <2>1, <3>1
    <3> QED BY <2>3, <3>1, <3>2, <1>1
  <2> HIDE DEF V
  <2>4. 0..L \subseteq V
    BY <1>1, <2>2, <2>3, UpTo
  <2> QED BY <1>1, <2>4 DEF V
<1> QED BY <1>4, <1>6

(* First: the least position, or 0.                                         *)
LEMMA FirstIsFirst ==
    ASSUME NEW hits \in SUBSET Nat
    PROVE  /\ hits = {} => First(hits) = 0
           /\ hits # {} => First(hits) \in hits /\ \A j \in hits : First(hits) <= j
BY LeastMember DEF First

(* The first row of a name, of a router, of a host, if there is one.        *)
LEMMA FirstFound ==
    ASSUME NEW n \in Nat, NEW hits \in SUBSET (1..n)
    PROVE  /\ First(hits) \in 0..n
           /\ First(hits) = 0 <=> hits = {}
           /\ First(hits) # 0 => First(hits) \in hits /\ \A j \in hits : First(hits) <= j
<1>1. hits \in SUBSET Nat /\ 0 \notin hits
  OBVIOUS
<1>2. CASE hits = {}
  BY <1>1, <1>2, FirstIsFirst
<1>3. CASE hits # {}
  <2>1. First(hits) \in hits /\ \A j \in hits : First(hits) <= j
    BY <1>1, <1>3, FirstIsFirst
  <2>2. First(hits) \in 1..n
    BY <2>1
  <2>3. First(hits) \in 0..n /\ First(hits) # 0
    BY <2>2
  <2> QED BY <1>3, <2>1, <2>3
<1> QED BY <1>2, <1>3

(* A pass changes rows and adds rows; it never gives a second row a name    *)
(* that is taken: an item without a match has no namesake.                  *)
NamesApart(table) == \A i, j \in DOMAIN table : table[i].name = table[j].name => i = j

(* Where an item goes; if nowhere, no row has its name.                     *)
LEMMA TargetRange ==
    ASSUME NEW table \in Seq(ServiceRows), NEW item, NEW thought
    PROVE  /\ Match(table, item) \in 0..Len(table)
           /\ Target(table, item, thought) \in 0..Len(table)
           /\ Target(table, item, thought) = 0 =>
                 /\ Match(table, item) = 0
                 /\ \A i \in DOMAIN table : table[i].name # item.name
<1>1. Len(table) \in Nat /\ DOMAIN table = 1..Len(table)
  OBVIOUS
<1>2. \A name : /\ ByName(table, name) \in 0..Len(table)
                /\ ByName(table, name) = 0 => \A i \in DOMAIN table : table[i].name # name
  <2> TAKE name
  <2> DEFINE hits == {i \in DOMAIN table : table[i].name = name}
  <2>1. hits \in SUBSET (1..Len(table)) /\ ByName(table, name) = First(hits)
    BY <1>1 DEF ByName
  <2>2. First(hits) \in 0..Len(table) /\ (First(hits) = 0 <=> hits = {})
    <3> HIDE DEF hits
    <3> QED BY <1>1, <2>1, FirstFound
  <2>3. hits = {} => \A i \in DOMAIN table : table[i].name # name
    OBVIOUS
  <2> HIDE DEF hits
  <2> QED BY <2>1, <2>2, <2>3
<1>3. \A router : ByRouter(table, router) \in 0..Len(table)
  <2> TAKE router
  <2> DEFINE hits == {i \in DOMAIN table : table[i].router = router}
  <2>1. hits \in SUBSET (1..Len(table)) /\ ByRouter(table, router) \in {0, First(hits)}
    BY <1>1 DEF ByRouter
  <2> HIDE DEF hits
  <2>2. First(hits) \in 0..Len(table) /\ 0 \in 0..Len(table)
    BY <1>1, <2>1, FirstFound
  <2> QED BY <2>1, <2>2
<1>4. \A hosts : ByHost(table, hosts) \in 0..Len(table)
  <2> TAKE hosts
  <2> DEFINE hits == {i \in DOMAIN table : table[i].hosts \cap hosts # {}}
  <2>1. hits \in SUBSET (1..Len(table)) /\ ByHost(table, hosts) = First(hits)
    BY <1>1 DEF ByHost
  <2> HIDE DEF hits
  <2> QED BY <1>1, <2>1, FirstFound
<1>5. Match(table, item) \in 0..Len(table)
  BY <1>2, <1>3, <1>4 DEF Match
<1>6. Match(table, item) = 0 => \A i \in DOMAIN table : table[i].name # item.name
  BY <1>2 DEF Match
<1>7. Target(table, item, thought) \in {Match(table, item), ByName(table, thought.name)}
  BY DEF Target
<1>8. Target(table, item, thought) = 0 => Match(table, item) = 0
  BY DEF Target
<1> QED BY <1>2, <1>5, <1>6, <1>7, <1>8

(* A changed row, and a new one, are rows, and names stay.                  *)
LEMMA EnrichedType ==
    ASSUME NEW row \in ServiceRows, NEW item \in Items
    PROVE  Enriched(row, item) \in ServiceRows /\ Enriched(row, item).name = row.name
<1> DEFINE seen == SeenBy(row, item)
<1>1. Reports(item) => item.auth \in Modes
  BY DEF Reports, Items
<1>2. /\ seen["traefik"] \in Modes \cup {None} /\ seen["authentik"] \in Modes \cup {None}
  BY <1>1 DEF SeenBy, ServiceRows
<1>3. Slug(row, item) \in ToSetOf(Apps) \cup {None}
  BY DEF Slug, ServiceRows, Items
<1>4. row.hosts \cup item.hosts \in SUBSET Hosts
  BY DEF ServiceRows, Items
<1> DEFINE demotes == /\ item.source = "traefik" /\ item.auth = "none"
                      /\ row.authentik \in Proxied
           router == IF item.router # None THEN item.router ELSE row.router
           auth == IF Reports(item) /\ ~ demotes THEN item.auth ELSE row.auth
           new == [row EXCEPT !.router = router, !.slug = Slug(row, item),
                              !.hosts = row.hosts \cup item.hosts, !.auth = auth,
                              !.traefik = seen["traefik"], !.authentik = seen["authentik"]]
<1>5. router \in ToSetOf(Routers) \cup {None}
  BY DEF ServiceRows, Items
<1>6. auth \in Modes
  BY <1>1 DEF ServiceRows
<1>7. Enriched(row, item) = [new EXCEPT !.conflict = Conflict(row, new)]
  BY DEF Enriched
<1> HIDE DEF seen, router, auth
<1>8. new \in ServiceRows /\ new.name = row.name
  BY <1>2, <1>3, <1>4, <1>5, <1>6 DEF ServiceRows
<1> HIDE DEF new
<1>9. Conflict(row, new) \in BOOLEAN
  BY <1>8 DEF Conflict, ServiceRows
<1> QED BY <1>7, <1>8, <1>9 DEF ServiceRows

(* A new row has the name of its item.                                      *)
LEMMA NewRowType ==
    ASSUME NEW item \in Items, NEW guess \in Guesses \cup {None}
    PROVE  NewRow(item, guess) \in ServiceRows /\ NewRow(item, guess).name = item.name
<1> DEFINE auth == IF guess # None THEN guess
                   ELSE IF item.auth # None THEN item.auth ELSE "unknown"
           traefik == IF item.source = "traefik" /\ Reports(item) THEN item.auth ELSE None
           authentik == IF item.source = "authentik" /\ Reports(item) THEN item.auth ELSE None
<1>1. auth \in Modes /\ traefik \in Modes \cup {None} /\ authentik \in Modes \cup {None}
  BY DEF Items, Modes
<1>2. NewRow(item, guess) =
         [name |-> item.name, router |-> item.router, slug |-> item.slug, pinned |-> FALSE,
          hosts |-> item.hosts, auth |-> auth, traefik |-> traefik,
          authentik |-> authentik, conflict |-> FALSE]
  BY DEF NewRow
<1> HIDE DEF auth, traefik, authentik
<1> QED BY <1>1, <1>2 DEF ServiceRows, Items

(* One item keeps the table well-typed and its names apart.                 *)
LEMMA MergeOneType ==
    ASSUME NEW table \in Seq(ServiceRows), NamesApart(table),
           NEW item \in Items, NEW thought \in Thoughts
    PROVE  MergeOne(table, item, thought) \in Seq(ServiceRows)
           /\ NamesApart(MergeOne(table, item, thought))
<1> DEFINE i == Target(table, item, thought)
           new == MergeOne(table, item, thought)
<1>1. Len(table) \in Nat /\ DOMAIN table = 1..Len(table)
  OBVIOUS
<1>2. i \in 0..Len(table) /\ (i = 0 => \A j \in DOMAIN table : table[j].name # item.name)
  BY TargetRange
<1>3. CASE i = 0
  <2> DEFINE row == NewRow(item, thought.guess)
  <2>1. row \in ServiceRows /\ row.name = item.name
    BY NewRowType DEF Thoughts
  <2>2. new = Append(table, row)
    BY <1>3 DEF MergeOne
  <2> HIDE DEF row, new
  <2>3. /\ new \in Seq(ServiceRows) /\ DOMAIN new = 1..Len(table) + 1
        /\ new[Len(table) + 1] = row /\ \A j \in 1..Len(table) : new[j] = table[j]
    BY <1>1, <2>1, <2>2
  <2>4. \A j \in DOMAIN new : j \in DOMAIN table \/ j = Len(table) + 1
    BY <1>1, <2>3
  <2>5. NamesApart(new)
    <3> HIDE DEF i
    <3> QED BY <1>1, <1>2, <1>3, <2>1, <2>3, <2>4 DEF NamesApart
  <2> QED BY <2>3, <2>5 DEF new
<1>4. CASE i # 0
  <2> DEFINE row == Enriched(table[i], item)
  <2>1. i \in DOMAIN table /\ table[i] \in ServiceRows
    BY <1>1, <1>2, <1>4
  <2>2. row \in ServiceRows /\ row.name = table[i].name
    BY <2>1, EnrichedType
  <2>3. new = [table EXCEPT ![i] = row]
    BY <1>4 DEF MergeOne
  <2> HIDE DEF row, new, i
  <2>4. /\ new \in Seq(ServiceRows) /\ DOMAIN new = DOMAIN table
        /\ \A j \in DOMAIN table : new[j] = IF j = i THEN row ELSE table[j]
    BY <1>1, <2>1, <2>2, <2>3
  <2>5. \A j \in DOMAIN new : new[j].name = table[j].name
    BY <2>2, <2>4
  <2> QED BY <2>4, <2>5 DEF NamesApart, new
<1> QED BY <1>3, <1>4

(* So does each item of an answer.                                          *)
LEMMA MergedType ==
    ASSUME NEW table \in Seq(ServiceRows), NamesApart(table),
           NEW items \in Seq(Items), NEW thoughts \in [DOMAIN items -> Thoughts]
    PROVE  \A k \in 0..Len(items) :
              /\ Merged(table, items, thoughts)[k] \in Seq(ServiceRows)
              /\ NamesApart(Merged(table, items, thoughts)[k])
<1> DEFINE after == Merged(table, items, thoughts)
           L == Len(items)
           S == {k \in 0..L : after[k] \in Seq(ServiceRows) /\ NamesApart(after[k])}
<1>1. L \in Nat /\ DOMAIN items = 1..L
  OBVIOUS
<1>2. after[0] = table /\ \A k \in 1..L : after[k] = MergeOne(after[k - 1], items[k], thoughts[k])
  BY <1>1, MergedSteps
<1> HIDE DEF after, L
<1>3. 0 \in S
  BY <1>1, <1>2
<1>4. ASSUME NEW k \in 1..L, k - 1 \in S PROVE k \in S
  <2>1. k \in 0..L /\ items[k] \in Items /\ thoughts[k] \in Thoughts
    BY <1>1
  <2>2. after[k] \in Seq(ServiceRows) /\ NamesApart(after[k])
    BY <1>2, <1>4, <2>1, MergeOneType
  <2> QED BY <2>1, <2>2
<1> HIDE DEF S
<1>5. 0..L \subseteq S
  BY <1>1, <1>3, <1>4, UpTo
<1> QED BY <1>5 DEF S, after, L

-----------------------------------------------------------------------------
(* What the sources answer is well-typed.                                   *)

(* One item for each of those listed.                                       *)
LEMMA ItemsType ==
    ASSUME NEW X, NEW listed \in Seq(X), NEW item(_), \A x \in X : item(x) \in Items
    PROVE  [i \in DOMAIN listed |-> item(listed[i])] \in Seq(Items)
OBVIOUS

(* Names and hosts of all that can be reported.                             *)
LEMMA AnswersKnown ==
    /\ \A r \in ToSetOf(Routers) : NameOf[r] \in Names /\ HostsOf[r] \in SUBSET Hosts
    /\ \A a \in ToSetOf(Apps) : a \in Names /\ HostsOf[a] \in SUBSET Hosts
    /\ \A c \in ToSetOf(Containers) : c \in Names /\ HostsOf[c] \in SUBSET Hosts
BY ListAssumption DEF Names, Hosts

(* Each answer of a source is a list of items.                              *)
LEMMA AnswersType ==
    ASSUME NEW t \in Passes
    PROVE  \A items \in AnswersOf(SourceOf[t]) : items \in Seq(Items)
<1>1. ASSUME NEW sidecars PROVE RouterItems(sidecars) \in Seq(Items)
  <2> DEFINE there == Those(Routers, {r \in ToSetOf(Routers) : chain[r] # "gone"})
             item(r) == Item("traefik", NameOf[r], r, None, HostsOf[r], RouterMode(r, sidecars))
  <2>1. there \in Seq(ToSetOf(Routers))
    BY ThoseType, ListAssumption
  <2>2. \A r \in ToSetOf(Routers) : item(r) \in Items
    BY AnswersKnown DEF Item, Items, RouterMode, SourceKinds, Modes, None
  <2>3. RouterItems(sidecars) = [i \in DOMAIN there |-> item(there[i])]
    BY DEF RouterItems
  <2> HIDE DEF there, item
  <2> QED BY <2>1, <2>2, <2>3
<1>2. AppItems \in Seq(Items)
  <2> DEFINE there == Those(Apps, {a \in ToSetOf(Apps) : provider[a] # "gone"})
             item(a) == Item("authentik", a, None, a, HostsOf[a], AppMode(a))
  <2>1. there \in Seq(ToSetOf(Apps))
    BY ThoseType, ListAssumption
  <2>2. \A a \in ToSetOf(Apps) : item(a) \in Items
    BY AnswersKnown DEF Item, Items, AppMode, SourceKinds, Modes, None
  <2>3. AppItems = [i \in DOMAIN there |-> item(there[i])]
    BY DEF AppItems
  <2> HIDE DEF there, item
  <2> QED BY <2>1, <2>2, <2>3
<1>3. ContainerItems \in Seq(Items)
  <2> DEFINE there == Those(Containers, running)
             item(c) == Item("docker", c, None, None, HostsOf[c], None)
  <2>1. there \in Seq(ToSetOf(Containers))
    BY ThoseType, ListAssumption
  <2>2. \A c \in ToSetOf(Containers) : item(c) \in Items
    BY AnswersKnown DEF Item, Items, SourceKinds, Modes, None
  <2>3. ContainerItems = [i \in DOMAIN there |-> item(there[i])]
    BY DEF ContainerItems
  <2> HIDE DEF there, item
  <2> QED BY <2>1, <2>2, <2>3
<1> QED BY <1>1, <1>2, <1>3 DEF AnswersOf

(* Removing a row keeps the others, in their order.                         *)
LEMMA RemovedType ==
    ASSUME NEW table \in Seq(ServiceRows), NamesApart(table), NEW i \in DOMAIN table
    PROVE  RemoveAt(table, i) \in Seq(ServiceRows) /\ NamesApart(RemoveAt(table, i))
<1> DEFINE L == Len(table)
           new == RemoveAt(table, i)
           head == SubSeq(table, 1, i - 1)
           rest == SubSeq(table, i + 1, L)
<1>1. L \in Nat /\ i \in 1..L /\ DOMAIN table = 1..L
  OBVIOUS
<1>2. new = head \o rest
  BY DEF RemoveAt
<1>3. /\ head \in Seq(ServiceRows) /\ Len(head) = i - 1
      /\ \A j \in 1..i-1 : head[j] = table[j]
  BY <1>1
<1>4. /\ rest \in Seq(ServiceRows) /\ Len(rest) = L - i
      /\ \A j \in 1..L-i : rest[j] = table[j + i]
  BY <1>1
<1> HIDE DEF L, new, head, rest
<1>5. /\ new \in Seq(ServiceRows) /\ DOMAIN new = 1..L-1
      /\ \A j \in 1..i-1 : new[j] = table[j]
      /\ \A j \in i..L-1 : new[j] = table[j + 1]
  <2>1. new \in Seq(ServiceRows) /\ Len(new) = L - 1
    <3>1. new \in Seq(ServiceRows) /\ Len(new) = Len(head) + Len(rest)
      BY <1>2, <1>3, <1>4, ConcatProperties
    <3> QED BY <1>1, <1>3, <1>4, <3>1
  <2>2. \A j \in 1..i-1 : new[j] = head[j]
    BY <1>1, <1>2, <1>3, <1>4
  <2>3. ASSUME NEW j \in i..L-1 PROVE new[j] = table[j + 1]
    <3>1. j - (i - 1) \in 1..L-i /\ j \in 1..L-1 /\ (j - (i - 1)) + i = j + 1
      BY <1>1
    <3>2. j \in 1..Len(head) + Len(rest) /\ ~ (j <= Len(head)) /\ j - Len(head) = j - (i - 1)
      BY <1>1, <1>3, <1>4, <3>1
    <3>3. new[j] = rest[j - Len(head)]
      BY <1>2, <1>3, <1>4, <3>2, ConcatProperties
    <3> QED BY <1>4, <3>1, <3>2, <3>3
  <2> QED BY <1>3, <2>1, <2>2, <2>3
<1> DEFINE was(j) == IF j < i THEN j ELSE j + 1
<1>6. \A j \in 1..L-1 : was(j) \in 1..L /\ new[j] = table[was(j)]
  BY <1>1, <1>5
<1>7. \A j, k \in 1..L-1 : was(j) = was(k) => j = k
  BY <1>1
<1> HIDE DEF was
<1>8. NamesApart(new)
  BY <1>1, <1>5, <1>6, <1>7 DEF NamesApart
<1> QED BY <1>5, <1>8 DEF new

(* Setting a row of the same name keeps the names apart.                    *)
LEMMA SetRowType ==
    ASSUME NEW table \in Seq(ServiceRows), NamesApart(table), NEW i \in DOMAIN table,
           NEW row \in ServiceRows, row.name = table[i].name
    PROVE  [table EXCEPT ![i] = row] \in Seq(ServiceRows) /\ NamesApart([table EXCEPT ![i] = row])
<1> DEFINE new == [table EXCEPT ![i] = row]
<1>1. new \in Seq(ServiceRows) /\ DOMAIN new = DOMAIN table
      /\ \A j \in DOMAIN table : new[j] = IF j = i THEN row ELSE table[j]
  OBVIOUS
<1> HIDE DEF new
<1>2. \A j \in DOMAIN new : new[j].name = table[j].name
  BY <1>1
<1> QED BY <1>1, <1>2 DEF NamesApart, new

-----------------------------------------------------------------------------
(* Rows stay well-typed, what a pass has in hand fits what it is about to    *)
(* do with it, and no two services have one name (reconcile.py,              *)
(* match_service: the name is what a service is known by), although passes   *)
(* merge old answers and old thoughts into rows that were changed or         *)
(* deleted meanwhile.                                                        *)
THEOREM MatchingTypes == MatchingSpec => []MatchingTypeOK
<1>1. MatchingInit => MatchingTypeOK
  <2> SUFFICES ASSUME MatchingInit PROVE MatchingTypeOK
    OBVIOUS
  <2>1. rows \in Seq(ServiceRows) /\ NamesApart(rows)
    BY DEF MatchingInit, NamesApart
  <2>2. DOMAIN hand = Passes /\ \A t \in Passes : Held(hand[t])
    BY DEF MatchingInit, Held
  <2> QED BY <2>1, <2>2, BoundAssumption DEF MatchingInit, MatchingTypeOK, NamesApart
<1>2. MatchingTypeOK /\ [MatchingNext]_matching => MatchingTypeOK'
  <2> SUFFICES ASSUME MatchingTypeOK, [MatchingNext]_matching PROVE MatchingTypeOK'
    OBVIOUS
  <2>1. rows \in Seq(ServiceRows) /\ NamesApart(rows)
    BY DEF MatchingTypeOK, NamesApart
  <2>2. DOMAIN hand = Passes /\ \A t \in Passes : Held(hand[t])
    BY DEF MatchingTypeOK
  <2>3. ASSUME UNCHANGED <<world, changes>>, rows' \in Seq(ServiceRows) /\ NamesApart(rows'),
               NEW t \in Passes, NEW p, Hold(t, p), Held(p)
        PROVE  MatchingTypeOK'
    <3>1. DOMAIN hand' = Passes /\ \A u \in Passes : Held(hand'[u])
      BY <2>2, <2>3 DEF Hold
    <3>2. (\A i, j \in DOMAIN rows : rows[i].name = rows[j].name => i = j)'
      BY <2>3 DEF NamesApart
    <3> QED BY <2>3, <3>1, <3>2 DEF MatchingTypeOK, world, Held
  <2>4. ASSUME UNCHANGED <<world, hand>>, rows' \in Seq(ServiceRows) /\ NamesApart(rows'),
               changes' \in 0..MaxChanges
        PROVE  MatchingTypeOK'
    <3>1. (\A i, j \in DOMAIN rows : rows[i].name = rows[j].name => i = j)'
      BY <2>4 DEF NamesApart
    <3> QED BY <2>2, <2>4, <3>1 DEF MatchingTypeOK, world, Held
  <2>5. Changing => changes' \in 0..MaxChanges
    BY BoundAssumption DEF Changing, MatchingTypeOK
  <2>6. ASSUME NEW t \in Passes, Ask(t) PROVE MatchingTypeOK'
    <3>1. PICK items \in AnswersOf(SourceOf[t]) : Hold(t, [phase |-> "asked", items |-> items])
      BY <2>6 DEF Ask
    <3>2. Held([phase |-> "asked", items |-> items])
      BY <3>1, AnswersType DEF Held
    <3> QED BY <2>1, <2>3, <2>6, <3>1, <3>2 DEF Ask
  <2>7. ASSUME NEW t \in Passes, Reason(t) PROVE MatchingTypeOK'
    <3> DEFINE items == hand[t].items
    <3>1. items \in Seq(Items)
      BY <2>2, <2>7 DEF Reason, Held, EmptyHanded
    <3>2. \A item \in Items : ThoughtsOn(item) \subseteq Thoughts
      <4>1. \A s \in ToSetOf(rows) : s.name \in Names
        <5>1. \A i \in DOMAIN rows : rows[i] \in ServiceRows
          BY <2>1
        <5> QED BY <5>1 DEF ToSetOf, ServiceRows
      <4>2. NoThought \in Thoughts
        BY DEF NoThought, Thoughts
      <4>3. \A s \in ToSetOf(rows) : [name |-> s.name, guess |-> None] \in Thoughts
        BY <4>1 DEF Thoughts
      <4>4. \A g \in Guesses : [name |-> None, guess |-> g] \in Thoughts
        BY DEF Thoughts
      <4> QED BY <4>2, <4>3, <4>4 DEF ThoughtsOn
    <3> HIDE DEF items
    <3>3. PICK thoughts \in [DOMAIN items -> UNION {ThoughtsOn(items[i]) : i \in DOMAIN items}] :
             /\ \A i \in DOMAIN items : thoughts[i] \in ThoughtsOn(items[i])
             /\ Hold(t, [phase |-> "reasoned", items |-> items, thoughts |-> thoughts])
      BY <2>7 DEF Reason, items
    <3>4. \A i \in DOMAIN items : thoughts[i] \in Thoughts
      BY <3>1, <3>2, <3>3
    <3>5. thoughts \in [DOMAIN items -> Thoughts]
      BY <3>3, <3>4
    <3>6. Held([phase |-> "reasoned", items |-> items, thoughts |-> thoughts])
      BY <3>1, <3>5 DEF Held
    <3> QED BY <2>1, <2>3, <2>7, <3>3, <3>6 DEF Reason
  <2>8. ASSUME NEW t \in Passes, Apply(t) PROVE MatchingTypeOK'
    <3>1. hand[t].items \in Seq(Items) /\ hand[t].thoughts \in [DOMAIN hand[t].items -> Thoughts]
      BY <2>2, <2>8 DEF Apply, Held, EmptyHanded
    <3>2. Len(hand[t].items) \in 0..Len(hand[t].items)
      BY <3>1
    <3>3. rows' \in Seq(ServiceRows) /\ NamesApart(rows')
      BY <2>1, <2>8, <3>1, <3>2, MergedType DEF Apply, Merge
    <3>4. Held(EmptyHanded)
      BY DEF Held
    <3> QED BY <2>3, <2>8, <3>3, <3>4 DEF Apply
  <2>9. ASSUME NEW t \in Passes, Fail(t) PROVE MatchingTypeOK'
    BY <2>1, <2>3, <2>9 DEF Fail, Held
  <2>10. ASSUME NEW i \in DOMAIN rows, NEW a \in ToSetOf(Apps) \cup {None}, LinkAuthentik(i, a)
         PROVE  MatchingTypeOK'
    <3> DEFINE row == [rows[i] EXCEPT !.slug = a, !.pinned = TRUE]
    <3>1. rows[i] \in ServiceRows
      BY <2>1
    <3>2. row \in ServiceRows /\ row.name = rows[i].name
      BY <3>1 DEF ServiceRows
    <3>3. rows' = [rows EXCEPT ![i] = row]
      BY <2>10 DEF LinkAuthentik, SetRow
    <3> HIDE DEF row
    <3>4. rows' \in Seq(ServiceRows) /\ NamesApart(rows')
      BY <2>1, <3>2, <3>3, SetRowType
    <3> QED BY <2>4, <2>5, <2>10, <3>4 DEF LinkAuthentik
  <2>11. ASSUME NEW i \in DOMAIN rows, NEW r, NEW h, UpdateService(i, r, h),
                r \in {None, rows[i].router}, h \in {{}, rows[i].hosts}
         PROVE  MatchingTypeOK'
    <3> DEFINE row == [rows[i] EXCEPT !.router = r, !.hosts = h]
    <3>1. rows[i] \in ServiceRows
      BY <2>1
    <3>2. row \in ServiceRows /\ row.name = rows[i].name
      BY <2>11, <3>1 DEF ServiceRows
    <3>3. rows' = [rows EXCEPT ![i] = row]
      BY <2>11 DEF UpdateService, SetRow
    <3> HIDE DEF row
    <3>4. rows' \in Seq(ServiceRows) /\ NamesApart(rows')
      BY <2>1, <3>2, <3>3, SetRowType
    <3> QED BY <2>4, <2>5, <2>11, <3>4 DEF UpdateService
  <2>12. ASSUME NEW i \in DOMAIN rows, DeleteRow(i) PROVE MatchingTypeOK'
    <3>1. rows' \in Seq(ServiceRows) /\ NamesApart(rows')
      BY <2>1, <2>12, RemovedType DEF DeleteRow
    <3> QED BY <2>4, <2>5, <2>12, <3>1 DEF DeleteRow
  <2>13. CASE HomelabChanges
    <3>1. /\ chain' \in [ToSetOf(Routers) -> {"gone", "bare", "basic", "forward"}]
          /\ provider' \in [ToSetOf(Apps) -> {"gone", "none", "proxy", "oauth2"}]
          /\ running' \subseteq ToSetOf(Containers) /\ outposts' \subseteq Names
      BY <2>13, AnswersKnown DEF HomelabChanges, MatchingTypeOK
    <3>2. changes' \in 0..MaxChanges /\ UNCHANGED <<rows, hand>>
      BY <2>5, <2>13 DEF HomelabChanges
    <3> QED BY <2>2, <3>1, <3>2 DEF MatchingTypeOK, Held
  <2>14. CASE UNCHANGED matching
    BY <2>14 DEF MatchingTypeOK, matching, world, Held
  <2>15. CASE \E t \in Passes : Ask(t) \/ Reason(t) \/ Apply(t) \/ Fail(t)
    BY <2>6, <2>7, <2>8, <2>9, <2>15
  <2>16. CASE \E i \in DOMAIN rows :
                 \/ \E a \in ToSetOf(Apps) \cup {None} : LinkAuthentik(i, a)
                 \/ UpdateService(i, None, rows[i].hosts) \/ UpdateService(i, rows[i].router, {})
                 \/ DeleteRow(i)
    BY <2>10, <2>11, <2>12, <2>16
  <2> QED BY <2>13, <2>14, <2>15, <2>16 DEF MatchingNext
<1> QED BY <1>1, <1>2, PTL DEF MatchingSpec

-----------------------------------------------------------------------------
(* What one item does to the table: it changes the row a, or adds it.        *)
MergedInto(table, new, a, item, guess) ==
    /\ new \in Seq(ServiceRows) /\ NamesApart(new)
    /\ a # 0 /\ a \in DOMAIN new /\ DOMAIN new = DOMAIN table \cup {a}
    /\ \A b \in DOMAIN table : b # a => new[b] = table[b]
    /\ a \in DOMAIN table => new[a] = Enriched(table[a], item)
    /\ a \notin DOMAIN table => new[a] = NewRow(item, guess)

(* The row is the one found, if one is.                                     *)
LEMMA MergedRow ==
    ASSUME NEW table \in Seq(ServiceRows), NamesApart(table),
           NEW item \in Items, NEW thought \in Thoughts
    PROVE  LET a == RowFor(table, item, thought)
           IN  /\ MergedInto(table, MergeOne(table, item, thought), a, item, thought.guess)
               /\ a \in DOMAIN table => a = Target(table, item, thought)
<1> DEFINE i == Target(table, item, thought)
           a == RowFor(table, item, thought)
           new == MergeOne(table, item, thought)
           L == Len(table)
<1>1. L \in Nat /\ DOMAIN table = 1..L /\ i \in 0..L
  BY TargetRange
<1>2. new \in Seq(ServiceRows) /\ NamesApart(new)
  BY MergeOneType
<1>3. CASE i = 0
  <2> DEFINE row == NewRow(item, thought.guess)
  <2>1. a = L + 1 /\ new = Append(table, row)
    BY <1>3 DEF RowFor, MergeOne
  <2>2. row \in ServiceRows
    BY NewRowType DEF Thoughts
  <2> HIDE DEF i, a, new, row, L, MergedInto
  <2>3. DOMAIN new = 1..L + 1 /\ new[L + 1] = row /\ \A b \in 1..L : new[b] = table[b]
    BY <1>1, <2>1, <2>2 DEF L
  <2> QED BY <1>1, <1>2, <1>3, <2>1, <2>3 DEF i, a, new, row, L, MergedInto
<1>4. CASE i # 0
  <2> DEFINE row == Enriched(table[i], item)
  <2>1. a = i /\ new = [table EXCEPT ![i] = row]
    BY <1>4 DEF RowFor, MergeOne
  <2>2. i \in 1..L
    BY <1>1, <1>4
  <2> HIDE DEF i, a, new, row, L, MergedInto
  <2>3. DOMAIN new = DOMAIN table /\ new[i] = row
        /\ \A b \in DOMAIN table : b # i => new[b] = table[b]
    BY <1>1, <2>1, <2>2
  <2>4. a \in DOMAIN table /\ a \in 1..L + 1
    BY <1>1, <2>1, <2>2
  <2> QED BY <1>1, <1>2, <1>4, <2>1, <2>3, <2>4 DEF i, a, new, row, L, MergedInto
<1> QED BY <1>3, <1>4

(* A router without a middleware does not demote what Authentik enforces.   *)
KeepsMode(row, item) ==
    item.source = "traefik" /\ item.auth = "none" /\ row.authentik \in Proxied

(* The fields of a row after a report.                                      *)
LEMMA EnrichedFields ==
    ASSUME NEW x \in ServiceRows, NEW item \in Items
    PROVE  LET e == Enriched(x, item)
           IN  /\ e.name = x.name /\ e.pinned = x.pinned
               /\ e.router = IF item.router # None THEN item.router ELSE x.router
               /\ e.slug = IF item.slug # None /\ ~ x.pinned THEN item.slug ELSE x.slug
               /\ e.hosts = x.hosts \cup item.hosts
               /\ e.auth = IF Reports(item) /\ ~ KeepsMode(x, item) THEN item.auth ELSE x.auth
               /\ e.traefik = IF item.source = "traefik" /\ Reports(item)
                              THEN item.auth ELSE x.traefik
               /\ e.authentik = IF item.source = "authentik" /\ Reports(item)
                                THEN item.auth ELSE x.authentik
               /\ e.conflict = IF LinkedBothWays(e)
                               THEN e.traefik = "none" /\ e.authentik \in Proxied
                               ELSE x.conflict
<1> DEFINE router == IF item.router # None THEN item.router ELSE x.router
           auth == IF Reports(item) /\ ~ KeepsMode(x, item) THEN item.auth ELSE x.auth
           traefik == SeenBy(x, item)["traefik"]
           authentik == SeenBy(x, item)["authentik"]
           new == [x EXCEPT !.router = router, !.slug = Slug(x, item),
                            !.hosts = x.hosts \cup item.hosts, !.auth = auth,
                            !.traefik = traefik, !.authentik = authentik]
           e == Enriched(x, item)
<1>1. /\ traefik = IF item.source = "traefik" /\ Reports(item) THEN item.auth ELSE x.traefik
      /\ authentik = IF item.source = "authentik" /\ Reports(item)
                     THEN item.auth ELSE x.authentik
  BY DEF SeenBy, ServiceRows
<1>2. Slug(x, item) = IF item.slug # None /\ ~ x.pinned THEN item.slug ELSE x.slug
  BY DEF Slug
<1>3. e = [new EXCEPT !.conflict = Conflict(x, new)]
  BY DEF Enriched, KeepsMode
<1> HIDE DEF router, auth, traefik, authentik
<1>4. /\ new.name = x.name /\ new.pinned = x.pinned /\ new.router = router
      /\ new.slug = Slug(x, item) /\ new.hosts = x.hosts \cup item.hosts /\ new.auth = auth
      /\ new.traefik = traefik /\ new.authentik = authentik
      /\ DOMAIN new = DOMAIN x /\ "conflict" \in DOMAIN x
  BY DEF ServiceRows
<1>5. /\ e.name = new.name /\ e.pinned = new.pinned /\ e.router = new.router
      /\ e.slug = new.slug /\ e.hosts = new.hosts /\ e.auth = new.auth
      /\ e.traefik = new.traefik /\ e.authentik = new.authentik
      /\ e.conflict = Conflict(x, new)
  <2> HIDE DEF new, e
  <2>1. DOMAIN new = {"name", "router", "slug", "pinned", "hosts", "auth", "traefik",
                      "authentik", "conflict"}
    BY <1>4 DEF ServiceRows
  <2> QED BY <1>3, <2>1
<1> HIDE DEF new, e
<1>6. e.conflict = IF LinkedBothWays(e)
                   THEN e.traefik = "none" /\ e.authentik \in Proxied ELSE x.conflict
  BY <1>5 DEF Conflict, LinkedBothWays
<1> QED BY <1>1, <1>2, <1>4, <1>5, <1>6 DEF e, router, auth

(* A report made twice records no more than made once.                      *)
LEMMA EnrichedTwice ==
    ASSUME NEW row \in ServiceRows, NEW item \in Items
    PROVE  Enriched(Enriched(row, item), item) = Enriched(row, item)
<1> DEFINE r == Enriched(row, item)
           rr == Enriched(r, item)
<1>1. r \in ServiceRows /\ rr \in ServiceRows
  BY EnrichedType
<1> HIDE DEF r, rr
<1>3. /\ rr.name = r.name /\ rr.pinned = r.pinned /\ rr.router = r.router /\ rr.slug = r.slug
      /\ rr.hosts = r.hosts /\ rr.traefik = r.traefik /\ rr.authentik = r.authentik
  <2>1. /\ r.name = row.name /\ r.pinned = row.pinned
        /\ rr.name = r.name /\ rr.pinned = r.pinned
    BY <1>1, EnrichedFields DEF r, rr
  <2>2. /\ r.router = IF item.router # None THEN item.router ELSE row.router
        /\ rr.router = IF item.router # None THEN item.router ELSE r.router
    BY <1>1, EnrichedFields DEF r, rr
  <2>3. /\ r.slug = IF item.slug # None /\ ~ row.pinned THEN item.slug ELSE row.slug
        /\ rr.slug = IF item.slug # None /\ ~ r.pinned THEN item.slug ELSE r.slug
    BY <1>1, EnrichedFields DEF r, rr
  <2>4. r.hosts = row.hosts \cup item.hosts /\ rr.hosts = r.hosts \cup item.hosts
    BY <1>1, EnrichedFields DEF r, rr
  <2>5. /\ r.traefik = IF item.source = "traefik" /\ Reports(item)
                       THEN item.auth ELSE row.traefik
        /\ rr.traefik = IF item.source = "traefik" /\ Reports(item)
                        THEN item.auth ELSE r.traefik
    BY <1>1, EnrichedFields DEF r, rr
  <2>6. /\ r.authentik = IF item.source = "authentik" /\ Reports(item)
                         THEN item.auth ELSE row.authentik
        /\ rr.authentik = IF item.source = "authentik" /\ Reports(item)
                          THEN item.auth ELSE r.authentik
    BY <1>1, EnrichedFields DEF r, rr
  <2> QED BY <2>1, <2>2, <2>3, <2>4, <2>5, <2>6
<1>4. rr.auth = r.auth
  <2>1. KeepsMode(row, item) => r.authentik = row.authentik
    BY EnrichedFields DEF r, KeepsMode
  <2>2. Reports(item) /\ ~ KeepsMode(row, item) => r.auth = item.auth
    BY EnrichedFields DEF r
  <2>3. rr.auth = IF Reports(item) /\ ~ KeepsMode(r, item) THEN item.auth ELSE r.auth
    BY <1>1, EnrichedFields DEF rr
  <2> QED BY <2>1, <2>2, <2>3 DEF KeepsMode
<1>5. rr.conflict = r.conflict
  <2>1. LinkedBothWays(rr) <=> LinkedBothWays(r)
    BY <1>3 DEF LinkedBothWays
  <2> QED BY <1>1, EnrichedFields, <1>3, <2>1 DEF r, rr
<1> QED BY <1>1, <1>3, <1>4, <1>5 DEF ServiceRows, r, rr

(* A new row is what the report that made it says -- the mode aside, if the  *)
(* reasoner guessed one.                                                     *)
LEMMA NewRowTwice ==
    ASSUME NEW item \in Items
    PROVE  Enriched(NewRow(item, None), item) = NewRow(item, None)
<1> DEFINE r == NewRow(item, None)
           rr == Enriched(r, item)
<1>1. r \in ServiceRows /\ rr \in ServiceRows
  BY NewRowType, EnrichedType
<1>2. /\ r.name = item.name /\ r.router = item.router /\ r.slug = item.slug
      /\ r.pinned = FALSE /\ r.hosts = item.hosts /\ r.conflict = FALSE
      /\ r.auth = IF item.auth # None THEN item.auth ELSE "unknown"
      /\ r.traefik = IF item.source = "traefik" /\ Reports(item) THEN item.auth ELSE None
      /\ r.authentik = IF item.source = "authentik" /\ Reports(item) THEN item.auth ELSE None
  BY DEF NewRow
<1> HIDE DEF r, rr
<1>3. /\ rr.name = r.name /\ rr.pinned = r.pinned /\ rr.router = r.router /\ rr.slug = r.slug
      /\ rr.hosts = r.hosts /\ rr.traefik = r.traefik /\ rr.authentik = r.authentik
  <2>1. rr.name = r.name /\ rr.pinned = r.pinned /\ rr.hosts = r.hosts \cup item.hosts
    BY <1>1, EnrichedFields DEF rr
  <2>6. r.hosts \cup item.hosts = r.hosts
    BY <1>2
  <2>2. rr.router = r.router
    BY <1>1, <1>2, EnrichedFields DEF rr
  <2>3. rr.slug = r.slug
    BY <1>1, <1>2, EnrichedFields DEF rr
  <2>4. rr.traefik = r.traefik
    BY <1>1, <1>2, EnrichedFields DEF rr
  <2>5. rr.authentik = r.authentik
    BY <1>1, <1>2, EnrichedFields DEF rr
  <2> QED BY <2>1, <2>2, <2>3, <2>4, <2>5, <2>6
<1>4. rr.auth = r.auth
  BY <1>1, <1>2, EnrichedFields DEF rr, Reports
<1>5. ~ LinkedBothWays(rr)
  BY <1>2, <1>3 DEF LinkedBothWays
<1>6. rr.conflict = r.conflict
  BY <1>1, <1>5, EnrichedFields DEF rr
<1> QED BY <1>1, <1>3, <1>4, <1>6 DEF ServiceRows, r, rr

-----------------------------------------------------------------------------
(* What an item left in a table, old, is still there in a later one, new:    *)
(* its row a as it was, and no other row that it would be matched to.        *)
Kept(old, new, a, item) ==
    /\ new \in Seq(ServiceRows) /\ NamesApart(new)
    /\ DOMAIN old \subseteq DOMAIN new /\ new[a] = old[a]
    /\ \A b \in DOMAIN old :
          /\ new[b].name = old[b].name
          /\ item.router # None /\ new[b].router = item.router => old[b].router = item.router
          /\ old[b].hosts \cap item.hosts = {} => new[b].hosts \cap item.hosts = {}
    /\ \A b \in DOMAIN new \ DOMAIN old : new[b].name # item.name

(* Items about other things leave it so.                                    *)
LEMMA StaysKept ==
    ASSUME NEW old \in Seq(ServiceRows), NEW table, NEW a \in DOMAIN old, NEW item \in Items,
           Kept(old, table, a, item),
           NEW other \in Items, NEW thought \in Thoughts,
           other.name # item.name, item.router # None => item.router # other.router,
           item.hosts \cap other.hosts = {}, RowFor(table, other, thought) # a
    PROVE  Kept(old, MergeOne(table, other, thought), a, item)
<1> DEFINE new == MergeOne(table, other, thought)
           c == RowFor(table, other, thought)
<1>1. table \in Seq(ServiceRows) /\ NamesApart(table)
  BY DEF Kept
<1>2. DOMAIN old \subseteq DOMAIN table
  BY DEF Kept
<1>3. MergedInto(table, new, c, other, thought.guess)
  BY <1>1, MergedRow
<1>4. \A b \in DOMAIN table : table[b] \in ServiceRows
  BY <1>1
<1> HIDE DEF new, c
<1>5. c \in DOMAIN table =>
         /\ new[c].name = table[c].name
         /\ item.router # None /\ new[c].router = item.router => table[c].router = item.router
         /\ table[c].hosts \cap item.hosts = {} => new[c].hosts \cap item.hosts = {}
  <2> SUFFICES ASSUME c \in DOMAIN table
               PROVE  /\ new[c].name = table[c].name
                      /\ item.router # None /\ new[c].router = item.router =>
                            table[c].router = item.router
                      /\ table[c].hosts \cap item.hosts = {} => new[c].hosts \cap item.hosts = {}
    OBVIOUS
  <2> DEFINE was == table[c]
             is == new[c]
  <2>1. was \in ServiceRows /\ is = Enriched(was, other)
    BY <1>3, <1>4 DEF MergedInto
  <2> HIDE DEF was, is
  <2>2. /\ is.name = was.name /\ is.hosts = was.hosts \cup other.hosts
        /\ is.router = IF other.router # None THEN other.router ELSE was.router
    BY <2>1, EnrichedFields
  <2>3. item.router # None /\ is.router = item.router => was.router = item.router
    BY <2>2
  <2>4. was.hosts \cap item.hosts = {} => is.hosts \cap item.hosts = {}
    BY <2>2
  <2> QED BY <2>2, <2>3, <2>4 DEF was, is
<1>6. c \notin DOMAIN table => new[c].name # item.name
  BY <1>3, NewRowType DEF MergedInto, Thoughts
<1>7. new[a] = old[a] /\ DOMAIN old \subseteq DOMAIN new
  BY <1>2, <1>3 DEF Kept, MergedInto, c
<1>8. ASSUME NEW b \in DOMAIN old
      PROVE  /\ new[b].name = old[b].name
             /\ item.router # None /\ new[b].router = item.router => old[b].router = item.router
             /\ old[b].hosts \cap item.hosts = {} => new[b].hosts \cap item.hosts = {}
  <2>1. /\ table[b].name = old[b].name
        /\ item.router # None /\ table[b].router = item.router => old[b].router = item.router
        /\ old[b].hosts \cap item.hosts = {} => table[b].hosts \cap item.hosts = {}
    BY DEF Kept
  <2>2. b \in DOMAIN table
    BY <1>2
  <2>3. CASE b = c
    BY <1>5, <2>1, <2>2, <2>3
  <2>4. CASE b # c
    BY <1>3, <2>1, <2>2, <2>4 DEF MergedInto
  <2> QED BY <2>3, <2>4
<1>9. ASSUME NEW b \in DOMAIN new \ DOMAIN old PROVE new[b].name # item.name
  <2>1. CASE b \in DOMAIN table
    <3>1. table[b].name # item.name
      BY <1>9, <2>1 DEF Kept
    <3>2. new[b].name = table[b].name
      BY <1>3, <1>5, <2>1 DEF MergedInto
    <3> QED BY <3>1, <3>2
  <2>2. CASE b \notin DOMAIN table
    BY <1>3, <1>6, <1>9, <2>2 DEF MergedInto
  <2> QED BY <2>1, <2>2
<1> QED BY <1>3, <1>7, <1>8, <1>9 DEF Kept, MergedInto, new

(* A least member is the one.                                               *)
LEMMA FirstIs ==
    ASSUME NEW n \in Nat, NEW hits \in SUBSET (1..n), NEW a \in hits, \A b \in hits : a <= b
    PROVE  First(hits) = a
<1>1. First(hits) \in hits /\ First(hits) <= a
  BY FirstFound
<1>2. a <= First(hits)
  BY <1>1
<1>3. First(hits) \in 1..n /\ a \in 1..n
  BY <1>1
<1> QED BY <1>1, <1>2, <1>3

(* Names are apart: a row of the name is the row of the name.               *)
LEMMA NameFound ==
    ASSUME NEW table \in Seq(ServiceRows), NamesApart(table), NEW name
    PROVE  /\ \A a \in DOMAIN table : table[a].name = name => ByName(table, name) = a
           /\ ByName(table, name) # 0 =>
                 ByName(table, name) \in DOMAIN table /\ table[ByName(table, name)].name = name
           /\ (\A a \in DOMAIN table : table[a].name # name) => ByName(table, name) = 0
<1> DEFINE hits == {i \in DOMAIN table : table[i].name = name}
<1>1. Len(table) \in Nat /\ hits \in SUBSET (1..Len(table)) /\ ByName(table, name) = First(hits)
  BY DEF ByName
<1>2. First(hits) # 0 => First(hits) \in hits
  <2> HIDE DEF hits
  <2> QED BY <1>1, FirstFound
<1>3. hits = {} => First(hits) = 0
  <2> HIDE DEF hits
  <2> QED BY <1>1, FirstFound
<1>4. ASSUME NEW a \in DOMAIN table, table[a].name = name PROVE First(hits) = a
  <2>1. a \in hits /\ \A b \in hits : b = a
    BY <1>4 DEF NamesApart
  <2>2. a \in Nat
    BY <1>1, <2>1
  <2> HIDE DEF hits
  <2>3. \A b \in hits : a <= b
    BY <2>1, <2>2
  <2> QED BY <1>1, <2>1, <2>3, FirstIs
<1> QED BY <1>1, <1>2, <1>3, <1>4

(* The first row of a router.                                               *)
LEMMA RouterFound ==
    ASSUME NEW table \in Seq(ServiceRows), NEW router, router # None
    PROVE  /\ \A b \in DOMAIN table : table[b].router = router =>
                 ByRouter(table, router) # 0 /\ ByRouter(table, router) <= b
           /\ \A a \in DOMAIN table :
                 /\ table[a].router = router
                 /\ \A b \in DOMAIN table : b < a => table[b].router # router
                 => ByRouter(table, router) = a
<1> DEFINE hits == {i \in DOMAIN table : table[i].router = router}
<1>1. Len(table) \in Nat /\ hits \in SUBSET (1..Len(table)) /\ ByRouter(table, router) = First(hits)
  BY DEF ByRouter
<1>2. \A b \in hits : First(hits) # 0 /\ First(hits) <= b
  <2> HIDE DEF hits
  <2> QED BY <1>1, FirstFound
<1>3. ASSUME NEW a \in DOMAIN table, table[a].router = router,
             \A b \in DOMAIN table : b < a => table[b].router # router
      PROVE  First(hits) = a
  <2>1. a \in hits /\ \A b \in hits : b \in Nat /\ ~ (b < a)
    BY <1>1, <1>3
  <2> HIDE DEF hits
  <2>2. \A b \in hits : a <= b
    BY <2>1
  <2> QED BY <1>1, <2>1, <2>2, FirstIs
<1> QED BY <1>1, <1>2, <1>3

(* The first row of a host.                                                 *)
LEMMA HostFound ==
    ASSUME NEW table \in Seq(ServiceRows), NEW hosts
    PROVE  /\ hosts = {} => ByHost(table, hosts) = 0
           /\ \A b \in DOMAIN table : table[b].hosts \cap hosts # {} =>
                 ByHost(table, hosts) # 0 /\ ByHost(table, hosts) <= b
           /\ \A a \in DOMAIN table :
                 /\ table[a].hosts \cap hosts # {}
                 /\ \A b \in DOMAIN table : b < a => table[b].hosts \cap hosts = {}
                 => ByHost(table, hosts) = a
<1> DEFINE hits == {i \in DOMAIN table : table[i].hosts \cap hosts # {}}
<1>1. Len(table) \in Nat /\ hits \in SUBSET (1..Len(table)) /\ ByHost(table, hosts) = First(hits)
  BY DEF ByHost
<1>2. \A b \in hits : First(hits) # 0 /\ First(hits) <= b
  <2> HIDE DEF hits
  <2> QED BY <1>1, FirstFound
<1>3. ASSUME NEW a \in DOMAIN table, table[a].hosts \cap hosts # {},
             \A b \in DOMAIN table : b < a => table[b].hosts \cap hosts = {}
      PROVE  First(hits) = a
  <2>1. a \in hits /\ \A b \in hits : b \in Nat /\ ~ (b < a)
    BY <1>1, <1>3
  <2> HIDE DEF hits
  <2>2. \A b \in hits : a <= b
    BY <2>1
  <2> QED BY <1>1, <2>1, <2>2, FirstIs
<1>4. ASSUME hosts = {} PROVE First(hits) = 0
  <2>1. hits = {}
    BY <1>4
  <2> HIDE DEF hits
  <2> QED BY <1>1, <2>1, FirstFound
<1> QED BY <1>1, <1>2, <1>3, <1>4

(* Merged again into any later table that keeps what it left, an item finds  *)
(* its own row, and changes nothing.                                         *)
LEMMA Again ==
    ASSUME NEW table \in Seq(ServiceRows), NamesApart(table),
           NEW item \in Items, NEW thought \in Thoughts, thought.guess = None, NEW later,
           Kept(MergeOne(table, item, thought), later, RowFor(table, item, thought), item)
    PROVE  MergeOne(later, item, thought) = later
<1> DEFINE old == MergeOne(table, item, thought)
           a == RowFor(table, item, thought)
<1>1. /\ old \in Seq(ServiceRows) /\ NamesApart(old) /\ a \in DOMAIN old
      /\ DOMAIN old = DOMAIN table \cup {a}
      /\ \A b \in DOMAIN table : b # a => old[b] = table[b]
      /\ a \in DOMAIN table => a = Target(table, item, thought) /\ a # 0
                               /\ old[a] = Enriched(table[a], item)
      /\ a \notin DOMAIN table => old[a] = NewRow(item, None)
  <2>1. /\ MergedInto(table, old, a, item, thought.guess)
        /\ a \in DOMAIN table => a = Target(table, item, thought)
    BY MergedRow
  <2> HIDE DEF old, a
  <2> QED BY <2>1 DEF MergedInto
<1>2. later \in Seq(ServiceRows) /\ NamesApart(later) /\ DOMAIN old \subseteq DOMAIN later
  BY DEF Kept
<1>3. \A b \in DOMAIN old : later[b] \in ServiceRows /\ old[b] \in ServiceRows
  BY <1>1, <1>2
<1>4. \A b \in DOMAIN table : table[b] \in ServiceRows
  OBVIOUS
<1>5. \A b \in DOMAIN later : b < a => b \in DOMAIN old
  <2>1. DOMAIN later = 1..Len(later) /\ DOMAIN old = 1..Len(old) /\ Len(old) \in Nat
    BY <1>1, <1>2
  <2> HIDE DEF old, a
  <2> QED BY <1>1, <2>1
<1>6. later[a] = old[a] /\ Enriched(later[a], item) = later[a]
  <2>1. later[a] = old[a]
    BY DEF Kept
  <2>2. CASE a \in DOMAIN table
    BY <1>1, <1>4, <2>1, <2>2, EnrichedTwice
  <2>3. CASE a \notin DOMAIN table
    BY <1>1, <2>1, <2>3, NewRowTwice
  <2> QED BY <2>1, <2>2, <2>3
<1> HIDE DEF old, a
<1>7. Target(later, item, thought) = a
  <2>1. a \in DOMAIN later /\ a # 0
    <3>1. a \in 1..Len(later)
      BY <1>1, <1>2
    <3> QED BY <1>2, <3>1
  <2>2. CASE old[a].name = item.name
    <3>1. ByName(later, item.name) = a
      BY <1>2, <1>6, <2>1, <2>2, NameFound
    <3> QED BY <2>1, <3>1 DEF Target, Match
  <2>3. CASE old[a].name # item.name
    <3>1. a \in DOMAIN table
      <4> SUFFICES ASSUME a \notin DOMAIN table PROVE FALSE
        OBVIOUS
      <4>1. old[a].name = item.name
        BY <1>1 DEF NewRow
      <4> QED BY <2>3, <4>1
    <3>2. table[a].name = old[a].name
      BY <1>1, <1>4, <3>1, EnrichedFields
    <3>3. ByName(table, item.name) = 0
      <4> SUFFICES ASSUME ByName(table, item.name) # 0 PROVE FALSE
        OBVIOUS
      <4>1. a = ByName(table, item.name)
        BY <1>1, <3>1 DEF Target, Match
      <4> QED BY <2>3, <3>2, <4>1, NameFound
    <3>4. \A b \in DOMAIN later : later[b].name # item.name
      <4>1. \A b \in DOMAIN table : table[b].name # item.name
        <5> TAKE b \in DOMAIN table
        <5> SUFFICES ASSUME table[b].name = item.name PROVE FALSE
          OBVIOUS
        <5>1. b = 0
          BY <3>3, NameFound
        <5>2. b \in 1..Len(table)
          OBVIOUS
        <5> QED BY <5>1, <5>2
      <4>2. \A b \in DOMAIN old : old[b].name # item.name
        BY <1>1, <2>3, <4>1
      <4> QED BY <4>2 DEF Kept, old, a
    <3>5. ByName(later, item.name) = 0
      BY <1>2, <3>4, NameFound
    <3>6. old[a].hosts = table[a].hosts \cup item.hosts
          /\ (item.router # None => old[a].router = item.router)
      BY <1>1, <1>4, <3>1, EnrichedFields
    <3>7. CASE item.router # None
      <4>1. a = IF ByRouter(table, item.router) # 0 THEN ByRouter(table, item.router)
                ELSE Target(table, item, thought)
        BY <1>1, <3>1, <3>3 DEF Target, Match
      <4>2. ASSUME NEW b \in DOMAIN later, b < a, later[b].router = item.router PROVE FALSE
        <5>1. b \in DOMAIN old /\ b # a /\ a \in Int /\ b \in Int
          <6>1. a \in 1..Len(later) /\ b \in 1..Len(later) /\ Len(later) \in Nat
            BY <1>2, <2>1
          <6> QED BY <1>5, <4>2, <6>1
        <5>2. old[b].router = item.router
          BY <3>7, <4>2, <5>1 DEF Kept, old, a
        <5>3. b \in DOMAIN table /\ table[b].router = item.router
          BY <1>1, <5>1, <5>2
        <5>4. ByRouter(table, item.router) # 0 /\ ByRouter(table, item.router) <= b
          BY <3>7, <5>3, RouterFound
        <5> QED BY <4>1, <4>2, <5>1, <5>4
      <4>3. ByRouter(later, item.router) = a
        BY <1>2, <1>6, <2>1, <3>6, <3>7, <4>2, RouterFound
      <4> QED BY <2>1, <3>5, <4>3 DEF Target, Match
    <3>8. CASE item.router = None
      <4>1. ByRouter(later, item.router) = 0 /\ ByRouter(table, item.router) = 0
        BY <3>8 DEF ByRouter
      <4>2. Match(later, item) = ByHost(later, item.hosts)
            /\ Match(table, item) = ByHost(table, item.hosts)
        BY <3>3, <3>5, <4>1 DEF Match
      <4>3. CASE item.hosts # {}
        <5>1. ASSUME NEW b \in DOMAIN later, b < a, later[b].hosts \cap item.hosts # {} PROVE FALSE
          <6>1. b \in DOMAIN old /\ b # a /\ a \in Int /\ b \in Int
            <7>1. a \in 1..Len(later) /\ b \in 1..Len(later) /\ Len(later) \in Nat
              BY <1>2, <2>1
            <7> QED BY <1>5, <5>1, <7>1
          <6>2. old[b].hosts \cap item.hosts # {}
            BY <5>1, <6>1 DEF Kept, old, a
          <6>3. b \in DOMAIN table /\ table[b].hosts \cap item.hosts # {}
            BY <1>1, <6>1, <6>2
          <6>4. ByHost(table, item.hosts) # 0 /\ ByHost(table, item.hosts) <= b
            BY <6>3, HostFound
          <6>5. a = ByHost(table, item.hosts)
            BY <1>1, <3>1, <4>2, <6>4 DEF Target
          <6> QED BY <5>1, <6>1, <6>4, <6>5
        <5>2. later[a].hosts \cap item.hosts # {}
          BY <1>6, <3>6, <4>3
        <5>3. ByHost(later, item.hosts) = a
          BY <1>2, <2>1, <5>1, <5>2, HostFound
        <5> QED BY <2>1, <4>2, <5>3 DEF Target
      <4>4. CASE item.hosts = {}
        <5>1. Match(later, item) = 0 /\ Match(table, item) = 0
          BY <1>2, <4>2, <4>4, HostFound
        <5>2. thought.name # None /\ a = ByName(table, thought.name)
          BY <1>1, <3>1, <5>1 DEF Target
        <5>3. later[a].name = thought.name
          BY <1>1, <1>6, <3>1, <3>2, <5>2, NameFound
        <5>4. ByName(later, thought.name) = a
          BY <1>2, <2>1, <5>3, NameFound
        <5> QED BY <5>1, <5>2, <5>4 DEF Target
      <4> QED BY <4>3, <4>4
    <3> QED BY <3>7, <3>8
  <2> QED BY <2>2, <2>3
<1>8. a # 0 /\ a \in DOMAIN later
  <2>1. a \in 1..Len(later)
    BY <1>1, <1>2
  <2> QED BY <1>2, <2>1
<1>9. MergeOne(later, item, thought) = [later EXCEPT ![a] = Enriched(later[a], item)]
  BY <1>7, <1>8 DEF MergeOne
<1> QED BY <1>2, <1>6, <1>8, <1>9

(* A pass that keeps its items apart changes nothing when it is repeated.    *)
LEMMA ApartTwice ==
    ASSUME NEW table \in Seq(ServiceRows), NamesApart(table),
           NEW items \in Seq(Items), NEW thoughts \in [DOMAIN items -> Thoughts],
           \A k \in DOMAIN items : thoughts[k].guess = None, Apart(table, items, thoughts)
    PROVE  Recorded(Merge(table, items, thoughts), items, thoughts) = {}
<1> DEFINE after == Merged(table, items, thoughts)
           L == Len(items)
           row(k) == RowFor(after[k - 1], items[k], thoughts[k])
           last == after[L]
           again == Merged(last, items, thoughts)
<1>1. L \in Nat /\ DOMAIN items = 1..L
      /\ \A k \in 1..L : items[k] \in Items /\ thoughts[k] \in Thoughts /\ thoughts[k].guess = None
  OBVIOUS
<1>2. after[0] = table /\ \A k \in 1..L : after[k] = MergeOne(after[k - 1], items[k], thoughts[k])
  BY <1>1, MergedSteps
<1>3. again[0] = last /\ \A k \in 1..L : again[k] = MergeOne(again[k - 1], items[k], thoughts[k])
  BY <1>1, MergedSteps
<1>4. \A k \in 0..L : after[k] \in Seq(ServiceRows) /\ NamesApart(after[k])
  BY MergedType
<1>5. \A j, k \in 1..L : j # k =>
         /\ items[j].name # items[k].name
         /\ items[j].router # None => items[j].router # items[k].router
         /\ items[j].hosts \cap items[k].hosts = {}
         /\ row(j) # row(k)
  BY <1>1 DEF Apart
<1> HIDE DEF after, again, L
<1>6. ASSUME NEW j \in 1..L PROVE Kept(after[j], last, row(j), items[j])
  <2> DEFINE S == {k \in 0..L : k >= j => Kept(after[j], after[k], row(j), items[j])}
  <2>1. 0 \in S
    BY <1>1
  <2>2. after[j] \in Seq(ServiceRows) /\ NamesApart(after[j]) /\ row(j) \in DOMAIN after[j]
    <3>1. j - 1 \in 0..L /\ j \in 0..L
      BY <1>1
    <3>2. after[j - 1] \in Seq(ServiceRows) /\ NamesApart(after[j - 1])
      BY <1>4, <3>1
    <3>3. row(j) \in DOMAIN MergeOne(after[j - 1], items[j], thoughts[j])
      BY <1>1, <3>2, MergedRow DEF MergedInto
    <3> QED BY <1>2, <1>4, <3>1, <3>3
  <2>3. ASSUME NEW k \in 1..L, k - 1 \in S PROVE k \in S
    <3>1. k \in 0..L /\ k - 1 \in 0..L /\ k \in Int /\ j \in Int
      BY <1>1
    <3>2. CASE k < j
      BY <3>1, <3>2
    <3>3. CASE k = j
      BY <2>2, <3>1, <3>3 DEF Kept
    <3>4. CASE k > j
      <4>1. Kept(after[j], after[k - 1], row(j), items[j])
        BY <2>3, <3>1, <3>4
      <4>2. /\ items[k].name # items[j].name
            /\ items[j].router # None => items[j].router # items[k].router
            /\ items[j].hosts \cap items[k].hosts = {}
            /\ RowFor(after[k - 1], items[k], thoughts[k]) # row(j)
        BY <1>5, <3>1, <3>4
      <4> HIDE DEF row
      <4>3. Kept(after[j], MergeOne(after[k - 1], items[k], thoughts[k]), row(j), items[j])
        BY <1>1, <2>2, <4>1, <4>2, StaysKept
      <4> QED BY <1>2, <3>1, <4>3
    <3> QED BY <3>1, <3>2, <3>3, <3>4
  <2> HIDE DEF S
  <2>4. 0..L \subseteq S
    BY <1>1, <2>1, <2>3, UpTo
  <2>5. L \in S /\ L >= j
    BY <1>1, <2>4
  <2> QED BY <2>5 DEF S
<1>7. ASSUME NEW j \in 1..L PROVE MergeOne(last, items[j], thoughts[j]) = last
  <2>1. j - 1 \in 0..L
    BY <1>1
  <2>2. after[j - 1] \in Seq(ServiceRows) /\ NamesApart(after[j - 1])
    BY <1>4, <2>1
  <2>3. Kept(MergeOne(after[j - 1], items[j], thoughts[j]), last,
             RowFor(after[j - 1], items[j], thoughts[j]), items[j])
    BY <1>2, <1>6
  <2> QED BY <1>1, <2>2, <2>3, Again
<1> DEFINE U == {k \in 0..L : again[k] = last}
<1>8. 0..L \subseteq U
  <2> HIDE DEF last
  <2>1. 0 \in U
    BY <1>1, <1>3
  <2>2. ASSUME NEW k \in 1..L, k - 1 \in U PROVE k \in U
    <3>1. k \in 0..L
      BY <1>1
    <3> QED BY <1>3, <1>7, <2>2, <3>1
  <2> HIDE DEF U
  <2> QED BY <1>1, <2>1, <2>2, UpTo
<1>9. \A k \in 1..L : again[k] = again[k - 1]
  <2> TAKE k \in 1..L
  <2>1. k \in 0..L /\ k - 1 \in 0..L
    BY <1>1
  <2> HIDE DEF last
  <2> QED BY <1>8, <2>1
<1>10. Recorded(last, items, thoughts) = {}
  BY <1>1, <1>9 DEF Recorded, again
<1> QED BY <1>10 DEF Merge, after, L

-----------------------------------------------------------------------------
(* A pass whose items are about different things, each merged into a row of   *)
(* its own, changes nothing when it is repeated.                             *)
ApartPassRecordsNothing ==
    [][\A t \in Passes :
          /\ Apply(t) /\ \A i \in DOMAIN hand[t].items : hand[t].thoughts[i].guess = None
          /\ Apart(rows, hand[t].items, hand[t].thoughts)
          => Recorded(rows', hand[t].items, hand[t].thoughts) = {}]_matching

(* For whatever table it finds: rows matched by name, router, host, or by    *)
(* the reasoner.                                                             *)
THEOREM ApartPasses == MatchingSpec => ApartPassRecordsNothing
<1>1. MatchingTypeOK =>
         [\A t \in Passes :
            /\ Apply(t) /\ \A i \in DOMAIN hand[t].items : hand[t].thoughts[i].guess = None
            /\ Apart(rows, hand[t].items, hand[t].thoughts)
            => Recorded(rows', hand[t].items, hand[t].thoughts) = {}]_matching
  <2> SUFFICES ASSUME MatchingTypeOK, NEW t \in Passes, Apply(t),
                      \A i \in DOMAIN hand[t].items : hand[t].thoughts[i].guess = None,
                      Apart(rows, hand[t].items, hand[t].thoughts)
               PROVE  Recorded(rows', hand[t].items, hand[t].thoughts) = {}
    OBVIOUS
  <2>1. rows \in Seq(ServiceRows) /\ NamesApart(rows) /\ Held(hand[t])
    BY DEF MatchingTypeOK, NamesApart
  <2>2. hand[t].items \in Seq(Items) /\ hand[t].thoughts \in [DOMAIN hand[t].items -> Thoughts]
    BY <2>1 DEF Apply, Held, EmptyHanded
  <2> QED BY <2>1, <2>2, ApartTwice DEF Apply
<1> QED BY <1>1, MatchingTypes, PTL DEF ApartPassRecordsNothing

(* tests/test_discovery.py:549 holds of a homelab whose answers keep things   *)
(* apart; only two items of one answer that meet -- two routers for one      *)
(* host -- can make an identical pass record changes.                        *)
THEOREM IdenticalPass ==
    /\ MatchingSpec
    /\ [][\A t \in Passes : Apply(t) => Apart(rows, hand[t].items, hand[t].thoughts)]_matching
    => IdenticalPassRecordsNothing
<1>1. /\ [\A t \in Passes :
            /\ Apply(t) /\ \A i \in DOMAIN hand[t].items : hand[t].thoughts[i].guess = None
            /\ Apart(rows, hand[t].items, hand[t].thoughts)
            => Recorded(rows', hand[t].items, hand[t].thoughts) = {}]_matching
      /\ [\A t \in Passes : Apply(t) => Apart(rows, hand[t].items, hand[t].thoughts)]_matching
      => [\A t \in Passes :
            Apply(t) /\ (\A i \in DOMAIN hand[t].items : hand[t].thoughts[i].guess = None)
            => Recorded(rows', hand[t].items, hand[t].thoughts) = {}]_matching
  OBVIOUS
<1> QED BY <1>1, ApartPasses, PTL DEF ApartPassRecordsNothing, IdenticalPassRecordsNothing
=============================================================================
