----------------------- MODULE ConfirmationGate_proof -----------------------
(***************************************************************************)
(* Proofs about ConfirmationGate, for any challenges, services, nodes and  *)
(* TTL: answers are in time, nothing is deleted or written unconfirmed,    *)
(* the inventory has only addresses given for its hosts, a read-only       *)
(* process keeps its hands off, and every challenge implements the         *)
(* abstract one-shot question.                                             *)
(***************************************************************************)
EXTENDS ConfirmationGate, TLAPS

(* Where a challenge stands, by what its tool and Dockhand have done: no    *)
(* effect before the answer, one tool per answer, one effect per tool.      *)
GateInv ==
    \A r \in Requests :
        /\ Granted(r) => status[r] \notin {"absent", "pending"}
        /\ ~ Granted(r) => running[r] = None /\ posts[r] = 0 /\ acted[r] = 0
        /\ running[r] \in SyncKinds =>
              /\ running[r] = kind[r] /\ status[r] = "confirmed"
              /\ posts[r] = 0 /\ acted[r] = 0
        /\ running[r] = "dockhand" => posts[r] = 0 /\ acted[r] = 0
        /\ running[r] = "sent" => posts[r] = 1
        /\ running[r] \in {"dockhand", "sent"} => kind[r] = "dockhand"
        /\ posts[r] \in {0, 1} /\ acted[r] \in {0, 1}

(* Challenges are about things that exist or existed.                       *)
SubjectInv ==
    \A r \in Requests : kind[r] \in Deletions => entity[subject[r]] # "unborn"

IInv ==
    /\ TypeOK /\ GateInv /\ SubjectInv
    /\ AnsweredInTime /\ OnlyAsConfirmed /\ ConfirmedMeansGone /\ OutcomeRecorded

USE DEF gateVars, nodeVars, Kinds, SyncKinds, Deletions, Status, Never, None

LEMMA InitIInv == Init => IInv
BY DEF Init, IInv, TypeOK, GateInv, SubjectInv, AnsweredInTime, OnlyAsConfirmed,
       ConfirmedMeansGone, OutcomeRecorded, Granted, Unlisted

-----------------------------------------------------------------------------
LEMMA NextTypeOK == TypeOK /\ GateInv /\ [Next]_vars => TypeOK'
<1> SUFFICES ASSUME TypeOK, GateInv, [Next]_vars PROVE TypeOK'
  OBVIOUS
<1> USE HostAssumption, GateTimeAssumption DEF TypeOK
<1>1. ASSUME NEW r \in Requests, Ask(r) PROVE TypeOK'
  <2>1. CASE RequestDeletion(r)
    <3> PICK k \in Deletions, e \in Entities : e \in EntitiesOf(k) /\ Open(r, k, e)
      BY <2>1 DEF RequestDeletion, EntitiesOf, Entities
    <3> QED BY <2>1 DEF RequestDeletion, Open, EntitiesOf
  <2>2. CASE RequestSync(r)
    BY <2>2 DEF RequestSync, Open, Entities, EntitiesOf
  <2>3. CASE RequestAction(r)
    BY <2>3 DEF RequestAction, Open
  <2> QED BY <1>1, <2>1, <2>2, <2>3 DEF Ask
<1>2. ASSUME NEW r \in Requests, Confirm(r) PROVE TypeOK'
  BY <1>2 DEF Confirm, ConfirmDeletion, ConfirmSync, ConfirmAction, Consume, Close, Grant
<1>3. ASSUME NEW r \in Requests, Effect(r) PROVE TypeOK'
  <2>1. CASE DeleteEntity(r)
    BY <2>1 DEF DeleteEntity, Done, CountEffect
  <2>2. CASE WriteInventory(r)
    <3>1. subject[r] \in Nodes
      BY <2>2 DEF WriteInventory, GateInv, EntitiesOf
    <3>2. ConnectionAddress(subject[r]) \in Addresses \cup {None}
      BY <3>1 DEF ConnectionAddress
    <3> HIDE DEF ConnectionAddress
    <3> QED BY <2>2, <3>1, <3>2 DEF WriteInventory, Done, CountEffect, Upserted
  <2>3. CASE PostAction(r) \/ ActionApplied(r)
    BY <2>3 DEF PostAction, ActionApplied, CountEffect
  <2>4. CASE ActionReturns(r) \/ ActionCancelled(r)
    BY <2>4 DEF ActionReturns, ActionCancelled, Done, Close
  <2> QED BY <1>3, <2>1, <2>2, <2>3, <2>4 DEF Effect
<1>4. ASSUME NEW s \in Services, AddService(s) PROVE TypeOK'
  BY <1>4 DEF AddService
<1>5. ASSUME NEW n \in Nodes, AddNode(n) PROVE TypeOK'
  <2> PICK ip \in Addresses \cup {None} :
           /\ ip_address' = [ip_address EXCEPT ![n] = ip]
           /\ known' = [known EXCEPT ![HostOf[n]] = @ \cup ({ip} \ {None})]
    BY <1>5 DEF AddNode
  <2>1. known' \in [Hosts -> SUBSET Addresses]
    BY HostAssumption
  <2> QED BY <1>5, <2>1 DEF AddNode, Entities
<1>6. ASSUME NEW n \in Nodes, UpdateNode(n) PROVE TypeOK'
  BY <1>6 DEF UpdateNode
<1>7. CASE DiscoverNow
  <2>1. PICK answering \in SUBSET Hosts :
           \E found \in [answering -> Addresses \cup {None}], new \in [answering -> Nodes] :
              Discovered(answering, found, new)
    BY <1>7 DEF DiscoverNow
  <2>2. PICK found \in [answering -> Addresses \cup {None}], new \in [answering -> Nodes] :
           Discovered(answering, found, new)
    BY <2>1
  <2>3. entity' \in [Entities -> {"unborn", "live", "gone"}]
    BY <2>2 DEF Discovered
  <2>4. ip_address' \in [Nodes -> Addresses \cup {None}]
    BY <2>2 DEF Discovered
  <2>5. known' \in [Hosts -> SUBSET Addresses]
    BY <2>2 DEF Discovered
  <2> QED BY <1>7, <2>3, <2>4, <2>5 DEF DiscoverNow
<1>8. CASE Restart
  BY <1>8 DEF Restart, Purged
<1>9. CASE Tick \/ UNCHANGED vars
  BY <1>9 DEF Tick, vars
<1> QED
  BY <1>1, <1>2, <1>3, <1>4, <1>5, <1>6, <1>7, <1>8, <1>9 DEF Next

(* Registrations, edits, passes and the clock leave every challenge alone.  *)
LEMMA NodesLeaveGate ==
    ASSUME \/ \E s \in Services : AddService(s)
           \/ \E n \in Nodes : AddNode(n) \/ UpdateNode(n)
           \/ DiscoverNow \/ Tick \/ UNCHANGED vars
    PROVE  UNCHANGED <<gateVars, running, cut, posts, acted, inventory>>
BY DEF AddService, AddNode, UpdateNode, DiscoverNow, Tick, vars

LEMMA NextGateInv == TypeOK /\ GateInv /\ [Next]_vars => GateInv'
<1> SUFFICES ASSUME TypeOK, GateInv, [Next]_vars PROVE GateInv'
  OBVIOUS
<1> USE GateTimeAssumption DEF TypeOK, GateInv, Granted
<1>1. ASSUME NEW r \in Requests, Ask(r) PROVE GateInv'
  BY <1>1 DEF Ask, RequestDeletion, RequestSync, RequestAction, Open
<1>2. ASSUME NEW r \in Requests, Confirm(r) PROVE GateInv'
  <2>1. ASSUME NEW tool \in Deletions, ConfirmDeletion(r, tool) PROVE GateInv'
    BY <2>1 DEF ConfirmDeletion, Consume, Close, Grant
  <2>2. CASE ConfirmSync(r)
    BY <2>2 DEF ConfirmSync, Consume, Close, Grant
  <2>3. CASE ConfirmAction(r)
    BY <2>3 DEF ConfirmAction, Close, Grant
  <2> QED BY <1>2, <2>1, <2>2, <2>3 DEF Confirm
<1>3. ASSUME NEW r \in Requests, Effect(r) PROVE GateInv'
  <2>1. CASE DeleteEntity(r)
    BY <2>1 DEF DeleteEntity, Done, CountEffect
  <2>2. CASE WriteInventory(r)
    BY <2>2 DEF WriteInventory, Done, CountEffect
  <2>3. CASE PostAction(r) \/ ActionApplied(r)
    BY <2>3 DEF PostAction, ActionApplied, CountEffect
  <2>4. CASE ActionReturns(r) \/ ActionCancelled(r)
    BY <2>4 DEF ActionReturns, ActionCancelled, Done, Close
  <2> QED BY <1>3, <2>1, <2>2, <2>3, <2>4 DEF Effect
<1>4. CASE Restart
  BY <1>4 DEF Restart, Purged
<1>5. CASE UNCHANGED <<gateVars, running, cut, posts, acted, inventory>>
  BY <1>5
<1> QED
  BY <1>1, <1>2, <1>3, <1>4, <1>5, NodesLeaveGate DEF Next

-----------------------------------------------------------------------------
LEMMA NextAnsweredInTime ==
    TypeOK /\ GateInv /\ AnsweredInTime /\ [Next]_vars => AnsweredInTime'
<1> SUFFICES ASSUME TypeOK, GateInv, AnsweredInTime, [Next]_vars PROVE AnsweredInTime'
  OBVIOUS
<1> USE GateTimeAssumption DEF TypeOK, GateInv, Granted, AnsweredInTime
<1>1. ASSUME NEW r \in Requests, Ask(r) PROVE AnsweredInTime'
  BY <1>1 DEF Ask, RequestDeletion, RequestSync, RequestAction, Open
<1>2. ASSUME NEW r \in Requests, Confirm(r) PROVE AnsweredInTime'
  <2>1. ASSUME NEW tool \in Deletions, ConfirmDeletion(r, tool) PROVE AnsweredInTime'
    BY <2>1 DEF ConfirmDeletion, Consume, Close, Grant, IsPast
  <2>2. CASE ConfirmSync(r)
    BY <2>2 DEF ConfirmSync, Consume, Close, Grant, IsPast
  <2>3. CASE ConfirmAction(r)
    BY <2>3 DEF ConfirmAction, Close, Grant, Claims
  <2> QED BY <1>2, <2>1, <2>2, <2>3 DEF Confirm
<1>3. ASSUME NEW r \in Requests, Effect(r) PROVE AnsweredInTime'
  BY <1>3 DEF Effect, DeleteEntity, WriteInventory, PostAction, ActionApplied,
              ActionReturns, ActionCancelled, Close
<1>4. CASE Restart
  BY <1>4 DEF Restart
<1>5. CASE UNCHANGED <<gateVars, running, cut, posts, acted, inventory>>
  BY <1>5
<1> QED
  BY <1>1, <1>2, <1>3, <1>4, <1>5, NodesLeaveGate DEF Next

(* A confirmed challenge stays confirmed, and about the same thing.         *)
LEMMA ConfirmedStays ==
    ASSUME TypeOK, GateInv, [Next]_vars, NEW q \in Requests, status[q] = "confirmed",
           kind[q] \in SyncKinds
    PROVE  status'[q] = "confirmed" /\ kind'[q] = kind[q] /\ subject'[q] = subject[q]
<1> USE DEF TypeOK, GateInv
<1>1. ASSUME NEW r \in Requests, Ask(r)
      PROVE  status'[q] = "confirmed" /\ kind'[q] = kind[q] /\ subject'[q] = subject[q]
  BY <1>1 DEF Ask, RequestDeletion, RequestSync, RequestAction, Open
<1>2. ASSUME NEW r \in Requests, Confirm(r)
      PROVE  status'[q] = "confirmed" /\ kind'[q] = kind[q] /\ subject'[q] = subject[q]
  BY <1>2 DEF Confirm, ConfirmDeletion, ConfirmSync, ConfirmAction, Consume, Close, Grant
<1>3. ASSUME NEW r \in Requests, Effect(r)
      PROVE  status'[q] = "confirmed" /\ kind'[q] = kind[q] /\ subject'[q] = subject[q]
  BY <1>3 DEF Effect, DeleteEntity, WriteInventory, PostAction, ActionApplied,
              ActionReturns, ActionCancelled, Close
<1>4. CASE Restart
  BY <1>4 DEF Restart, Purged
<1>5. CASE UNCHANGED <<gateVars, running, cut, posts, acted, inventory>>
  BY <1>5
<1> QED
  BY <1>1, <1>2, <1>3, <1>4, <1>5, NodesLeaveGate DEF Next

(* What is newly gone or listed was confirmed by the challenge at work.     *)
LEMMA NewlyGone ==
    ASSUME TypeOK, GateInv, [Next]_vars, NEW e \in Entities,
           entity[e] # "gone", entity'[e] = "gone"
    PROVE  \E r \in Requests : /\ kind[r] \in Deletions /\ subject[r] = e
                               /\ status[r] = "confirmed"
<1> USE DEF TypeOK, GateInv
<1>1. ASSUME NEW r \in Requests, Ask(r) \/ Confirm(r) PROVE FALSE
  BY <1>1 DEF Ask, RequestDeletion, RequestSync, RequestAction,
              Confirm, ConfirmDeletion, ConfirmSync, ConfirmAction
<1>2. ASSUME NEW r \in Requests, DeleteEntity(r)
      PROVE  kind[r] \in Deletions /\ subject[r] = e /\ status[r] = "confirmed"
  BY <1>2 DEF DeleteEntity
<1>3. ASSUME NEW r \in Requests,
             WriteInventory(r) \/ PostAction(r) \/ ActionApplied(r)
                \/ ActionReturns(r) \/ ActionCancelled(r)
      PROVE  FALSE
  BY <1>3 DEF WriteInventory, PostAction, ActionApplied, ActionReturns, ActionCancelled
<1>4. CASE \E s \in Services : AddService(s)
  BY <1>4 DEF AddService, Entities
<1>5. CASE \E n \in Nodes : AddNode(n) \/ UpdateNode(n)
  BY <1>5 DEF AddNode, UpdateNode, Entities
<1>6. CASE DiscoverNow
  <2>1. PICK answering \in SUBSET Hosts :
           \E found \in [answering -> Addresses \cup {None}], new \in [answering -> Nodes] :
              Discovered(answering, found, new)
    BY <1>6 DEF DiscoverNow
  <2>2. PICK found \in [answering -> Addresses \cup {None}], new \in [answering -> Nodes] :
           Discovered(answering, found, new)
    BY <2>1
  <2> QED BY <2>2 DEF Discovered
<1>7. CASE Restart \/ Tick \/ UNCHANGED vars
  BY <1>7 DEF Restart, Tick, vars
<1> QED
  BY <1>1, <1>2, <1>3, <1>4, <1>5, <1>6, <1>7 DEF Next, Effect

LEMMA NewlyListed ==
    ASSUME TypeOK, GateInv, [Next]_vars, NEW h \in Hosts,
           inventory[h] = Unlisted, inventory'[h] # Unlisted
    PROVE  \E r \in Requests : /\ kind[r] = "inventory" /\ status[r] = "confirmed"
                               /\ HostOf[subject[r]] = h
<1> USE DEF TypeOK, GateInv
<1>1. ASSUME NEW r \in Requests, Ask(r) \/ Confirm(r) PROVE FALSE
  BY <1>1 DEF Ask, RequestDeletion, RequestSync, RequestAction,
              Confirm, ConfirmDeletion, ConfirmSync, ConfirmAction
<1>2. ASSUME NEW r \in Requests, WriteInventory(r)
      PROVE  kind[r] = "inventory" /\ status[r] = "confirmed" /\ HostOf[subject[r]] = h
  BY <1>2 DEF WriteInventory
<1>3. ASSUME NEW r \in Requests,
             DeleteEntity(r) \/ PostAction(r) \/ ActionApplied(r)
                \/ ActionReturns(r) \/ ActionCancelled(r)
      PROVE  FALSE
  BY <1>3 DEF DeleteEntity, PostAction, ActionApplied, ActionReturns, ActionCancelled
<1>4. CASE Restart
  BY <1>4 DEF Restart
<1>5. CASE UNCHANGED <<gateVars, running, cut, posts, acted, inventory>>
  BY <1>5
<1> QED
  BY <1>1, <1>2, <1>3, <1>4, <1>5, NodesLeaveGate DEF Next, Effect

LEMMA NextOnlyAsConfirmed ==
    TypeOK /\ GateInv /\ OnlyAsConfirmed /\ [Next]_vars => OnlyAsConfirmed'
<1> SUFFICES ASSUME TypeOK, GateInv, OnlyAsConfirmed, [Next]_vars PROVE OnlyAsConfirmed'
  OBVIOUS
<1>1. ASSUME NEW e \in Entities, entity'[e] = "gone"
      PROVE  \E r \in Requests : /\ kind'[r] \in Deletions /\ subject'[r] = e
                                 /\ status'[r] = "confirmed"
  <2>1. PICK r \in Requests : /\ kind[r] \in Deletions /\ subject[r] = e
                              /\ status[r] = "confirmed"
    BY <1>1, NewlyGone DEF OnlyAsConfirmed
  <2> QED BY <2>1, ConfirmedStays
<1>2. ASSUME NEW h \in Hosts, inventory'[h] # Unlisted
      PROVE  \E r \in Requests : /\ kind'[r] = "inventory" /\ status'[r] = "confirmed"
                                 /\ HostOf[subject'[r]] = h
  <2>1. PICK r \in Requests : /\ kind[r] = "inventory" /\ status[r] = "confirmed"
                              /\ HostOf[subject[r]] = h
    BY <1>2, NewlyListed DEF OnlyAsConfirmed
  <2> QED BY <2>1, ConfirmedStays
<1> QED
  BY <1>1, <1>2 DEF OnlyAsConfirmed, Unlisted

LEMMA NextOutcomeRecorded ==
    TypeOK /\ GateInv /\ OutcomeRecorded /\ [Next]_vars => OutcomeRecorded'
<1> SUFFICES ASSUME TypeOK, GateInv, OutcomeRecorded, [Next]_vars PROVE OutcomeRecorded'
  OBVIOUS
<1> USE DEF TypeOK, GateInv, OutcomeRecorded
<1>1. ASSUME NEW r \in Requests, Ask(r) PROVE OutcomeRecorded'
  BY <1>1 DEF Ask, RequestDeletion, RequestSync, RequestAction, Open
<1>2. ASSUME NEW r \in Requests, Confirm(r) PROVE OutcomeRecorded'
  <2>1. ASSUME NEW tool \in Deletions, ConfirmDeletion(r, tool) PROVE OutcomeRecorded'
    BY <2>1 DEF ConfirmDeletion, Consume, Close, Grant
  <2>2. CASE ConfirmSync(r)
    BY <2>2 DEF ConfirmSync, Consume, Close, Grant
  <2>3. CASE ConfirmAction(r)
    BY <2>3 DEF ConfirmAction, Close, Grant
  <2> QED BY <1>2, <2>1, <2>2, <2>3 DEF Confirm
<1>3. ASSUME NEW r \in Requests, Effect(r) PROVE OutcomeRecorded'
  <2>1. CASE DeleteEntity(r) \/ WriteInventory(r)
    BY <2>1 DEF DeleteEntity, WriteInventory, Done, CountEffect
  <2>2. CASE PostAction(r) \/ ActionApplied(r)
    BY <2>2 DEF PostAction, ActionApplied, CountEffect
  <2>3. CASE ActionReturns(r) \/ ActionCancelled(r)
    BY <2>3 DEF ActionReturns, ActionCancelled, Done, Close
  <2> QED BY <1>3, <2>1, <2>2, <2>3 DEF Effect
<1>4. CASE Restart
  BY <1>4 DEF Restart, Purged
<1>5. CASE UNCHANGED <<gateVars, running, cut, posts, acted, inventory>>
  BY <1>5
<1> QED
  BY <1>1, <1>2, <1>3, <1>4, <1>5, NodesLeaveGate DEF Next

-----------------------------------------------------------------------------
(* Ids are given out once: what exists or existed is never unborn again,    *)
(* and what is gone stays gone.                                             *)
LEMMA EntitiesAge ==
    ASSUME TypeOK, GateInv, [Next]_vars, NEW e \in Entities
    PROVE  /\ entity[e] # "unborn" => entity'[e] # "unborn"
           /\ entity[e] = "gone" => entity'[e] = "gone"
<1> DEFINE Ages == /\ entity[e] # "unborn" => entity'[e] # "unborn"
                   /\ entity[e] = "gone" => entity'[e] = "gone"
<1> USE DEF TypeOK
<1>1. ASSUME NEW r \in Requests, Ask(r) \/ Confirm(r) PROVE Ages
  BY <1>1 DEF Ask, RequestDeletion, RequestSync, RequestAction,
              Confirm, ConfirmDeletion, ConfirmSync, ConfirmAction
<1>2. ASSUME NEW r \in Requests, Effect(r) PROVE Ages
  BY <1>2 DEF Effect, DeleteEntity, WriteInventory, PostAction, ActionApplied,
              ActionReturns, ActionCancelled
<1>3. CASE \E s \in Services : AddService(s)
  BY <1>3 DEF AddService, Entities
<1>4. CASE \E n \in Nodes : AddNode(n) \/ UpdateNode(n)
  BY <1>4 DEF AddNode, UpdateNode, Unborn, Entities
<1>5. CASE DiscoverNow
  <2>1. PICK answering \in SUBSET Hosts :
           \E found \in [answering -> Addresses \cup {None}], new \in [answering -> Nodes] :
              Discovered(answering, found, new)
    BY <1>5 DEF DiscoverNow
  <2>2. PICK found \in [answering -> Addresses \cup {None}], new \in [answering -> Nodes] :
           Discovered(answering, found, new)
    BY <2>1
  <2> QED BY <2>2 DEF Discovered, Unborn
<1>6. CASE Restart \/ Tick \/ UNCHANGED vars
  BY <1>6 DEF Restart, Tick, vars
<1> QED
  BY <1>1, <1>2, <1>3, <1>4, <1>5, <1>6 DEF Next

(* A challenge gets its kind and subject when it is asked for, never later. *)
LEMMA SubjectStays ==
    ASSUME TypeOK, GateInv, [Next]_vars, NEW q \in Requests
    PROVE  \/ kind'[q] = kind[q] /\ subject'[q] = subject[q]
           \/ /\ Ask(q) /\ status'[q] = "pending"
              /\ kind'[q] \in Deletions => entity[subject'[q]] = "live"
<1> USE DEF TypeOK
<1>1. ASSUME NEW r \in Requests, Ask(r), r # q
      PROVE  kind'[q] = kind[q] /\ subject'[q] = subject[q]
  BY <1>1 DEF Ask, RequestDeletion, RequestSync, RequestAction, Open
<1>2. CASE Ask(q)
  BY <1>2 DEF Ask, RequestDeletion, RequestSync, RequestAction, Open
<1>3. ASSUME NEW r \in Requests, Confirm(r) \/ Effect(r)
      PROVE  kind'[q] = kind[q] /\ subject'[q] = subject[q]
  BY <1>3 DEF Confirm, ConfirmDeletion, ConfirmSync, ConfirmAction, Consume, Close, Grant,
              Effect, DeleteEntity, WriteInventory, PostAction, ActionApplied,
              ActionReturns, ActionCancelled
<1>4. CASE Restart
  BY <1>4 DEF Restart
<1>5. CASE UNCHANGED <<gateVars, running, cut, posts, acted, inventory>>
  BY <1>5
<1> QED
  BY <1>1, <1>2, <1>3, <1>4, <1>5, NodesLeaveGate DEF Next

LEMMA NextSubjectInv ==
    TypeOK /\ GateInv /\ SubjectInv /\ [Next]_vars => SubjectInv'
<1> SUFFICES ASSUME TypeOK, TypeOK', GateInv, SubjectInv, [Next]_vars,
                    NEW q \in Requests, kind'[q] \in Deletions
             PROVE  entity'[subject'[q]] # "unborn"
  BY NextTypeOK DEF SubjectInv
<1>1. subject'[q] \in Entities
  BY DEF TypeOK, EntitiesOf, Entities
<1>2. entity[subject'[q]] # "unborn"
  BY SubjectStays DEF SubjectInv
<1> QED
  BY <1>1, <1>2, EntitiesAge

(* How a deletion challenge comes to be confirmed with its tool done: it    *)
(* was already, or the tool just deleted the entity or found it gone, or    *)
(* was cut short.                                                           *)
LEMMA NewlyConfirmed ==
    ASSUME TypeOK, GateInv, SubjectInv, [Next]_vars, NEW q \in Requests,
           kind'[q] \in Deletions, status'[q] = "confirmed",
           running'[q] = None, q \notin cut'
    PROVE  \/ /\ kind[q] \in Deletions /\ status[q] = "confirmed"
              /\ running[q] = None /\ q \notin cut /\ subject'[q] = subject[q]
           \/ entity'[subject'[q]] = "gone"
<1> USE DEF TypeOK, GateInv
<1>1. ASSUME NEW r \in Requests, Ask(r)
      PROVE  /\ kind[q] \in Deletions /\ status[q] = "confirmed"
             /\ running[q] = None /\ q \notin cut /\ subject'[q] = subject[q]
  BY <1>1 DEF Ask, RequestDeletion, RequestSync, RequestAction, Open
<1>2. ASSUME NEW r \in Requests, Confirm(r)
      PROVE  /\ kind[q] \in Deletions /\ status[q] = "confirmed"
             /\ running[q] = None /\ q \notin cut /\ subject'[q] = subject[q]
  BY <1>2 DEF Confirm, ConfirmDeletion, ConfirmSync, ConfirmAction, Consume, Close, Grant
<1>3. CASE DeleteEntity(q)
  <2>1. subject[q] \in EntitiesOf(running[q]) /\ subject[q] \in Entities
    BY <1>3 DEF DeleteEntity, EntitiesOf, Entities
  <2>2. entity[subject[q]] # "unborn"
    BY <1>3 DEF DeleteEntity, SubjectInv
  <2> QED BY <1>3, <2>1, <2>2 DEF DeleteEntity
<1>4. ASSUME NEW r \in Requests, Effect(r), ~ (r = q /\ DeleteEntity(q))
      PROVE  /\ kind[q] \in Deletions /\ status[q] = "confirmed"
             /\ running[q] = None /\ q \notin cut /\ subject'[q] = subject[q]
  BY <1>4 DEF Effect, DeleteEntity, WriteInventory, PostAction, ActionApplied,
              ActionReturns, ActionCancelled, Done, Close
<1>5. CASE Restart
  BY <1>5 DEF Restart, Purged
<1>6. CASE UNCHANGED <<gateVars, running, cut, posts, acted, inventory>>
  BY <1>6
<1> QED
  BY <1>1, <1>2, <1>3, <1>4, <1>5, <1>6, NodesLeaveGate DEF Next

LEMMA NextConfirmedMeansGone ==
    TypeOK /\ GateInv /\ SubjectInv /\ ConfirmedMeansGone /\ [Next]_vars
        => ConfirmedMeansGone'
<1> SUFFICES ASSUME TypeOK, GateInv, SubjectInv, ConfirmedMeansGone, [Next]_vars,
                    NEW q \in Requests, kind'[q] \in Deletions, status'[q] = "confirmed",
                    running'[q] = None, q \notin cut'
             PROVE  entity'[subject'[q]] = "gone"
  BY DEF ConfirmedMeansGone
<1>1. CASE entity'[subject'[q]] = "gone"
  BY <1>1
<1>2. CASE /\ kind[q] \in Deletions /\ status[q] = "confirmed"
           /\ running[q] = None /\ q \notin cut /\ subject'[q] = subject[q]
  <2>1. entity[subject[q]] = "gone" /\ subject[q] \in Entities
    BY <1>2 DEF ConfirmedMeansGone, TypeOK, EntitiesOf, Entities
  <2> QED BY <1>2, <2>1, EntitiesAge
<1> QED
  BY <1>1, <1>2, NewlyConfirmed

LEMMA Invariance == Spec => []IInv
<1>1. IInv /\ [Next]_vars => IInv'
  BY NextTypeOK, NextGateInv, NextSubjectInv, NextAnsweredInTime, NextOnlyAsConfirmed,
     NextConfirmedMeansGone, NextOutcomeRecorded DEF IInv
<1> QED BY InitIInv, <1>1, PTL DEF Spec

(* Type correctness: every challenge keeps a status of the stores, and a    *)
(* subject of the kind its tool pair works on, whatever is registered,      *)
(* discovered or deleted meanwhile.                                         *)
THEOREM TypeCorrect == Spec => []TypeOK
BY Invariance, PTL DEF IInv

(* No answer counts after the TTL ran out, even when the clock moves        *)
(* between the gate's test and its conditional update.                      *)
THEOREM InTime == Spec => []AnsweredInTime
BY Invariance, PTL DEF IInv

(* Nothing is deleted, and no host is listed, without a confirmed challenge *)
(* for that very id, or for a node of that name.                            *)
THEOREM NothingUnconfirmed == Spec => []OnlyAsConfirmed
BY Invariance, PTL DEF IInv

(* A human's answer is not used up for nothing: the entity is gone unless   *)
(* the server stopped in between.                                           *)
THEOREM ConfirmedIsGone == Spec => []ConfirmedMeansGone
BY Invariance, PTL DEF IInv

(* The audit row of a Dockhand action tells what happened to it.            *)
THEOREM Recorded == Spec => []OutcomeRecorded
BY Invariance, PTL DEF IInv

-----------------------------------------------------------------------------
(* Both addresses of a node were typed or measured for its hostname, in     *)
(* whatever order nodes of one name were registered, found and deleted.     *)
AddressInv ==
    \A n \in Nodes : {ansible_host[n], ip_address[n]} \subseteq known[HostOf[n]] \cup {None}

(* Addresses are never taken back, so what they were given for stays.       *)
LEMMA AddressesAdd ==
    ASSUME TypeOK, AddressInv, InventoryKnown, UNCHANGED inventory,
           \A h \in Hosts : known[h] \subseteq known'[h],
           \A n \in Nodes : \/ ansible_host'[n] = ansible_host[n]
                            \/ ansible_host'[n] \in known'[HostOf[n]],
           \A n \in Nodes : \/ ip_address'[n] = ip_address[n]
                            \/ ip_address'[n] \in known'[HostOf[n]] \cup {None}
    PROVE  AddressInv' /\ InventoryKnown'
<1>1. \A n \in Nodes : HostOf[n] \in Hosts
  BY HostAssumption
<1>2. AddressInv'
  BY <1>1 DEF AddressInv
<1> QED BY <1>2 DEF InventoryKnown

LEMMA InventoryWrite ==
    ASSUME TypeOK, GateInv, AddressInv, InventoryKnown, NEW r \in Requests, WriteInventory(r)
    PROVE  AddressInv' /\ InventoryKnown'
<1>1. AddressInv'
  BY DEF WriteInventory, AddressInv
<1>2. UNCHANGED known
  BY DEF WriteInventory
<1>3. CASE UNCHANGED inventory
  BY <1>1, <1>2, <1>3 DEF InventoryKnown
<1>4. CASE inventory' = [inventory EXCEPT ![HostOf[subject[r]]] =
                            Upserted(HostOf[subject[r]], ConnectionAddress(subject[r]))]
  <2>1. subject[r] \in Nodes
    BY DEF TypeOK, GateInv, WriteInventory, EntitiesOf
  <2>2. PICK h, a : /\ h \in Hosts /\ h = HostOf[subject[r]]
                    /\ a = ConnectionAddress(subject[r])
    BY <2>1, HostAssumption
  <2>3. a \in known[h] \cup {None}
    BY <2>1, <2>2 DEF AddressInv, ConnectionAddress
  <2>4. Upserted(h, a) \in known[h] \cup {None, Unlisted}
    BY <2>2, <2>3 DEF Upserted, InventoryKnown
  <2>5. \A g \in Hosts : inventory'[g] = IF g = h THEN Upserted(h, a) ELSE inventory[g]
    BY <1>4, <2>2 DEF TypeOK
  <2> QED BY <1>1, <1>2, <2>4, <2>5 DEF InventoryKnown
<1> QED BY <1>1, <1>3, <1>4 DEF WriteInventory

LEMMA NextAddresses ==
    ASSUME TypeOK, GateInv, AddressInv, InventoryKnown, [Next]_vars
    PROVE  AddressInv' /\ InventoryKnown'
<1> USE DEF TypeOK
<1>1. ASSUME UNCHANGED <<ansible_host, ip_address, known, inventory>>
      PROVE  AddressInv' /\ InventoryKnown'
  BY <1>1 DEF AddressInv, InventoryKnown
<1>2. ASSUME NEW r \in Requests, Ask(r) PROVE AddressInv' /\ InventoryKnown'
  BY <1>1, <1>2 DEF Ask, RequestDeletion, RequestSync, RequestAction
<1>3. ASSUME NEW r \in Requests, Confirm(r) PROVE AddressInv' /\ InventoryKnown'
  BY <1>1, <1>3 DEF Confirm, ConfirmDeletion, ConfirmSync, ConfirmAction
<1>4. ASSUME NEW r \in Requests, Effect(r) PROVE AddressInv' /\ InventoryKnown'
  BY <1>1, <1>4, InventoryWrite
     DEF Effect, DeleteEntity, PostAction, ActionApplied, ActionReturns, ActionCancelled
<1>5. ASSUME NEW n \in Nodes, AddNode(n) PROVE AddressInv' /\ InventoryKnown'
  <2>1. PICK ip \in Addresses \cup {None} :
            /\ ip_address' = [ip_address EXCEPT ![n] = ip]
            /\ known' = [known EXCEPT ![HostOf[n]] = @ \cup ({ip} \ {None})]
    BY <1>5 DEF AddNode
  <2>2. HostOf[n] \in Hosts /\ UNCHANGED <<ansible_host, inventory>>
    BY <1>5, HostAssumption DEF AddNode
  <2>3. /\ \A h \in Hosts : known[h] \subseteq known'[h]
        /\ ip \in known'[HostOf[n]] \cup {None}
    BY <2>1, <2>2
  <2> QED BY <2>1, <2>2, <2>3, AddressesAdd
<1>6. ASSUME NEW n \in Nodes, UpdateNode(n) PROVE AddressInv' /\ InventoryKnown'
  <2>1. PICK a \in Addresses :
            /\ \/ ansible_host' = [ansible_host EXCEPT ![n] = a] /\ UNCHANGED ip_address
               \/ ip_address' = [ip_address EXCEPT ![n] = a] /\ UNCHANGED ansible_host
            /\ known' = [known EXCEPT ![HostOf[n]] = @ \cup {a}]
    BY <1>6 DEF UpdateNode
  <2>2. HostOf[n] \in Hosts /\ UNCHANGED inventory
    BY <1>6, HostAssumption DEF UpdateNode
  <2>3. (\A h \in Hosts : known[h] \subseteq known'[h]) /\ a \in known'[HostOf[n]]
    BY <2>1, <2>2
  <2> QED BY <2>1, <2>2, <2>3, AddressesAdd
<1>7. ASSUME DiscoverNow PROVE AddressInv' /\ InventoryKnown'
  <2>0. PICK answering \in SUBSET Hosts :
            \E found \in [answering -> Addresses \cup {None}], new \in [answering -> Nodes] :
                Discovered(answering, found, new)
    BY <1>7 DEF DiscoverNow
  <2>1. PICK found \in [answering -> Addresses \cup {None}], new \in [answering -> Nodes] :
            Discovered(answering, found, new)
    BY <2>0
  <2>2. \A h \in Hosts : known'[h] = IF h \in answering
                                     THEN known[h] \cup ({found[h]} \ {None}) ELSE known[h]
    BY <2>1 DEF Discovered
  <2>3. ASSUME NEW n \in Nodes
        PROVE  \/ ip_address'[n] = ip_address[n]
               \/ ip_address'[n] \in known'[HostOf[n]] \cup {None}
    BY <2>1, <2>2, HostAssumption DEF Discovered
  <2>4. UNCHANGED <<ansible_host, inventory>>
    BY <1>7 DEF DiscoverNow
  <2>5. \A h \in Hosts : known[h] \subseteq known'[h]
    BY <2>2
  <2>6. \A n \in Nodes : ansible_host'[n] = ansible_host[n]
    BY <2>4
  <2> QED BY <2>3, <2>4, <2>5, <2>6, AddressesAdd
<1> QED
  BY <1>1, <1>2, <1>3, <1>4, <1>5, <1>6, <1>7 DEF Next, AddService, Restart, Tick, vars

(* tools/hardware.py:96: no pass clobbers a configured address with an      *)
(* alias; the inventory has, for every host, only addresses given for it.   *)
THEOREM OnlyKnownAddresses == Spec => []InventoryKnown
<1>1. Init => AddressInv /\ InventoryKnown
  BY DEF Init, AddressInv, InventoryKnown
<1>2. IInv /\ AddressInv /\ InventoryKnown /\ [Next]_vars => AddressInv' /\ InventoryKnown'
  BY NextAddresses DEF IInv
<1> QED BY <1>1, <1>2, Invariance, PTL DEF Spec

-----------------------------------------------------------------------------
(* A process in read-only mode has no sync or Dockhand tool at work: it     *)
(* confirmed none, and a restart stops those of its predecessor.            *)
ReadOnlyInv == readOnly => \A r \in Requests : running[r] \notin {"inventory", "dockhand"}

LEMMA ReadOnlyIsIdle == Spec => []ReadOnlyInv
<1>1. Init => ReadOnlyInv
  BY DEF Init, ReadOnlyInv
<1>2. TypeOK /\ ReadOnlyInv /\ [Next]_vars => ReadOnlyInv'
  <2> SUFFICES ASSUME TypeOK, ReadOnlyInv, [Next]_vars PROVE ReadOnlyInv'
    OBVIOUS
  <2> USE DEF TypeOK, ReadOnlyInv
  <2>1. ASSUME NEW r \in Requests, Ask(r) PROVE ReadOnlyInv'
    BY <2>1 DEF Ask, RequestDeletion, RequestSync, RequestAction
  <2>2. ASSUME NEW r \in Requests, Confirm(r) PROVE ReadOnlyInv'
    <3>1. CASE ConfirmSync(r) \/ ConfirmAction(r)
      BY <3>1 DEF ConfirmSync, ConfirmAction
    <3>2. ASSUME NEW tool \in Deletions, ConfirmDeletion(r, tool) PROVE ReadOnlyInv'
      BY <3>2 DEF ConfirmDeletion, Consume, Grant, Deletions
    <3> QED BY <2>2, <3>1, <3>2 DEF Confirm
  <2>3. ASSUME NEW r \in Requests, Effect(r) PROVE ReadOnlyInv'
    BY <2>3 DEF Effect, DeleteEntity, WriteInventory, PostAction, ActionApplied,
                ActionReturns, ActionCancelled, Done
  <2>4. CASE Restart
    BY <2>4 DEF Restart
  <2>5. CASE \/ \E s \in Services : AddService(s)
             \/ \E n \in Nodes : AddNode(n) \/ UpdateNode(n)
             \/ DiscoverNow \/ Tick \/ UNCHANGED vars
    BY <2>5 DEF AddService, AddNode, UpdateNode, DiscoverNow, Tick, vars
  <2> QED BY <2>1, <2>2, <2>3, <2>4, <2>5 DEF Next
<1>3. IInv => TypeOK
  BY DEF IInv
<1> QED BY <1>1, <1>2, <1>3, Invariance, PTL DEF Spec

(* ADR-023, "Read-only mode applies": also to a challenge that was asked    *)
(* for before the restart which found the server unhealthy.                 *)
THEOREM HandsOff == Spec => ReadOnlyHandsOff
<1>1. ReadOnlyInv /\ [Next]_vars => [readOnly => UNCHANGED <<posts, inventory>>]_vars
  <2> SUFFICES ASSUME ReadOnlyInv, Next, readOnly PROVE UNCHANGED <<posts, inventory>>
    OBVIOUS
  <2>1. ASSUME NEW r \in Requests, Ask(r) \/ Confirm(r) PROVE UNCHANGED <<posts, inventory>>
    BY <2>1 DEF Ask, RequestDeletion, RequestSync, RequestAction,
                Confirm, ConfirmDeletion, ConfirmSync, ConfirmAction
  <2>2. ASSUME NEW r \in Requests, Effect(r) PROVE UNCHANGED <<posts, inventory>>
    BY <2>2 DEF ReadOnlyInv, Effect, DeleteEntity, WriteInventory, PostAction,
                ActionApplied, ActionReturns, ActionCancelled
  <2>3. CASE Restart
    BY <2>3 DEF Restart
  <2>4. CASE \/ \E s \in Services : AddService(s)
             \/ \E n \in Nodes : AddNode(n) \/ UpdateNode(n)
             \/ DiscoverNow \/ Tick
    BY <2>4, NodesLeaveGate
  <2> QED BY <2>1, <2>2, <2>3, <2>4 DEF Next
<1> QED BY <1>1, ReadOnlyIsIdle, PTL DEF Spec, ReadOnlyHandsOff

-----------------------------------------------------------------------------
LEMMA QuestionInit == Init => Question!Init
BY DEF Init, Question!Init, AnswerTo

(* A confirm tool closes the challenge it is given, for good or bad.        *)
LEMMA ConfirmAnswers ==
    ASSUME IInv, NEW r \in Requests, Confirm(r)
    PROVE  /\ AnswerTo(r) = "open" /\ UNCHANGED acted
           /\ \/ \A q \in Requests :
                    AnswerTo(q)' = IF q = r THEN "granted" ELSE AnswerTo(q)
              \/ \A q \in Requests :
                    AnswerTo(q)' = IF q = r THEN "refused" ELSE AnswerTo(q)
<1> USE GateTimeAssumption DEF IInv, TypeOK, GateInv, AnswerTo, Granted
<1>1. ASSUME NEW tool, Consume(r, tool)
      PROVE  \/ \A q \in Requests :
                    AnswerTo(q)' = IF q = r THEN "granted" ELSE AnswerTo(q)
             \/ \A q \in Requests :
                    AnswerTo(q)' = IF q = r THEN "refused" ELSE AnswerTo(q)
  BY <1>1 DEF Consume, Close, Grant
<1>2. CASE ConfirmAction(r)
  <2>1. CASE Close(r, "expired") \/ Close(r, "wrong_answer")
    BY <1>2, <2>1 DEF ConfirmAction, Close
  <2>2. ASSUME NEW now \in {clock, clock + 1}, Grant(r, "executing", "dockhand", now)
        PROVE  \A q \in Requests :
                  AnswerTo(q)' = IF q = r THEN "granted" ELSE AnswerTo(q)
    BY <2>2 DEF Grant
  <2> QED BY <1>2, <2>1, <2>2 DEF ConfirmAction
<1>3. AnswerTo(r) = "open" /\ UNCHANGED acted
  BY DEF Confirm, ConfirmDeletion, ConfirmSync, ConfirmAction, Consume
<1> HIDE DEF AnswerTo
<1> QED BY <1>1, <1>2, <1>3 DEF Confirm, ConfirmDeletion, ConfirmSync

(* An effect follows the answer, and happens once.                          *)
LEMMA EffectActs ==
    ASSUME IInv, NEW r \in Requests, Effect(r)
    PROVE  /\ \A q \in Requests : AnswerTo(q)' = AnswerTo(q)
           /\ \/ UNCHANGED acted
              \/ /\ AnswerTo(r) = "granted" /\ acted[r] = 0
                 /\ acted' = [acted EXCEPT ![r] = 1]
<1> USE DEF IInv, TypeOK, GateInv, AnswerTo, Granted
<1>1. CASE DeleteEntity(r)
  BY <1>1 DEF DeleteEntity, CountEffect
<1>2. CASE WriteInventory(r)
  BY <1>2 DEF WriteInventory, CountEffect
<1>3. CASE PostAction(r)
  BY <1>3 DEF PostAction
<1>4. CASE ActionApplied(r)
  <2>1. acted[r] = 0 /\ posts[r] = 1
    BY <1>4 DEF ActionApplied
  <2>2. AnswerTo(r) = "granted"
    BY <2>1
  <2>3. acted' = [acted EXCEPT ![r] = 1]
    BY <1>4, <2>1 DEF ActionApplied, CountEffect
  <2>4. \A q \in Requests : AnswerTo(q)' = AnswerTo(q)
    BY <1>4 DEF ActionApplied
  <2> QED BY <2>1, <2>2, <2>3, <2>4
<1>5. CASE ActionReturns(r)
  BY <1>5 DEF ActionReturns, Close
<1>6. CASE ActionCancelled(r)
  BY <1>6 DEF ActionCancelled
<1> QED BY <1>1, <1>2, <1>3, <1>4, <1>5, <1>6 DEF Effect

LEMMA QuestionNext == IInv /\ [Next]_vars => [Question!Next]_Question!vars
<1> SUFFICES ASSUME IInv, [Next]_vars PROVE [Question!Next]_Question!vars
  OBVIOUS
<1>1. ASSUME NEW r \in Requests, Ask(r) PROVE [Question!Next]_Question!vars
  <2>1. AnswerTo(r) = "unasked" /\ UNCHANGED acted
    BY <1>1 DEF Ask, RequestDeletion, RequestSync, RequestAction, Open, AnswerTo
  <2>2. \A q \in Requests : AnswerTo(q)' = IF q = r THEN "open" ELSE AnswerTo(q)
    BY <1>1 DEF Ask, RequestDeletion, RequestSync, RequestAction, Open, AnswerTo,
                Granted, IInv, TypeOK
  <2>3. Question!Ask(r)
    BY <2>1, <2>2 DEF Question!Ask
  <2> QED BY <2>3 DEF Question!Next
<1>2. ASSUME NEW r \in Requests, Confirm(r) PROVE [Question!Next]_Question!vars
  <2>1. AnswerTo(r) = "open" /\ UNCHANGED acted
    BY <1>2, ConfirmAnswers
  <2>2. CASE \A q \in Requests :
                AnswerTo(q)' = IF q = r THEN "granted" ELSE AnswerTo(q)
    <3>1. Question!Grant(r)
      BY <2>1, <2>2 DEF Question!Grant
    <3> QED BY <3>1 DEF Question!Next
  <2>3. CASE \A q \in Requests :
                AnswerTo(q)' = IF q = r THEN "refused" ELSE AnswerTo(q)
    <3>1. Question!Refuse({r})
      BY <2>1, <2>3 DEF Question!Refuse
    <3> QED BY <3>1 DEF Question!Next
  <2> QED BY <1>2, <2>2, <2>3, ConfirmAnswers
<1>3. ASSUME NEW r \in Requests, Effect(r) PROVE [Question!Next]_Question!vars
  <2>1. \A q \in Requests : AnswerTo(q)' = AnswerTo(q)
    BY <1>3, EffectActs
  <2>2. CASE UNCHANGED acted
    BY <2>1, <2>2 DEF Question!vars
  <2>3. CASE /\ AnswerTo(r) = "granted" /\ acted[r] = 0
             /\ acted' = [acted EXCEPT ![r] = 1]
    <3>1. Question!Act(r)
      BY <2>1, <2>3 DEF Question!Act
    <3> QED BY <3>1 DEF Question!Next
  <2> QED BY <1>3, <2>2, <2>3, EffectActs
<1>4. CASE Restart
  <2> DEFINE closed == {r \in Requests : status[r] = "pending" /\ IsPast(r)}
  <2>1. \A q \in Requests :
           AnswerTo(q)' = IF q \in closed THEN "refused" ELSE AnswerTo(q)
    BY <1>4 DEF Restart, Purged, AnswerTo, Granted, IInv, TypeOK, GateInv
  <2>2. \A q \in closed : AnswerTo(q) = "open"
    BY DEF AnswerTo
  <2>3. closed \in SUBSET Requests /\ UNCHANGED acted
    BY <1>4 DEF Restart
  <2> HIDE DEF closed
  <2>4. CASE closed = {}
    BY <2>1, <2>3, <2>4 DEF Question!vars
  <2>5. CASE closed # {}
    <3>1. Question!Refuse(closed)
      BY <2>1, <2>2, <2>3, <2>5 DEF Question!Refuse
    <3> QED BY <2>3, <3>1 DEF Question!Next
  <2> QED BY <2>4, <2>5
<1>5. CASE UNCHANGED <<gateVars, running, cut, posts, acted, inventory>>
  BY <1>5 DEF Question!vars, AnswerTo, Granted
<1> QED
  BY <1>1, <1>2, <1>3, <1>4, <1>5, NodesLeaveGate DEF Next

(* Every challenge of the four tool pairs implements the one-shot question: *)
(* it is answered once, and its deletion, inventory write or Dockhand       *)
(* action happens at most once, only after the right answer.                *)
THEOREM ImplementsOneShot == Spec => OneShot
<1>1. Init => Question!Init
  BY QuestionInit
<1>2. IInv /\ [Next]_vars => [Question!Next]_Question!vars
  BY QuestionNext
<1> QED
  BY <1>1, <1>2, Invariance, PTL DEF Spec, OneShot, Question!Spec
=============================================================================
