-------------------------- MODULE ConfirmationGate --------------------------
(***************************************************************************)
(* The arithmetic challenges in front of every irreversible tool: deleting *)
(* a service or a hardware node (deletion/store.py), writing a node into   *)
(* the Ansible inventory (inventory/store.py) and running a Dockhand action*)
(* (integrations/dockhand/gate.py), with the tools that ask and confirm,   *)
(* and the hardware nodes they are about (hardware/store.py).              *)
(*                                                                         *)
(* The tools are synchronous except for the Dockhand call, so nothing runs *)
(* between a deletion's or a sync's consumed challenge and its effect; but *)
(* these are two commits, and the process may stop between them.           *)
(***************************************************************************)
EXTENDS Integers

CONSTANTS
    Requests,       \* challenge ids
    Services,       \* service ids; an id is never given out twice
    Nodes,          \* hardware node ids, likewise
    Hosts,          \* hostnames
    HostOf,         \* the hostname a node id is registered under
    Addresses,      \* connection addresses
    TTL,            \* the challenge TTL in minutes
    MaxTime         \* bound on the clock

ASSUME HostAssumption == HostOf \in [Nodes -> Hosts]
ASSUME GateTimeAssumption == TTL \in Nat /\ MaxTime \in Nat

VARIABLES
    clock,
    readOnly,       \* the health check of this process failed at startup
    status,         \* the challenge's status, or "absent"
    kind,           \* the tool pair it was issued for
    subject,        \* its entity_id or node_id; a Dockhand action is named by its
                    \* challenge
    expires_at,
    answered_at,    \* when the right answer was accepted, or Never
    running,        \* the confirm tool at work on it
    cut,            \* challenges whose confirm tool was stopped half-way
    posts,          \* requests sent to Dockhand for it
    acted,          \* effects the challenge had
    entity,         \* services and hardware nodes by id
    ansible_host,
    ip_address,
    inventory,      \* the inventory file: the address of each host
    known           \* addresses ever typed or measured for a host

gateVars == <<status, kind, subject, expires_at, answered_at>>
nodeVars == <<entity, ansible_host, ip_address, known>>
vars == <<clock, readOnly, gateVars, running, cut, posts, acted, nodeVars, inventory>>

Never == -1
None == "none"
Unlisted == "unlisted"

Deletions == {"service", "hardware_node"}
SyncKinds == Deletions \cup {"inventory"}
Kinds == SyncKinds \cup {"dockhand"}
Status == {"absent", "pending", "confirmed", "expired", "failed",
           "executing", "executed", "wrong_answer"}
Entities == Services \cup Nodes
EntitiesOf(k) == IF k = "service" THEN Services ELSE Nodes

TypeOK ==
    /\ clock \in Nat
    /\ readOnly \in BOOLEAN
    /\ status \in [Requests -> Status]
    /\ kind \in [Requests -> Kinds \cup {None}]
    /\ subject \in [Requests -> Entities \cup {None}]
    /\ expires_at \in [Requests -> Nat \cup {Never}]
    /\ answered_at \in [Requests -> Nat \cup {Never}]
    /\ running \in [Requests -> Kinds \cup {"sent", None}]
    /\ cut \subseteq Requests
    /\ posts \in [Requests -> Nat]
    /\ acted \in [Requests -> Nat]
    /\ entity \in [Entities -> {"unborn", "live", "gone"}]
    /\ ansible_host \in [Nodes -> Addresses \cup {None}]
    /\ ip_address \in [Nodes -> Addresses \cup {None}]
    /\ inventory \in [Hosts -> Addresses \cup {None, Unlisted}]
    /\ known \in [Hosts -> SUBSET Addresses]
    /\ \A r \in Requests : kind[r] \in SyncKinds => subject[r] \in EntitiesOf(kind[r])

Init ==
    /\ clock = 0
    /\ readOnly \in BOOLEAN
    /\ status = [r \in Requests |-> "absent"]
    /\ kind = [r \in Requests |-> None]
    /\ subject = [r \in Requests |-> None]
    /\ expires_at = [r \in Requests |-> Never]
    /\ answered_at = [r \in Requests |-> Never]
    /\ running = [r \in Requests |-> None]
    /\ cut = {}
    /\ posts = [r \in Requests |-> 0]
    /\ acted = [r \in Requests |-> 0]
    /\ entity = [e \in Entities |-> "unborn"]
    /\ ansible_host = [n \in Nodes |-> None]
    /\ ip_address = [n \in Nodes |-> None]
    /\ inventory = [h \in Hosts |-> Unlisted]
    /\ known = [h \in Hosts |-> {}]

(* No synchronous confirm tool is between its two commits: the event loop   *)
(* is free to run something else.                                           *)
Idle == \A r \in Requests : running[r] \notin SyncKinds

-----------------------------------------------------------------------------
(* The three stores: request, the tests of confirm, purge_expired           *)

IsPast(r) == expires_at[r] < clock

Open(r, k, s) ==
    /\ status[r] = "absent"
    /\ status' = [status EXCEPT ![r] = "pending"]
    /\ kind' = [kind EXCEPT ![r] = k]
    /\ subject' = [subject EXCEPT ![r] = s]
    /\ expires_at' = [expires_at EXCEPT ![r] = clock + TTL]
    /\ UNCHANGED answered_at

Close(r, outcome) ==
    /\ status' = [status EXCEPT ![r] = outcome]
    /\ UNCHANGED <<kind, subject, expires_at, answered_at>>

(* Slip: the challenge is not used up.                                      *)
GrantAgain(r, outcome, tool, now) ==
    /\ answered_at' = [answered_at EXCEPT ![r] = now]
    /\ running' = [running EXCEPT ![r] = tool]
    /\ UNCHANGED <<status, kind, subject, expires_at>>

(* The right answer: the challenge is used up and its tool goes on.         *)
Grant(r, outcome, tool, now) ==
    /\ status' = [status EXCEPT ![r] = outcome]
    /\ answered_at' = [answered_at EXCEPT ![r] = now]
    /\ running' = [running EXCEPT ![r] = tool]
    /\ UNCHANGED <<kind, subject, expires_at>>

(* purge_expired, for one row.                                              *)
Purged(r) == IF status[r] = "pending" /\ IsPast(r) THEN "expired" ELSE status[r]

-----------------------------------------------------------------------------
(* The tools that ask.  Deletions are also available in read-only mode.     *)

RequestDeletion(r) ==
    /\ Idle
    /\ \E k \in Deletions : \E e \in EntitiesOf(k) :
          entity[e] = "live" /\ Open(r, k, e)
    /\ UNCHANGED <<clock, readOnly, running, cut, posts, acted, nodeVars, inventory>>

RequestSync(r) ==
    /\ Idle /\ ~ readOnly
    /\ \E n \in Nodes : entity[n] = "live" /\ Open(r, "inventory", n)
    /\ UNCHANGED <<clock, readOnly, running, cut, posts, acted, nodeVars, inventory>>

RequestAction(r) ==
    /\ Idle /\ ~ readOnly
    /\ Open(r, "dockhand", None)
    /\ UNCHANGED <<clock, readOnly, running, cut, posts, acted, nodeVars, inventory>>

-----------------------------------------------------------------------------
(* The tools that confirm, up to the effect.  "failed" is the deletion and  *)
(* inventory stores' word for a wrong answer.                               *)

(* deletion and inventory confirm: one reading of the clock.                *)
Consume(r, tool) ==
    /\ status[r] = "pending"
    /\ \/ IsPast(r) /\ Close(r, "expired") /\ UNCHANGED running
       \/ ~ IsPast(r) /\ Close(r, "failed") /\ UNCHANGED running
       \/ ~ IsPast(r) /\ Grant(r, "confirmed", tool, clock)

(* Slip: the entity type is not compared.                                   *)
ConfirmDeletionOfAny(r, tool) ==
    /\ Idle
    /\ kind[r] \in Deletions
    /\ Consume(r, tool)
    /\ UNCHANGED <<clock, readOnly, cut, posts, acted, nodeVars, inventory>>

ConfirmDeletion(r, tool) ==
    /\ Idle
    /\ kind[r] = tool
    /\ Consume(r, tool)
    /\ UNCHANGED <<clock, readOnly, cut, posts, acted, nodeVars, inventory>>

ConfirmSync(r) ==
    /\ Idle /\ ~ readOnly
    /\ kind[r] = "inventory"
    /\ Consume(r, "inventory")
    /\ UNCHANGED <<clock, readOnly, cut, posts, acted, nodeVars, inventory>>

(* Slip: _resolve without only_if_unexpired.                                *)
ClaimsPending(r, now) == status[r] = "pending"

(* The conditional UPDATE of _resolve with only_if_unexpired.               *)
Claims(r, now) == status[r] = "pending" /\ expires_at[r] > now

(* Dockhand confirm: _is_past at one reading of the clock, the claim at     *)
(* another.  A claim that comes too late leaves the row pending.            *)
ConfirmAction(r) ==
    /\ Idle /\ ~ readOnly
    /\ kind[r] = "dockhand" /\ status[r] = "pending"
    /\ \/ IsPast(r) /\ Close(r, "expired") /\ UNCHANGED <<running, clock>>
       \/ ~ IsPast(r) /\ Close(r, "wrong_answer") /\ UNCHANGED <<running, clock>>
       \/ \E now \in {clock, clock + 1} :
             /\ now <= MaxTime
             /\ ~ IsPast(r) /\ Claims(r, now)
             /\ Grant(r, "executing", "dockhand", now)
             /\ clock' = now
    /\ UNCHANGED <<readOnly, cut, posts, acted, nodeVars, inventory>>

-----------------------------------------------------------------------------
(* The effects                                                              *)

Done(r) == running' = [running EXCEPT ![r] = None]
CountEffect(r) == acted' = [acted EXCEPT ![r] = @ + 1]

(* Slip: the node is looked up by the name the operator was shown.          *)
DeleteByLabel(r) ==
    /\ running[r] \in Deletions
    /\ Done(r)
    /\ LET doomed == {e \in EntitiesOf(running[r]) :
                        /\ entity[e] = "live"
                        /\ \/ e = subject[r]
                           \/ e \in Nodes /\ subject[r] \in Nodes
                                /\ HostOf[e] = HostOf[subject[r]]}
       IN  IF doomed # {}
           THEN /\ entity' = [e \in Entities |-> IF e \in doomed THEN "gone" ELSE entity[e]]
                /\ CountEffect(r)
           ELSE UNCHANGED <<entity, acted>>
    /\ UNCHANGED <<clock, readOnly, gateVars, cut, posts, ansible_host, ip_address, known, inventory>>

(* delete_service or delete_node, whichever tool was confirmed.             *)
DeleteEntity(r) ==
    /\ running[r] \in Deletions
    /\ Done(r)
    /\ IF subject[r] \in EntitiesOf(running[r]) /\ entity[subject[r]] = "live"
       THEN /\ entity' = [entity EXCEPT ![subject[r]] = "gone"]
            /\ CountEffect(r)
       ELSE UNCHANGED <<entity, acted>>
    /\ UNCHANGED <<clock, readOnly, gateVars, cut, posts, ansible_host, ip_address, known, inventory>>

(* Slip: the fallback is the alias the node was reached by.                 *)
AddressOrAlias(n) == IF ansible_host[n] # None THEN ansible_host[n] ELSE HostOf[n]

(* `node.ansible_host or node.ip_address`                                   *)
ConnectionAddress(n) == IF ansible_host[n] # None THEN ansible_host[n] ELSE ip_address[n]

(* upsert_host: an address is written if there is one, else the host is     *)
(* listed and whatever address it had is kept.                              *)
Upserted(h, address) ==
    IF address # None THEN address ELSE IF inventory[h] = Unlisted THEN None ELSE inventory[h]

(* The rest of ansible-inventory-sync-node-confirm, on the node as it is    *)
(* now; it may be gone, and the file may be one the writer refuses.         *)
WriteInventory(r) ==
    /\ running[r] = "inventory"
    /\ Done(r)
    /\ \/ UNCHANGED <<inventory, acted>>
       \/ /\ entity[subject[r]] = "live"
          /\ inventory' = [inventory EXCEPT ![HostOf[subject[r]]] =
                              Upserted(HostOf[subject[r]], ConnectionAddress(subject[r]))]
          /\ CountEffect(r)
    /\ UNCHANGED <<clock, readOnly, gateVars, cut, posts, nodeVars>>

(* _post: one attempt.                                                      *)
PostAction(r) ==
    /\ Idle
    /\ running[r] = "dockhand"
    /\ running' = [running EXCEPT ![r] = "sent"]
    /\ posts' = [posts EXCEPT ![r] = @ + 1]
    /\ UNCHANGED <<clock, readOnly, gateVars, cut, acted, nodeVars, inventory>>

(* Dockhand carries out a request, perhaps after everyone gave up on it.    *)
ActionApplied(r) ==
    /\ acted[r] < posts[r]
    /\ CountEffect(r)
    /\ UNCHANGED <<clock, readOnly, gateVars, running, cut, posts, nodeVars, inventory>>

(* Slip: every return is recorded as a success.                             *)
ActionReturnsOk(r) ==
    /\ Idle
    /\ Done(r)
    /\ running[r] \in {"dockhand", "sent"} /\ Close(r, "executed")
    /\ UNCHANGED <<clock, readOnly, cut, posts, acted, nodeVars, inventory>>

(* finish: success means that Dockhand has done it; an error or a timeout   *)
(* says nothing.                                                            *)
ActionReturns(r) ==
    /\ Idle
    /\ Done(r)
    /\ \/ running[r] = "sent" /\ acted[r] = posts[r] /\ Close(r, "executed")
       \/ running[r] \in {"dockhand", "sent"} /\ Close(r, "failed")
    /\ UNCHANGED <<clock, readOnly, cut, posts, acted, nodeVars, inventory>>

(* The client cancels the tool call: CancelledError is no Exception, so     *)
(* nothing finishes the row.                                                *)
ActionCancelled(r) ==
    /\ Idle
    /\ running[r] \in {"dockhand", "sent"}
    /\ Done(r)
    /\ cut' = cut \cup {r}
    /\ UNCHANGED <<clock, readOnly, gateVars, posts, acted, nodeVars, inventory>>

-----------------------------------------------------------------------------
(* Services and nodes come and change                                       *)

Registered(h) == {n \in Nodes : entity[n] = "live" /\ HostOf[n] = h}
Unborn(h) == {n \in Nodes : entity[n] = "unborn" /\ HostOf[n] = h}

AddService(s) ==
    /\ Idle
    /\ entity[s] = "unborn"
    /\ entity' = [entity EXCEPT ![s] = "live"]
    /\ UNCHANGED <<clock, readOnly, gateVars, running, cut, posts, acted,
                   ansible_host, ip_address, known, inventory>>

(* hardware-add-node: a hostname is registered once.                        *)
AddNode(n) ==
    /\ Idle
    /\ n \in Unborn(HostOf[n]) /\ Registered(HostOf[n]) = {}
    /\ entity' = [entity EXCEPT ![n] = "live"]
    /\ \E ip \in Addresses \cup {None} :
          /\ ip_address' = [ip_address EXCEPT ![n] = ip]
          /\ known' = [known EXCEPT ![HostOf[n]] = @ \cup ({ip} \ {None})]
    /\ UNCHANGED <<clock, readOnly, gateVars, running, cut, posts, acted,
                   ansible_host, inventory>>

(* hardware-update-node: a given address replaces the old one.              *)
UpdateNode(n) ==
    /\ Idle
    /\ entity[n] = "live"
    /\ \E a \in Addresses :
          /\ \/ ansible_host' = [ansible_host EXCEPT ![n] = a] /\ UNCHANGED ip_address
             \/ ip_address' = [ip_address EXCEPT ![n] = a] /\ UNCHANGED ansible_host
          /\ known' = [known EXCEPT ![HostOf[n]] = @ \cup {a}]
    /\ UNCHANGED <<clock, readOnly, gateVars, running, cut, posts, acted, entity, inventory>>

(* upsert_from_discovery, for every host that answered: its registered node *)
(* is refreshed, or a new one takes its name.                               *)
Discovered(answering, found, new) ==
    LET seen == {n \in Nodes : /\ HostOf[n] \in answering
                               /\ \/ entity[n] = "live"
                                  \/ Registered(HostOf[n]) = {} /\ n = new[HostOf[n]]}
    IN  /\ \A h \in answering : Registered(h) = {} => new[h] \in Unborn(h)
        /\ entity' = [e \in Entities |-> IF e \in seen THEN "live" ELSE entity[e]]
        /\ ip_address' = [n \in Nodes |->
              IF n \in seen /\ found[HostOf[n]] # None THEN found[HostOf[n]] ELSE ip_address[n]]
        /\ known' = [h \in Hosts |->
              IF h \in answering THEN known[h] \cup ({found[h]} \ {None}) ELSE known[h]]

(* hardware-discover-now, after the awaited ansible run: the hosts that     *)
(* answered, with the address found for each, however old by now.           *)
DiscoverNow ==
    /\ Idle /\ ~ readOnly
    /\ \E answering \in SUBSET Hosts :
       \E found \in [answering -> Addresses \cup {None}], new \in [answering -> Nodes] :
          Discovered(answering, found, new)
    /\ UNCHANGED <<clock, readOnly, gateVars, running, cut, posts, acted,
                   ansible_host, inventory>>

-----------------------------------------------------------------------------
(* The process stops, perhaps between two commits, and starts again.        *)
Restart ==
    /\ readOnly' \in BOOLEAN
    /\ cut' = cut \cup {r \in Requests : running[r] # None}
    /\ running' = [r \in Requests |-> None]
    /\ status' = [r \in Requests |-> Purged(r)]
    /\ UNCHANGED <<clock, kind, subject, expires_at, answered_at, posts, acted,
                   nodeVars, inventory>>

Tick ==
    /\ clock < MaxTime
    /\ clock' = clock + 1
    /\ UNCHANGED <<readOnly, gateVars, running, cut, posts, acted, nodeVars, inventory>>

Ask(r) == RequestDeletion(r) \/ RequestSync(r) \/ RequestAction(r)
Confirm(r) ==
    \/ \E tool \in Deletions : ConfirmDeletion(r, tool)
    \/ ConfirmSync(r) \/ ConfirmAction(r)
Effect(r) ==
    \/ DeleteEntity(r) \/ WriteInventory(r)
    \/ PostAction(r) \/ ActionApplied(r) \/ ActionReturns(r) \/ ActionCancelled(r)

Next ==
    \/ \E r \in Requests : Ask(r) \/ Confirm(r) \/ Effect(r)
    \/ \E s \in Services : AddService(s)
    \/ \E n \in Nodes : AddNode(n) \/ UpdateNode(n)
    \/ DiscoverNow
    \/ Restart
    \/ Tick

Spec == Init /\ [][Next]_vars

-----------------------------------------------------------------------------
(* models/deletion.py:9: "only a matching answer, submitted before the      *)
(* row's short TTL, actually performs the delete"; a Dockhand claim must be *)
(* strictly earlier, although it is checked and made at two readings.       *)
Granted(r) == answered_at[r] # Never
AnsweredInTime ==
    \A r \in Requests :
        Granted(r) => IF kind[r] = "dockhand" THEN answered_at[r] < expires_at[r]
                      ELSE answered_at[r] <= expires_at[r]

(* Nothing happens unconfirmed: an entity is gone only if a human solved    *)
(* the challenge for that very id -- not for an earlier node of the same    *)
(* name that discovery has registered anew since -- and a host is in the    *)
(* inventory only if a sync of a node of its name was confirmed.            *)
OnlyAsConfirmed ==
    /\ \A e \in Entities : entity[e] = "gone" =>
          \E r \in Requests : /\ kind[r] \in Deletions /\ subject[r] = e
                              /\ status[r] = "confirmed"
    /\ \A h \in Hosts : inventory[h] # Unlisted =>
          \E r \in Requests : /\ kind[r] = "inventory" /\ status[r] = "confirmed"
                              /\ HostOf[subject[r]] = h

(* A used-up deletion challenge means its entity is gone, unless the server *)
(* stopped between the two commits: two challenges for one entity, a delete *)
(* through the other tool, or a registration in between, do not use up a    *)
(* human's answer for nothing.                                              *)
ConfirmedMeansGone ==
    \A r \in Requests :
        /\ kind[r] \in Deletions /\ status[r] = "confirmed"
        /\ running[r] = None /\ r \notin cut
        => entity[subject[r]] = "gone"

(* tools/hardware.py:96: a pass must not clobber a configured address with  *)
(* the inventory alias it was reached by.  Whatever registrations, edits,   *)
(* passes, deletions and syncs, the inventory only holds addresses a human  *)
(* or Ansible gave for that very host.                                      *)
InventoryKnown ==
    \A h \in Hosts : inventory[h] \in known[h] \cup {None, Unlisted}

(* docs/ADRs/ADR-023: the row is kept "with its outcome".  A row says       *)
(* executing only while its tool is at work or if the tool was cut short,   *)
(* and executed only if Dockhand has carried the action out.                *)
OutcomeRecorded ==
    \A r \in Requests :
        /\ status[r] = "executing" => running[r] \in {"dockhand", "sent"} \/ r \in cut
        /\ status[r] = "executed" => acted[r] = 1

(* docs/ADRs/ADR-023: "Read-only mode applies", also to challenges asked    *)
(* for before a restart: a process in read-only mode sends Dockhand nothing *)
(* and leaves the inventory alone.                                          *)
ReadOnlyHandsOff == [][readOnly => UNCHANGED <<posts, inventory>>]_vars

-----------------------------------------------------------------------------
(* Every challenge is a one-shot question: one effect at most, after the    *)
(* right answer.                                                            *)
AnswerTo(r) ==
    IF status[r] = "absent" THEN "unasked"
    ELSE IF status[r] = "pending" THEN "open"
    ELSE IF Granted(r) THEN "granted" ELSE "refused"

Question == INSTANCE OneShotQuestion WITH
    Questions <- Requests,
    answer <- [r \in Requests |-> AnswerTo(r)]

OneShot == Question!Spec
=============================================================================
