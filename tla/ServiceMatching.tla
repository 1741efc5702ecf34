---------------------------- MODULE ServiceMatching ----------------------------
(***************************************************************************)
(* How what the sources report becomes services: which row an item is      *)
(* matched to, what it changes there, and when a service is flagged        *)
(* auth_mode_conflict (registry/reconcile.py; registry/store.py:           *)
(* reconcile; the sources in discovery/; discovery/engine.py:              *)
(* _reasoning_for; tools/registry.py and tools/linking.py for the hands of *)
(* the operator).  Provenance counts and staleness: see ServiceRegistry.   *)
(*                                                                         *)
(* A pass asks its source, lets the reasoner think about the items that    *)
(* match nothing -- in a thread, while other passes and tools go on -- and *)
(* then merges all items in one uninterrupted step.                        *)
(***************************************************************************)
EXTENDS Integers, Sequences, SequencesExt

CONSTANTS
    Passes,         \* the scheduled passes and concurrent tool-triggered ones
    Jobs,           \* the scheduled ones
    SourceOf,       \* the source each pass asks
    Routers,        \* Traefik's routers, in the order of its answers
    Apps,           \* Authentik's application slugs, likewise
    Containers,     \* container names, likewise
    NameOf,         \* a router's normalized name
    HostsOf,        \* the hosts of a router, application or container
    Guesses,        \* auth modes the reasoner may infer for a new router
    MaxChanges      \* bound on what the operator and the homelab do

SourceKinds == {"traefik", "authentik", "docker"}
ToSetOf(s) == {s[i] : i \in DOMAIN s}

ASSUME PassAssumption ==
    /\ Jobs \subseteq Passes /\ SourceOf \in [Passes -> SourceKinds]
ASSUME ListAssumption ==
    /\ Routers \in Seq(ToSetOf(Routers)) /\ Apps \in Seq(ToSetOf(Apps))
    /\ Containers \in Seq(ToSetOf(Containers))
    /\ ToSetOf(Routers) \cup ToSetOf(Apps) \cup ToSetOf(Containers) \subseteq DOMAIN HostsOf
ASSUME BoundAssumption == MaxChanges \in Nat

VARIABLES
    chain,      \* the middlewares on a router, "gone" without the router
    provider,   \* the kind of provider of an application, likewise
    running,    \* the containers Traefik is enabled for
    outposts,   \* the names with an outpost sidecar
    rows,       \* the service table, oldest first
    hand,       \* what each pass has in hand
    changes     \* what the bound has been used for

world == <<chain, provider, running, outposts>>
matching == <<world, rows, hand, changes>>

None == ""                  \* a field that is not set
Proxied == {"forward_auth", "oauth2_proxy"}
Modes == {"none", "forward_auth", "oauth2_oidc", "basic", "unknown"} \cup Guesses
Names == {NameOf[r] : r \in ToSetOf(Routers)} \cup ToSetOf(Apps) \cup ToSetOf(Containers)
Hosts == UNION {HostsOf[x] : x \in DOMAIN HostsOf}

ServiceRows == [name: Names, router: ToSetOf(Routers) \cup {None},
         slug: ToSetOf(Apps) \cup {None}, pinned: BOOLEAN, hosts: SUBSET Hosts,
         auth: Modes, traefik: Modes \cup {None}, authentik: Modes \cup {None},
         conflict: BOOLEAN]
Items == [source: SourceKinds, name: Names, router: ToSetOf(Routers) \cup {None},
          slug: ToSetOf(Apps) \cup {None}, hosts: SUBSET Hosts, auth: Modes \cup {None}]
Thoughts == [name: Names \cup {None}, guess: Guesses \cup {None}]

EmptyHanded == [phase |-> "idle"]

(* What a pass may have in hand.                                            *)
Held(p) ==
    \/ p = EmptyHanded
    \/ p.phase = "asked" /\ p.items \in Seq(Items)
    \/ p.phase = "reasoned" /\ p.items \in Seq(Items) /\ p.thoughts \in [DOMAIN p.items -> Thoughts]

MatchingTypeOK ==
    /\ chain \in [ToSetOf(Routers) -> {"gone", "bare", "basic", "forward"}]
    /\ provider \in [ToSetOf(Apps) -> {"gone", "none", "proxy", "oauth2"}]
    /\ running \subseteq ToSetOf(Containers) /\ outposts \subseteq Names
    /\ rows \in Seq(ServiceRows) /\ \A i, j \in DOMAIN rows : rows[i].name = rows[j].name => i = j
    /\ DOMAIN hand = Passes /\ \A t \in Passes : Held(hand[t])
    /\ changes \in 0..MaxChanges

MatchingInit ==
    /\ chain = [r \in ToSetOf(Routers) |-> "bare"]
    /\ provider = [a \in ToSetOf(Apps) |-> "proxy"]
    /\ running = ToSetOf(Containers) /\ outposts = {}
    /\ rows = <<>>
    /\ hand = [t \in Passes |-> EmptyHanded]
    /\ changes = 0

-----------------------------------------------------------------------------
(* What the sources answer                                                 *)

(* The members of S among those listed, in their order.                     *)
Those(listed, S) ==
    LET kept[k \in 0..Len(listed)] ==
            IF k = 0 THEN <<>>
            ELSE IF listed[k] \in S THEN Append(kept[k - 1], listed[k]) ELSE kept[k - 1]
    IN  kept[Len(listed)]

Item(src, n, r, a, h, m) ==
    [source |-> src, name |-> n, router |-> r, slug |-> a, hosts |-> h, auth |-> m]

(* discovery/traefik.py: a router without an auth middleware counts as      *)
(* forward auth when a sidecar of its service does the work.                *)
RouterMode(r, sidecars) ==
    CASE chain[r] = "forward" -> "forward_auth"
      [] chain[r] = "basic" -> "basic"
      [] NameOf[r] \in sidecars -> "forward_auth"
      [] OTHER -> "none"

RouterItems(sidecars) ==
    LET there == Those(Routers, {r \in ToSetOf(Routers) : chain[r] # "gone"})
    IN  [i \in DOMAIN there |->
            Item("traefik", NameOf[there[i]], there[i], None, HostsOf[there[i]],
                 RouterMode(there[i], sidecars))]

(* discovery/authentik.py                                                  *)
AppMode(a) ==
    CASE provider[a] = "proxy" -> "forward_auth"
      [] provider[a] = "oauth2" -> "oauth2_oidc"
      [] OTHER -> "unknown"

AppItems ==
    LET there == Those(Apps, {a \in ToSetOf(Apps) : provider[a] # "gone"})
    IN  [i \in DOMAIN there |->
            Item("authentik", there[i], None, there[i], HostsOf[there[i]], AppMode(there[i]))]

(* discovery/docker.py, discovery/dockhand.py                              *)
ContainerItems ==
    LET there == Those(Containers, running)
    IN  [i \in DOMAIN there |->
            Item("docker", there[i], None, None, HostsOf[there[i]], None)]

(* _outpost_bases is best effort: when Docker cannot be asked, no sidecar   *)
(* is known.                                                                *)
AnswersOf(src) ==
    IF src = "traefik" THEN {RouterItems(outposts), RouterItems({})}
    ELSE IF src = "authentik" THEN {AppItems} ELSE {ContainerItems}

-----------------------------------------------------------------------------
(* registry/reconcile.py                                                   *)

First(hits) == IF hits = {} THEN 0 ELSE CHOOSE i \in hits : \A j \in hits : i <= j

ByName(table, name) == First({i \in DOMAIN table : table[i].name = name})
ByRouter(table, router) ==
    IF router = None THEN 0 ELSE First({i \in DOMAIN table : table[i].router = router})
ByHost(table, hosts) == First({i \in DOMAIN table : table[i].hosts \cap hosts # {}})

(* Slip: the name only counts for an item without a router.                 *)
MatchRouterFirst(table, item) ==
    IF item.router = None /\ ByName(table, item.name) # 0 THEN ByName(table, item.name)
    ELSE IF ByRouter(table, item.router) # 0 THEN ByRouter(table, item.router)
    ELSE ByHost(table, item.hosts)

(* match_service: the name, then the router, then a shared host; 0 if none. *)
Match(table, item) ==
    IF ByName(table, item.name) # 0 THEN ByName(table, item.name)
    ELSE IF ByRouter(table, item.router) # 0 THEN ByRouter(table, item.router)
    ELSE ByHost(table, item.hosts)

Reports(item) == item.auth \notin {None, "unknown"}

(* The flag is judged once a row is linked both ways and both have spoken.  *)
Conflict(old, new) ==
    IF new.router # None /\ new.slug # None /\ new.traefik # None /\ new.authentik # None
    THEN new.traefik = "none" /\ new.authentik \in Proxied ELSE old.conflict

(* Slip: a bare router that does not demote the mode is not recorded either.*)
SeenByAll(row, item) ==
    [by \in {"traefik", "authentik"} |->
        IF item.source = by /\ Reports(item)
           /\ ~ (by = "traefik" /\ item.auth = "none" /\ row.authentik \in Proxied)
        THEN item.auth ELSE row[by]]

(* What each source last said of the row's auth mode.                       *)
SeenBy(row, item) ==
    [by \in {"traefik", "authentik"} |->
        IF item.source = by /\ Reports(item) THEN item.auth ELSE row[by]]

Slug(row, item) ==
    IF item.slug # None /\ ~ row.pinned THEN item.slug ELSE row.slug

(* provenance_updates: a bare router does not demote what Authentik is      *)
(* known to enforce.                                                        *)
Enriched(row, item) ==
    LET demotes == /\ item.source = "traefik" /\ item.auth = "none"
                   /\ row.authentik \in Proxied
        seen == SeenBy(row, item)
        new == [row EXCEPT
                  !.router = IF item.router # None THEN item.router ELSE @,
                  !.slug = Slug(row, item),
                  !.hosts = @ \cup item.hosts,
                  !.auth = IF Reports(item) /\ ~ demotes THEN item.auth ELSE @,
                  !.traefik = seen["traefik"],
                  !.authentik = seen["authentik"]]
    IN  [new EXCEPT !.conflict = Conflict(row, new)]

(* Slip: what the source reported is first recorded by its second report.   *)
NewRowModeless(item, guess) ==
    [name |-> item.name, router |-> item.router, slug |-> item.slug,
     pinned |-> FALSE, hosts |-> item.hosts,
     auth |-> IF guess # None THEN guess
              ELSE IF item.auth # None THEN item.auth ELSE "unknown",
     traefik |-> None, authentik |-> None, conflict |-> FALSE]

(* registry/store.py: reconcile, when nothing matches                      *)
NewRow(item, guess) ==
    [name |-> item.name, router |-> item.router, slug |-> item.slug,
     pinned |-> FALSE, hosts |-> item.hosts,
     auth |-> IF guess # None THEN guess
              ELSE IF item.auth # None THEN item.auth ELSE "unknown",
     traefik |-> IF item.source = "traefik" /\ Reports(item) THEN item.auth ELSE None,
     authentik |-> IF item.source = "authentik" /\ Reports(item) THEN item.auth ELSE None,
     conflict |-> FALSE]

(* What the reasoner said of an item: the name of a service, or a mode.     *)
NoThought == [name |-> None, guess |-> None]

(* Deterministic matching first, then the reasoner's answer -- if a service *)
(* of that name still exists --, then a new row.                            *)
Target(table, item, thought) ==
    LET found == Match(table, item)
    IN  IF found # 0 \/ thought.name = None THEN found
        ELSE ByName(table, thought.name)

MergeOne(table, item, thought) ==
    LET i == Target(table, item, thought)
    IN  IF i = 0 THEN Append(table, NewRow(item, thought.guess))
        ELSE [table EXCEPT ![i] = Enriched(@, item)]

(* The table after each item of an answer.                                  *)
Merged(table, items, thoughts) ==
    LET after[k \in 0..Len(items)] ==
            IF k = 0 THEN table ELSE MergeOne(after[k - 1], items[k], thoughts[k])
    IN  after

Merge(table, items, thoughts) == Merged(table, items, thoughts)[Len(items)]

-----------------------------------------------------------------------------
(* discovery/engine.py                                                     *)

Hold(t, p) == hand' = [hand EXCEPT ![t] = p]

Ask(t) ==
    /\ hand[t] = EmptyHanded
    /\ \E items \in AnswersOf(SourceOf[t]) :
          Hold(t, [phase |-> "asked", items |-> items])
    /\ UNCHANGED <<world, rows, changes>>

(* _reasoning_for: every item without a match is given to the model, which  *)
(* may name any service there is now, or guess a new router's auth mode.    *)
ThoughtsOn(item) ==
    IF Match(rows, item) # 0 THEN {NoThought}
    ELSE {NoThought}
         \cup {[name |-> s.name, guess |-> None] : s \in ToSetOf(rows)}
         \cup {[name |-> None, guess |-> g] :
                  g \in IF item.source = "traefik" THEN Guesses ELSE {}}

Reason(t) ==
    /\ hand[t].phase = "asked"
    /\ LET items == hand[t].items
       IN  \E thoughts \in [DOMAIN items ->
                              UNION {ThoughtsOn(items[i]) : i \in DOMAIN items}] :
              /\ \A i \in DOMAIN items : thoughts[i] \in ThoughtsOn(items[i])
              /\ Hold(t, [phase |-> "reasoned", items |-> items, thoughts |-> thoughts])
    /\ UNCHANGED <<world, rows, changes>>

Apply(t) ==
    /\ hand[t].phase = "reasoned"
    /\ rows' = Merge(rows, hand[t].items, hand[t].thoughts)
    /\ Hold(t, EmptyHanded)
    /\ UNCHANGED <<world, changes>>

(* The source or the reasoner failed, the call was cancelled, or the server *)
(* restarted: nothing was written.                                          *)
Fail(t) ==
    /\ hand[t] # EmptyHanded
    /\ Hold(t, EmptyHanded)
    /\ UNCHANGED <<world, rows, changes>>

-----------------------------------------------------------------------------
(* The operator and the homelab                                            *)

Changing == changes < MaxChanges /\ changes' = changes + 1

SetRow(i, row) == rows' = [rows EXCEPT ![i] = row]

(* service_link_authentik; an empty slug unlinks, and pins that.            *)
LinkAuthentik(i, a) ==
    /\ Changing
    /\ SetRow(i, [rows[i] EXCEPT !.slug = a, !.pinned = TRUE])
    /\ UNCHANGED <<world, hand>>

(* registry_update_service, for the fields matching looks at.               *)
UpdateService(i, r, h) ==
    /\ Changing
    /\ SetRow(i, [rows[i] EXCEPT !.router = r, !.hosts = h])
    /\ UNCHANGED <<world, hand>>

DeleteRow(i) ==
    /\ Changing
    /\ rows' = RemoveAt(rows, i)
    /\ UNCHANGED <<world, hand>>

HomelabChanges ==
    /\ Changing
    /\ \/ /\ \E r \in ToSetOf(Routers), c \in {"gone", "bare", "basic", "forward"} :
                chain' = [chain EXCEPT ![r] = c]
          /\ UNCHANGED <<provider, running, outposts>>
       \/ /\ \E a \in ToSetOf(Apps), p \in {"none", "oauth2", "proxy"} :
                provider' = [provider EXCEPT ![a] = p]
          /\ UNCHANGED <<chain, running, outposts>>
       \/ /\ \E r \in ToSetOf(Routers) : outposts' = outposts \cup {NameOf[r]}
          /\ UNCHANGED <<chain, provider, running>>
       \/ /\ \E c \in running : running' = running \ {c}
          /\ UNCHANGED <<chain, provider, outposts>>
    /\ UNCHANGED <<rows, hand>>

MatchingNext ==
    \/ \E t \in Passes : Ask(t) \/ Reason(t) \/ Apply(t) \/ Fail(t)
    \/ \E i \in DOMAIN rows :
          \/ \E a \in ToSetOf(Apps) \cup {None} : LinkAuthentik(i, a)
          \/ UpdateService(i, None, rows[i].hosts) \/ UpdateService(i, rows[i].router, {})
          \/ DeleteRow(i)
    \/ HomelabChanges

MatchingSpec == MatchingInit /\ [][MatchingNext]_matching

(* A job is started again once its previous pass has ended, and although    *)
(* any pass may fail, the source and the model answer again and again.      *)
MatchingFairness ==
    \A j \in Jobs : WF_matching(Ask(j)) /\ SF_matching(Reason(j)) /\ SF_matching(Apply(j))

MatchingFairSpec == MatchingSpec /\ MatchingFairness

-----------------------------------------------------------------------------

LinkedBothWays(row) ==
    row.router # None /\ row.slug # None /\ row.traefik # None /\ row.authentik # None

(* The items of an answer that change the table when it is merged.          *)
Recorded(table, items, thoughts) ==
    LET after == Merged(table, items, thoughts)
    IN  {k \in DOMAIN items : after[k] # after[k - 1]}

(* The row an item is merged into.                                          *)
RowFor(table, item, thought) ==
    LET i == Target(table, item, thought) IN IF i = 0 THEN Len(table) + 1 ELSE i

(* No two items of an answer share a name, a router, a host or a row.       *)
Apart(table, items, thoughts) ==
    LET after == Merged(table, items, thoughts)
        row(k) == RowFor(after[k - 1], items[k], thoughts[k])
    IN  \A j, k \in DOMAIN items : j # k =>
            /\ items[j].name # items[k].name
            /\ items[j].router # None => items[j].router # items[k].router
            /\ items[j].hosts \cap items[k].hosts = {}
            /\ row(j) # row(k)

(* tests/test_discovery.py:549, test_identical_pass_records_no_changes:     *)
(* "Every Traefik pass used to log [an] event per service and count it as   *)
(* changed, burying real history."  The same answer, merged a second time,  *)
(* records no change -- a mode the reasoner guessed aside, which the first  *)
(* report replaces.                                                         *)
IdenticalPassRecordsNothing ==
    [][\A t \in Passes :
          Apply(t) /\ (\A i \in DOMAIN hand[t].items : hand[t].thoughts[i].guess = None)
            => Recorded(rows', hand[t].items, hand[t].thoughts) = {}]_matching

(* The row i stands for router r and application a, and both are there.     *)
StandsFor(i, r, a) ==
    /\ rows[i].router = r /\ rows[i].slug = a /\ ~ rows[i].pinned
    /\ chain[r] # "gone" /\ NameOf[r] \notin outposts
    /\ provider[a] \in {"proxy", "oauth2"}
    /\ \A item \in ToSetOf(RouterItems({})) \cup ToSetOf(AppItems) :
          item.router = r \/ item.slug = a => Match(rows, item) = i

(* What Proposals takes for granted: once the operator and the homelab have *)
(* come to rest, the flag of a service says whether its router is bare      *)
(* while Authentik has a proxy for it, whatever passes failed or came late. *)
ConflictFollowsHomelab ==
    <>[](\A i \in DOMAIN rows, r \in ToSetOf(Routers), a \in ToSetOf(Apps) :
            StandsFor(i, r, a) =>
                (rows[i].conflict <=> chain[r] = "bare" /\ provider[a] = "proxy"))
=============================================================================
