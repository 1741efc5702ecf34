----------------------------- MODULE Server_proof -----------------------------
(***************************************************************************)
(* Of a server that is started: what the OAuth resource server lets        *)
(* through -- the types of ResourceServer and its three safety invariants  *)
(* -- and, of the environment it is started with, that the configuration   *)
(* report mirrors the gates of the server's parts and that what it lists   *)
(* as doing nothing may be removed.                                        *)
(***************************************************************************)
EXTENDS ResourceServer, Environment, TLAPS

LEMMA Ticks ==
    /\ AgeCap \in Nat /\ CacheTicks <= AgeCap /\ MinRefetch <= AgeCap
    /\ FetchTicks < AgeCap
    /\ \A a \in 0..AgeCap : Older(a) \in 0..AgeCap /\ a <= Older(a)
    /\ \A a, b \in 0..AgeCap : a <= b => Older(a) <= Older(b)
    /\ \A a \in 0..AgeCap, h \in 0..FetchTicks :
          a <= h => Older(a) <= h + 1
BY ClockAssumption DEF AgeCap, Older

LEMMA InitTypeOK == Init => TypeOK
<1> SUFFICES ASSUME Init PROVE TypeOK
  OBVIOUS
<1>1. req \in [Requests -> {Idle}]
  BY DEF Init
<1>2. \A r \in Requests : r # holder /\ req[r].at = "idle"
  BY RequestAssumption DEF Init, Nobody, Idle
<1>3. gone \in [Kids -> 0..AgeCap] /\ age \in Never..AgeCap
  BY Ticks DEF Init, Never
<1>4. held \in 0..FetchTicks
  BY ClockAssumption DEF Init
<1> QED
  BY <1>1, <1>2, <1>3, <1>4 DEF Init, TypeOK

LEMMA StepTypeOK == TypeOK /\ [Next]_vars => TypeOK'
<1> SUFFICES ASSUME TypeOK, [Next]_vars PROVE TypeOK'
  OBVIOUS
<1> USE DEF TypeOK
<1>1. ASSUME NEW c \in Configs, Start(c) PROVE TypeOK'
  <2>1. path' \in {"down", "local", "open", "guarded"}
    BY <1>1 DEF Start, BuildAuth
  <2>2. asked' \in BOOLEAN /\ url' \in BOOLEAN
    BY <1>1, OfferAssumption DEF Start, AuthSettings
  <2> QED
    BY <1>1, <2>1, <2>2, Ticks DEF Start, NothingCached, Never, provider, lock, Quiet
<1>2. CASE Stop
  <2>1. req' \in [Requests -> {Idle}]
    BY <1>2 DEF Stop
  <2>2. \A r \in Requests : r # holder' /\ req'[r].at = "idle"
    BY <1>2, RequestAssumption DEF Stop, Nobody, Idle
  <2>3. age' \in Never..AgeCap /\ held' \in 0..FetchTicks
    BY <1>2, Ticks, ClockAssumption DEF Stop, NothingCached, Never
  <2> QED
    BY <1>2, <2>1, <2>2, <2>3 DEF Stop, NothingCached, provider
<1>3. CASE Tick
  BY <1>3, Ticks, ClockAssumption DEF Tick, start, Never, Quiet
<1>4. ASSUME NEW r \in Requests, NEW t \in Offers, Arrive(r, t) PROVE TypeOK'
  <2>1. said' \in {Quiet} \cup [to: Offers, verdict: Verdicts]
    BY <1>4 DEF Arrive, Become, Verdicts
  <2>2. req[r].at = "idle"
    BY <1>4 DEF Arrive, Idle
  <2>3. req' = req \/ req' = [req EXCEPT ![r] = Waits("waiting", t)]
    BY <1>4 DEF Arrive, Become
  <2> QED
    BY <1>4, <2>1, <2>2, <2>3 DEF Arrive, start, provider, cache, lock, Waits
<1>5. ASSUME NEW r \in Requests, TakeLock(r) PROVE TypeOK'
  <2>1. req[r].at = "waiting" /\ req[r].token \in Offers /\ holder = Nobody
    BY <1>5 DEF TakeLock, Idle
  <2>2. CASE MustFetch(req[r].token)
    BY <1>5, <2>1, <2>2, ClockAssumption, RequestAssumption
       DEF TakeLock, Become, Waits, start, provider, cache, Nobody, Quiet
  <2>3. CASE ~ MustFetch(req[r].token)
    BY <1>5, <2>1, <2>3, RequestAssumption
       DEF TakeLock, Say, Verdict, InGroup, Verdicts, Idle, start, provider, cache,
           lock, Nobody
  <2> QED
    BY <2>2, <2>3
<1>6. ASSUME NEW r \in Requests, Discovered(r) PROVE TypeOK'
  <2>1. req[r].at = "discovering" /\ req[r].token \in Offers
    BY <1>6 DEF Discovered, Idle
  <2> QED
    BY <1>6, <2>1 DEF Discovered, Become, Waits, start, provider, lock, Quiet
<1>7. ASSUME NEW r \in Requests, ProviderAnswers(r) PROVE TypeOK'
  <2>1. req[r].at = "fetching" /\ req[r].token \in Offers
    BY <1>7 DEF ProviderAnswers, Idle
  <2> QED
    BY <1>7, <2>1
       DEF ProviderAnswers, Become, Answered, start, provider, cache, lock, Quiet
<1>8. ASSUME NEW r \in Requests, KeysArrive(r) PROVE TypeOK'
  <2>1. req[r].at = "answered" /\ req[r].token \in Offers /\ req[r].seen \subseteq Kids
    BY <1>8 DEF KeysArrive, Idle
  <2>2. age' \in Never..AgeCap
    BY <1>8, Ticks, ClockAssumption DEF KeysArrive, Store, Never
  <2> QED
    BY <1>8, <2>1, <2>2, ClockAssumption, RequestAssumption
       DEF KeysArrive, Store, Say, Verdict, InGroup, Verdicts, Idle, Release, Nobody,
           start, provider
<1>9. ASSUME NEW r \in Requests, FetchFails(r) PROVE TypeOK'
  <2>1. req[r].token \in Offers
    BY <1>9 DEF FetchFails, Idle
  <2> QED
    BY <1>9, <2>1, ClockAssumption, RequestAssumption
       DEF FetchFails, Say, Verdicts, Idle, Release, Nobody, start, provider, cache
<1>10. ASSUME NEW r \in Requests, Abandon(r) PROVE TypeOK'
  BY <1>10, ClockAssumption, RequestAssumption
     DEF Abandon, Become, Idle, Release, Nobody, start, provider, cache, lock, Quiet
<1>11. ASSUME NEW k \in Kids, Publish(k) \/ Withdraw(k) PROVE TypeOK'
  BY <1>11, Ticks DEF Publish, Withdraw, start, cache, lock, Quiet
<1>12. CASE UNCHANGED vars
  BY <1>12 DEF vars, start, provider, cache, lock
<1> QED
  BY <1>1, <1>2, <1>3, <1>4, <1>5, <1>6, <1>7, <1>8, <1>9, <1>10, <1>11, <1>12
     DEF Next, FetchStep

(* auth/verifier.py: the lock is held exactly by the request that fetches,  *)
(* and every variable keeps to its values.                                  *)
THEOREM TypeCorrect == Spec => []TypeOK
BY InitTypeOK, StepTypeOK, PTL DEF Spec

-----------------------------------------------------------------------------
(* An open path is one that was asked for, whatever happens to the process. *)
Guarded == asked => path # "open"

(* How long a key has been withdrawn, against how old the news is that it   *)
(* is there: the news counts from before the provider was asked.            *)
FreshInv ==
    /\ \A k \in published : gone[k] = 0
    /\ \A k \in keys : gone[k] <= age
    /\ \A r \in Requests : req[r].at = "answered" => \A k \in req[r].seen : gone[k] <= held

Judged == OnlyMembersServed /\ WithdrawnKeyExpires /\ UnknownOnlyWhenJustFetched

IInv == Guarded /\ FreshInv /\ Judged

LEMMA InitIInv == Init => IInv
BY DEF Init, IInv, Guarded, FreshInv, Judged, OnlyMembersServed, WithdrawnKeyExpires,
       UnknownOnlyWhenJustFetched, Saying, Quiet, Idle

(* A step that answers nobody breaks no promise about answers.              *)
LEMMA SayingNothing == said' = Quiet => Judged'
BY DEF Judged, OnlyMembersServed, WithdrawnKeyExpires, UnknownOnlyWhenJustFetched,
       Saying, Quiet

(* verify_token: a verdict over a key set that is fresh enough is a right   *)
(* one.                                                                     *)
LEMMA RightVerdict ==
    ASSUME NEW t \in Offers, NEW known \in SUBSET Kids,
           TypeOK', said' = [to |-> t, verdict |-> Verdict(t, known)],
           \A k \in known : t.kid = k => gone'[k] < CacheTicks,
           t.kid \notin known => age' < MinRefetch
    PROVE  Judged'
<1>1. OnlyMembersServed'
  BY DEF OnlyMembersServed, Saying, Verdict, InGroup
<1>2. WithdrawnKeyExpires'
  BY DEF WithdrawnKeyExpires, Verdict, InGroup
<1>3. UnknownOnlyWhenJustFetched'
  BY DEF UnknownOnlyWhenJustFetched, Saying, Verdict, InGroup
<1> QED
  BY <1>1, <1>2, <1>3 DEF Judged

LEMMA StepIInv == TypeOK /\ TypeOK' /\ IInv /\ [Next]_vars => IInv'
<1> SUFFICES ASSUME TypeOK, TypeOK', IInv, [Next]_vars PROVE IInv'
  OBVIOUS
<1> USE DEF IInv
<1>1. ASSUME NEW c \in Configs, Start(c) PROVE IInv'
  <2>1. Guarded'
    BY <1>1 DEF Start, BuildAuth, Guarded
  <2>2. FreshInv'
    BY <1>1 DEF Start, NothingCached, FreshInv, provider, lock
  <2>3. Judged'
    BY <1>1, SayingNothing DEF Start
  <2> QED
    BY <2>1, <2>2, <2>3
<1>2. CASE Stop
  <2>1. Guarded' /\ FreshInv'
    BY <1>2 DEF Stop, NothingCached, Guarded, FreshInv, provider, Idle
  <2>2. Judged'
    BY <1>2, SayingNothing DEF Stop
  <2> QED
    BY <2>1, <2>2
<1>3. CASE Tick
  <2>1. \A k \in published' : gone'[k] = 0
    BY <1>3 DEF Tick, TypeOK
  <2>2. \A k \in Kids : gone'[k] = 0 \/ gone'[k] = Older(gone[k])
    BY <1>3 DEF Tick
  <2>3. \A k \in keys' : gone'[k] <= age'
    <3> TAKE k \in keys'
    <3>1. k \in keys /\ k \in Kids /\ gone[k] <= age /\ gone[k] \in 0..AgeCap
      BY <1>3 DEF Tick, FreshInv, TypeOK
    <3>2. age \in 0..AgeCap /\ age' = Older(age)
      BY <1>3, <3>1, Ticks DEF Tick, TypeOK, Never
    <3> QED
      BY <2>2, <3>1, <3>2, Ticks
  <2>4. ASSUME NEW r \in Requests, req'[r].at = "answered", NEW k \in req'[r].seen
        PROVE  gone'[k] <= held'
    <3>1. req[r].at = "answered" /\ k \in req[r].seen /\ gone[k] <= held
      BY <1>3, <2>4 DEF Tick, FreshInv
    <3>2. holder # Nobody /\ k \in Kids
      BY <3>1, RequestAssumption DEF TypeOK, Nobody, Idle
    <3>3. held' = held + 1 /\ held \in 0..FetchTicks /\ gone[k] \in 0..AgeCap
      BY <1>3, <3>2 DEF Tick, TypeOK
    <3> QED
      BY <2>2, <3>1, <3>2, <3>3, Ticks, ClockAssumption
  <2>5. Judged' /\ Guarded'
    BY <1>3, SayingNothing DEF Tick, Guarded, start
  <2> QED
    BY <2>1, <2>3, <2>4, <2>5 DEF FreshInv
<1>4. ASSUME NEW r \in Requests, NEW t \in Offers, Arrive(r, t) PROVE IInv'
  <2>1. Guarded'
    BY <1>4 DEF Arrive, Guarded, start
  <2>2. req' = req \/ req' = [req EXCEPT ![r] = Waits("waiting", t)]
    BY <1>4 DEF Arrive, Become
  <2>3. FreshInv'
    BY <1>4, <2>2 DEF Arrive, FreshInv, provider, cache, lock, Waits, TypeOK
  <2>4. CASE path = "open"
    BY <1>4, <2>1, <2>3, <2>4
       DEF Arrive, Judged, OnlyMembersServed, WithdrawnKeyExpires,
           UnknownOnlyWhenJustFetched, Saying, start, Guarded
  <2>5. CASE path = "guarded" /\ t.alg \notin Asymmetric
    BY <1>4, <2>1, <2>3, <2>5
       DEF Arrive, Judged, OnlyMembersServed, WithdrawnKeyExpires,
           UnknownOnlyWhenJustFetched, Saying
  <2>6. CASE path = "guarded" /\ t.alg \in Asymmetric
    BY <1>4, <2>1, <2>3, <2>6, SayingNothing DEF Arrive, Become
  <2> QED
    BY <1>4, <2>1, <2>3, <2>4, <2>5, <2>6 DEF Arrive
<1>5. ASSUME NEW r \in Requests, TakeLock(r) PROVE IInv'
  <2>1. req[r].at = "waiting" /\ req[r].token \in Offers /\ holder = Nobody
    BY <1>5 DEF TakeLock, Idle, TypeOK
  <2>2. Guarded'
    BY <1>5 DEF TakeLock, Guarded, start
  <2>3. req'[r].at # "answered" /\ \A q \in Requests : q # r => req'[q] = req[q]
    BY <1>5 DEF TakeLock, Become, Say, Waits, Idle, TypeOK
  <2>4. \A q \in Requests : req'[q].at # "answered"
    BY <2>1, <2>3, RequestAssumption DEF TypeOK, Nobody
  <2>5. FreshInv'
    BY <1>5, <2>4 DEF TakeLock, FreshInv, provider, cache
  <2>6. CASE MustFetch(req[r].token)
    BY <1>5, <2>6, <2>2, <2>5, SayingNothing DEF TakeLock, Become
  <2>7. CASE ~ MustFetch(req[r].token)
    <3> DEFINE t == req[r].token
    <3>1. said' = [to |-> t, verdict |-> Verdict(t, keys)]
      BY <1>5, <2>7 DEF TakeLock, Say
    <3>2. \A k \in keys : gone'[k] < CacheTicks
      BY <1>5, <2>7, ClockAssumption, Ticks
         DEF TakeLock, MustFetch, FreshInv, provider, cache, TypeOK, Never
    <3>3. t.kid \notin keys => age' < MinRefetch
      BY <1>5, <2>7, ClockAssumption, Ticks
         DEF TakeLock, MustFetch, cache, TypeOK, Never
    <3>4. keys \in SUBSET Kids
      BY DEF TypeOK
    <3>5. Judged'
      BY <2>1, <3>1, <3>2, <3>3, <3>4, RightVerdict
    <3> QED
      BY <2>2, <2>5, <3>5
  <2> QED
    BY <2>6, <2>7
<1>6. ASSUME NEW r \in Requests, Discovered(r) PROVE IInv'
  <2>1. Guarded' /\ Judged'
    BY <1>6, SayingNothing DEF Discovered, Become, Guarded, start
  <2>2. FreshInv'
    BY <1>6 DEF Discovered, Become, Waits, FreshInv, provider, lock, TypeOK
  <2> QED
    BY <2>1, <2>2
<1>7. ASSUME NEW r \in Requests, ProviderAnswers(r) PROVE IInv'
  <2>1. Guarded' /\ Judged'
    BY <1>7, SayingNothing DEF ProviderAnswers, Become, Guarded, start
  <2>2. FreshInv'
    BY <1>7
       DEF ProviderAnswers, Become, Answered, FreshInv, provider, cache, lock, TypeOK
  <2> QED
    BY <2>1, <2>2
<1>8. ASSUME NEW r \in Requests, KeysArrive(r) PROVE IInv'
  <2> DEFINE t == req[r].token
             seen == req[r].seen
  <2>1. r = holder /\ t \in Offers /\ seen \in SUBSET Kids
    BY <1>8 DEF KeysArrive, TypeOK, Idle
  <2>2. \A k \in seen : gone'[k] <= held /\ gone'[k] \in Nat
    BY <1>8, <2>1, Ticks DEF KeysArrive, FreshInv, provider, TypeOK
  <2>3. Guarded'
    BY <1>8 DEF KeysArrive, Guarded, start
  <2>4. \A q \in Requests : req'[q].at # "answered"
    BY <1>8, <2>1 DEF KeysArrive, Say, Idle, TypeOK
  <2>5. FreshInv'
    BY <1>8, <2>2, <2>4 DEF KeysArrive, Store, FreshInv, provider
  <2>6. said' = [to |-> t, verdict |-> Verdict(t, seen)]
    BY <1>8 DEF KeysArrive, Say
  <2>7. age' < MinRefetch /\ \A k \in seen : gone'[k] < CacheTicks
    BY <1>8, <2>2, ClockAssumption DEF KeysArrive, Store, TypeOK
  <2>8. Judged'
    BY <2>1, <2>6, <2>7, RightVerdict
  <2> QED
    BY <2>3, <2>5, <2>8
<1>9. ASSUME NEW r \in Requests, FetchFails(r) PROVE IInv'
  <2>1. \A q \in Requests : req'[q].at # "answered"
    BY <1>9 DEF FetchFails, Say, Idle, TypeOK
  <2>2. Guarded' /\ FreshInv'
    BY <1>9, <2>1 DEF FetchFails, Guarded, FreshInv, start, provider, cache
  <2>3. Judged'
    BY <1>9
       DEF FetchFails, Say, Judged, OnlyMembersServed, WithdrawnKeyExpires,
           UnknownOnlyWhenJustFetched, Saying
  <2> QED
    BY <2>2, <2>3
<1>10. ASSUME NEW r \in Requests, Abandon(r) PROVE IInv'
  <2>1. Guarded' /\ Judged'
    BY <1>10, SayingNothing DEF Abandon, Become, Guarded, start
  <2>2. \A q \in Requests : req'[q].at = "answered" => q # r /\ req'[q] = req[q]
    BY <1>10 DEF Abandon, Become, Idle, TypeOK
  <2>3. CASE holder = r
    <3>1. \A q \in Requests : req'[q].at # "answered"
      BY <2>2, <2>3 DEF TypeOK
    <3> QED
      BY <1>10, <2>1, <3>1 DEF Abandon, FreshInv, provider, cache
  <2>4. CASE holder # r
    BY <1>10, <2>1, <2>2, <2>4 DEF Abandon, FreshInv, provider, cache, lock
  <2> QED
    BY <2>3, <2>4
<1>11. ASSUME NEW k \in Kids, Publish(k) \/ Withdraw(k) PROVE IInv'
  <2>1. Guarded' /\ Judged'
    BY <1>11, SayingNothing DEF Publish, Withdraw, Guarded, start
  <2>2. FreshInv'
    <3>1. CASE Withdraw(k)
      BY <3>1 DEF Withdraw, FreshInv, cache, lock
    <3>2. CASE Publish(k)
      <4>1. \A j \in Kids : gone'[j] = 0 \/ gone'[j] = gone[j]
        BY <3>2 DEF Publish, TypeOK
      <4>2. \A j \in published' : gone'[j] = 0
        BY <3>2 DEF Publish, FreshInv, TypeOK
      <4>3. \A j \in keys' : gone'[j] <= age'
        BY <3>2, <4>1, Ticks DEF Publish, FreshInv, TypeOK, cache, Never
      <4>4. ASSUME NEW r \in Requests, req'[r].at = "answered", NEW j \in req'[r].seen
            PROVE  gone'[j] <= held'
        <5>1. j \in Kids /\ gone[j] <= held /\ held' = held /\ held \in Nat
          BY <3>2, <4>4, ClockAssumption DEF Publish, FreshInv, TypeOK, lock, Idle
        <5> QED
          BY <4>1, <5>1
      <4> QED
        BY <4>2, <4>3, <4>4 DEF FreshInv
    <3> QED
      BY <1>11, <3>1, <3>2
  <2> QED
    BY <2>1, <2>2
<1>12. CASE UNCHANGED vars
  BY <1>12
     DEF vars, start, provider, cache, lock, Guarded, FreshInv, Judged,
         OnlyMembersServed, WithdrawnKeyExpires, UnknownOnlyWhenJustFetched, Saying
<1> QED
  BY <1>1, <1>2, <1>3, <1>4, <1>5, <1>6, <1>7, <1>8, <1>9, <1>10, <1>11, <1>12
     DEF Next, FetchStep

LEMMA Invariant == Spec => []IInv
BY TypeCorrect, InitIInv, StepIInv, PTL DEF Spec

(* auth/setup.py:3, "fails closed", and auth/verifier.py: with OAuth        *)
(* switched on, only members with a token of the provider's are served.     *)
THEOREM MembersOnly == Spec => []OnlyMembersServed
BY Invariant, PTL DEF IInv, Judged

(* auth/verifier.py:18: the key set is cached for the configured time; a    *)
(* key that was withdrawn longer ago is not accepted.                       *)
THEOREM WithdrawnExpires == Spec => []WithdrawnKeyExpires
BY Invariant, PTL DEF IInv, Judged

(* auth/verifier.py:18: a key the provider has is called unknown only       *)
(* within _MIN_REFETCH_SECONDS of a successful fetch.                       *)
THEOREM UnknownIsNews == Spec => []UnknownOnlyWhenJustFetched
BY Invariant, PTL DEF IInv, Judged

-----------------------------------------------------------------------------
(* The configuration report, in every environment.                           *)

(* A row of either of its two tables is a row of the report's.              *)
LEMMA Rows ==
    /\ \A f \in DOMAIN UpstreamFeature : Feature[f] = UpstreamFeature[f]
    /\ \A f \in DOMAIN ServerFeature : Feature[f] = ServerFeature[f]
<1>1. DOMAIN UpstreamFeature \cap DOMAIN ServerFeature = {}
  BY DEF UpstreamFeature, ServerFeature
<1> QED
  BY <1>1 DEF Feature, Both

(* The same of the two tables of the server's parts.                        *)
LEMMA Gates ==
    /\ \A p \in DOMAIN ReadPart : p \in DOMAIN Part /\ Part[p] = ReadPart[p]
    /\ \A p \in DOMAIN WritePart : p \in DOMAIN Part /\ Part[p] = WritePart[p]
<1>1. DOMAIN ReadPart \cap DOMAIN WritePart = {}
  BY DEF ReadPart, WritePart
<1> QED
  BY <1>1 DEF Part, Both

(* The rows of the report's table (config_report.py, _FEATURES), one by     *)
(* one.                                                                     *)
LEMMA UpstreamRows ==
    /\ Feature["traefik"] = Row({"traefik_api_url"}, {}, {"traefik_tuning"})
    /\ Feature["authentik"] =
          Row({"authentik_api_url", "authentik_token"},
          Each({"authentik_api_url", "authentik_token"}), {"authentik_tuning"})
    /\ Feature["dockhand"] =
          Row({"dockhand_api_url", "dockhand_token"}, Each({"dockhand_api_url",
          "dockhand_token"}), {"dockhand_tuning"})
    /\ Feature["dockhand_actions"] =
          Row({"dockhand_allow_write"}, Each({"dockhand_api_url",
          "dockhand_token"}), {"dockhand_action_tuning"})
    /\ Feature["docker"] = Row({"docker_base_url"}, {}, {"docker_tuning"})
    /\ Feature["docs"] =
          Row({"docs_mcp_url", "docs_mcp_token"}, Each({"docs_mcp_url",
          "docs_mcp_token"}), {"docs_tuning"})
    /\ Feature["dozzle"] =
          Row({"dozzle_mcp_url", "dozzle_mcp_token"}, Each({"dozzle_mcp_url"}),
          {"dozzle_mcp_token", "dozzle_tuning"})
    /\ Feature["reasoning"] =
          Row({"dspy_enabled"}, {}, {"dspy_model", "dspy_api_key", "dspy_tuning"})
    /\ Feature["git"] = Row(Git, Each(Git), {"git_provider", "git_tuning"})
    /\ Feature["ntfy"] =
          Row({}, Each({"notification_url"}), {"notification_topic",
          "notification_token"})
    /\ Feature["smtp"] = Row({}, Each(Mail), {"notification_smtp_tuning"})
BY Rows DEF UpstreamFeature

LEMMA ServerRows ==
    /\ Feature["auto_create"] =
          Row({"proposal_auto_create"}, Each(Git \cup {"dspy_enabled"}), {})
    /\ Feature["comment_poll"] =
          Row({"proposal_comment_poll_enabled"}, Each(Git \cup {"dspy_enabled",
          "proposal_comment_allowed_users"}), {"comment_poll_interval"})
    /\ Feature["normalization"] =
          Row({"normalization_enabled"}, Each(Git), {"normalization_schedule",
          "normalization_tuning", "normalization_shared_networks"})
    /\ Feature["adoption"] =
          Row({"adoption_enabled"}, Each(Git \cup {"secrets_repo_path",
          "ssh_key_path", "dspy_enabled"}) \cup {GitCryptKey},
          {"ssh_default_user", "adoption_draft_ttl"})
    /\ Feature["intake"] =
          Row({"service_deploy_enabled"}, {}, {"service_deploy_tuning"})
    /\ Feature["compose"] =
          Row({"service_deploy_enabled"}, Each({"dspy_enabled"}),
          {"service_deploy_conventions_path", "normalization_shared_networks"})
    /\ Feature["git_crypt"] =
          Row({"secrets_repo_path"}, {GitCryptKey}, {"secrets_allow_decrypt"})
BY Rows DEF ServerFeature

LEMMA MoreServerRows ==
    /\ Feature["infisical"] =
          Row({"infisical_enabled"}, Each({"infisical_account"}),
          {"infisical_tuning"})
    /\ Feature["dockhand_webhook"] =
          Row({"dockhand_webhook_enabled"}, Each(Git \cup
          {"dockhand_webhook_secret"}), {"dockhand_webhook_tuning"})
    /\ Feature["patchmon_webhook"] =
          Row({"patchmon_webhook_enabled"}, Each(Mail \cup
          {"patchmon_webhook_secret", "patchmon_approval_base_url",
          "patchmon_ansible_playbook", "ansible_cfg_path", "ssh_key_path"}),
          {"patchmon_webhook_tuning", "ssh_default_user"})
    /\ Feature["patchmon_api"] =
          Row({"patchmon_api_url"}, Each({"patchmon_api_key"}),
          {"patchmon_api_timeout"})
    /\ Feature["hardware"] =
          Row({"ansible_cfg_path", "ssh_key_path"}, Each({"ansible_cfg_path",
          "ssh_key_path"}), {"ssh_default_user"})
    /\ Feature["oauth"] =
          Row({"mcp_auth_enabled"}, Each({"mcp_auth_provider"}),
          {"mcp_auth_tuning"})
    /\ Feature["inventory"] =
          Row({"ansible_inventory_path"}, {}, {"inventory_ttl"})
BY Rows DEF ServerFeature

(* The rows of the server's table, one by one: the gate of each part and    *)
(* what it reads.                                                           *)
ReadTable ==
    /\ Part["health"] =
          Runs(TRUE, {"secrets_repo_path", "ansible_cfg_path", "ssh_key_path"})
    /\ Part["traefik"] =
          Runs(Has("traefik_api_url"), {"traefik_api_url", "traefik_tuning"})
    /\ Part["authentik"] =
          Runs(AsksAuthentik, {"authentik_api_url", "authentik_token",
          "authentik_tuning"})
    /\ Part["dockhand"] =
          Runs(AsksDockhand, {"dockhand_api_url", "dockhand_token",
          "dockhand_tuning"})
    /\ Part["docker"] =
          Runs(Has("docker_base_url"), {"docker_base_url", "docker_tuning"})
    /\ Part["docs"] =
          Runs(AsksDocs, {"docs_mcp_url", "docs_mcp_token", "docs_tuning"})
    /\ Part["dozzle"] =
          Runs(Has("dozzle_mcp_url"), {"dozzle_mcp_url", "dozzle_mcp_token",
          "dozzle_tuning"})
    /\ Part["reasoning"] =
          Runs(ModelAnswers, {"dspy_model", "dspy_api_key", "dspy_tuning"})
    /\ Part["infisical"] =
          Runs(AsksInfisical, {"infisical_account", "infisical_tuning"})
    /\ Part["patchmon_api"] =
          Runs(AsksPatchMon, {"patchmon_api_url", "patchmon_api_key",
          "patchmon_api_timeout"})
    /\ Part["hardware"] =
          Runs(DiscoversHosts, {"ansible_cfg_path", "ssh_key_path",
          "ssh_default_user"})

LEMMA ReadGates == ReadTable
BY Gates DEF ReadTable, ReadPart

WriteTable ==
    /\ Part["pull_requests"] =
          Runs(GitBuilt, Git \cup {"git_provider", "git_tuning"})
    /\ Part["git"] = Runs(Writes, Git \cup {"git_provider", "git_tuning"})
    /\ Part["ntfy"] =
          Runs(Pushes, {"notification_url", "notification_topic",
          "notification_token"})
    /\ Part["smtp"] = Runs(Mails, Mail \cup {"notification_smtp_tuning"})
    /\ Part["auto_create"] = Runs(AutoCreates, {})
    /\ Part["comment_poll"] =
          Runs(Polls, {"proposal_comment_allowed_users",
          "comment_poll_interval"})
    /\ Part["normalization"] = Runs(Sweeps, {"normalization_schedule"})
    /\ Part["proposal_normalize"] = Runs(Writes, ReadBySweeps)
    /\ Part["adoption_draft"] =
          Runs(DraftsAdoption, {"ssh_key_path", "ssh_default_user",
          "adoption_draft_ttl"})
    /\ Part["adoption"] = Runs(Adopts, {"secrets_repo_path"} \cup GitCryptKey)

LEMMA WriteGates == WriteTable
BY Gates DEF WriteTable, WritePart

MoreWriteTable ==
    /\ Part["intake"] = Runs(TakesIn, {"service_deploy_tuning"})
    /\ Part["compose"] =
          Runs(Composes, {"service_deploy_conventions_path",
          "normalization_shared_networks"})
    /\ Part["git_crypt"] =
          Runs(OpensSecrets, {"secrets_repo_path", "secrets_allow_decrypt"}
          \cup GitCryptKey)
    /\ Part["dockhand_actions"] =
          Runs(ActsOnDockhand, {"dockhand_action_tuning"})
    /\ Part["dockhand_route"] =
          Runs(DockhandRoute, {"dockhand_webhook_secret",
          "dockhand_webhook_tuning"})
    /\ Part["dockhand_webhook"] = Runs(HandlesAlerts, {})
    /\ Part["patchmon_routes"] =
          Runs(ServesPatchmon, {"patchmon_webhook_secret",
          "patchmon_approval_base_url", "patchmon_webhook_tuning"})
    /\ Part["patchmon_webhook"] =
          Runs(RunsPatches, {"patchmon_ansible_playbook", "ssh_default_user"})
    /\ Part["oauth"] =
          Runs(ChecksTokens, {"mcp_auth_provider", "mcp_auth_tuning"})
    /\ Part["inventory"] =
          Runs(SyncsInventory, {"ansible_inventory_path", "inventory_ttl"})

LEMMA MoreWriteGates == MoreWriteTable
BY Gates DEF MoreWriteTable, WritePart

(* They are its rows in every state, and so in the next one.                *)
LEMMA TablesHold == [](ReadTable /\ WriteTable /\ MoreWriteTable)
<1>1. ReadTable /\ WriteTable /\ MoreWriteTable
  BY ReadGates, WriteGates, MoreWriteGates
<1> QED
  BY <1>1, PTL

LEMMA PartNames ==
    DOMAIN Part =
        {"health", "traefik", "authentik", "dockhand", "docker", "docs",
         "dozzle", "reasoning", "infisical", "patchmon_api", "hardware",
         "pull_requests", "git", "ntfy", "smtp", "auto_create", "comment_poll",
         "normalization", "proposal_normalize", "adoption_draft", "adoption",
         "intake", "compose", "git_crypt", "dockhand_actions",
         "dockhand_route", "dockhand_webhook", "patchmon_routes",
         "patchmon_webhook", "oauth", "inventory"}
BY DEF Part, Both, ReadPart, WritePart

(* The fields of a row.                                                     *)
LEMMA RowParts ==
    \A switch, needs, uses :
        /\ Row(switch, needs, uses).switch = switch
        /\ Row(switch, needs, uses).needs = needs
        /\ Row(switch, needs, uses).uses = uses
BY DEF Row

LEMMA RunsParts ==
    \A gate, reads : /\ Runs(gate, reads).gate <=> gate
                     /\ Runs(gate, reads).reads = reads
BY DEF Runs

(* A part works exactly if the server starts and the part's gate is open.   *)
LEMMA AtWork ==
    \A p : p \in Working <=> ~ RefusesToStart /\ p \in DOMAIN Part /\ Part[p].gate
<1> DEFINE atWork == {p \in DOMAIN Part : Part[p].gate}
           has(p) == {<<p, s, Read(s)>> : s \in Part[p].reads}
           runs(p) == <<p, "runs", None>>
<1>1. Server = IF RefusesToStart THEN {}
               ELSE {runs(p) : p \in atWork} \cup UNION {has(p) : p \in atWork}
  BY Zenon DEF Server, Part
<1>2. \A p : \A item \in has(p) : item[1] = p
  OBVIOUS
<1>3. \A p : runs(p)[1] = p /\ runs(p)[2] = "runs"
  OBVIOUS
<1>4. Working = {item[1] : item \in {x \in Server : x[2] = "runs"}}
  BY DEF Working
<1> HIDE DEF atWork, has, runs
<1>5. ASSUME NEW item \in Server PROVE ~ RefusesToStart /\ item[1] \in atWork
  BY <1>1, <1>2, <1>3, <1>5
<1>6. ASSUME NEW p \in atWork, ~ RefusesToStart PROVE p \in Working
  <2>1. runs(p) \in Server
    BY <1>1, <1>6
  <2> QED
    BY <2>1, <1>3, <1>4
<1>7. ASSUME NEW p \in Working PROVE ~ RefusesToStart /\ p \in atWork
  BY <1>4, <1>5
<1> QED
  BY <1>6, <1>7 DEF atWork

(* What a feature's needs amount to: for needs of one setting each, that    *)
(* all of the settings are set.                                             *)
LEMMA NothingMissing ==
    \A f : Missing(f) = {} <=> \A need \in Feature[f].needs : \E s \in need : Has(s)
BY DEF Missing

LEMMA EachIsAll ==
    ASSUME NEW settings
    PROVE  (\A need \in Each(settings) : \E s \in need : Has(s))
              <=> \A s \in settings : Has(s)
<1>1. ASSUME NEW s \in settings, \A need \in Each(settings) : \E t \in need : Has(t)
      PROVE  Has(s)
  <2>1. {s} \in Each(settings)
    BY DEF Each
  <2> QED
    BY <1>1, <2>1
<1>2. ASSUME NEW need \in Each(settings), \A s \in settings : Has(s)
      PROVE  \E s \in need : Has(s)
  BY <1>2 DEF Each
<1> QED
  BY <1>1, <1>2

LEMMA Lacks ==
    ASSUME NEW f, NEW settings, Feature[f].needs = Each(settings)
    PROVE  Missing(f) = {} <=> \A s \in settings : Has(s)
BY NothingMissing, EachIsAll

(* What the report does not look at, and MirrorsTheGates grants.            *)
InSight ==
    /\ Healthy /\ Value("git_provider") # "gitlab"
    /\ Value("mcp_transport") = "streamable-http" /\ ~RefusesToStart

Mirrors(f) ==
    On(f) => /\ Listed(f) => f \notin Working
             /\ InSight /\ ~Listed(f) /\ ~(f = "reasoning" /\ UnseenKey)
                => f \in Working

(* Settings refuses a value that its field does not take (config.py).       *)
Allowed == \A s \in Set : env[s] \in ValuesOf[s]

LEMMA ModelNames ==
    /\ "dspy_model" \in Settings
    /\ Default["dspy_model"] = "anthropic"
    /\ ValuesOf["dspy_model"] = {"anthropic", "other", "keyless", Empty}
BY DEF Settings, Default, ValuesOf, Flags, Numbers, Texts, Choices, Lists

(* A model without a name is one the report lists.                          *)
LEMMA Models ==
    ASSUME Allowed
    PROVE  /\ Value("dspy_model") \in {"anthropic", "other", "keyless", Empty}
           /\ "dspy_model" \in Replaced <=> Value("dspy_model") = Empty
<1>1. CASE "dspy_model" \in DOMAIN env
  <2>1. "dspy_model" \in Set /\ Value("dspy_model") = env["dspy_model"]
    BY <1>1, ModelNames DEF Set, Value
  <2> QED
    BY <2>1, ModelNames DEF Allowed, Replaced, None, Empty
<1>2. CASE "dspy_model" \notin DOMAIN env
  BY <1>2, ModelNames DEF Replaced, Set, Value, Empty
<1> QED
  BY <1>1, <1>2

(* One feature at a time: what the report says of it, when its part works,  *)
(* and that the one is the contrary of the other.                           *)
LEMMA AllMirrored ==
    ASSUME Allowed
    PROVE  \A f \in Features : Mirrors(f)
<1>1. Mirrors("traefik")
  <2>1. ~ Listed("traefik")
    BY UpstreamRows, RowParts, NothingMissing DEF Listed, Warned
  <2>2. "traefik" \in Working <=> ~ RefusesToStart /\ Has("traefik_api_url")
    BY ReadGates, PartNames, RunsParts, AtWork DEF ReadTable
  <2> QED
    BY <2>1, <2>2, UpstreamRows, RowParts
       DEF Mirrors, On, InSight
<1>2. Mirrors("authentik")
  <2>1. Listed("authentik") <=> \E s \in {"authentik_api_url",
        "authentik_token"} : ~ Has(s)
    BY UpstreamRows, RowParts, Lacks DEF Listed, Warned
  <2>2. "authentik" \in Working <=> ~ RefusesToStart /\ AsksAuthentik
    BY ReadGates, PartNames, RunsParts, AtWork DEF ReadTable
  <2> QED
    BY <2>1, <2>2, UpstreamRows, RowParts
       DEF Mirrors, On, InSight, AsksAuthentik
<1>3. Mirrors("dockhand")
  <2>1. Listed("dockhand") <=> \E s \in {"dockhand_api_url", "dockhand_token"}
        : ~ Has(s)
    BY UpstreamRows, RowParts, Lacks DEF Listed, Warned
  <2>2. "dockhand" \in Working <=> ~ RefusesToStart /\ AsksDockhand
    BY ReadGates, PartNames, RunsParts, AtWork DEF ReadTable
  <2> QED
    BY <2>1, <2>2, UpstreamRows, RowParts
       DEF Mirrors, On, InSight, AsksDockhand
<1>4. Mirrors("dockhand_actions")
  <2>1. Listed("dockhand_actions") <=> \E s \in {"dockhand_api_url",
        "dockhand_token"} : ~ Has(s)
    BY UpstreamRows, RowParts, Lacks DEF Listed, Warned
  <2>2. "dockhand_actions" \in Working <=> ~ RefusesToStart /\ ActsOnDockhand
    BY MoreWriteGates, PartNames, RunsParts, AtWork DEF MoreWriteTable
  <2> QED
    BY <2>1, <2>2, UpstreamRows, RowParts
       DEF Mirrors, On, InSight, ActsOnDockhand, AsksDockhand
<1>5. Mirrors("docker")
  <2>1. ~ Listed("docker")
    BY UpstreamRows, RowParts, NothingMissing DEF Listed, Warned
  <2>2. "docker" \in Working <=> ~ RefusesToStart /\ Has("docker_base_url")
    BY ReadGates, PartNames, RunsParts, AtWork DEF ReadTable
  <2> QED
    BY <2>1, <2>2, UpstreamRows, RowParts
       DEF Mirrors, On, InSight
<1>6. Mirrors("docs")
  <2>1. Listed("docs") <=> \E s \in {"docs_mcp_url", "docs_mcp_token"} : ~
        Has(s)
    BY UpstreamRows, RowParts, Lacks DEF Listed, Warned
  <2>2. "docs" \in Working <=> ~ RefusesToStart /\ AsksDocs
    BY ReadGates, PartNames, RunsParts, AtWork DEF ReadTable
  <2> QED
    BY <2>1, <2>2, UpstreamRows, RowParts
       DEF Mirrors, On, InSight, AsksDocs
<1>7. Mirrors("dozzle")
  <2>1. Listed("dozzle") <=> ~ Has("dozzle_mcp_url")
    BY UpstreamRows, RowParts, Lacks DEF Listed, Warned
  <2>2. "dozzle" \in Working <=> ~ RefusesToStart /\ Has("dozzle_mcp_url")
    BY ReadGates, PartNames, RunsParts, AtWork DEF ReadTable
  <2> QED
    BY <2>1, <2>2, UpstreamRows, RowParts
       DEF Mirrors, On, InSight
<1>8. Mirrors("reasoning")
  <2>1. Listed("reasoning") <=>
           \/ /\ ~ Has("dspy_api_key")
              /\ Value("dspy_model") = "anthropic"
              /\ "anthropic_api_key" \notin DOMAIN env
           \/ "dspy_model" \in Replaced
    BY UpstreamRows, RowParts, NothingMissing DEF Listed, Warned
  <2>2. "reasoning" \in Working <=> ~ RefusesToStart /\ ModelAnswers
    BY ReadGates, PartNames, RunsParts, AtWork DEF ReadTable
  <2>3. Listed("reasoning") => ~ ModelAnswers
    BY <2>1, Models DEF ModelAnswers, KeyFor, Empty
  <2>4. On("reasoning") <=> Reasons
    BY UpstreamRows, RowParts DEF On, Reasons
  <2>5. Reasons /\ ~ Listed("reasoning") /\ ~ UnseenKey => ModelAnswers
    BY <2>1, Models DEF ModelAnswers, KeyFor, UnseenKey
  <2> QED
    BY <2>2, <2>3, <2>4, <2>5 DEF Mirrors, InSight
<1>9. Mirrors("git")
  <2>1. Listed("git") <=> \E s \in Git : ~ Has(s)
    BY UpstreamRows, RowParts, Lacks DEF Listed, Warned
  <2>2. "git" \in Working <=> ~ RefusesToStart /\ Writes
    BY WriteGates, PartNames, RunsParts, AtWork DEF WriteTable
  <2> QED
    BY <2>1, <2>2, UpstreamRows, RowParts
       DEF Mirrors, On, InSight, Writes, GitBuilt, Git, Healthy
<1>10. Mirrors("ntfy")
  <2>1. Listed("ntfy") <=> ~ Has("notification_url")
    BY UpstreamRows, RowParts, Lacks DEF Listed, Warned
  <2>2. "ntfy" \in Working <=> ~ RefusesToStart /\ Pushes
    BY WriteGates, PartNames, RunsParts, AtWork DEF WriteTable
  <2> QED
    BY <2>1, <2>2, UpstreamRows, RowParts
       DEF Mirrors, On, InSight, Pushes
<1>11. Mirrors("smtp")
  <2>1. Listed("smtp") <=> \E s \in Mail : ~ Has(s)
    BY UpstreamRows, RowParts, Lacks DEF Listed, Warned
  <2>2. "smtp" \in Working <=> ~ RefusesToStart /\ Mails
    BY WriteGates, PartNames, RunsParts, AtWork DEF WriteTable
  <2> QED
    BY <2>1, <2>2, UpstreamRows, RowParts
       DEF Mirrors, On, InSight, Mails, Mail
<1>12. Mirrors("auto_create")
  <2>1. Listed("auto_create") <=> \E s \in Git \cup {"dspy_enabled"} : ~ Has(s)
    BY ServerRows, RowParts, Lacks DEF Listed, Warned
  <2>2. "auto_create" \in Working <=> ~ RefusesToStart /\ AutoCreates
    BY WriteGates, PartNames, RunsParts, AtWork DEF WriteTable
  <2> QED
    BY <2>1, <2>2, ServerRows, RowParts
       DEF Mirrors, On, InSight, AutoCreates, Reasons, Writes, GitBuilt, Git,
           Healthy
<1>13. Mirrors("comment_poll")
  <2>1. Listed("comment_poll") <=> \E s \in Git \cup {"dspy_enabled",
        "proposal_comment_allowed_users"} : ~ Has(s)
    BY ServerRows, RowParts, Lacks DEF Listed, Warned
  <2>2. "comment_poll" \in Working <=> ~ RefusesToStart /\ Polls
    BY WriteGates, PartNames, RunsParts, AtWork DEF WriteTable
  <2> QED
    BY <2>1, <2>2, ServerRows, RowParts
       DEF Mirrors, On, InSight, Polls, Reasons, Writes, GitBuilt, Git, Healthy
<1>14. Mirrors("normalization")
  <2>1. Listed("normalization") <=> \E s \in Git : ~ Has(s)
    BY ServerRows, RowParts, Lacks DEF Listed, Warned
  <2>2. "normalization" \in Working <=> ~ RefusesToStart /\ Sweeps
    BY WriteGates, PartNames, RunsParts, AtWork DEF WriteTable
  <2> QED
    BY <2>1, <2>2, ServerRows, RowParts
       DEF Mirrors, On, InSight, Sweeps, Writes, GitBuilt, Git, Healthy
<1>15. Mirrors("adoption")
  <2>1. Listed("adoption") <=> (\E s \in Git \cup {"secrets_repo_path",
        "ssh_key_path", "dspy_enabled"} : ~ Has(s)) \/ \A s \in GitCryptKey : ~
        Has(s)
    BY ServerRows, RowParts, NothingMissing, EachIsAll DEF Listed, Warned
  <2>2. "adoption" \in Working <=> ~ RefusesToStart /\ Adopts
    BY WriteGates, PartNames, RunsParts, AtWork DEF WriteTable
  <2> QED
    BY <2>1, <2>2, ServerRows, RowParts
       DEF Mirrors, On, InSight, Adopts, DraftsAdoption, GitCryptKey, Decrypts,
           Reasons, Writes, GitBuilt, Git, Healthy
<1>16. Mirrors("intake")
  <2>1. ~ Listed("intake")
    BY ServerRows, RowParts, NothingMissing DEF Listed, Warned
  <2>2. "intake" \in Working <=> ~ RefusesToStart /\ TakesIn
    BY MoreWriteGates, PartNames, RunsParts, AtWork DEF MoreWriteTable
  <2> QED
    BY <2>1, <2>2, ServerRows, RowParts
       DEF Mirrors, On, InSight, TakesIn
<1>17. Mirrors("compose")
  <2>1. Listed("compose") <=> ~ Has("dspy_enabled")
    BY ServerRows, RowParts, Lacks DEF Listed, Warned
  <2>2. "compose" \in Working <=> ~ RefusesToStart /\ Composes
    BY MoreWriteGates, PartNames, RunsParts, AtWork DEF MoreWriteTable
  <2> QED
    BY <2>1, <2>2, ServerRows, RowParts
       DEF Mirrors, On, InSight, Composes, Reasons, TakesIn
<1>18. Mirrors("git_crypt")
  <2>1. Listed("git_crypt") <=> \A s \in GitCryptKey : ~ Has(s)
    BY ServerRows, RowParts, NothingMissing DEF Listed, Warned
  <2>2. "git_crypt" \in Working <=> ~ RefusesToStart /\ OpensSecrets
    BY MoreWriteGates, PartNames, RunsParts, AtWork DEF MoreWriteTable
  <2> QED
    BY <2>1, <2>2, ServerRows, RowParts
       DEF Mirrors, On, InSight, OpensSecrets, Decrypts, GitCryptKey
<1>19. Mirrors("infisical")
  <2>1. Listed("infisical") <=> ~ Has("infisical_account")
    BY MoreServerRows, RowParts, Lacks DEF Listed, Warned
  <2>2. "infisical" \in Working <=> ~ RefusesToStart /\ AsksInfisical
    BY ReadGates, PartNames, RunsParts, AtWork DEF ReadTable
  <2> QED
    BY <2>1, <2>2, MoreServerRows, RowParts
       DEF Mirrors, On, InSight, AsksInfisical
<1>20. Mirrors("dockhand_webhook")
  <2>1. Listed("dockhand_webhook") <=> \E s \in Git \cup
        {"dockhand_webhook_secret"} : ~ Has(s)
    BY MoreServerRows, RowParts, Lacks DEF Listed, Warned
  <2>2. "dockhand_webhook" \in Working <=> ~ RefusesToStart /\ HandlesAlerts
    BY MoreWriteGates, PartNames, RunsParts, AtWork DEF MoreWriteTable
  <2> QED
    BY <2>1, <2>2, MoreServerRows, RowParts
       DEF Mirrors, On, InSight, HandlesAlerts, DockhandRoute, ServesHTTP,
           Writes, GitBuilt, Git, Healthy
<1>21. Mirrors("patchmon_webhook")
  <2>1. Listed("patchmon_webhook") <=> (\E s \in Mail \cup
        {"patchmon_webhook_secret", "patchmon_approval_base_url",
        "patchmon_ansible_playbook", "ansible_cfg_path", "ssh_key_path"} : ~
        Has(s)) \/ Value("notification_provider") # "smtp"
    BY MoreServerRows, RowParts, Lacks DEF Listed, Warned
  <2>2. "patchmon_webhook" \in Working <=> ~ RefusesToStart /\ RunsPatches
    BY MoreWriteGates, PartNames, RunsParts, AtWork DEF MoreWriteTable
  <2> QED
    BY <2>1, <2>2, MoreServerRows, RowParts
       DEF Mirrors, On, InSight, RunsPatches, ServesPatchmon, PatchmonRoutes,
           ServesHTTP, Healthy, Mails, Mail
<1>22. Mirrors("patchmon_api")
  <2>1. Listed("patchmon_api") <=> ~ Has("patchmon_api_key")
    BY MoreServerRows, RowParts, Lacks DEF Listed, Warned
  <2>2. "patchmon_api" \in Working <=> ~ RefusesToStart /\ AsksPatchMon
    BY ReadGates, PartNames, RunsParts, AtWork DEF ReadTable
  <2> QED
    BY <2>1, <2>2, MoreServerRows, RowParts
       DEF Mirrors, On, InSight, AsksPatchMon
<1>23. Mirrors("hardware")
  <2>1. Listed("hardware") <=> \E s \in {"ansible_cfg_path", "ssh_key_path"} :
        ~ Has(s)
    BY MoreServerRows, RowParts, Lacks DEF Listed, Warned
  <2>2. "hardware" \in Working <=> ~ RefusesToStart /\ DiscoversHosts
    BY ReadGates, PartNames, RunsParts, AtWork DEF ReadTable
  <2> QED
    BY <2>1, <2>2, MoreServerRows, RowParts
       DEF Mirrors, On, InSight, DiscoversHosts, Healthy
<1>24. Mirrors("oauth")
  <2>1. Listed("oauth") <=> (~ Has("mcp_auth_provider")) \/
        Value("mcp_transport") = "stdio"
    BY MoreServerRows, RowParts, Lacks DEF Listed, Warned
  <2>2. "oauth" \in Working <=> ~ RefusesToStart /\ ChecksTokens
    BY MoreWriteGates, PartNames, RunsParts, AtWork DEF MoreWriteTable
  <2> QED
    BY <2>1, <2>2, MoreServerRows, RowParts
       DEF Mirrors, On, InSight, ChecksTokens
<1>25. Mirrors("inventory")
  <2>1. ~ Listed("inventory")
    BY MoreServerRows, RowParts, NothingMissing DEF Listed, Warned
  <2>2. "inventory" \in Working <=> ~ RefusesToStart /\ SyncsInventory
    BY MoreWriteGates, PartNames, RunsParts, AtWork DEF MoreWriteTable
  <2> QED
    BY <2>1, <2>2, MoreServerRows, RowParts
       DEF Mirrors, On, InSight, SyncsInventory
<1> QED
  BY <1>1, <1>2, <1>3, <1>4, <1>5, <1>6, <1>7, <1>8, <1>9, <1>10, <1>11, <1>12,
     <1>13, <1>14, <1>15, <1>16, <1>17, <1>18, <1>19, <1>20, <1>21, <1>22,
     <1>23, <1>24, <1>25
     DEF Features, UpstreamFeature, ServerFeature

(* In every environment Settings accepts, not only in those a run tries,    *)
(* and however the operator goes on changing it: for a feature that is on,  *)
(* the report names something it lacks exactly if its part of the server    *)
(* stays off or fails some call -- as far as the report looks, which is not *)
(* at the read-only mode, GitLab, the transport and a foreign model's key.  *)
THEOREM ReportMirrorsGates ==
    Allowed /\ [][Tend]_env => []MirrorsTheGates
<1>1. ASSUME Allowed, [Tend]_env PROVE Allowed'
  <2>1. ASSUME NEW s \in Settings, NEW v \in ValuesOf[s], Change(s, v) PROVE Allowed'
    BY <1>1, <2>1 DEF Allowed, Change, Set
  <2>2. ASSUME Remove PROVE Allowed'
    BY <1>1, <2>2 DEF Allowed, Remove, Set
  <2>3. ASSUME UNCHANGED env PROVE Allowed'
    BY <1>1, <2>3 DEF Allowed, Set
  <2> QED
    BY <1>1, <2>1, <2>2, <2>3 DEF Tend
<1>2. Allowed => MirrorsTheGates
  BY AllMirrored DEF MirrorsTheGates, Mirrors, InSight
<1> QED
  BY <1>1, <1>2, PTL

-----------------------------------------------------------------------------
(* The settings the report says a feature reads, as Readers has it.         *)
Known(f) == Feature[f].uses \cup UNION Feature[f].needs

LEMMA KnownTo ==
    ASSUME NEW f
    PROVE  /\ Feature[f].needs = {} => Known(f) = Feature[f].uses
           /\ Feature[f].needs = {GitCryptKey} =>
                 Known(f) = Feature[f].uses \cup GitCryptKey
           /\ \A settings : Feature[f].needs = Each(settings) =>
                               Known(f) = Feature[f].uses \cup settings
           /\ \A settings : Feature[f].needs = Each(settings) \cup {GitCryptKey} =>
                               Known(f) = Feature[f].uses \cup settings \cup GitCryptKey
<1> DEFINE needs == Feature[f].needs
<1>1. Known(f) = Feature[f].uses \cup UNION needs
  BY DEF Known
<1>2. UNION {} = {} /\ UNION {GitCryptKey} = GitCryptKey
  OBVIOUS
<1>3. ASSUME NEW settings PROVE UNION Each(settings) = settings
  BY DEF Each
<1>4. ASSUME NEW settings
      PROVE  UNION (Each(settings) \cup {GitCryptKey}) = settings \cup GitCryptKey
  <2>1. \A S, T : UNION (S \cup T) = (UNION S) \cup (UNION T)
    OBVIOUS
  <2> QED BY <1>2, <1>3, <2>1
<1> HIDE DEF needs
<1> QED BY <1>1, <1>2, <1>3, <1>4 DEF needs

(* They are, for each feature, the following.                               *)
LEMMA UpstreamKnown ==
    /\ Known("traefik") = {"traefik_tuning"}
    /\ Known("authentik") =
          {"authentik_api_url", "authentik_token", "authentik_tuning"}
    /\ Known("dockhand") =
          {"dockhand_api_url", "dockhand_token", "dockhand_tuning"}
    /\ Known("dockhand_actions") =
          {"dockhand_api_url", "dockhand_token", "dockhand_action_tuning"}
    /\ Known("docker") = {"docker_tuning"}
    /\ Known("docs") = {"docs_mcp_url", "docs_mcp_token", "docs_tuning"}
    /\ Known("dozzle") =
          {"dozzle_mcp_url", "dozzle_mcp_token", "dozzle_tuning"}
    /\ Known("reasoning") = {"dspy_model", "dspy_api_key", "dspy_tuning"}
    /\ Known("git") = Git \cup {"git_provider", "git_tuning"}
    /\ Known("ntfy") =
          {"notification_url", "notification_topic", "notification_token"}
    /\ Known("smtp") = Mail \cup {"notification_smtp_tuning"}
BY UpstreamRows, RowParts, KnownTo

LEMMA ServerKnown ==
    /\ Known("auto_create") = Git \cup {"dspy_enabled"}
    /\ Known("comment_poll") =
          Git \cup {"dspy_enabled", "proposal_comment_allowed_users",
           "comment_poll_interval"}
    /\ Known("normalization") =
          Git \cup {"normalization_schedule", "normalization_tuning",
           "normalization_shared_networks"}
    /\ Known("adoption") =
          Git \cup {"secrets_repo_path", "ssh_key_path", "dspy_enabled"} \cup
           GitCryptKey \cup {"ssh_default_user", "adoption_draft_ttl"}
    /\ Known("intake") = {"service_deploy_tuning"}
    /\ Known("compose") =
          {"dspy_enabled", "service_deploy_conventions_path",
           "normalization_shared_networks"}
    /\ Known("git_crypt") = GitCryptKey \cup {"secrets_allow_decrypt"}
BY ServerRows, RowParts, KnownTo

LEMMA MoreServerKnown ==
    /\ Known("infisical") = {"infisical_account", "infisical_tuning"}
    /\ Known("dockhand_webhook") =
          Git \cup {"dockhand_webhook_secret", "dockhand_webhook_tuning"}
    /\ Known("patchmon_webhook") =
          Mail \cup {"patchmon_webhook_secret", "patchmon_approval_base_url",
           "patchmon_ansible_playbook", "ansible_cfg_path", "ssh_key_path",
           "patchmon_webhook_tuning", "ssh_default_user"}
    /\ Known("patchmon_api") = {"patchmon_api_key", "patchmon_api_timeout"}
    /\ Known("hardware") =
          {"ansible_cfg_path", "ssh_key_path", "ssh_default_user"}
    /\ Known("oauth") = {"mcp_auth_provider", "mcp_auth_tuning"}
    /\ Known("inventory") = {"inventory_ttl"}
BY MoreServerRows, RowParts, KnownTo

(* When each feature is on.                                                 *)
LEMMA UpstreamOn ==
    /\ On("traefik") <=> Has("traefik_api_url")
    /\ On("authentik") <=> (\E s \in {"authentik_api_url", "authentik_token"} : Has(s))
    /\ On("dockhand") <=> (\E s \in {"dockhand_api_url", "dockhand_token"} : Has(s))
    /\ On("dockhand_actions") <=> Has("dockhand_allow_write")
    /\ On("docker") <=> Has("docker_base_url")
    /\ On("docs") <=> (\E s \in {"docs_mcp_url", "docs_mcp_token"} : Has(s))
    /\ On("dozzle") <=> (\E s \in {"dozzle_mcp_url", "dozzle_mcp_token"} : Has(s))
    /\ On("reasoning") <=> Has("dspy_enabled")
    /\ On("git") <=> (\E s \in Git : Has(s))
    /\ On("ntfy") <=> Value("notification_provider") = "ntfy"
    /\ On("smtp") <=> Value("notification_provider") = "smtp"
BY UpstreamRows, RowParts DEF On

LEMMA ServerOn ==
    /\ On("auto_create") <=> Has("proposal_auto_create")
    /\ On("comment_poll") <=> Has("proposal_comment_poll_enabled")
    /\ On("normalization") <=> Has("normalization_enabled")
    /\ On("adoption") <=> Has("adoption_enabled")
    /\ On("intake") <=> Has("service_deploy_enabled")
    /\ On("compose") <=> Has("service_deploy_enabled")
    /\ On("git_crypt") <=> Has("secrets_repo_path") /\ Has("secrets_enabled")
BY ServerRows, RowParts DEF On

LEMMA MoreServerOn ==
    /\ On("infisical") <=> Has("infisical_enabled")
    /\ On("dockhand_webhook") <=> Has("dockhand_webhook_enabled")
    /\ On("patchmon_webhook") <=> Has("patchmon_webhook_enabled")
    /\ On("patchmon_api") <=> Has("patchmon_api_url")
    /\ On("hardware") <=> (\E s \in {"ansible_cfg_path", "ssh_key_path"} : Has(s))
    /\ On("oauth") <=> Has("mcp_auth_enabled")
    /\ On("inventory") <=> Has("ansible_inventory_path")
BY MoreServerRows, RowParts DEF On

LEMMA FeatureNames ==
    Features =
        {"traefik", "authentik", "dockhand", "dockhand_actions", "docker",
         "docs", "dozzle", "reasoning", "git", "ntfy", "smtp", "auto_create",
         "comment_poll", "normalization", "adoption", "intake", "compose",
         "git_crypt", "infisical", "dockhand_webhook", "patchmon_webhook",
         "patchmon_api", "hardware", "oauth", "inventory"}
BY DEF Features, UpstreamFeature, ServerFeature

(* Settings that switch features on, or choose between them, and that the   *)
(* report's table names for nothing else.                                   *)
SwitchOnly ==
    {"dockhand_allow_write", "proposal_auto_create", "proposal_comment_poll_enabled",
     "normalization_enabled", "adoption_enabled", "service_deploy_enabled",
     "secrets_enabled", "infisical_enabled", "dockhand_webhook_enabled",
     "patchmon_webhook_enabled", "mcp_auth_enabled", "traefik_api_url",
     "docker_base_url", "patchmon_api_url", "ansible_inventory_path",
     "notification_provider", "mcp_transport"}

LEMMA SwitchesStay == \A f \in Features : Known(f) \cap SwitchOnly = {}
<1>1. \A f \in DOMAIN UpstreamFeature : Known(f) \cap SwitchOnly = {}
  BY UpstreamKnown DEF UpstreamFeature, SwitchOnly, Git, Mail
<1>2. \A f \in {"auto_create", "comment_poll", "normalization", "adoption", "intake",
                "compose", "git_crypt"} : Known(f) \cap SwitchOnly = {}
  BY ServerKnown DEF SwitchOnly, Git, GitCryptKey
<1>3. \A f \in {"infisical", "dockhand_webhook", "patchmon_webhook", "patchmon_api",
                "hardware", "oauth", "inventory"} : Known(f) \cap SwitchOnly = {}
  BY MoreServerKnown DEF SwitchOnly, Git, Mail
<1> QED
  BY <1>1, <1>2, <1>3 DEF Features, ServerFeature

(* A step that removes s: everything else keeps its value, and so does s    *)
(* for all that reads it, or every feature that knows it is off.            *)
Harmless(s) ==
    /\ \A t : t # s => /\ Value(t)' = Value(t)
                       /\ Has(t)' <=> Has(t)
                       /\ Read(t)' = Read(t)
    /\ Value("mcp_transport")' = Value("mcp_transport")
    /\ \A kind \in {"smtp", "ntfy"} :
          Value("notification_provider")' = kind
             <=> Value("notification_provider") = kind
    /\ \A key \in ProviderKeys : key \in DOMAIN env' <=> key \in DOMAIN env
    /\ \/ /\ Read(s)' = Read(s)
          /\ Has(s)' <=> Has(s)
          /\ Value("git_provider")' = Value("git_provider")
          /\ Value("dspy_model")' = Value("dspy_model")
       \/ /\ s \notin SwitchOnly \cup ReadRegardless \cup ReadBySweeps
          /\ \A f \in Features : s \in Known(f) => ~ On(f)
          /\ Has(s)' => Default[s] \notin {None, Empty}

(* A part that reads these is not told of the change of s.                  *)
Kept(s, reads) == s \notin reads \/ Read(s)' = Read(s)

(* Settings without a default: removed, they are not set.                   *)
Unset == Git \cup {"authentik_api_url", "authentik_token", "dockhand_api_url",
                   "dockhand_token", "docs_mcp_url", "docs_mcp_token", "dozzle_mcp_url"}

LEMMA NoDefault == \A t \in Unset : Default[t] = None
BY DEF Unset, Default, Settings, Flags, Numbers, Texts, Choices, Lists, Optional, Git

(* The report's three kinds of settings that do nothing are harmless to     *)
(* remove: one that equals its default and one that is empty read as        *)
(* before, and one whose readers are all off is read by no feature that is  *)
(* on.                                                                      *)
LEMMA Removal ==
    ASSUME NEW s \in DoesNothing, s \notin ReadBySweeps,
           env' = [t \in DOMAIN env \ {s} |-> env[t]]
    PROVE  Harmless(s)
<1>1. s \in DOMAIN env /\ s \in Settings
  BY DEF DoesNothing, SameAsDefault, ForFeaturesOff, ReadsAsUnset, Set
<1>2. Value(s) = env[s] /\ Value(s)' = Default[s]
  BY <1>1 DEF Value
<1>3. \A t : t # s => Value(t)' = Value(t)
  BY <1>1 DEF Value
<1>4. \A t : t # s => (Has(t)' <=> Has(t)) /\ Read(t)' = Read(t)
  BY <1>3 DEF Has, Read
<1>5. /\ Default["git_provider"] = "gitea" /\ Default["mcp_transport"] = "streamable-http"
      /\ Default["notification_provider"] = None /\ Default["dspy_model"] = "anthropic"
      /\ ProviderKeys \cap Settings = {}
  BY DEF Default, Settings, Flags, Numbers, Texts, Choices, Lists, Optional, ProviderKeys
<1>6. \A key \in ProviderKeys : key \in DOMAIN env' <=> key \in DOMAIN env
  BY <1>1, <1>5
<1>7. CASE s \in SameAsDefault
  <2>1. Value(s)' = Value(s)
    BY <1>2, <1>7 DEF SameAsDefault
  <2>2. Has(s)' <=> Has(s)
    BY <2>1 DEF Has
  <2>3. Read(s)' = Read(s)
    BY <2>1, <2>2 DEF Read
  <2> QED
    BY <1>3, <1>4, <1>6, <2>1, <2>2, <2>3 DEF Harmless
<1>8. CASE s \in ReadsAsUnset
  <2>1. Value(s) = Empty /\ Value(s)' \in {None, Empty}
    BY <1>2, <1>8 DEF ReadsAsUnset
  <2>2. ~ Has(s) /\ ~ Has(s)'
    BY <2>1 DEF Has
  <2>3. Read(s)' = Read(s)
    BY <1>8, <2>2 DEF Read, ReadsAsUnset
  <2>4. s \notin {"git_provider", "mcp_transport", "dspy_model"}
    BY <1>5, <1>8 DEF ReadsAsUnset, None, Empty
  <2> QED
    BY <1>3, <1>4, <1>6, <2>1, <2>2, <2>3, <2>4 DEF Harmless, None, Empty
<1>9. CASE s \in ForFeaturesOff
  <2>1. \A f \in Features : s \in Known(f) => f \in Readers[s]
    BY <1>1 DEF Known, Readers
  <2>2. \A f \in Features : s \in Known(f) => ~ On(f)
    BY <1>9, <2>1 DEF ForFeaturesOff
  <2>3. s \notin SwitchOnly
    <3>1. PICK f \in Features : s \in Known(f)
      BY <1>1, <1>9 DEF ForFeaturesOff, Known, Readers
    <3> QED
      BY <3>1, SwitchesStay
  <2>4. s \notin ReadRegardless
    BY <1>9 DEF ForFeaturesOff
  <2>5. Has(s)' => Default[s] \notin {None, Empty}
    BY <1>2 DEF Has
  <2>6. s \notin {"mcp_transport", "notification_provider"}
    BY <2>3 DEF SwitchOnly
  <2> QED
    BY <1>3, <1>4, <1>6, <2>2, <2>3, <2>4, <2>5, <2>6 DEF Harmless
<1> QED
  BY <1>7, <1>8, <1>9 DEF DoesNothing

(* Removing one of those never sets it.                                     *)
LEMMA Cleared ==
    ASSUME NEW s, Harmless(s)
    PROVE  s \in Unset => (Has(s)' => Has(s))
BY NoDefault DEF Harmless

(* A harmless removal leaves the gates that many parts share alone.         *)
LEMMA WritesKept ==
    ASSUME NEW s, Harmless(s)
    PROVE  (Writes' <=> Writes) /\ (GitBuilt' <=> GitBuilt) /\ (Healthy' <=> Healthy)
<1>1. Healthy' <=> Healthy
  BY DEF Harmless, Healthy, ReadRegardless
<1>2. GitBuilt' <=> GitBuilt
  <2>1. CASE s \in Git \cup {"git_provider"} /\ ~ On("git")
    BY <2>1, Cleared, UpstreamOn DEF Harmless, GitBuilt, Git, Unset
  <2>2. CASE s \notin Git \cup {"git_provider"} \/ On("git")
    BY <2>2, UpstreamKnown, FeatureNames DEF Harmless, GitBuilt, Git
  <2> QED
    BY <2>1, <2>2
<1> QED
  BY <1>1, <1>2 DEF Writes

LEMMA MailsKept ==
    ASSUME NEW s, Harmless(s)
    PROVE  Mails' <=> Mails
BY UpstreamKnown, UpstreamOn, FeatureNames DEF Harmless, Mails, Mail

(* A part of which the step changes neither when it works nor what it reads. *)
Unmoved(s, gate, reads) == (gate' <=> gate) /\ (gate => Kept(s, reads))

Steady(s, p) ==
    /\ Part'[p].gate <=> Part[p].gate
    /\ Part'[p].reads = Part[p].reads
    /\ Part[p].gate => Kept(s, Part[p].reads)

(* No part of the server is moved by a harmless removal: either the setting *)
(* is still read as it was, or the part's gate is shut.                     *)
LEMMA GatesKept ==
    ASSUME NEW s, Harmless(s)
    PROVE  \A p \in DOMAIN Part : Steady(s, p)
<1>1. ReadTable' /\ WriteTable' /\ MoreWriteTable'
  BY TablesHold, PTL
<1>2. Steady(s, "health")
  <2>1. Kept(s, {"secrets_repo_path", "ansible_cfg_path", "ssh_key_path"})
    BY DEF Harmless, Kept, ReadRegardless
  <2>2. /\ Part["health"] =
              Runs(TRUE, {"secrets_repo_path", "ansible_cfg_path", "ssh_key_path"})
        /\ Part'["health"] =
              Runs(TRUE, {"secrets_repo_path", "ansible_cfg_path", "ssh_key_path"})
    BY <1>1, ReadGates DEF ReadTable
  <2> QED
    BY <2>1, <2>2 DEF Runs, Steady
<1>3. Steady(s, "traefik")
  <2>1. Unmoved(s, Has("traefik_api_url"), {"traefik_api_url",
                "traefik_tuning"})
    BY UpstreamKnown, UpstreamOn, FeatureNames
       DEF Harmless, Unmoved, Kept, SwitchOnly, ReadRegardless
  <2> QED
    BY <1>1, <2>1, ReadGates, RunsParts DEF ReadTable, Steady, Unmoved
<1>4. Steady(s, "authentik")
  <2>1. Unmoved(s, AsksAuthentik, {"authentik_api_url",
                "authentik_token", "authentik_tuning"})
    BY Cleared, UpstreamKnown, UpstreamOn, FeatureNames
       DEF Harmless, Unmoved, Kept, SwitchOnly, ReadRegardless, AsksAuthentik,
           Unset
  <2> QED
    BY <1>1, <2>1, ReadGates, RunsParts DEF ReadTable, Steady, Unmoved
<1>5. Steady(s, "dockhand")
  <2>1. Unmoved(s, AsksDockhand, {"dockhand_api_url", "dockhand_token",
                "dockhand_tuning"})
    BY Cleared, UpstreamKnown, UpstreamOn, FeatureNames
       DEF Harmless, Unmoved, Kept, SwitchOnly, ReadRegardless, AsksDockhand,
           Unset
  <2> QED
    BY <1>1, <2>1, ReadGates, RunsParts DEF ReadTable, Steady, Unmoved
<1>6. Steady(s, "docker")
  <2>1. Unmoved(s, Has("docker_base_url"), {"docker_base_url",
                "docker_tuning"})
    BY UpstreamKnown, UpstreamOn, FeatureNames
       DEF Harmless, Unmoved, Kept, SwitchOnly, ReadRegardless
  <2> QED
    BY <1>1, <2>1, ReadGates, RunsParts DEF ReadTable, Steady, Unmoved
<1>7. Steady(s, "docs")
  <2>1. Unmoved(s, AsksDocs, {"docs_mcp_url", "docs_mcp_token",
                "docs_tuning"})
    BY Cleared, UpstreamKnown, UpstreamOn, FeatureNames
       DEF Harmless, Unmoved, Kept, SwitchOnly, ReadRegardless, AsksDocs, Unset
  <2> QED
    BY <1>1, <2>1, ReadGates, RunsParts DEF ReadTable, Steady, Unmoved
<1>8. Steady(s, "dozzle")
  <2>1. Unmoved(s, Has("dozzle_mcp_url"), {"dozzle_mcp_url",
                "dozzle_mcp_token", "dozzle_tuning"})
    BY Cleared, UpstreamKnown, UpstreamOn, FeatureNames
       DEF Harmless, Unmoved, Kept, SwitchOnly, ReadRegardless, Unset
  <2> QED
    BY <1>1, <2>1, ReadGates, RunsParts DEF ReadTable, Steady, Unmoved
<1>9. Steady(s, "reasoning")
  <2>1. Unmoved(s, ModelAnswers, {"dspy_model", "dspy_api_key", "dspy_tuning"})
    BY UpstreamKnown, UpstreamOn, FeatureNames
       DEF Harmless, Unmoved, Kept, SwitchOnly, ReadRegardless, ModelAnswers,
           KeyFor, ProviderKeys, Reasons
  <2> QED
    BY <1>1, <2>1, ReadGates, RunsParts DEF ReadTable, Steady, Unmoved
<1>10. Steady(s, "infisical")
  <2>1. Unmoved(s, AsksInfisical, {"infisical_account",
                "infisical_tuning"})
    BY MoreServerKnown, MoreServerOn, FeatureNames
       DEF Harmless, Unmoved, Kept, SwitchOnly, ReadRegardless, AsksInfisical
  <2> QED
    BY <1>1, <2>1, ReadGates, RunsParts DEF ReadTable, Steady, Unmoved
<1>11. Steady(s, "patchmon_api")
  <2>1. Unmoved(s, AsksPatchMon, {"patchmon_api_url",
                "patchmon_api_key", "patchmon_api_timeout"})
    BY MoreServerKnown, MoreServerOn, FeatureNames
       DEF Harmless, Unmoved, Kept, SwitchOnly, ReadRegardless, AsksPatchMon
  <2> QED
    BY <1>1, <2>1, ReadGates, RunsParts DEF ReadTable, Steady, Unmoved
<1>12. Steady(s, "hardware")
  <2>1. Unmoved(s, DiscoversHosts, {"ansible_cfg_path", "ssh_key_path",
                "ssh_default_user"})
    BY MoreServerKnown, MoreServerOn, FeatureNames
       DEF Harmless, Unmoved, Kept, SwitchOnly, ReadRegardless, DiscoversHosts,
           Healthy
  <2> QED
    BY <1>1, <2>1, ReadGates, RunsParts DEF ReadTable, Steady, Unmoved
<1>13. Steady(s, "pull_requests")
  <2>1. Unmoved(s, GitBuilt, Git \cup {"git_provider", "git_tuning"})
    BY Cleared, UpstreamKnown, UpstreamOn, FeatureNames
       DEF Harmless, Unmoved, Kept, SwitchOnly, ReadRegardless, GitBuilt, Git,
           Unset
  <2> QED
    BY <1>1, <2>1, WriteGates, RunsParts DEF WriteTable, Steady, Unmoved
<1>14. Steady(s, "git")
  <2>1. Unmoved(s, Writes, Git \cup {"git_provider", "git_tuning"})
    BY Cleared, UpstreamKnown, UpstreamOn, FeatureNames
       DEF Harmless, Unmoved, Kept, SwitchOnly, ReadRegardless, Writes,
           GitBuilt, Git, Unset, Healthy
  <2> QED
    BY <1>1, <2>1, WriteGates, RunsParts DEF WriteTable, Steady, Unmoved
<1>15. Steady(s, "ntfy")
  <2>1. Unmoved(s, Pushes, {"notification_url", "notification_topic",
                "notification_token"})
    BY UpstreamKnown, UpstreamOn, FeatureNames
       DEF Harmless, Unmoved, Kept, SwitchOnly, ReadRegardless, Pushes
  <2> QED
    BY <1>1, <2>1, WriteGates, RunsParts DEF WriteTable, Steady, Unmoved
<1>16. Steady(s, "smtp")
  <2>1. Unmoved(s, Mails, Mail \cup {"notification_smtp_tuning"})
    BY UpstreamKnown, UpstreamOn, FeatureNames
       DEF Harmless, Unmoved, Kept, SwitchOnly, ReadRegardless, Mails, Mail
  <2> QED
    BY <1>1, <2>1, WriteGates, RunsParts DEF WriteTable, Steady, Unmoved
<1>17. Steady(s, "auto_create")
  <2>1. Unmoved(s, AutoCreates, {})
    BY WritesKept, ServerKnown, ServerOn, FeatureNames
       DEF Harmless, Unmoved, Kept, SwitchOnly, ReadRegardless, AutoCreates,
           Reasons
  <2> QED
    BY <1>1, <2>1, WriteGates, RunsParts DEF WriteTable, Steady, Unmoved
<1>18. Steady(s, "comment_poll")
  <2>1. Unmoved(s, Polls, {"proposal_comment_allowed_users",
                "comment_poll_interval"})
    BY WritesKept, ServerKnown, ServerOn, FeatureNames
       DEF Harmless, Unmoved, Kept, SwitchOnly, ReadRegardless, Polls, Reasons
  <2> QED
    BY <1>1, <2>1, WriteGates, RunsParts DEF WriteTable, Steady, Unmoved
<1>19. Steady(s, "normalization")
  <2>1. Unmoved(s, Sweeps, {"normalization_schedule"})
    BY WritesKept, ServerKnown, ServerOn, FeatureNames
       DEF Harmless, Unmoved, Kept, SwitchOnly, ReadRegardless, Sweeps
  <2> QED
    BY <1>1, <2>1, WriteGates, RunsParts DEF WriteTable, Steady, Unmoved
<1>20. Steady(s, "proposal_normalize")
  <2>1. Unmoved(s, Writes, ReadBySweeps)
    BY WritesKept, UpstreamKnown, UpstreamOn, FeatureNames
       DEF Harmless, Unmoved, Kept, SwitchOnly, ReadRegardless, Git,
           ReadBySweeps
  <2> QED
    BY <1>1, <2>1, WriteGates, RunsParts DEF WriteTable, Steady, Unmoved
<1>21. Steady(s, "adoption_draft")
  <2>1. Unmoved(s, DraftsAdoption, {"ssh_key_path", "ssh_default_user",
                "adoption_draft_ttl"})
    BY WritesKept, ServerKnown, ServerOn, FeatureNames
       DEF Harmless, Unmoved, Kept, SwitchOnly, ReadRegardless, DraftsAdoption,
           Reasons
  <2> QED
    BY <1>1, <2>1, WriteGates, RunsParts DEF WriteTable, Steady, Unmoved
<1>22. Steady(s, "adoption")
  <2>1. Unmoved(s, Adopts, {"secrets_repo_path"} \cup GitCryptKey)
    BY WritesKept, ServerKnown, ServerOn, FeatureNames
       DEF Harmless, Unmoved, Kept, SwitchOnly, ReadRegardless, Adopts,
           DraftsAdoption, Reasons, Decrypts, GitCryptKey
  <2> QED
    BY <1>1, <2>1, WriteGates, RunsParts DEF WriteTable, Steady, Unmoved
<1>23. Steady(s, "intake")
  <2>1. Unmoved(s, TakesIn, {"service_deploy_tuning"})
    BY ServerKnown, ServerOn, FeatureNames
       DEF Harmless, Unmoved, Kept, SwitchOnly, ReadRegardless, TakesIn
  <2> QED
    BY <1>1, <2>1, MoreWriteGates, RunsParts DEF MoreWriteTable, Steady, Unmoved
<1>24. Steady(s, "compose")
  <2>1. Unmoved(s, Composes, {"service_deploy_conventions_path",
                "normalization_shared_networks"})
    BY ServerKnown, ServerOn, FeatureNames
       DEF Harmless, Unmoved, Kept, SwitchOnly, ReadRegardless, Composes,
           TakesIn, Reasons, ReadBySweeps
  <2> QED
    BY <1>1, <2>1, MoreWriteGates, RunsParts DEF MoreWriteTable, Steady, Unmoved
<1>25. Steady(s, "git_crypt")
  <2>1. Unmoved(s, OpensSecrets, {"secrets_repo_path",
                "secrets_allow_decrypt"} \cup GitCryptKey)
    BY ServerKnown, ServerOn, FeatureNames
       DEF Harmless, Unmoved, Kept, SwitchOnly, ReadRegardless, OpensSecrets,
           Decrypts, GitCryptKey
  <2> QED
    BY <1>1, <2>1, MoreWriteGates, RunsParts DEF MoreWriteTable, Steady, Unmoved
<1>26. Steady(s, "dockhand_actions")
  <2>1. Unmoved(s, ActsOnDockhand, {"dockhand_action_tuning"})
    BY Cleared, UpstreamKnown, UpstreamOn, FeatureNames
       DEF Harmless, Unmoved, Kept, SwitchOnly, ReadRegardless, ActsOnDockhand,
           AsksDockhand, Healthy, Unset
  <2> QED
    BY <1>1, <2>1, MoreWriteGates, RunsParts DEF MoreWriteTable, Steady, Unmoved
<1>27. Steady(s, "dockhand_route")
  <2>1. Unmoved(s, DockhandRoute, {"dockhand_webhook_secret",
                "dockhand_webhook_tuning"})
    BY MoreServerKnown, MoreServerOn, FeatureNames
       DEF Harmless, Unmoved, Kept, SwitchOnly, ReadRegardless, DockhandRoute,
           ServesHTTP
  <2> QED
    BY <1>1, <2>1, MoreWriteGates, RunsParts DEF MoreWriteTable, Steady, Unmoved
<1>28. Steady(s, "dockhand_webhook")
  <2>1. Unmoved(s, HandlesAlerts, {})
    BY WritesKept, MoreServerKnown, MoreServerOn, FeatureNames
       DEF Harmless, Unmoved, Kept, SwitchOnly, ReadRegardless, HandlesAlerts,
           DockhandRoute, ServesHTTP
  <2> QED
    BY <1>1, <2>1, MoreWriteGates, RunsParts DEF MoreWriteTable, Steady, Unmoved
<1>29. Steady(s, "patchmon_routes")
  <2>1. Unmoved(s, ServesPatchmon, {"patchmon_webhook_secret",
                "patchmon_approval_base_url", "patchmon_webhook_tuning"})
    BY MailsKept, MoreServerKnown, MoreServerOn, FeatureNames
       DEF Harmless, Unmoved, Kept, SwitchOnly, ReadRegardless, ServesPatchmon,
           PatchmonRoutes, ServesHTTP
  <2> QED
    BY <1>1, <2>1, MoreWriteGates, RunsParts DEF MoreWriteTable, Steady, Unmoved
<1>30. Steady(s, "patchmon_webhook")
  <2>1. Unmoved(s, RunsPatches, {"patchmon_ansible_playbook",
                "ssh_default_user"})
    BY MailsKept, MoreServerKnown, MoreServerOn, FeatureNames
       DEF Harmless, Unmoved, Kept, SwitchOnly, ReadRegardless, RunsPatches,
           ServesPatchmon, PatchmonRoutes, ServesHTTP, Healthy
  <2> QED
    BY <1>1, <2>1, MoreWriteGates, RunsParts DEF MoreWriteTable, Steady, Unmoved
<1>31. Steady(s, "oauth")
  <2>1. Unmoved(s, ChecksTokens, {"mcp_auth_provider",
                "mcp_auth_tuning"})
    BY MoreServerKnown, MoreServerOn, FeatureNames
       DEF Harmless, Unmoved, Kept, SwitchOnly, ReadRegardless, ChecksTokens
  <2> QED
    BY <1>1, <2>1, MoreWriteGates, RunsParts DEF MoreWriteTable, Steady, Unmoved
<1>32. Steady(s, "inventory")
  <2>1. Unmoved(s, SyncsInventory, {"ansible_inventory_path",
                "inventory_ttl"})
    BY MoreServerKnown, MoreServerOn, FeatureNames
       DEF Harmless, Unmoved, Kept, SwitchOnly, ReadRegardless, SyncsInventory,
           Healthy
  <2> QED
    BY <1>1, <2>1, MoreWriteGates, RunsParts DEF MoreWriteTable, Steady, Unmoved
<1> QED
  BY <1>2, <1>3, <1>4, <1>5, <1>6, <1>7, <1>8, <1>9, <1>10, <1>11, <1>12,
     <1>13, <1>14, <1>15, <1>16, <1>17, <1>18, <1>19, <1>20, <1>21, <1>22,
     <1>23, <1>24, <1>25, <1>26, <1>27, <1>28, <1>29, <1>30, <1>31, <1>32, PartNames

(* Nor does it change whether build_auth raises.                            *)
LEMMA StartsTheSame ==
    ASSUME NEW s, Harmless(s)
    PROVE  RefusesToStart' <=> RefusesToStart
BY MoreServerKnown, MoreServerOn, FeatureNames DEF Harmless, SwitchOnly, RefusesToStart

(* So the server that is started afterwards does what it did, and reads     *)
(* what it read.                                                            *)
LEMMA ServesTheSame ==
    ASSUME NEW s, Harmless(s)
    PROVE  Server' = Server
<1> DEFINE atWork == {p \in DOMAIN Part : Part[p].gate}
           reading(p) == {<<p, t, Read(t)>> : t \in Part[p].reads}
<1>1. DOMAIN Part' = DOMAIN Part
  BY DEF Part, Both, ReadPart, WritePart
<1>2. {p \in DOMAIN Part' : Part'[p].gate} = atWork
  BY <1>1, GatesKept DEF Steady
<1>3. ASSUME NEW p \in atWork
      PROVE  {<<p, t, Read(t)'>> : t \in Part'[p].reads} = reading(p)
  <2>1. Part'[p].reads = Part[p].reads /\ Kept(s, Part[p].reads)
    BY GatesKept DEF Steady
  <2>2. \A t \in Part[p].reads : Read(t)' = Read(t)
    BY <2>1 DEF Kept, Harmless
  <2> QED
    BY <2>1, <2>2
<1>4. Server = IF RefusesToStart THEN {}
               ELSE {<<p, "runs", None>> : p \in atWork}
                    \cup UNION {reading(p) : p \in atWork}
  BY Zenon DEF Server, Part
<1>5. Server' = IF RefusesToStart' THEN {}
                ELSE {<<p, "runs", None>> : p \in atWork}
                     \cup UNION {reading(p) : p \in atWork}
  <2>1. Server' = IF RefusesToStart' THEN {}
                  ELSE {<<p, "runs", None>> :
                           p \in {q \in DOMAIN Part' : Part'[q].gate}}
                     \cup UNION {{<<p, t, Read(t)'>> : t \in Part'[p].reads} :
                                  p \in {q \in DOMAIN Part' : Part'[q].gate}}
    BY Zenon DEF Server, Part
  <2> QED
    BY <1>2, <1>3, <2>1
<1> QED
  BY <1>4, <1>5, StartsTheSame

(* For every environment, however the operator goes on changing it:         *)
(* removing a key the report lists as doing nothing changes nothing the     *)
(* server does and no value a part of it reads -- but for the two keys the  *)
(* proposal_normalize tool reads although NORMALIZATION_ENABLED is off.     *)
THEOREM RemovingIsSafe ==
    [][Tend]_env => SafeToRemoveButForSweeps
<1>1. ASSUME [Tend]_env
      PROVE  [DOMAIN env \ (DOMAIN env' \cup ReadBySweeps) # {} => Server' = Server]_env
  <2> SUFFICES ASSUME Tend, NEW t \in DOMAIN env \ (DOMAIN env' \cup ReadBySweeps)
               PROVE  Server' = Server
    BY <1>1
  <2>1. ~ \E s \in Settings : \E v \in ValuesOf[s] : Change(s, v)
    BY DEF Change
  <2>2. PICK s \in DoesNothing : env' = [u \in DOMAIN env \ {s} |-> env[u]]
    BY <2>1 DEF Tend, Remove
  <2>3. s = t
    BY <2>2
  <2> QED
    BY <2>2, <2>3, Removal, ServesTheSame
<1> QED
  BY <1>1, PTL DEF SafeToRemoveButForSweeps
=============================================================================
