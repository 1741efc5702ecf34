---------------------------- MODULE ResourceServer ----------------------------
(***************************************************************************)
(* Who reaches the tools at /mcp: how a start opens or guards the path     *)
(* (auth/setup.py: build_auth, secure_app), how a bearer token is judged   *)
(* against the provider's key set, which is cached, refetched and rotated  *)
(* (auth/verifier.py), and the group gate behind it (auth/middleware.py).  *)
(*                                                                         *)
(* Requests wait for one lock around the key set; whoever holds it reads   *)
(* the clock first and may then wait for the provider, twice.  Time passes *)
(* in ticks; an age is not counted beyond what it is compared with.  The   *)
(* clock is time.time, which is taken not to be set back.                  *)
(***************************************************************************)
EXTENDS Integers

CONSTANTS
    Requests,       \* concurrent requests to /mcp
    Kids,           \* the key ids of the provider
    KeyAlg,         \* the algorithm each of them is made for
    Offers,         \* what clients may put into the Authorization header
    Configs,        \* the MCP_AUTH_* settings the process may start with
    CacheTicks,     \* MCP_AUTH_JWKS_CACHE_SECONDS
    MinRefetch,     \* _MIN_REFETCH_SECONDS
    FetchTicks      \* bound on one fetch, from _FETCH_TIMEOUT_SECONDS

ASSUME ClockAssumption ==
    /\ CacheTicks \in Nat /\ MinRefetch \in Nat /\ FetchTicks \in Nat
    /\ FetchTicks < CacheTicks /\ FetchTicks < MinRefetch

ASSUME RequestAssumption == "nobody" \notin Requests

(* A token names an algorithm and a key id, neither of them to be trusted; *)
(* "signed" says that the private key of that id made it, "valid" that its *)
(* issuer, audience and times are right and sub is there.                  *)
Tokens == [alg: STRING, kid: STRING, signed: BOOLEAN, valid: BOOLEAN, member: BOOLEAN]

AuthSettings == [auth: BOOLEAN, complete: BOOLEAN, jwksUrl: BOOLEAN,
             transport: {"stdio", "sse", "streamable-http"}]

ASSUME OfferAssumption ==
    /\ Kids \subseteq STRING /\ KeyAlg \in [Kids -> STRING]
    /\ Offers \subseteq Tokens /\ Configs \subseteq AuthSettings

VARIABLES
    path,       \* what the process does about /mcp
    asked,      \* the process was started with auth switched on
    published,  \* the key set the provider answers with
    gone,       \* ticks since a key left it
    keys,       \* _keys
    age,        \* ticks since _fetched_at, or Never
    url,        \* _jwks_url is known
    holder,     \* who holds _lock
    held,       \* ticks since the holder read the clock
    req,        \* what each request waits for
    said        \* the answer this step gave, and to which token

provider == <<published, gone>>
cache == <<keys, age, url>>
lock == <<holder, held>>
start == <<path, asked>>
vars == <<start, provider, cache, lock, req, said>>

Never == -1
Nobody == "nobody"
Quiet == [none |-> TRUE]
AgeCap == IF CacheTicks > MinRefetch THEN CacheTicks ELSE MinRefetch
Older(a) == IF a < AgeCap THEN a + 1 ELSE a

Idle == [at |-> "idle"]
Waits(s, t) == [at |-> s, token |-> t]
Answered(t, seen) == [at |-> "answered", token |-> t, seen |-> seen]

Verdicts == {"served", "forbidden", "invalid", "unknown", "unavailable"}

TypeOK ==
    /\ path \in {"down", "local", "open", "guarded"}
    /\ asked \in BOOLEAN
    /\ published \subseteq Kids /\ gone \in [Kids -> 0..AgeCap]
    /\ keys \subseteq Kids /\ age \in Never..AgeCap /\ url \in BOOLEAN
    /\ holder \in Requests \cup {Nobody} /\ held \in 0..FetchTicks
    /\ req \in [Requests -> {Idle} \cup
            [at: {"waiting", "discovering", "fetching"}, token: Offers] \cup
            [at: {"answered"}, token: Offers, seen: SUBSET Kids]]
    /\ said \in {Quiet} \cup [to: Offers, verdict: Verdicts]
    /\ \A r \in Requests :
          r = holder <=> req[r].at \in {"discovering", "fetching", "answered"}

NothingCached == keys' = {} /\ age' = Never

Init ==
    /\ path = "down" /\ asked = FALSE
    /\ published \in SUBSET Kids
    /\ gone = [k \in Kids |-> IF k \in published THEN 0 ELSE AgeCap]
    /\ keys = {} /\ age = Never /\ url = FALSE
    /\ holder = Nobody /\ held = 0
    /\ req = [r \in Requests |-> Idle]
    /\ said = Quiet

-----------------------------------------------------------------------------
(* auth/setup.py: build_auth                                               *)

(* Slip: an unusable configuration starts as if auth were off.              *)
BuildAuthOrOpen(c) ==
    IF c.auth /\ c.complete /\ c.transport # "sse" THEN "guarded" ELSE "open"

(* A switch without its settings, or on a transport that is not gated,      *)
(* stops the start.                                                         *)
BuildAuth(c) ==
    IF ~ c.auth THEN "open"
    ELSE IF c.complete /\ c.transport # "sse" THEN "guarded" ELSE "down"

(* server.py: build_app, http_app.  On stdio there is no /mcp at all.       *)
Start(c) ==
    /\ path = "down"
    /\ path' = IF c.transport = "stdio" /\ BuildAuth(c) # "down" THEN "local"
               ELSE BuildAuth(c)
    /\ asked' = c.auth
    /\ url' = c.jwksUrl /\ NothingCached
    /\ said' = Quiet
    /\ UNCHANGED <<provider, lock, req>>

Stop ==
    /\ path # "down"
    /\ path' = "down" /\ asked' = FALSE
    /\ url' = FALSE /\ NothingCached
    /\ holder' = Nobody /\ held' = 0
    /\ req' = [r \in Requests |-> Idle]
    /\ said' = Quiet
    /\ UNCHANGED provider

-----------------------------------------------------------------------------
(* Answers                                                                 *)

Say(r, v) ==
    /\ said' = [to |-> req[r].token, verdict |-> v]
    /\ req' = [req EXCEPT ![r] = Idle]

Become(r, s) ==
    /\ req' = [req EXCEPT ![r] = s]
    /\ said' = Quiet

(* in_group, RequireGroupMiddleware: a valid token of someone outside the   *)
(* group earns 403.                                                         *)
InGroup(t) == IF t.member THEN "served" ELSE "forbidden"

(* verify_token once _key has answered.                                     *)
Verdict(t, known) ==
    IF t.kid \notin known THEN "unknown"
    ELSE IF t.alg = KeyAlg[t.kid] /\ t.signed /\ t.valid THEN InGroup(t)
    ELSE "invalid"

Asymmetric == {"RS256", "RS384", "RS512", "PS256", "PS384", "PS512", "ES256", "ES384"}

(* verify_token up to _key: the header alone may be enough to refuse.       *)
Arrive(r, t) ==
    /\ req[r] = Idle
    /\ \/ /\ path = "open"
          /\ said' = [to |-> t, verdict |-> "served"]
          /\ UNCHANGED req
       \/ /\ path = "guarded" /\ t.alg \notin Asymmetric
          /\ said' = [to |-> t, verdict |-> "invalid"]
          /\ UNCHANGED req
       \/ /\ path = "guarded" /\ t.alg \in Asymmetric
          /\ Become(r, Waits("waiting", t))
    /\ UNCHANGED <<start, provider, cache, lock>>

-----------------------------------------------------------------------------
(* _key                                                                    *)

(* Slip: only the age of the key set is looked at.                          *)
MustFetchWhenOld(t) == age = Never \/ age >= CacheTicks

(* stale, or missing and not refetched just now                             *)
MustFetch(t) ==
    \/ age = Never \/ age >= CacheTicks
    \/ t.kid \notin keys /\ age >= MinRefetch

TakeLock(r) ==
    /\ req[r].at = "waiting" /\ holder = Nobody
    /\ \/ /\ MustFetch(req[r].token)
          /\ holder' = r /\ held' = 0
          /\ Become(r, Waits(IF url THEN "fetching" ELSE "discovering", req[r].token))
       \/ /\ ~ MustFetch(req[r].token)
          /\ Say(r, Verdict(req[r].token, keys))
          /\ UNCHANGED lock
    /\ UNCHANGED <<start, provider, cache>>

(* _discover_jwks_url: the answer is kept for the life of the process.      *)
Discovered(r) ==
    /\ req[r].at = "discovering"
    /\ url' = TRUE
    /\ Become(r, Waits("fetching", req[r].token))
    /\ UNCHANGED <<start, provider, keys, age, lock>>

(* The provider reads its key set and sends it on its way.                  *)
ProviderAnswers(r) ==
    /\ req[r].at = "fetching"
    /\ Become(r, Answered(req[r].token, published))
    /\ UNCHANGED <<start, provider, cache, lock>>

Release == holder' = Nobody /\ held' = 0

(* Slip: what was fetched is added to what there was.                       *)
StoreMerged(seen) == keys' = keys \cup seen /\ age' = held

(* _fetched_at is the time at which the lock was taken.                     *)
Store(seen) == keys' = seen /\ age' = held

KeysArrive(r) ==
    /\ req[r].at = "answered"
    /\ Store(req[r].seen)
    /\ Say(r, Verdict(req[r].token, req[r].seen))
    /\ Release
    /\ UNCHANGED <<start, provider, url>>

(* Slip: a failed fetch is tried again at once, with the lock still held.   *)
FetchFailsHolding(r) ==
    /\ holder = r
    /\ Become(r, Waits("fetching", req[r].token))
    /\ UNCHANGED <<start, provider, cache, lock>>

(* JwksUnavailableError: nothing is stored, and nothing remembers the try.  *)
FetchFails(r) ==
    /\ holder = r
    /\ Say(r, "unavailable")
    /\ Release
    /\ UNCHANGED <<start, provider, cache>>

(* The client goes away; its wait ends, and with it its hold on the lock.   *)
Abandon(r) ==
    /\ req[r] # Idle
    /\ Become(r, Idle)
    /\ IF holder = r THEN Release ELSE UNCHANGED lock
    /\ UNCHANGED <<start, provider, cache>>

-----------------------------------------------------------------------------
(* The provider, and time                                                  *)

Publish(k) ==
    /\ k \notin published
    /\ published' = published \cup {k} /\ gone' = [gone EXCEPT ![k] = 0]
    /\ said' = Quiet
    /\ UNCHANGED <<start, cache, lock, req>>

Withdraw(k) ==
    /\ k \in published
    /\ published' = published \ {k}
    /\ said' = Quiet
    /\ UNCHANGED <<start, gone, cache, lock, req>>

(* A fetch ends, one way or the other, within its timeouts.                 *)
Tick ==
    /\ holder # Nobody => held < FetchTicks
    /\ held' = IF holder = Nobody THEN held ELSE held + 1
    /\ age' = IF age = Never THEN age ELSE Older(age)
    /\ gone' = [k \in Kids |-> IF k \in published THEN 0 ELSE Older(gone[k])]
    /\ said' = Quiet
    /\ UNCHANGED <<start, published, keys, url, holder, req>>

-----------------------------------------------------------------------------
FetchStep(r) == Discovered(r) \/ ProviderAnswers(r) \/ KeysArrive(r) \/ FetchFails(r)

Next ==
    \/ \E c \in Configs : Start(c)
    \/ Stop \/ Tick
    \/ \E r \in Requests :
          \/ \E t \in Offers : Arrive(r, t)
          \/ TakeLock(r) \/ FetchStep(r) \/ Abandon(r)
    \/ \E k \in Kids : Publish(k) \/ Withdraw(k)

Spec == Init /\ [][Next]_vars

(* asyncio.Lock serves its waiters in turn, and every wait for the provider *)
(* has a timeout.                                                           *)
Fairness == \A r \in Requests : SF_vars(TakeLock(r)) /\ WF_vars(FetchStep(r))

FairSpec == Spec /\ Fairness

-----------------------------------------------------------------------------
Saying(v) == said # Quiet /\ said.verdict = v

(* setup.py:3: "fails closed: auth switched on but missing a setting, or on *)
(* a transport this package doesn't gate, stops the server from starting    *)
(* rather than letting it start open."  With auth switched on, whoever is   *)
(* served showed a token that the provider signed for that very key and     *)
(* algorithm, that is valid here, and that names the group.                 *)
OnlyMembersServed ==
    asked /\ Saying("served") =>
        LET t == said.to IN
        /\ t.kid \in Kids /\ t.signed /\ t.alg = KeyAlg[t.kid]
        /\ t.valid /\ t.member

(* verifier.py:18: "The key set is cached for MCP_AUTH_JWKS_CACHE_SECONDS." *)
(* A key the provider withdrew stops being accepted when that time is over, *)
(* however the fetches, failures and requests in between fell.              *)
WithdrawnKeyExpires ==
    path = "guarded" /\ said # Quiet /\ said.verdict \in {"served", "forbidden"} =>
        gone[said.to.kid] < CacheTicks

(* verifier.py:18: "A token naming a key id the cache lacks forces one      *)
(* early refetch, so a rotated key works at once, but no more than once per *)
(* _MIN_REFETCH_SECONDS".  The key of the provider is called unknown only   *)
(* while the last successful fetch is younger than that.                    *)
UnknownOnlyWhenJustFetched ==
    Saying("unknown") /\ said.to.kid \in published => age < MinRefetch

(* Every request is answered, or its client gives up, or the server stops:  *)
(* no failure, timeout or disconnect leaves the lock behind.                *)
EveryRequestAnswered ==
    \A r \in Requests : req[r] # Idle ~> req[r] = Idle
=============================================================================
