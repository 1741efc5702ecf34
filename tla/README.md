# TLA+ models of homelab-registry-mcp

Specifications, model-checking runs and machine-checked proofs about the
concurrent and stateful core of the server in `src/src/registry_mcp/`. Paths
below are relative to that directory unless they start with `docs/` or `tests/`.

- [1. The system](#1-the-system)
- [2. Modules and how they correspond to the code](#2-modules-and-how-they-correspond-to-the-code)
- [3. Runs](#3-runs)
- [4. Fairness](#4-fairness)
- [5. Proofs](#5-proofs)
- [6. Where code and documentation disagree](#6-where-code-and-documentation-disagree)
- [7. Not modelled](#7-not-modelled)
- [8. Plan](#8-plan)

## 1. The system

One process, one asyncio event loop, one SQLite file. MCP tool calls, webhook
requests, scheduled jobs and background tasks share the loop. A store method is
synchronous, so it runs to its end uninterrupted; everything else interleaves,
but only at an `await`. Three facts follow, and every module builds on them:

* an action covers the code between two awaits, never less and never more;
* whatever was read before an await may be out of date after it;
* a tool call can be cancelled at any of its awaits (`CancelledError` is not an
  `Exception`, so the code's `except Exception` does not see it), and a stop of
  the process ends all of them while the database keeps what was committed.

### Inventory

| Component | State | Operations | Talks to | Hard part | What makes it correct |
|---|---|---|---|---|---|
| Service registry (`registry/store.py`, `reconcile.py`) | services, provenance rows with `missed_passes`, change events, stale and conflict flags | `reconcile`, `create_service`, `update_service`, `delete_service` | discovery, tools | answers applied late, out of order, by overlapping passes; sources that disagree | the stale flag agrees with the rows; flags come to rest; a pass that brings no news records none |
| Discovery (`discovery/engine.py`, `scheduler.py`) | passes in flight, hook lock and pending flag | one job per source, `discovery_run_now`, `_pass_complete` | sources, registry, reasoner, hook | coalescing, cancellation, the reasoner's late answers | one hook run at a time, no request lost |
| Discovery sources (`discovery/*.py`) | none | `discover()` | Traefik, Authentik, Docker, Dockhand | an answer without the outposts | items say what the homelab is |
| Proposal engine (`proposal/engine.py`, `lifecycle.py`, `store.py`) | proposal rows; pull requests on the host | create, sync, sweep, auto-create, cancel, verify | Git host, model, registry, notifier | minutes between check and write; lost answers; a human acting at any time | one open proposal per finding; a human's "no" is respected; finished rows are retired |
| Revisions from review comments (`proposal/engine.py` 457-562) | `last_comment_id` of a row; the branch | poll, list comments, revise, commit | Git host, model | pages that shift, pushes during a draft, lost or late commits | one commit per comment, none passed over, no push overwritten |
| Dockhand webhook (`webhooks/dockhand.py`) | none | an alert creates a proposal | proposal engine | alerts arrive in bursts | as above |
| Patch approval (`webhooks/patchmon.py`, `webhooks/approval.py`, `patching/`) | approval rows | receive an alert, mail links, approve, cancel, run a playbook, purge | PatchMon API, SMTP, ansible | duplicate deliveries, ambiguous mail, expiry, double clicks, crashes | a playbook runs at most once, only after a timely yes |
| Dockhand action gate (`integrations/dockhand/gate.py`) | pending actions | request, claim, finish, purge | Dockhand | cancel between claim and finish | as one-shot question |
| Deletion and inventory gates (`deletion/`, `inventory/store.py`) | pending requests | request, confirm, purge | registry, hardware, Git | deleting what changed meanwhile | as one-shot question |
| Adoption and secrets tools (`tools/adoption.py`, `tools/secrets.py`, `gitcrypt.py`) | drafts; one clone with its index, branches and git-crypt filter; branches on the host | draft, finalize, cancel, encrypt, add, read | SSH, git, model, Git host | every git command is an await and nothing locks the clone | what is pushed is the draft's own secrets, encrypted; a pull request keeps its compose file |
| Normalization (`normalization/`) | one open row per node; the branch | sweep, format, escalate to the model | Git host, model | edits between scan and branch; failure between pull request and row; rules that undo each other | formatting only; comments stay; one open row per node; every file ends canonical |
| OAuth resource server (`auth/`) | cached signing keys, their age, a lock | `build_auth`, `verify_token`, `_key`, the group gate | identity provider | one lock over two fetches; failing fetches; rotated and withdrawn keys | fails closed; a withdrawn key expires; every request is answered |
| Hardware registry (`hardware/store.py`, `tools/hardware.py`) | nodes, by id and by name | add, update, delete, discover | ansible | a name deleted and registered anew under a new id | a change is made to the node a human meant |
| Configuration and its report (`config.py`, `config_report.py`, the gates of `server.py` and every `register_*`) | the environment | read, report, start | operator | a table kept by hand beside the gates it describes | the report and the server agree |
| Linking, intake, deploy scaffolding, read-only integrations, logging | rows or none | synchronous edits and HTTP reads | | little | |

Components, their files and their status are listed in `PROJECT.json`; so is
every place in the code that is hard to test, with the properties that watch it
(`hazards`).

### How the parts interact

```
 scheduler / discovery_run_now --> pass of a source
                                        |  items matched to services          ServiceMatching
                                        |  rows, provenance, stale flag       ServiceRegistry   \
                                 _pass_complete (one at a time, coalesced)    PassHook           > DiscoveryEngine
                                        |                                                       /
                 after_discovery: sync_pr_states, sweep, auto-create          Proposals
                                        |                ^
                                   Git host, model       |  proposal_create / cancel / verify,
                                        |                |  Dockhand webhook
                 comments of reviewers, polled --> commits on the branch      Revisions

 PatchMon webhook --> approval row --> mail --> link --> ansible playbook     PatchApproval
                                                        implements            OneShotQuestion
 confirm tools --> challenge --> delete / inventory / Dockhand                ConfirmationGate
        ^                           implements                                OneShotQuestion
        |  discovery of hosts, registrations, edits of nodes

 proposal_adopt_service, secrets_* --> one clone --> branch, pull request     Adoption
 normalization job, proposal_normalize --> formatter --> pull request         Normalization
                                           the formatter                      ComposeFormat
 /mcp --> bearer token --> cached keys --> group --> tools                    ResourceServer
 environment --> report, and every gate of the server                         Environment,
                                                                              ConfigReport
```

`ServiceRegistry` and `PassHook` are composed in `DiscoveryEngine`: the passes
of the one write what the runs of the other read, and a pass ends where the hook
is asked for. `ServiceMatching` says which service an item belongs to, which
`ServiceRegistry` takes for given, and justifies what `Proposals` assumes of an
`auth_mode_conflict`. `DiscoveryEngine` justifies that `Proposals` has a single
task `Hook`, that this task keeps being run, and that it sees the registry as it
is in the end. `Revisions` works on the rows that `Proposals` opens; the two meet
only in a row's status, which `Revisions` lets anyone settle at any time.

## 2. Modules and how they correspond to the code

`PROJECT.json` maps every definition to the lines it stands for. A definition
whose comment begins with "Slip:" is not part of a specification: it is a wrong
variant of the definition below it, used to check that a property would notice.
The `MC*` modules give the constants of a specification values for TLC; the
`*_proof` modules hold theorems: `DiscoveryEngine_proof` about the engine, its
two parts and `ServiceMatching`, `Server_proof` about `ResourceServer` and `Environment`, the
others about the module they are named after.

### ServiceRegistry

`registered`, `stale` and `missed` are the service table, its stale column and
the provenance table (`NoRow` where there is no row). `Reconcile(src, seen)` is
`RegistryStore.reconcile` after matching: upsert the rows of the services seen,
count a miss for every other row of the source, and mark as stale what every
discovery source has lost. The `manual` provenance of a hand-registered service
is never touched by a pass and is not counted. A pass is two actions,
`PassFetch` (what the source answers) and `PassReconcile` (the synchronous
write), with anything in between; `PassFail` covers a raising source, a raising
reasoner and a cancelled call. A job of a source runs one pass at a time; tool
calls add passes beside it. `Restart` may come back with other sources
configured. `missed_passes` is only ever compared with the threshold, so it
stops there (`MissCap`).

### PassHook

`locked` and `pending` are `_hook_lock` and `_hook_pending`; `at` says who is in
a pass and who is inside the hook. `Complete` is `_pass_complete` up to its
await: testing and taking a free `asyncio.Lock` does not yield, so it is one
step. `RunEnds` is the `while` loop's next turn; a raising hook is logged and
does not differ. `Cancel` releases the lock (`async with`) but leaves `pending`.
`unread` is a history: whose writes no run has started after.

### DiscoveryEngine

Both of the above, as `discovery/engine.py` puts them together. It EXTENDS
`ServiceRegistry` and has an INSTANCE of `PassHook` whose jobs are the sources
and whose tool calls are those of the registry. An action is one step of each:
`Fetch` a pass that starts, `Continue` a source of a tool call that is followed
by another, `Finish` the write of a pass, or its failure, and `_pass_complete`
in one go, because there is no await between them; `Stop` restarts both. `known`
is the registry as the latest run of the hook found it. The composition adds what
neither part can say: `HookKnowsInTheEnd`. Both parts are shown to be
implemented by it (section 5).

### ServiceMatching

`rows` is the service table in the order of its rows, with the columns matching
and merging look at: name, router, Authentik slug and whether it is pinned,
hosts, `auth_mode`, what Traefik and Authentik last reported (`traefik`,
`authentik`) and the conflict flag. `Match` is `match_service`; `Enriched` is
`provenance_updates` with the rule that a bare router does not demote a proxied
mode; `NewRow` is an insert; `Target` puts the reasoner's answer after the
deterministic match; `Merge` is `reconcile` for all items of an answer, in their
order. A pass is three actions: `Ask`, `Reason` (the model is asked about the
items that match nothing *now*), `Apply` (to the table as it is *then*). The
homelab (`chain`, `provider`, `running`, `outposts`) and the operator change
things in between. `hand[t]` is what pass `t` has in hand; `Merged` has the table
after each item of an answer, and `Apart` says that no two items of it meet. `AnswersOf("traefik")` has two members, since the outposts are
looked up on the side and an error counts as none.

### Proposals

`proposals` is the table in the order of its rows, `prs` the state of every pull
request on the host, `service` and `news` what the proposal engine reads from
the registry (does the conflict stand; has anything changed since the last
rejection, or a day gone by). A finding is a pair of service and finding type;
`AuthConflicts` are those of type `auth_mode_conflict`, the others come from
Dockhand alerts. `work[t]` is the await a task is suspended in, with the local
variables that matter after it:

| `work[t].on` | the task waits for | code |
|---|---|---|
| `dedupe` | the state of the open proposal's pull request | `engine.py` 244-262 |
| `draft` | the file and the model | 264-293 |
| `push` | branch, commit, pull request | 312-323 |
| `opened` | the answer that the pull request exists (label, notifier) | 323-347 |
| `close` | the host to close a pull request | 564-574 |
| `sync` | the state of the next listed row's pull request | 351-357 |
| `sweep` | the notifier, between two verified rows | 359-393 |

Answers that change something are final on the host (a merged or closed pull
request), so reading and applying such an answer is one step. Every wait can
also end in an unreadable answer (`SyncLeaves`, the second half of
`DedupeAnswered`), a failure (`GiveUp`) or a cancelled task (`Abort`).
`AutoCreates` visits services in table order and skips the ones that get
nothing; `CanRemedy` and `Eligible` are read at the moment of the visit.
`DraftAccepted` names the gates an answer of the model passes.

### Revisions

The comment-polling job. `row[p]` is a proposal's status and `last_comment_id`,
`said` all comments in the order of their ids, `head[p]` what the file on the
branch contains, as the set of the revisions and pushes that went into it. `at`
is the await the job is suspended in: a page of comments (`listing`), then for
each new comment the authorisation (`judging`), the file (`reading`), the model
(`thinking`), the blob's sha (`stating`), the commit (`putting`, and `put` once
it has landed). A commit on its way is in `flight`: it names the version of the
file it replaces, lands if that is still the one, and may land after its sender
was told of a failure or was stopped. Every decision ends in `Saved`, which
writes one column of the row and does not read it again. `judged`, `landed`,
`cut`, `shifted`, `raced` and `dropped` are histories.

### PatchApproval and OneShotQuestion

Rows are named by the webhook request that created them. `handler` is where a
delivery is suspended (host details, SMTP), `job` is the background task behind
an approved page, `inbox` the mails that arrived, `runs` the playbooks started.
`Consume` is the check of the token and the conditional `UPDATE` at two readings
of the clock (`patching/store.py` 146-183). `RecordOutcome` overwrites any
status, as the code does. `FetchesDetails`, `AmbiguousDelivery` and `Crashes`
switch on the three behaviours that refute properties which otherwise hold.

`OneShotQuestion` is the promise of every human gate in this server: a question
is answered at most once, and acted upon at most once, and only after a yes.
`PatchApproval` and `ConfirmationGate` implement it (`OneShot`), each under its
own mapping `AnswerTo`.

### ConfirmationGate

Four tool pairs ask an arithmetic question and act on the right answer. The
three stores behind them have the same rows and nearly the same tests, so a
challenge has one `status`; `kind[r]` is the tool pair and decides what `Confirm`
checks: `deletion/store.py` and `inventory/store.py` read the clock once and
compare with `<` (`Consume`), the Dockhand gate tests at one reading and claims
the row with a conditional `UPDATE` at a later one (`ConfirmAction`, `Claims`).
A claim that comes too late changes no row and is a stutter.

`running[r]` is the confirm tool at work on a challenge. The deletion and sync
tools do not await between the consumed challenge and its effect, so nothing but
a stop of the process comes in between (`Idle`), but these are two commits.
`PostAction`, `ActionApplied` and `ActionReturns` are the one awaited call to
Dockhand: the request may take effect late, or after everyone gave up on it, and
`ActionCancelled` is a cancelled tool call, which `except Exception` does not
see. `cut` remembers the challenges whose tool was stopped half-way.

Services and nodes are ids, never given out twice (`entity`); two node ids with
one `HostOf` are a node that was deleted and registered or discovered again.
`known` is a history: the addresses a human or Ansible ever gave for a host.
Not part of it: the group a sync may put the host into, the other fields of a
node, and the link from services to a node, which a deletion leaves dangling.

### Adoption

The clone is what git and git-crypt make of it: the checked-out branch `head`,
the branches `local`, the `index`, the working tree `work`, and whether the
filters are configured (`unlocked`). A branch is the sequence of the trees of its
commits, a file's content the set of those who wrote into it, with `Clear` for a
blob that did not pass the filter and `Cipher` for a file whose text is
ciphertext. The code does not see `unlocked`; `is_locked` looks into the first
file it finds that `.gitattributes` lists, and calls the clone unlocked when there
is none or that one is plaintext (`Shown`, `LooksLocked`, `LooksUnlocked`: with
more than one listed, any may be the first). Each git command is an action, with
the refusals git has: a checkout that would overwrite local changes, an unlock or
lock in a dirty tree, a commit with nothing staged, a push that is no
fast-forward, a branch or a pull request that exists. `finalize` is
`FinalizeCheckout`, then either `FinalizeCheck` (`is_locked` says no, and the
`.env` is written without another await) or `FinalizeUnlock`, then `FinalizeAdd`
and `FinalizeDiff` (two commands, between which the index may change),
`FinalizeCommit`, `FinalizePush` for a draft with secrets, `FinalizeBranch` for
one without, then `FinalizeCompose` and `FinalizeOpen` through the host's API;
`Fails` may end any await. `secrets_encrypt`, `secrets_add` and the readers work
in the same clone. `marred` is a history of the drafts whose finalize had company
or found something staged, `misled` of those whose finalize `is_locked` told that
a locked clone was not.

### ComposeFormat and Normalization

`ComposeFormat` is `formatter.py` and `rules.py` on abstract texts: a text is a
sequence of lines, each a root key, a label (list item or mapping entry), a
comment or a blank. `Normalize` does what `normalize` does, step by step: reorder
root keys with the comments above them, turn the label list into a mapping, sort
labels, drop `version`, squeeze blanks; it gives up where the code does, and says
which rules it skipped. `Meaning` is the parsed file; `Equivalent` the gate
`normalize` and the model's answers have to pass.

`Normalization` is the sweep: `List`, `ReadFile`, `Scanned`, then per node
`SkipNode` or `EnterNode` (the open row, retired if its pull request is
finished), `FormatFile`, `Branch`, `Commit`, `Delete`, `Open`. The branch starts
from the base as it is by then, and the row is written right after the pull
request's answer, which may be lost. `base` is the base branch, `pull[k]` a pull
request with what it forked from and what it holds, `rows[n]` the open rows of a
node, which is a set because nothing in the database keeps it from having two.

### ResourceServer

`path` is what the process does about `/mcp` after `build_auth`; `keys`, `age`
and `url` are the verifier's cache, `holder` the lock around it, `held` the ticks
since its holder read the clock (`_fetched_at` is that reading, not the time of
the answer). A request waits for the lock, then perhaps for discovery and for
the key set; the answer it gets is the key set at the moment the provider read
it. `Offers` are the tokens clients may show; what a token says of itself is not
to be trusted. `said` is the answer given in the last step, so that invariants
can speak of answers at the time they are given. Ages are not counted beyond
what they are compared with (`AgeCap`). The verifier's clock is `time.time`; it is taken
not to be set back, which would prolong the life of a cached key by as much.

### Environment and ConfigReport

`Environment` has the report, the gates and what an operator does with them;
`ConfigReport` adds what TLC needs of it, the environments to start from and a
bound on the edits. `env` is the environment. Settings that play one role are one
here (the tuning of a feature, the halves of a credential). `Feature` is the
report's table, `On`, `Missing`, `Warned`, `Replaced` and `DoesNothing` its
verdicts. The model of the reasoning layer is one of Anthropic's, of another
provider or one that needs no key; `dspy.LM` gets `DSPY_API_KEY` or nothing, and
then the provider's library looks for a key of its own in the environment
(`ProviderKeys`), of which the report knows Anthropic's only. On the other side
stand the gates: one operator for each part of the server (`Polls`, `Sweeps`,
`Adopts`, ...), translated from the module that starts or registers that part, and
in `ReadPart` and `WritePart` the settings the part reads. `Server` is what runs,
and with which values; two environments with one `Server` cannot be told apart
from outside. `Remove` takes out a key the report calls useless.

## 3. Runs

| Run | Instance | Shows |
|---|---|---|
| `discovery` | 1 service, 2 sources, 1 tool call, threshold 2; registry and hook composed | `StaleIffAllLost` in every state, whatever order passes are applied in; `ForgottenOnlyWhenCut`; in a homelab at rest, `FlagsSettle` and `HookKnowsInTheEnd` |
| `matching` | 1 router, 1 application, 1 container, one of them under each name; scheduled passes of Traefik and Authentik, a pass of Docker beside them; 2 changes by people | `IdenticalPassRecordsNothing`, `ConflictFollowsHomelab`, `MatchingTypeOK` |
| `revisions` | 2 proposals, 2 comments, 1 comment per page, 1 push, 2 mishaps | `OneCommitPerComment`, `NothingSkipped`, `PushesKept`, `EveryCommentConsidered` |
| `proposals` | one auth conflict (hook), one image update (call), 2 rows, 2 pull requests | `OneOpenProposalPerFinding`, `ClosedIsANo`, `NoRepeatedRejection`, `MergedFixWaitsForDiscovery`, `FinishedIsRetired`, `ClearedIsVerified` |
| `patch` | 2 deliveries of one alert, everything that can go wrong switched on | `AnsweredInTime`, `OneShot` (a playbook runs at most once, and only after a yes) |
| `patch_up` | 3 deliveries of 2 alerts, no API, no crashes, unambiguous mail | `OneOpenQuestionPerAlert`, `PendingMeansEmailed`, `ApprovedIsSettled` |
| `confirmation_gate` | 2 challenges of any kind, 1 service, 2 node ids of one host | `AnsweredInTime`, `OnlyAsConfirmed`, `ConfirmedMeansGone`, `InventoryKnown`, `OutcomeRecorded`, `OneShot` |
| `adoption` | 2 drafts, 2 calls at a time and 3 in all, 2 `.env` files of which one is listed | `UndisturbedIsExact`, `PullRequestKeepsCompose` |
| `adoption_first` | the same without an encrypted file to start with, 1 call | a counterexample to `EnvIsEncrypted`, see section 6 |
| `normalization` | 1 node, 3 paths, 3 trees to start from, one file per pull request, 2 mishaps, 1 answer of the model | `OneOpenRowPerNode`, `FormattingOnly`, `CommentsStay`, `BecomesCanonical` |
| `resource_server` | 2 requests, 2 keys, 6 tokens, 6 configurations | `OnlyMembersServed`, `WithdrawnKeyExpires`, `UnknownOnlyWhenJustFetched`, `EveryRequestAnswered` |
| `config_report` | every pair of features set up, with and without the health check's paths, the reasoning layer with each kind of model and key; one key changed, any removed | `MirrorsTheGates`, `SafeToRemoveButForSweeps` |

Every property has a mutant in `PROJECT.json`: a plausible slip in one definition
that makes it fail. Type correctness of the modules with proofs is a theorem
(of `Normalization` as far as its properties need it, `Shape` and `SweepInv`);
`MatchingTypeOK` of `ServiceMatching` is in its run too, since it also says that
names stay unique.
`MCNormalization` has an ASSUME besides,
`FormatterLaws`, which TLC evaluates for every text of up to four lines: the
formatter keeps the meaning and comes to rest. `MCNormalizationNotes.cfg`, beside
the runs, evaluates `NotesLaw`, that it leaves comments where they belong in every
text of up to five lines, and the hypothesis of `CommentsStayPut` (section 5) for
the texts of the run `normalization`; both hold.

These configurations are not among the runs either. Each gives a counterexample that is
worth having at hand (section 6); run them with `tlc -config <file> <module>`:

| Configuration | Module | Refutes |
|---|---|---|
| `MCPatchApprovalRace.cfg` | `MCPatchApproval` | `OneOpenQuestionPerAlert`, with the PatchMon API configured |
| `MCPatchApprovalUndelivered.cfg` | `MCPatchApproval` | `UndeliveredNeverRuns`, with ambiguous mail |
| `MCPatchApprovalCrash.cfg` | `MCPatchApproval` | `PendingMeansEmailed`, with crashes |
| `MCProposalsStorm.cfg` | `MCProposals` | `OneOpenProposalPerFinding`, with two creators for one finding |
| `MCAdoptionOverlap.cfg` | `MCAdoption` | `NeverOnAnothersBranch`, with two finalizes at once |
| `MCConfigReportSweeps.cfg` | `MCConfigReport` | `SafeToRemove`, with `NORMALIZATION_ENABLED` off |
| `MCServiceMatchingTwo.cfg` | `MCServiceMatching` | `IdenticalPassRecordsNothing`, with two routers for one host |

### Bounds, and why they are enough

* **discovery** (430 000 states): `Reconcile` treats every service by itself, so
  one service shows what many do; two sources and a concurrent tool call give
  every order of two late answers, a run that is handed over and a run that is
  cut, and threshold 2 separates "missed once" from "lost". The proofs of
  `StaleFlagCorrect`, `HookSerialized` and `HookNeverForgets` have no bounds.
* **matching** (114 000): one router, application and container that share a host
  but not a name can be matched by name, by router, by host, by the model or not
  at all, so that rows are merged, split and linked in every order of three
  passes. `MaxChanges` 2 lets a person change something and take it back.
* **revisions** (144 000): one comment per page makes every boundary of a page a
  boundary of an answer; two proposals, so that one failing must not block the
  other; two mishaps, so that a stop and a late commit can meet.
* **proposals** (690 000): two rows and two pull requests give an open and a
  finished attempt of one finding, or one attempt of each of two. `MaxProposals`
  and `MaxPRs` are guards of the actions that add a row or a pull request: a task
  that meets them stays where it is, or gives up.
* **patch**: `TTL` is 2 (1 in `patch_up`) and the clock runs one unit past it,
  so there are moments before, at and after the expiry. Two deliveries of one
  alert, and in `patch_up` a third of another alert.
* **confirmation_gate**: two challenges, so that two may be about one entity, or
  one may be confirmed between another's question and answer. Two node ids under
  one name are needed for a node that is deleted and registered anew while a
  challenge for the old one is open. `TTL` 1 and `MaxTime` 2 give moments before,
  at and after the expiry. One address is enough, because a wrong entry in the
  inventory is one that was never given for the host.
* **adoption** (2 500 000): two drafts are enough for one to meet the other's
  branch and files; three calls, two of them at a time, give a finalize that
  fails, another call in between, and the retry that resumes the branch. One file
  may be listed in `.gitattributes` and encrypted from the start, so that both
  an honest and a misled `is_locked` happen, in a locked and an unlocked clone; the
  `secrets_*` tools are called with that file. Calls are interchangeable, and TLC
  takes them so (`SYMMETRY`); both properties are invariants.
* **normalization** (680 000): `MaxFiles` 1 makes the cap bite, the second stack's
  file has a former name, and the trees to start from hold what the rules trip
  over: `version`, keys out of order with comments above them, labels twice, a
  file that is no compose file. Two mishaps put an edit, a failure, a rejection or
  a restart between any two steps; three pull requests are the open one, one that
  lost its row, and one that the next sweep opens beside it.
* **resource_server** (188 000): the cache is kept 4 ticks, refetches are 2
  apart, a fetch takes up to 1, so that every order of "stale", "too early" and
  "just fetched" happens. Two keys of different algorithms give rotation,
  algorithm confusion and unknown ids.
* **config_report** (100 000): a feature's verdict depends on its own needs and on
  at most one other feature that reads the same key, so pairs show what there is
  to see; the changed key gives every half-configured feature. The theorems of
  `Server_proof` are about every environment.

`CHECK_DEADLOCK FALSE` is set where the system really may come to rest: in the
patch runs (all alerts answered and the bounded clock at its end), in
`normalization` and `revisions` (all mishaps used up; nothing is left to do, or
the process is up but does not poll) and in `config_report` (nothing left to
remove). Elsewhere the check stays on.

## 4. Fairness

Only the server's own steps are fair; people, the homelab, the host, crashes and
cancelled calls never have to happen.

* `DiscoveryEngine`: a source's job is started when it is idle (`WF Fetch`, the
  scheduler's interval), a source that is asked again and again is answered in
  the end (`SF`, although any single pass may fail or be cut by a restart), and
  hook runs end (their waits have timeouts). Nothing is assumed of tool calls,
  which may be cancelled every time, but that a hook run they took over ends.
  `FlagsSettle` and `HookKnowsInTheEnd` speak of a homelab at rest (`Quiet`).
  `ServiceRegistry` and `PassHook` state the same fairness for themselves.
* `ServiceMatching`: the same, for the scheduled passes of Traefik and Authentik;
  `Reason` and `Apply` are strongly fair, because any pass may fail.
* `Revisions`: the scheduler starts the job when it is idle, each of its awaits
  comes back, and a page that is asked for again and again arrives in the end.
  Comments are considered only while the server keeps polling.
* `Normalization`: the schedule starts a full sweep again and again (`SF`, since a
  tool's sweep may hold the lock), each await returns, and a reviewer decides on
  every pull request. The last is an assumption about people: without it an open
  pull request keeps its node from being swept for ever, by design.
* `ResourceServer`: `asyncio.Lock` serves its waiters in turn (`SF TakeLock`), and
  a wait for the provider ends, as httpx has a timeout.
* `Proposals`: the hook keeps being run (`HookKnowsInTheEnd`), its
  waits end, and a pull request whose state is asked for in every pass is read
  in one of them (`SF SyncRetires`). `Stable` excludes that every pass is cut
  short from some point on, by restarts or by an answer that makes the hook
  raise: the code starts each pass from the newest row, so an answer that always
  raises at the same row would keep the older ones from being looked at.
* `PatchApproval`: the loop schedules handlers and background tasks, and each of
  their awaits has a timeout. `ApprovedIsSettled` is checked without crashes: a
  stop during a run leaves the row approved, a risk `docs/ADRs` accepts.

## 5. Proofs

All theorems hold for every value of the constants that satisfies the named
assumptions of the module; none uses the value of a bound.

| Theorem | Says | Rests on |
|---|---|---|
| `DiscoveryEngine_proof!RegistryTypeCorrect` | types of `ServiceRegistry`; no provenance row outlives its service | `ThresholdAssumption`, `ManualAssumption` |
| `DiscoveryEngine_proof!StaleFlagCorrect` | `[]StaleIffAllLost` of `ServiceRegistry` | `TypeOK`; the key lemma `ReconcileKeepsAgreement` |
| `DiscoveryEngine_proof!HookTypeCorrect`, `HookSerialized` | of `PassHook`: the lock is held exactly while the hook runs; one run at a time | `HookInv` |
| `DiscoveryEngine_proof!HookNeverForgets` | `ForgottenOnlyWhenCut` of `PassHook` | `HookInv`; `HookForgetsNothing` |
| `DiscoveryEngine_proof!ImplementsRegistry`, `ImplementsHook` | `EngineSpec` implies the specification of each of its parts | step by step; `TaskAssumption` |
| `DiscoveryEngine_proof!EngineStaleFlagCorrect`, `EngineSerialized`, `EngineNeverForgets`, `EngineTypeCorrect` | the same in the whole engine | the two refinements, the theorems of the parts |
| `DiscoveryEngine_proof!MatchingTypes` | `[]MatchingTypeOK` of `ServiceMatching`: rows and what passes have in hand are well-typed, and names stay unique | `ListAssumption`; induction over the items of an answer |
| `DiscoveryEngine_proof!ApartPasses` | `ApartPassRecordsNothing`: a pass whose items do not meet records nothing when repeated | `MatchingTypes`; `ApartTwice` |
| `DiscoveryEngine_proof!IdenticalPass` | `IdenticalPassRecordsNothing`, if every pass keeps its items apart | `ApartPasses` |
| `Proposals_proof!TypeCorrect` | `[]TypeOK` | the three assumptions of `Proposals` |
| `Proposals_proof!NoDuplicates` | `OneCreator => (Spec => []OneOpenProposalPerFinding)` | `IInv` below |
| `Proposals_proof!MergedFixWaits` | `MergedFixWaitsForDiscovery` | `TableInv`, `WaitInv` |
| `Proposals_proof!ClosedStaysNo` | `ClosedIsANo` | `TableInv` |
| `Proposals_proof!RejectsOnce` | `OneCreator => (Spec => NoRepeatedRejection)` | `IInv`, `HookAsksNot`, `HookInv` |
| `Revisions_proof!TypeCorrect` | `[]TypeOK` | the assumptions of `Revisions`; `CutInv` |
| `Revisions_proof!OneCommit` | `[]OneCommitPerComment` | `QueueInv`, `CommitInv` |
| `Revisions_proof!NothingIsSkipped` | `[]NothingSkipped` | `ListInv`, `LastInv` |
| `Revisions_proof!KeepsPushes` | `[]PushesKept` | `PushInv` |
| `PatchApproval_proof!TypeCorrect`, `SingleUse`, `NothingUnapproved`, `InTime` | `[]TypeOK`, `[]AtMostOneRun`, `[]NothingRunsUnapproved`, `[]AnsweredInTime` | `IInv` below |
| `PatchApproval_proof!OneOpenQuestion` | `~FetchesDetails => (Spec => []OneOpenQuestionPerAlert)` | `IInv` |
| `PatchApproval_proof!PendingIsEmailed` | `~Crashes => (Spec => []PendingMeansEmailed)` | `IInv` |
| `PatchApproval_proof!UndeliveredIsDead` | `~AmbiguousDelivery => (Spec => []UndeliveredNeverRuns)` | `MailInv` |
| `PatchApproval_proof!ImplementsOneShot` | `Spec => Question!Spec` | `IInv`, step by step |
| `ConfirmationGate_proof!TypeCorrect`, `InTime`, `NothingUnconfirmed`, `ConfirmedIsGone`, `Recorded` | `[]` of `TypeOK`, `AnsweredInTime`, `OnlyAsConfirmed`, `ConfirmedMeansGone`, `OutcomeRecorded` | `HostAssumption`, `GateTimeAssumption`; `IInv` below |
| `ConfirmationGate_proof!OnlyKnownAddresses` | `[]InventoryKnown` | `AddressInv` |
| `ConfirmationGate_proof!HandsOff` | `ReadOnlyHandsOff` | `ReadOnlyInv`: no sync or Dockhand tool is at work in a read-only process |
| `ConfirmationGate_proof!ImplementsOneShot` | `Spec => Question!Spec` | `IInv`; `ConfirmAnswers`, `EffectActs` |
| `Adoption_proof!TypeCorrect` | `[]TypeOK` | `DraftAssumption`; `CloneInv` |
| `Adoption_proof!KeepsCompose` | `[]PullRequestKeepsCompose` | `StageInv`, `GrowInv`, `OpenInv` |
| `Adoption_proof!UndisturbedExact` | `[]UndisturbedIsExact` | `DraftInv`, `ExactInv`, `SoleInv` |
| `Normalization_proof!OneRowPerNode` | `[]OneOpenRowPerNode` | `IInv` below |
| `Normalization_proof!OnlyFormats` | `[]FormattingOnly` | `PathAssumption`, `TextAssumption`; `SweepInv` |
| `Normalization_proof!NoCommentLost` | `[]CommentsKept`: no comment is lost from a file the formatter alone did | `NotesInv` |
| `Normalization_proof!CommentsStayPut` | `FormatterKeepsNotes => (Spec => []CommentsStay)` | `NotesInv`; `NotesKeptItself` |
| `Server_proof!TypeCorrect`, `MembersOnly`, `WithdrawnExpires`, `UnknownIsNews` | of `ResourceServer`: `[]` of `TypeOK`, `OnlyMembersServed`, `WithdrawnKeyExpires`, `UnknownOnlyWhenJustFetched` | `ClockAssumption` (a fetch times out before the cache and the refetch interval do), `OfferAssumption`, `RequestAssumption` |
| `Server_proof!ReportMirrorsGates` | `[]MirrorsTheGates`, from any environment whose values `Settings` accepts, however it is edited | `AllMirrored` |
| `Server_proof!RemovingIsSafe` | `SafeToRemoveButForSweeps`, from any environment | `Removal`, `GatesKept` |

A theorem with a hypothesis (`OneCreator`, `~FetchesDetails`, `Apart`, ...) is about the
configurations of the server, or the homelabs, in which the property is true; the
runs have one, and section 6 has the counterexample of the others. The hypothesis
of `CommentsStayPut` is of another kind: a law of the formatter, see below.

*ServiceRegistry.* The flag and the rows change together, so
`TypeOK /\ StaleIffAllLost` is inductive, but only because of a case the code
depends on: a pass of a source that never saw a service counts no miss for it,
so the other sources' verdict is unchanged.

*PassHook.* A run that ends with a request pending begins again, and every run
begins by taking on what is unread; so what is unread and unasked for after a
step was so before, or the step is a cancelled call or a stop
(`HookForgetsNothing`).

*DiscoveryEngine.* What passes write does not depend on when the hook runs, and
when it runs does not depend on what they write; so a step of the engine is a
step of each part or leaves it alone. The theorems of the parts then carry over.
That the parts really meet, `HookKnowsInTheEnd`, is a liveness property and is
left to TLC.

*ServiceMatching.* An answer is merged item by item, and nothing that is said of
the table after the last item can be proved but by following it through those
before. The induction is over positions: of those at which a property fails there
is a least (`LeastMember`, from the well-foundedness of `<`), and the step before
it leads to a contradiction (`UpTo`). So `MergedSteps` has `Merged` take the steps
it is defined by, `MergedType` that names stay apart at each, although the answer
is older than the table. That a repeated pass changes nothing needs two facts. A
row that took an item is as that item would make it again (`Enriched` twice is
`Enriched` once, `EnrichedTwice`, `NewRowTwice`), and later items leave it so, as
they go to rows of their own (`StaysKept`). And the second time the item finds the
same row (`Again`): by its name, or, when it has none there, by its router or host,
where the rows before the one it was merged into still have neither, since no
other item has that router or host. Both need the items to be `Apart`. Every pass
of the `matching` run is; two routers for one host are not
(`MCServiceMatchingTwo.cfg`), and by `IdenticalPass` nothing else can make an
identical pass record a change.

*Proposals.* `OneOpenProposalPerFinding` is a matter of what a suspended task may
still count on. `Sound(t, w, rows)` says it: while a task drafts, pushes or has
just opened a pull request, no row is open for its finding; while it asks about
an open row, there is no second one. Every step but `OpenRecorded` only shrinks
the set of open rows (`Shrunk`), so it preserves everybody's `Sound`.
`OpenRecorded` adds an open row, and preserves it only if no other task is after
the same finding: this is the hypothesis `OneCreator`. It holds for the
conflicts the hook handles alone (`DiscoveryEngine_proof!HookSerialized`), and
it does not hold for two alerts: `MCProposalsStorm.cfg` is what then happens.

The three action properties speak of a step and of the row it starts from, and
rows say too little by themselves. `TableInv` has what the host knows of each:
a merged row's pull request is merged there, an open one has one, a rejected one
has none. `WaitInv` has what a task remembers across its await: the rows it
asks about keep their place and their pull request. With them each way a row can
leave `merged`, or the hook can come to draft, is one case. `NoRepeatedRejection`
needs more: that the hook never takes the detour of asking for an open proposal's
state when it drafts (`HookAsksNot`, by `OneCreator`), and that while it drafts
over a rejection there has been news since (`HookInv`), whatever the calls do to
other rows meanwhile.

*Revisions.* Each property needs its own account of what is under way.
`CommitInv` counts: commits that landed for a comment, and those in flight, are
at most the times the job was cut in one, and one more once it is attempted;
`QueueInv` says that what is at hand is newer than the row, so that an attempt
is never for a comment that was attempted before. `ListInv` says that what was
read of a listing is a run of full pages from the start, in terms of the rank
of a comment among those that are there, so that the page that is not full is
the last (`LastPage`); hence no comment between the row and those at hand is
missing. `LastInv` says that a row is never ahead of what was said, so that a
new comment is news to it. `PushInv` bounds what
a draft and the file it replaces differ in. Ranks are cardinalities, and least
and largest comments are found by an induction over finite sets (`Extremes`),
which goes by the smallest counterexample and needs no induction theorem.

*PatchApproval.* `AtMostOneRun` is not inductive: what keeps a row from being
approved twice is that no row ever returns to `pending`, and what keeps it from
being created twice is where its handler is. `IInv` therefore adds `RunInv`
(a row that is not answered with yes has no task, a task that has not started
has run nothing), `HandlerInv` (a handler before the row's creation has no row)
and `TimeInv` (the answer that queued a task was in time). The three conditional
theorems say which of the things that can go wrong breaks which promise, and
that nothing else does.

*ConfirmationGate.* None of its invariants is inductive alone. `GateInv` says
where a challenge stands by what was done for it: no effect before the answer,
a tool only for a used-up challenge of its own kind, one request per tool and
one effect per request. `SubjectInv` says that a deletion challenge is about
something that exists or existed, so that a tool that finds nothing to delete
has found it gone. The steps follow three lemmas about histories: a confirmed
challenge stays so (`ConfirmedStays`), what is newly gone or listed was
confirmed by the challenge at work (`NewlyGone`, `NewlyListed`), and ids only
ever go from unborn to live to gone (`EntitiesAge`). `InventoryKnown` rests on
the nodes, not on the challenges: both addresses of a node were given for its
hostname (`AddressInv`).

*Adoption.* The calls share one clone, so nothing can be said of where a call is
alone. What protects the compose files is that no git command of the clone
stages one (`StageInv`), hence along every branch, here and at the host, a
compose file that is there stays (`GrowInv`, with pushes being fast-forward), and
an open call has one on its branch (`OpenInv`). For a draft whose calls had the
clone to themselves, `SoleInv` follows its one call from command to command --
nothing staged, the draft's branch checked out, its `.env` written, staged,
committed and nothing else -- and `ExactInv` has the outcome at the host, which
later calls find when they resume. The text that is staged goes through the filter
exactly if the clone is unlocked; what the call goes by is only what `is_locked`
saw, so a blob in plaintext is a draft of `misled`, and no other.

*Normalization.* Nothing in the database forbids a second row. What does is that
one sweep runs at a time (`OneSweep`), and that the node it is at has no open
row from the look for one until its own is written (`NodeIsFree`); everybody
else only takes rows away. `FormattingOnly` is about the branch a sweep leaves
behind, and `SweepInv` about what it has in hand until then: the base as it read
it, and for every change planned a text of the same meaning
(`FormatterKeepsMeaning`; the gate `Equivalent`, not the formatter's cleverness,
is what this rests on). A stack that nobody touched between the scan and the
branch has, on the branch, its one file with its meaning (`Kept`); between the
commit of a renamed file and the deletion of the old one it is there twice, but
then it is the one the next call deletes (`Twofold`). `PathAssumption` says that
a stack's canonical path is on the same node and canonical itself (`engine.py`
121 replaces the last component and nothing else), and that every tree gives each
path a file or none. `TextAssumption` only names the texts: `Texts`, sequences of lines, has those at
the start, those people and the model write, and what the formatter makes of any
of these, and whatever they are, such a set exists. Nothing is assumed of the
formatter or of the model.

For comments the argument has one more invariant, `NotesInv(R)`, for any relation
`R` of texts that has every text the formatter alone makes of another, and every
text and itself (`ByTheFormatter`): on every branch, at any time between two
commits, a file that is there and no answer of the model is in `R` to the one file
its stack had. With equality of comments for `R` this is `NoCommentLost`, for which
the formatter's own check of each stage is enough; with `NotesKept` for `R` it is
`CommentsStayPut`. That the formatter does leave each comment above its key is its
hypothesis, `FormatterKeepsNotes`, a law of `Normalize` without states: it would
take an induction over the keys of a mapping, and TLC evaluates it instead.

*ResourceServer.* An answer is judged in the step that gives it, so its promises
follow from the state before: `FreshInv` says that a key that is cached, or on
its way in an answer, has been withdrawn for no longer than the news of it is
old. It survives a tick because both ages grow together and stop at the same
cap, and `KeysArrive` because the age starts from the time the lock was taken,
which is before the provider was asked. A verdict over keys that are fresh
enough is right (`RightVerdict`).

*Environment.* `MirrorsTheGates` is no invariant that steps preserve but a fact
about every environment whose values `Settings` accepts (`Allowed`): 25 features,
each with what the report says of it and when its part works (`AllMirrored`).
`SafeToRemoveButForSweeps` is then about one key: whichever of the three reasons
the report has to call it useless (`DoesNothing`), either all that reads it reads
what it did, or it is no switch and every feature that knows it is off
(`Removal`); and each of the 31 parts, its gate and what it reads survive either
(`GatesKept`). Keys that are no settings, which the report lists apart, are not
modelled, but for those a model provider's library reads.

Only model-checked are: all liveness properties, and the fairness under which
parts implement them, which are out of reach of the proof system; and the law
`FormatterKeepsNotes`, which TLC evaluates for the texts of the `normalization`
run, and `NotesLaw` for short ones. Every safety property of the runs is a theorem,
some under the hypotheses named above.

## 6. Where code and documentation disagree

A finding in `PROJECT.json` quotes the lines:

* `adoption_first` refutes `EnvIsEncrypted`: the finalize "git-crypt-encrypts" a
  `.env` (`tools/adoption.py:11`) in a clone that `ensure_unlocked` is to unlock "if
  currently locked" (`gitcrypt.py:112`). But `is_locked` goes by the listed files it
  finds, and where there is none yet (`gitcrypt.py:108`), or the first is plaintext, it
  takes a locked clone for unlocked. The clean filter is then not configured, and
  the `.env` of a first adoption, with nobody else in the clone, is pushed in
  plaintext. `UndisturbedIsExact` has this as its one exception (`misled`).

The configurations beside the runs show these:

* `MCPatchApprovalRace.cfg`: "one open question per alert is enough" -- with the
  PatchMon API configured the handler awaits between the duplicate check and the
  row, so two deliveries of one alert both ask.
* `MCPatchApprovalUndelivered.cfg`: "the approval email could not be sent" -- SMTP
  may raise after the mail was taken; if the operator has approved by then the
  running patch is recorded as undelivered.
* `MCPatchApprovalCrash.cfg`: "pending = email sent" -- a stop between row and mail
  leaves a pending row nobody was asked about, which blocks retries until it
  expires.
* `MCProposalsStorm.cfg`: "one open proposal per service per finding type" --
  nothing is held between the look for an open proposal and the new row.
* `MCAdoptionOverlap.cfg`: branches of two adoptions "never collide"
  (`tools/adoption.py:307`) -- their names do not, but both finalizes work in one
  clone, and what one wrote the other commits on its own branch.
* `MCConfigReportSweeps.cfg`: the settings the report lists are ones "that do
  nothing where they are" (`config_report.py:7`) -- with `NORMALIZATION_ENABLED` off
  it lists `NORMALIZATION_DRY_RUN` and its like among them, but the
  `proposal_normalize` tool (`tools/proposal.py:89`) asks only for a Git host, runs a
  sweep and reads them. Removing them changes what it does;
  `SafeToRemoveButForSweeps` says that nothing else does.
* `MCServiceMatchingTwo.cfg`: `tests/test_discovery.py:549` has an identical pass
  record nothing -- with two routers for one host, the second is matched to the
  service of the first and takes its place as the row's router; every pass puts
  the one and then the other there, and records both changes.

`MirrorsTheGates` holds where the report looks; it does not look at, and the
property leaves out: the read-only mode of a server without its secrets clone,
Ansible configuration or SSH key (features are reported as working whose writes
are refused); `GIT_PROVIDER=gitlab`, which builds no provider; routes and OAuth
under a transport that does not serve them, of which `sse` with OAuth refuses to
start; a model that is not Anthropic's when `DSPY_API_KEY` is not set, of which the
report says nothing whether or not the environment has the provider's own key
(`UnseenKey`); and values of blanks only.

## 7. Not modelled

* Fields of a service, a node or a proposal that no other step reads (names for
  display, notes, categories, links between services and nodes); event
  retention.
* Reopening a closed pull request on the host. Branches are edited by hand in
  `Revisions`, not in `Proposals`.
* In `Proposals`: the read-only mode (fixed at startup; it refuses every call
  and leaves the hook's writes failing) and dry runs (they end as `GiveUp`).
* In `Normalization`: Tier 2 findings, which only report; the label of a pull
  request; services beyond one, and the environment list, which is reshaped as
  the labels are. A model's answer is any of a few texts.
* In `Adoption`: what SSH and Docker answer, beyond whether there is a compose
  file and secrets; dotenv parsing; `secrets_status` and `secrets_rotate`, which
  change nothing.
* In `ResourceServer`: the metadata route, and cryptography, which is taken to
  do what it says (`signed`).
* PatchMon's alert formats and API client, service deployment scaffolding,
  hardware intake and the read-only integrations: parsing and stateless reads,
  with nothing of the server's to get out of order. When they answer at all is in
  `Environment`.
* Failing database writes; two server processes on one database.
* Wording of mails, pages, pull requests, prompts and logs; token and payload
  parsing; HTTP details of the two Git hosts.

## 8. Plan

Every component with state of its own has a module and a run, and every safety
property the runs check is a theorem. What is left:

1. `ComposeFormat`: a proof of `FormatterKeepsNotes`, by following `ReorderMapping`
   key by key; it needs the permutation of the keys as a lemma (`Kth` takes every
   key once).
2. `Proposals`: that an unread answer or a stop leaves a pull request without a
   row at most, in the form of an invariant that runs check first.
