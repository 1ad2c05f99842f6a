# OneZox in TLA+

OneZox is a gateway for large language models. A request enters at
edge-gateway, is planned, placed and accounted for by data-plane, and reaches an
upstream provider through provider-gateway. control-plane decides which signed
version of a model is live, moves new versions out in stages, and hands out the
providers' keys; admin-api is how people talk to it. This directory models the
parts of it whose correctness depends on the order in which several processes
act, or on what fails between two of their steps, checks them with TLC on small
instances, and proves their safety properties for every instance with TLAPS.

`PROJECT.json` lists the components, the runs, the source lines each definition
stands for, the hazards, the findings and the theorems.

## 1. The system

| component | state it keeps | operations | talks to |
|---|---|---|---|
| control-plane `rollout` | table `rollout` (stage, status, captured stable version) | CreateRollout, PromoteRollout, AbortRollout, AutoAdvance, AutoRollback | CockroachDB, registry, etcd |
| control-plane `analysis` | a Lease, AnalysisRuns in Kubernetes, the list of the current pass | leader election, reconcileAll every 5 s | rollout, Argo Rollouts |
| control-plane `registry`, `etcdclient` | tables `model_manifest` and `model_active`, keys `/onezox/manifests/*`, `/onezox/active/*` | RegisterModelManifest, ActivateVersion, GetModelManifest, ListModels, PublishManifest, PublishActive, PublishCanaryState | CockroachDB, Vault, etcd |
| control-plane `vaultclient`, `providertoken` | a Vault token with its lease, behind a mutex | login, Sign, Verify, ReadProviderSecret, IssueToken | Vault |
| control-plane `pricing`, `policy` | single rows | upserts | CockroachDB |
| provider-gateway `coalesce` | calls in flight per key, a broadcast per call | Group.Invoke, lead, publish, finish, Recv | quota, breaker, adapters |
| provider-gateway `breaker` | one record per provider in Redis, shared by the fleet | Check, ReportResult, CurrentState | Redis |
| provider-gateway `quota` | one counter per provider and window in Redis | Enforce, Headroom | Redis |
| provider-gateway `stream`, `adapters` | a stream position, the frame being read, what Recv holds back | Relay; Invoke and Recv of openai, anthropic, google, fake | providers, provider-fake |
| provider-gateway `credentials` | a key and its source per provider, timers | Refresh, Run, setupCredential, /readyz | control-plane |
| data-plane `model_registry` | verified manifests, active pointers, set of refused manifests | sync_once, watch_forever, resync_forever, resolve | etcd, Vault |
| data-plane `Submit`, `scheduler`, `aggregator`, `request_log`, `usage_event`, `working_memory` | an in-flight gauge and working memory in Redis, rows per request | admit, bind, relay, _finish_request, release | provider-gateway, Redis, CockroachDB |
| edge-gateway `model_registry` | the same cache | sync_once, watch_forever, list_active | etcd, Vault |
| edge-gateway `pipeline`, `auth`, `ratelimit`, `admission`, `stream`, `meter` | counters in Redis | admit with a guard, relay, meter | Redis, data-plane |
| admin-api `authn`, `authz`, `audit`, `apikeys`, `server` | admin users, audit rows, API keys | six commands behind three interceptors | CockroachDB, control-plane |
| admin-api `graph`, `promclient` | nothing | eleven query fields | control-plane, provider-gateway, CockroachDB, Prometheus |

What is hard here, and hardly tested:

* Three stores (rollout table, `model_active`, etcd) are written one after the
  other, with no transaction over them, by several callers; any of them can die
  in between.
* Leadership is a lease: for a while two replicas may both believe they lead.
* Breaker records are read and written with separate Redis commands by a fleet.
* Calls are coalesced: one client's call serves others, who may come and leave.
* Caches are fed by a listing and a watch, which do not meet exactly.
* Upstreams send their answers in frames that may come in any order and stop
  anywhere; finish reason, usage and end mark travel separately.
* A handler is a chain of awaits; at each the client may leave or the pod may die.
* Nearly every dependency fails open, or is retried, or is logged and forgotten.

What makes each component correct: a rollout climbs its stages one at a time and
nothing unvetted is ever stable; automatic moves are earned by an analysis of the
stage they leave, and no rollout is orphaned; a breaker trips only on enough
failures, does trip on a dead provider, and recovers; coalesced callers all get
the same story, always end, and the provider's outcome is counted once; an
adapter passes on the text it reads once and in order, and the totals of usage; a ready pod has
fresh keys; an answered request is billed and its slot comes back; a cache trusts
only verified manifests, never loses a good one to a bad update, and converges to
etcd; what goes live is signed and distributed; an acknowledged command is in the
audit log, and nobody untrusted changes a table.

## 2. Modules

| module | models | composes |
|---|---|---|
| `StagedGate` | the promise of a staged canary, abstractly | - |
| `DeltaStream` | what a stream of deltas is to its reader, abstractly | - |
| `MeteredService` | what data-plane promises of a request and its account, abstractly | - |
| `Rollout` | `internal/rollout`, with `ActivateVersion` and the etcd envelope | refines `StagedGate` |
| `Reconciler` | `internal/analysis`: election, passes, AnalysisRuns, operators | extends `Rollout` |
| `Breaker` | `internal/breaker` for one provider, with `ProviderHealth` and the scheduler's `bind` before it | - |
| `Gateway` | `Invoke`: placement by headroom, coalescing, quota, adapter stream, relay | refines `DeltaStream` towards every client |
| `Adapters` | `internal/adapters` and provider-fake: one call through one adapter | refines `DeltaStream` towards the leader |
| `Credentials` | vaultclient, providertoken and provider-gateway's `internal/credentials` | - |
| `Submit` | data-plane's Submit with admission, aggregator, working memory and accounting | refines `MeteredService` |
| `Registry` | control-plane's registry and the rollout RPCs as their callers see them | - |
| `AdminApi` | admin-api's commands with their interceptors | extends `Registry` |
| `Graph` | admin-api's GraphQL queries | extends `AdminApi` |
| `RegistryCache` | the manifest caches of data-plane and edge-gateway, for one model_ref | - |
| `MC*` | instances for TLC | the module of the name |
| `RolloutProofs` | theorems about `Rollout` and `Reconciler` | `Reconciler` |
| `BreakerProofs`, `GatewayProofs`, `AdaptersProofs`, `CredentialsProofs`, `SubmitProofs`, `RegistryCacheProofs` | theorems about the module of the name | that module |
| `AdminProofs` | theorems about `Registry`, `AdminApi` and `Graph` | `Graph` |

**Rollout.** `rollout`, `model_active` and `active` are the three stores. `call[c]`
is what caller `c` is in the middle of: its `pc` names the store access that comes
next, and its fields hold what the Go code has in local variables (`row` is the
row it read). One action per access: `GetActiveManifest`,
`GetRunningRolloutByModelRef` and `InsertRollout` for CreateRollout; `GetRollout`
with all its early returns, then `SetActive` and `PublishActive` or
`PublishCanaryState`, then `UpdateRollout` with its compare-and-swap for
advanceStage and revertCanary. `Fail` ends a call anywhere: an error, a cancelled
request, or the death of the process. A read of a rollout table row and the
checks on it are one action because the checks touch only the row that was read.
Versions are the registered ones; a request for another changes nothing.

**Reconciler.** Callers are the operators' RPCs and the replicas. A replica is a
`candidate`, `leading`, or `ended` (RunOrDie has returned). `todo` is what is left
of the pass that `ListRunningRollouts` started, with the stage as it was listed;
`creating` is the gap between FindForStage and CreateForStage. AnalysisRuns of a
stage form a sequence, and FindForStage may see any of them, because their names
are random. `AcquireLease`, `LeaseExpires` and `Verdict` stand for client-go
and Argo Rollouts; the lease can be lost before its holder notices.

**Breaker.** `record` is the Redis value; the failure count is kept up to the
threshold and OpenedAt as whether OpenDuration has passed, because nothing else is
ever asked of them. A call begins with data-plane's `bind` on what ProviderHealth
reports (`Begin`; `BeginBlind` when the record cannot be read), then Check's GET
(and SET of the trial), the adapter call, ReportResult's GET and SET, each a step.

**Gateway.** A request joins or leads; the leader's goroutine goes through
`quota`, `breaker`, `adapter`, `streaming`, `final`, `release`, `finish`; every request
reads its broadcast by position and waits on the condition variable. publish and
finish unlock before they call Broadcast, so each is two steps: the change of the
broadcast, after which the leader is at one of `Waking`, and `Wake`; subscribers
read, join and fall asleep in between. A final delta is reported to the breaker
(`StreamFinal`) before it is published (`PublishFinal`). `SendFails` is a client that
has left. An upstream error reaches a client as a best-effort delta that says
is_final (`RelayEnd`, to `failing`) and then the error status (`RelayFails`). The breaker allows or denies freely here: its decisions are
the subject of `Breaker`.

A call is placed first, by a `Headroom` that was read before and may be stale
when the call arrives.

`got(r)` is what has come to the client of `r`. Read as the deltas of `DeltaStream`,
it hides leaders, followers and broadcasts: what is left is one stream per client,
in which the best-effort delta is a kind of its own.
`Adapters` refines the same module for what Recv returns, so that a stream keeps
its meaning from the wire to the client: `LeaderSeesStream` is what `Gateway`
assumes of an adapter (`StreamDelta`, `StreamFinal`, `StreamBreaks`), and
`ClientsSeeStreams` is what it makes of it.

**Adapters.** A data line is one JSON document reduced to what `Recv` asks of it
(choice, text, finish reason, usage) and to the text it passes over (`beside`: a
part after the first, or text on OpenAI's finish chunk); a piece of text is its
number. `EventLine`,
`OtherLine`, `DataLine`, `BlankLine` and `BodyEnds` are the turns of
`Scanner.Next`; each adapter's `Recv` is an operator from a frame and what it
holds back to the deltas it returns and whether it closes the body. `sent` is what
the upstream has sent in complete lines, all text and all usage, the reference the
properties compare with; usage counts as `last` where the wire format gives its
totals and as `early` elsewhere. The upstream's grammar is what the wire structs
accept: several pieces of text in a document, usage on any of them. Of three or
more pieces in one document, all but the first share the fate of the second.

**Credentials.** Time passes in ticks, and a timer that is due fires before the
next tick, so that bounds on ages can be stated. `holder` is the Vault client's
mutex, which `login` keeps through its HTTP call; `ensureToken`, `login` and
`ReadProviderSecret` are the steps of one refresh, at boot (`setupCredential`, one
provider after the other) and in the loop (`Run`). The mutex goes to whoever has
waited longest (`Longest`): Go's mutex hands itself over in this order to waiters
older than 1 ms. The refreshes followed are one pod's; `Others` are whoever else uses
the Vault client of the control-plane they reach (Sign, Verify, other pods'
refreshes), as many at a time as the set has members. They take the mutex and log
in like a refresh, and what they do with the token afterwards needs no mutex.
`MaxAge` is computed from the code's constants and the number of all users: for
each provider a `RefreshTime` (a login of every other user, and two HTTP calls),
at boot or after the interval, and the interval. FetchToken has no deadline:
`Hang` is a call whose answer is lost, `HangFails` and `LateAnswer` its end. The
keys that wait for it (its own, and at boot those already set up) are `stalled`, and
their age is not counted any more. Vault's outages, restarts and rotations are the
environment.

**Submit.** One action per await of the handler. Admission is INCR, the decision,
DECR; `Raises` is an exception nobody catches, `Cancelled` a client that has left
(the `finally` clause still releases), `Abandoned` a failed INCR or DECR or a dead
pod. provider-gateway is seen through the ways its Invoke can end: `Ends` of
`Gateway` become `Outcomes`. Towards `MeteredService` a request is outside, served
(it holds a slot), turned away or over; the undo of an increment, working memory,
placement and relay are not seen.

**Registry, AdminApi, Graph.** One specification in three layers. `Registry` has
the tables and etcd keys and the steps of control-plane for each call; a write may
be applied and still be answered with an error. A manifest key is a model_ref and a
version_id, as the caches look it up. The operators' rollout RPCs are here statement
by statement: the verified reads, the check for a running rollout and the insert of
CreateRollout; the read of the row, the write of the envelope (or ActivateVersion)
and the compare-and-swap of advanceStage and revertCanary, with `Last` canary
stages. Percentages and automatic callers are in `Rollout`. `AdminApi` puts the command in
front: authentication, authorization with its best-effort row for a denial, the
handler, the audit row, the answer. A version, rollout or key minted by a call is
named by the call, and can be asked for (`Askable`) once its row exists, whatever its
call was answered: queries list the rows. A row inserted past the service (`Bypass`) is there from
the start, because `Verify` exists for it. `Graph` adds one query at a time: a
root field resolves to data or null, an object is the set of its non-null fields,
and a null spreads by the schema's non-null types.

**RegistryCache.** Two tasks over one cache, with the awaits of the code as the
points where they interleave: the listing in flight, its reply, one verification
per manifest. `Resyncs` tells data-plane (TRUE) from edge-gateway (FALSE). A
manifest key holds an envelope that verifies (`good`) or does not (`bad`), what is no
JSON (`garbled`: ignored, not marked untrusted), or JSON that is no envelope (`alien`:
data-plane raises on it, edge-gateway ignores it). An exception ends the sync_once
it happens in (`RaiseListed`), gives up the watch (`RaiseEvent`), or, during boot,
ends the process (`Die`). A verification reaches Vault or does not. Of the active
envelope the stable version is kept.

## 3. Runs

| run | instance | checks |
|---|---|---|
| `rollout` | 2 callers, 2 rollouts, 2 versions, 1 model_ref | OnlyVettedIsLive, ExposureBounded, PromotedWasActivated, StagedGateHolds (refinement) |
| `operators` | 1 replica, 1 operator, 1 rollout, faults that end | RollbackIsEarned, AutoAdvanceIsEarned, RolloutsResolve (liveness) |
| `handover` | 2 replicas, up to 2 AnalysisRuns per stage, an orphaned rollout | RollbackIsEarned, AutoAdvanceIsEarned |
| `breaker` | 3 callers, threshold 2 | TripIsEarned, DownTrips, RecoversWhenReported (liveness) |
| `gateway` | 2 identical requests, limit 1, up to 2 deltas before the final one | OneLeaderPerKey, OutcomeMatches, QuotaHolds, SameStory, NoLostWakeup, EveryCallEnds (liveness), ClientsSeeStreams (refinement) |
| `adapters` | every worker_ref, up to 3 messages, 4 texts | TextInOrder, FinalIsEarned, NoBodyLeaks, RequestKeepsMessages, LeaderSeesStream (refinement) |
| `credentials` | 2 providers and 1 other user, TTL 5, buffer 2, timeout 1, lease 4, a rotation of each key | ReadyMeansFresh, LeaseOutlivesRead, RotationArrives (liveness) |
| `submit` | 2 requests, limit 2 | CapacityHolds, AnsweredIsBilled, SlotsComeBack (liveness), IsMetered (refinement) |
| `admin` | 2 commands, 2 model_refs, 1 canary stage, a viewer and an admin who may be revoked, queries | LiveIsDistributed, LateRegistrationIsInert, AuditTellsTruth, OnlyTrustedAct, AcknowledgedIsListed, OnlyFailureBlanks |
| `registry_cache` | 2 versions, 2 changes to etcd after boot, any published contents at boot | OnlyVerifiedIsTrusted, LastKnownGood, Converges (liveness) |

Each module's TypeOK is a theorem (section 4), and no run repeats it.

Two runs show a disagreement between what a comment says and what the code does:

| run | property TLC refutes | what happens |
|---|---|---|
| `aborted_canary` | StoppedCanaryGetsNoTraffic | advanceStage publishes before its swap; a promote that read the row before an abort republishes the split after the abort's revert, its swap is refused, and the stopped canary keeps its traffic |
| `masked_error` | FailureIsRecorded | after an upstream error provider-gateway sends a final delta and then the error; Submit stops reading at the final delta, logs the request as ok and counts it as ok in the metric the canary analysis reads |

**Known gaps.** The models reach more states the comments do not expect; no run
states them as properties, and the ones that are checked say what holds in their
neighbourhood:

* Two CreateRollout calls at once leave two running rollouts of a model_ref
  (rollout.go:227: check and insert are two statements). OnlyVettedIsLive and
  ExposureBounded hold with two.
* A replica that lost its lease never campaigns again (leader.go:122: RunOrDie
  returns and its goroutine ends; the comment at line 136 says it stays a
  candidate). RolloutsResolve is claimed for a leader that lasts.
* A `half_open_trial` whose result is never reported has no expiry
  (breaker.go:112): every later call is denied. RecoversWhenReported excludes it.
* The new watch of a cache starts at the present, after its listing; what changes
  in between is in neither. data-plane's re-sync closes the gap (Converges);
  edge-gateway has no such task (`Resyncs = FALSE`).
* The coalescing key has the model and not the provider (coalesce.go:103): two
  providers' calls for the same model name share a stream.
* Two first registrations of a model_ref that overlap may both go live, the table
  and etcd naming different ones. LateRegistrationIsInert is about the others.
* A request whose client leaves early, or during which a store raises, has no row
  in request_log (main.py:200 says every path writes one). AnsweredIsBilled is
  about the requests that were answered.
* A crash, or a failed DECR, takes a slot of the in-flight gauge for good
  (`lost` in `Submit`).
* A key created when the audit row cannot be written stays active, and nobody has
  its secret (audit_interceptor.go:163).
* A comment frame between two chunks (a keep-alive) ends an openai or google
  answer with a decode error (sse.go:53).
* Text that Recv does not read is dropped from an answer that counts as complete:
  Google's parts after the first (google.go:208), text on OpenAI's finish chunk
  (openai.go:284). Usage that an upstream sends only before its finish chunk is
  lost, and the call is not billed. TextInOrder and FinalIsEarned say exactly what
  is missing and that nothing else is.
* A manifest key whose value is JSON but no object, such as a list, makes
  data-plane's sync_once raise (`__init__.py:258`; only decode errors are caught at
  250): while it is there, no listing gets past it, later keys are not learnt, and
  a pod does not boot. Converges is claimed once such values are gone. An active key
  of this kind raises too (`_parse_active_envelope`); direct writes of active keys
  are not modelled. A cache verifies an envelope by the ids in it and does not
  compare them with its key, which the model does not tell apart.
* CreateRollout looks a version up without its model_ref (cockroach_store.go:55) and
  without asking whether its registration got as far as etcd. A rollout of a
  version of another model_ref, or of an orphaned row, goes live with a pointer that
  no cache can follow. LiveIsDistributed excepts such versions (`Stray`), and says
  that even they are signed.
* The table `model_active` and etcd's envelope may name different stable versions
  after a failed PublishActive (registry.go:197). LiveIsDistributed speaks of both.
* A refresh of a key has no deadline of its own (grpc_fetcher.go:25, main.go:551):
  while it hangs, the pod stays ready with a key that ages. ReadyMeansFresh excepts
  it (`stalled`), also after a late answer, whose key may be as old as the call.

**Bounds.** Two callers suffice for the races of `Rollout`: each of them involves
one call that has read and one that has written, and the theorems cover any
number. Two rollout ids give two rollouts of one model_ref after each other or at
once. `operators` has one AnalysisRun per stage, `handover` two, which is what two
replicas in the gap between FindForStage and CreateForStage can add. Three breaker
callers give two racing trials and a late report; the threshold 2 makes an
accumulated failure necessary. In `gateway` two requests give a leader and a
follower that joins early or late, two sleepers on one condition variable, or a
second leader after release; two deltas before the last tell a subscriber that is
behind from one that is not. A third request takes the run past five minutes (over
1.9 million states without an end in sight) and adds only another follower; the
theorems cover any number of them and streams of any length. In `registry_cache` two changes
after boot give a stale listing and a newer event; every content etcd can hold at
boot is an initial state. In `adapters` four texts show one lost or moved in the
middle, also between documents of two, and three messages put a system message
before, between and after others.
In `credentials` the constants keep the code's order (two timeouts within the
buffer, the buffer within TTL and lease), so that both timers run out at every
relative position; one other user is a login to queue behind, for the boot of the
pod and for both refreshes. Two requests at limit 2 make `submit` shed: the gauge admits
fewer than the limit. Two commands and one seeded key, rollout and live version
give `admin` two revocations of a key, a promote against an abort or a
registration, a rollout of a version whose registration is under way, has failed or
is of another model_ref, and a command after another was acknowledged; one canary
stage has a step to it, one from it, and a promotion; only the admin is revoked
(`Revocable`), since a viewer may do nothing before or after; a default limit of 1
and a largest of 2 make the audit list overflow. Queries come when no command is at work in
admin-api or control-plane (`Quiet`): this bound keeps the product small, and loses
reads that overlap a command, of which nothing is claimed.
`MaxRuns`, `MaxDeltas`, `MaxWrites`, `MaxTexts`, `MaxMessages`, `MaxRotations` and
`Revocable` are the named bounds. The sets of rollout ids and requests are finite: a request is made once
and an id used once. Symmetry is used only in runs of safety properties.

In `MCRollout` the automatic operations are entered with the stage their rollout is
at (`MCEnterCall`), which is stale as soon as the other caller moves; older
observations are the subject of `Reconciler`, and the theorems are about
`Rollout`'s own `Next`, where any stage may be passed.

**Fairness.** Nothing is assumed of operators, clients, providers or those who
change etcd. Of a process: a goroutine or task that can run does (Go's scheduler,
asyncio), a store access that does not fail returns, a timer fires. `calm` becomes
true at some point, after which nothing fails any more: "faults end" is the
condition under which liveness is claimed, and it is left open when.
In `Reconciler`, `SF(FindNone)` says that a stage that lasts outlives stageGrace; Argo
Rollouts ends every AnalysisRun (count 1, error limit 3); and RolloutsResolve is
claimed only when some replica holds the lease for good. In `Gateway` an adapter's
stream ends because its HTTP client has a timeout of 60 s. In `Breaker` requests
keep coming. In `Credentials` the boot sequence, the refresh goroutines and
control-plane's handlers run (`OtherWork`); time passes however many calls others
make (strong fairness of `Tick`, which every due step disables for a moment); a
dead connection is found out, as TCP does in the end (`HangEnds`); and Vault becomes
reachable and is left alone for good at some point (`calm`, not bounded in time),
after which no call hangs. In `Submit` a handler whose await is answered goes on; SlotsComeBack
needs nothing of clients, stores or pods.

Deadlock is checked in all passing runs.

## 4. Proofs

Eight modules hold the theorems. They are about the specifications' own `Spec`
(the runs that add fairness are covered with it), for all values of the constants
within the named assumptions, which only say what the constants are: sets are
finite where they are counted, marks such as NoVersion or Nobody are not members
of the sets they are added to, bounds are numbers. Two assumptions say more, both
in `CredentialsAssumption` and both true of the code: two HTTP timeouts (10 s each)
fit into the renewal buffer (30 s), and a timeout is shorter than Vault's lease
(15 min, scripts/vault-setup-control-plane.sh:97).

| module | theorem | states |
|---|---|---|
| `RolloutProofs` | `TypeCorrect`, `VettedLive`, `BoundedExposure`, `PromotedActivated` | TypeOK, OnlyVettedIsLive, ExposureBounded, PromotedWasActivated |
| | `ImplementsGate` | StagedGateHolds: `Rollout` refines `StagedGate` |
| | `ReconcilerIsRollout` | `Reconciler` implements `Rollout`, so all of the above holds of it |
| | `RollbacksAreEarned`, `AdvancesAreEarned`, `AnalysisTypeCorrect` | RollbackIsEarned, AutoAdvanceIsEarned (action property), AnalysisTypeOK |
| `BreakerProofs` | `TypeCorrect`, `TripsAreEarned` | TypeOK, TripIsEarned |
| `GatewayProofs` | `GatewayTypeCorrect`, `OneLeader`, `QuotaIsHeld`, `OutcomesMatch`, `OneStory` | TypeOK, OneLeaderPerKey, QuotaHolds, OutcomeMatches, SameStory |
| | `NobodySleepsOn` | NoLostWakeup |
| | `ClientsGetStreams` | ClientsSeeStreams: `Gateway` refines `DeltaStream` |
| `AdaptersProofs` | `TextsInOrder`, `FinalsAreEarned`, `BodiesAreClosed` | TextInOrder, FinalIsEarned, NoBodyLeaks |
| | `AdaptersTypeCorrect`, `RequestsKeepMessages` | TypeOK, RequestKeepsMessages |
| | `LeadersGetStreams` | LeaderSeesStream: `Adapters` refines `DeltaStream` |
| `CredentialsProofs` | `CredentialsTypeCorrect`, `LeasesOutliveReads`, `ReadyIsFresh` | TypeOK, LeaseOutlivesRead, ReadyMeansFresh |
| `SubmitProofs` | `SubmitTypeCorrect`, `CapacityIsHeld`, `AnswersAreBilled` | TypeOK, CapacityHolds, AnsweredIsBilled |
| | `ImplementsMeter` | IsMetered: `Submit` refines `MeteredService` |
| `AdminProofs` | `AdminTypeCorrect`, `LiveVersionsAreDistributed`, `LateRegistrationsAreInert` | TypeOK, LiveIsDistributed, LateRegistrationIsInert (action property) |
| | `ActsAreTrusted`, `TruthOfAudit`, `AcknowledgedAreListed`, `BlanksAreFailures` | OnlyTrustedAct, AuditTellsTruth, AcknowledgedIsListed, OnlyFailureBlanks |
| `RegistryCacheProofs` | `CacheTypeCorrect`, `TrustIsVerified`, `KeepsLastKnownGood` | TypeOK, OnlyVerifiedIsTrusted, LastKnownGood (action property) |

Hardly any of the properties is inductive alone. What each needs besides, every
inductive invariant having been checked by TLC on the run's instance first:

**Rollout.** A call acts on a row it read before, so
the invariant must say what is still true of it. `InFlight` does: the row a call
holds names the same model_ref and versions as the row in the table, and its stage
is at most the stage there now; a call about to activate a version holds a row at
canary_50; once it has set `model_active`, that table holds some version that was
rolled out (another call may have replaced it by its own); a call that captured a
stable version captured a vetted one. `RowsInv` says that the captured stable version of every
row is vetted, and that the last stage and `promoted` go together. Both rest on one
monotonicity argument (`StepRowsGrow`): rows are never removed, never change their
versions, and never fall back, so the set of rolled-out versions only grows, and
what was vetted stays vetted. `IInv` is their conjunction with the four safety
properties; each conjunct has a lemma, with a step per action.
For the refinement, every action but `InsertRollout` and `UpdateRollout` maps to a
stutter; `InsertIsGateStep` and `SwapIsGateStep` show that these map to `Start`,
`Climb`, `Stop` or a stutter.

**Reconciler.** `ControlPlaneSpec` is the specification with or without the end of
faults; it covers both. Each of its steps is a step of `Rollout`'s `Next` or leaves
its variables alone, which carries all of Rollout's theorems over. `EarnedInv`
follows a verdict: a call that was entered by the reconciler is pinned to a stage
that has the verdict, after the read the stage is the one of the row it holds, and
the swap refuses any other. The run `handover` starts from an orphaned rollout
instead of an empty table, which the theorems do not speak of.

**Breaker.** A report writes what it read earlier, plus one. `Accounted` says of
every record, stored or held by a caller, that the failures in it, together with
those of callers that have still to store theirs, were all counted, or that
the threshold has been reached.

**Gateway.** `OneLeaderPerKey` is inductive with the types. `LeadInv` says what
broadcast and report of a leader are at each of its steps, `Told` how much of it a
subscriber has seen; together they give OutcomeMatches and SameStory.
For the refinement, `Grown` says that broadcasts only grow, so what a client has
got is never changed by a step that is not its own (`GotKept`); a step of its own is
a stutter, the next delta (`DeltaMapped`) or an end (`EndMapped`), where Told rules
out a fallback after a delta; an end with an error is the best-effort delta first and
the status in a second step. `WakeInv` is the safety half of EveryCallEnds: a call
found under a key has not been released (`FlightInv`), whoever subscribes does so to
a call that is led (`Led`), and whoever waits has a leader that runs, and that is
about to Broadcast if there is anything to read (`Waits`). Wait is the one step that
makes someone wait, and it finds nothing to read; only publish and finish change
that, and they leave the leader at `Waking`, from where it goes on by waking
everyone.

**Adapters.** What was sent is what was returned (`Delivered`, which leaves out
exactly the texts beside those that Recv reads), what Recv holds back (`Settled`, of
usage only the totals) and what is in the frame being read (`TextInv`, `TallyInv`). The exception
is a frame that two documents have spoilt (`Doomed`): `RecvTurn` shows that it ends
the call with an error. One lemma per provider says what its Recv makes of a frame.
LeadersGetStreams needs no more than that a turn of Recv adds at most one delta and
that a final one ends the call. RequestsKeepMessages is about the loop of
splitSystem, which the model has as a function on the numbers of the
messages handled: each iteration puts one message into its place
(`place`), and the induction over them is done on the least number for which the
claim fails (`LeastNatural`), a set, where the library's induction theorems would
need an operator as parameter.

**Credentials.** The age of a key is a sum over the places where a refresh can wait.
`AgeInv` bounds it at each for keys that are not stalled, and `StallInv` says that all
who wait for a hung call are; `QueueInv` bounds the wait for the mutex by one login of
every other user, provider or not (what was waited, plus a timeout for each who waited as long,
plus the rest of the login that is going on); `BootInv` bounds the wait at boot;
`CallInv` says that the token outlives a read. The attempt at this proof corrected
the model: with the mutex going to any waiter, three providers starve one and
ReadyMeansFresh fails, which two providers do not show. Go's mutex does not allow
this, and the model now says so.

**Submit.** `Slots` says who holds a slot (nobody before the increment or after
the handler, everyone about to decrement) and that the gauge is what is held or
lost; `Accounts` how far the accounting has come at each await. `MeterInv` adds what
the refinement needs: where a handler is in relation to its rows and its client
(`Places`), and what can be in them (`Entries`). Most awaits map to a stutter; the
increment that is let stay is the Admit of MeteredService (`AdmitMapped`, where
Slots gives the guard: those who hold a slot are never more than the gauge), the
writes are Log and Charge, the final response is Answer.

**Registry, AdminApi, Graph.** `StepFits` says which request a call has at each step
and that a rollout it moves exists, `StageFits` that a running rollout has a stage to
go to; `CallInv` says what is in the stores at each step of a call. A version is
`Served` for a model_ref if it is signed, and under the key of that model_ref or in
one of its rollouts. `LiveInv` says that whatever is live in table or envelope is
served, and that so is the stable version of every rollout, and of every
CreateRollout that has read it and not yet inserted its row; being served is never
lost (`StaysServed`), and `TargetServed` carries it to what ActivateVersion writes.
LiveVersionsAreDistributed follows: a served version that is under no key of its
model_ref is in a rollout of it, and it is stray, since a registration that came to
its OK has published its key. Further, `RowInv` that an audit row belongs to a call
that has ended and to no other, `KeyInv` who minted and revoked a key; `FieldInv` and
`ListInv` relate what a query has read to what was there when it began.

**RegistryCache.** Every value that travels (a listing in flight, its reply, an event)
is typed as what its key can hold, and every step adds a verified manifest, drops a
deleted one, or starts from nothing.

Only model-checked:

* all liveness properties (RolloutsResolve, DownTrips, RecoversWhenReported,
  EveryCallEnds, RotationArrives, SlotsComeBack, Converges): the proof system does
  not reason about fairness and ENABLED;
* the two runs that expect a violation.

## 5. Not modelled

* edge-gateway apart from its cache: the pipeline is sequential and keeps only the
  counters of rate limit and admission, of which data-plane's gauge is the model;
  that edge-gateway's fails open (admission/mod.rs:103) is noted with that gauge's
  hazard.
* Time, except in `Credentials`: grace periods, the window of the quota,
  OpenDuration and back-off are nondeterministic or "has passed / has not". What
  depends on one delay being shorter than another is out of reach.
* Signatures, tokens and JSON: a manifest verifies or it does not, a credential is
  known or not.
* The actor and action filters of the audit log (reader.go:66): queries leave them
  empty, which matches every row.
* Several model_refs in the caches and several providers in one breaker: they
  share no state.
* The canary split (`_pick_version`), a hash of the request id; planner and
  classifier, pure functions of the text; `pricing` and `policy`, which no RPC
  reaches yet.
* Of the generated code, introspection, argument parsing and complexity counts of
  GraphQL and the file descriptors and unused messages of the protocol buffers. What
  is mapped of it (about 3000 of the mapped lines) is the executor that `Graph`
  models (dispatch, per-field resolution, null propagation) and the message types,
  each a record that stands for the struct with its accessors. These lines carry
  little logic of this program: the hand-written code is the part to judge by.
* User interface, migrations, deployment files, metrics and tracing.

## 6. Plan

1. Done: `StagedGate`, `Rollout`, `Reconciler`, `Breaker`, `Gateway`,
   `RegistryCache`, `Adapters`, `Credentials`, `Submit`, `Registry`, `AdminApi`,
   `Graph`; `DeltaStream`, `MeteredService`; proofs of every invariant, action property
   and refinement that a passing run checks.
2. Next: an abstract specification of a verified cache above `RegistryCache`, which
   needs the history of what etcd held.
3. Then: edge-gateway's admission guard against a counter that fails.
