# Verification of edge-inference-at-scale

TLA+ models, TLC runs and TLAPS proofs about the parts of this repository whose
correctness depends on state that survives crashes, on several processes, or on
calls that can be lost, repeated or late.

## The system

A **Lil EVY** node answers questions that arrive by SMS from a corpus release
that was built, evaluated and signed by a **Big EVY** corpus factory and carried
to the node, which may be disconnected. A fleet controller sees the nodes
through heartbeats.

| Part | State it keeps | Operations | What makes it correct |
|---|---|---|---|
| Activation manager `rag_service/activation.py` | `current.json` (pointer), `releases/<digest>/state.json`, package directories, `receipt-counter.json` | `activate`, `recover`, `recover_exceptionally` | no rollback of production, no reuse of a recovery authorization, a failure changes nothing, a crash leaves a servable node, truthful and strictly numbered receipts |
| Active release resolver `rag_service/active_release.py` | none; reads the manager's files from another container | `resolve` at boot | only a committed, verified release is served |
| Activation operator `activation_operator.py`, `activation_control.py` | none | `POST /v1/activation` | one operation at a time, answers that agree with the pointer |
| Rollout controller `deployment_rollout*.py` | the persisted rollout record | `advance`, by its worker and its API | settles, survives crashes, restarts the pod once, verifies only what serves |
| Restarter, status and activation ports `deployment_restart.py`, `deployment_rollout_http.py` | annotations of the Deployment's pod template | PATCH, GET, POST | idempotent under retries and late delivery |
| Reconciler `deployment_reconciliation.py` | none | `evaluate` | acceptance is never mistaken for serving |
| Offline trust `trusted_state.py`, `offline_trust_runtime.py` | signed time anchor, revocation snapshot, boot identity | accept anchor or snapshot, assess eligibility | trusted time and revocation never move back, answers fail closed |
| Recovery authorization `recovery_authorization.py` | none (the manager keeps the replay markers) | verify | scope, age, order of releases |
| SMS gateway `sms_gateway/` | in-memory inbound queue, failed forwards, rate limits | receive, forward, send | what was accepted is accounted for, back-pressure |
| Event stream `shared/streams.py` | Redis stream or Kafka topic with a consumer group | publish, consume, acknowledge, claim | at-least-once delivery |
| Message router `message_router/main.py`, `shared/chat_history.py` | chat history, hunt progress | consume, answer, acknowledge | an answer for each message, none the profile forbids, nobody's memory shown to another |
| Privacy filter `privacy_filter/` | blocked users, message counts, consent; three JSON files | validate, block, unblock | a confirmed block is respected |
| Documents and vector index `rag_service/main.py`, `document_manager.py` | documents in memory, two JSON files, one vector collection for each corpus | sync at boot; add, bulk add, delete | the index says what the documents say, across failures and restarts |
| LLM inference, embeddings, ranking, gateways | caches | requests | numerical or textual, stateless |
| Node manager `node_manager/` | registered nodes (memory), replay floor (SQLite); sequence of the node (SQLite) | register, heartbeat, route, compliance | no replay, no stale status counted as compliant |
| Acquisition controller `corpus_factory/acquisition_controller.py` | evidence vault, outcomes, state file, audit ledger | reconcile | the state is never ahead of its evidence; the ledger tells each change |
| Audit ledger and anchor `audit.py`, `audit_anchor.py` | chained lines; receipts of a witness | append, checkpoint, sign, verify | loss of anchored entries is seen, a correct history is not refused |
| Coverage, suitability, promotion `coverage.py`, `suitability.py`, `promotion.py`, `governance.py` | none | judge a mission, an inventory, a candidate | what passes is what a reviewer would look for |
| Attestation and signing `evaluation_attestation.py`, `release_signing.py` | replay store | attest, authorize, sign | two independent people; one record for an authorization and a release key |
| Distribution `distribution.py`, `governed_distribution.py` | import state, inbox | export, import, decrypt, prepare | a medium is imported once and not lost; only what was approved is activated |
| Scripts, frontend, dashboard, charts | - | - | - |

The parts interact as follows. Operator, controller and RAG service are
containers of one pod with a common volume. The controller asks the operator
over HTTP to activate a candidate; the operator runs the manager, which moves
the pointer. The controller then patches the Deployment, Kubernetes replaces
the pod (the controller's own container included), the RAG service resolves the
pointer at boot, and the controller, started again, polls its status. Messages
flow from the gateway through the stream to the router, which calls the privacy
filter, RAG and LLM and answers through the gateway. The factory acquires
sources, judges what reviewers made of them, has a candidate attested, authorized
and signed, and exports it to media that a site imports and prepares for the
activation with which this paragraph begins. The hard behaviours are crashes between two
durable writes, writes that fail after they took effect, power loss, reads of
one process between the writes of another, calls that time out and are executed
later, clocks that step back, retries, and limits.

`PROJECT.json` lists every component and every hazard with the line where it
bites.

## Modules

| Module | Models |
|---|---|
| `ReleaseLedger` | abstract: what activation promises |
| `Activation` | the manager, the answers of the operator, the resolver, and their faults |
| `MCActivation` | instances for TLC |
| `ActivationProofs` | types and the inductive invariant of `Activation`, its consequences, the refinement of `ReleaseLedger` |
| `Rollout` | controller, ports, reconciler, with operator, RAG service and Kubernetes around them |
| `MCRollout` | instances for TLC |
| `RolloutProofs` | the inductive invariant of `Rollout` and the safety theorems that follow |
| `OfflineTrust` | signed time and revocation evidence, the start of the RAG service that installs it, the searches it gates |
| `MCOfflineTrust` | instances for TLC |
| `OfflineTrustProofs` | the inductive invariant of `OfflineTrust` and the safety theorems that follow |
| `FleetView` | abstract: what the controller promises to learn and show of the nodes |
| `FleetControl` | the signer of a node, the controller's authentication, memory and compliance reports |
| `MCFleetControl` | instances for TLC |
| `FleetControlProofs` | the inductive invariant of `FleetControl`, its consequences, the refinement of `FleetView` |
| `SmsPipeline` | an inbound SMS from the gateway's queue through the stream (Redis or Kafka) or HTTP to its answer and acknowledgement |
| `MCSmsPipeline` | instances for TLC |
| `SmsPipelineProofs` | types, redelivery by Redis Streams, the account of accepted messages, why one is answered twice |
| `PrivacyFilter` | block list, rate window and files of the filter |
| `MessageRouter` | what the router answers: hunt, filter, class, history, retrieval, model; extends `PrivacyFilter` |
| `MCMessageRouter` | instance for TLC, with the profiles of the charts |
| `AuditLedger` | the append-only ledger and the ways its file is damaged; used by the next two |
| `Acquisition` | the acquisition controller over its durable state |
| `MCAcquisition` | instance for TLC |
| `AuditAnchor` | checkpoints, witness, receipts and the verification of their chain |
| `MCAuditAnchor` | instance for TLC |
| `LedgerProofs` | the invariants behind the state file, the audit trail and the chain of anchors |
| `KnowledgeBase` | the documents of the RAG service, their files, and the vector collection that follows them |
| `MCKnowledgeBase` | instance for TLC |
| `AnswerProofs` | what a user is answered: the inductive invariants of `MessageRouter` and of `KnowledgeBase`, and the theorems that follow |
| `Corpus` | coverage and suitability, as functions of reviewed records |
| `Promotion` | the promotion gate and the governance binding; extends `Corpus` |
| `ReleasePath` | from package and promotion to signature, media, import and activation package; extends `Promotion` |
| `MCReleasePath` | instances for TLC: corpora and evidence sets, each but one with a defect |
| `ReleasePathProofs` | soundness of the gates, the replay store, the import state, the provenance of what a site activates |

### Activation

| Model | Code |
|---|---|
| `pointer`, `states`, `package`, `counterFile` | `current.json`, `state.json` of each release, package directories, `receipt-counter.json` |
| `op` | the call that `CorpusActivationManager` executes: its local variables and the statement it is at |
| `answer` | what the operator was told: a receipt or an internal error |
| `rag` | the RAG process and the pointer it booted with |
| `Activate`, `Recover` | the checks at the entry of `activate`, `recover` and `recover_exceptionally` |
| `StagePackage`, `CompleteStage`, `BuildReceipt`, `RecordFinal`, `CommitPointer` | the writes of `_prepare_and_commit`, one action each |
| `RecordRejected`, `Conclude`, `Answer` | its `except` branch and the receipts of refusals |
| `Crash`, `WriteBack`, `PowerLoss` | faults; `Outcomes` lets each write raise before or after its `os.replace` |
| `ReadPointer`, `FinishResolve`, `RagStops` | `ActiveReleaseResolver.resolve`, which reads the pointer first and the rest later |

A release is a digest; the content of a package is the digest whose release it
is, or `Broken`. `state.json` keeps the two last entries of its history, which
is all the resolver looks at. Signatures, hashes and parsing are their verdicts.
`committed` is a history variable: every selection the pointer ever made.

`ReleaseLedger` states the promise without files: production only moves to a
sequence above the floor, recovery spends authority that was never spent, the
floor never falls. `Activation` implements it under the mapping `Ledger`: the
commit of the pointer is a step of the ledger, everything else stutters.

### Rollout

The record is `PersistedRolloutState`; `ctl` is where `advance()` is. A call is
an action that succeeds, fails, or times out and stays in `late`, from where it
can still take effect. `Persist` is `LocalRolloutStateStore.save`, which can
raise on either side of its `os.replace`. A storage or clock error that the worker
meets stops it for the life of the process, while the API (`by = "api"`) can still
advance; one that a call of the API meets is answered 409 and leaves the worker
running (`StateErrorFor`). `ReplacePod` is Kubernetes with the strategy `Recreate`: it ends the RAG
service, the operator (and its late calls) and the controller. The operator is
modelled by what `Activation` shows of it. `OtherOperation` is any other
activation or recovery on the node.

### OfflineTrust

| Model | Code |
|---|---|
| `now`, `mono`, `boot` | civil time, which the node does not know; its monotonic clock and boot identity |
| `anchors`, `snapshots` | what the authorities have signed, by sequence and by generation |
| `mounted` | the evidence files on the node's projected volume |
| `anchor`, `snapshot` | the two records of the state file of `OfflineTrustStore` |
| `Anchored`, `TrustedTime` | `time_confidence` |
| `LowerBound`, `AnchorAcceptable`, `SnapshotAcceptable`, `InstallAnchor`, `InstallSnapshot` | `accept_time_anchor`, `accept_revocation_snapshot` |
| `StartAnchor`, `StartSnapshot` | `OfflineTrustRuntime.from_settings`, one write each |
| `Fresh`, `Eligible` | `assess_eligibility` for the purpose `serving` |
| `BeginSearch`, `FinishSearch` | `RAGService.search`: the check before the retrieval and the one after it |
| `IssueAnchor`, `IssueSnapshot`, `Deliver`, `Reboot`, `Tick`, `ServiceStops` | the world: signing, late or repeated delivery, reboots, time, the end of the container |

The authorities sign one record for each sequence and generation, which names
its predecessor: the number is its digest. Signatures, device scope, trust
generation and parsing are taken as verified. The monotonic clock does not run
backward within a boot. Eligibility for the purpose `activation` has no caller
in the repository and is not modelled. `accepted`, `acceptedAt` and `highest`
are history variables.

### FleetControl

| Model | Code |
|---|---|
| `numbered`, `Sign`, `SignFails` | `FleetSequenceStore`, which commits a number before `FleetMessageSigner.sign` reads the key |
| `network` | every message sent; delivery at any time, again, or never |
| `registry`, `Enrol` | the mounted enrolment registry and its reviewed changes (rotation, disablement, re-enablement) |
| `floor`, `Fresh`, `Advance` | `FleetReplayStore`, durable |
| `InWindow`, `Enrolled`, `Verify` | `FleetAuthenticator.verify` |
| `nodes`, `Register`, `Heartbeat`, `HeartbeatOfUnknownNode` | `NodeManager.nodes`, in memory, and the two endpoints; the last one is the 404 after the sequence was consumed |
| `Restart` | a new process: the fleet is forgotten, the floors are not |
| `Online`, `CorpusStatus`, `DriftGroups`, `Classify`, `FleetCompliant` | what the controller reports when asked |

No file of the repository drives the signer, so what a node reports, when, and
its clock error (`Drift`) are external; a report is true when it is taken and a
node signs one at a time. `issued` of the abstract `FleetView` is the set of
reports in `network`, `learnt` the floor, `shown` the sequence of the entry.
`lastServed`, `enrolledAt`, and the key and sequence kept in an entry are
history. The controller's clock is taken not to step back: a step back makes
silent nodes count as online for as long, and the documents leave a trusted
time strategy for the controller open. Compliance speaks of the registered
nodes only: after a restart a node that has not registered again is missing
from the report.

### SmsPipeline

| Model | Code |
|---|---|
| `told`, `queue`, `Receive` | `receive_message` and `_inbound_queue` |
| `worker`, `TakeQueued`, `Publish`, `PublishFails`, `Post`, `PostFails`, `PostTimesOut`, `NextAttempt`, `failed` | `_forward_worker`, `_forward_to_router`, `_forward_to_router_http`, `_failed_forwards` |
| `log`, `trimmed`, `AppendEntry` | `XADD` with its approximate `MAXLEN` |
| `lastRead`, `pending`, `idle`, `committed` | the consumer group; with Kafka the position, `_pending` and the committed offset |
| `router`, `Connect`, `TakeNew`, `Claim`, `Process`, `ProcessFails`, `Ack`, `AckFails` | `_stream_consumer_loop`, `consume` and `ack` of `shared/streams.py` |
| `calls`, `CallReturns`, `CallFails` | executions of `POST /route` |
| `GatewayStops`, `RouterStops`, `IdleElapses` | processes that end, `stream_claim_idle_ms` |

A message published ambiguously is also posted; a post that timed out still
runs. `answers`, `excuses`, `finished` and `lost` are history: how often a
message was answered, and which events may have it answered once more. Two
routers exist while Kubernetes replaces the pod.

### MessageRouter and PrivacyFilter

| Model | Code |
|---|---|
| `Arrive`, `HuntReplies`, `NextClue` | `process_message` and `_handle_treasure_hunt`, which comes before the filter |
| `Filter`: `Validated`, `Unvalidated` | the call of `/validate`: an answer with status 200 within five seconds, and everything else, also of a running filter, after which the router goes on |
| `Validate`, `ValidateUnheard` | `validate_message`, and one whose answer reaches nobody |
| `Classified`, `Direct` | classification and the classes answered without retrieval |
| `Remember`, `history`, `hunt`, `Evict` | `ChatHistoryStore`, shared by all requests |
| `Retrieve`, `Choice`, `TakeSlot`, `Generate`, `GenerateFails` | retrieval, the choice between document, model and refusal, the slots of the model |
| `Attributes`, `Accepted`, `Evidence` | the record of what an answer rests on, built after the delivery |
| `Send`, `RouterRestarts` | delivery, and the end of the process |
| `blocked`, `window`, `store`, `Save`, `BlockUser`, `UnblockUser`, `WindowPasses`, `FilterStops`, `FilterStarts` | the filter: memory, the three files that are truncated and rewritten, its load |

Every `await` ends an action. A text is its class, a score is the outcome of its
comparison, a detection pattern is its verdict. The file of a save cut short may
be left empty, half written or as it was. `BlockRespected` is about the answers of
the filter that reach the router; a hunt command is answered before the filter is
asked, and a call without an answer stops nothing, so that a blocked user can be
served in both cases.

### AuditLedger, AuditAnchor and Acquisition

An entry's digest covers its predecessor, so the digest of a ledger is the
ledger: a checkpoint holds the prefix it names. `AppendEvent` is
`append_audit_event`, one action because it holds the file's lock; a torn last
line makes every append and verification fail. `Restore` is anyone with access
to the storage who puts an older copy back.

`AuditAnchor`: `PrepareCheckpoint`, `WitnessSigns` and `ChainVerifies` are
`prepare_checkpoint`, `prepare_witness_statement` with `finalize_receipt`, and
`verify_anchor_chain`. `forked` and `stale` are history.

`Acquisition`: `Start` to `WriteState` are the steps of `reconcile` for each
source in order, one action for each durable write; `run` holds the local
variables of each process. `Refused` is `AuditLedgerError`, which ends the
cycle. `PowerLoss` takes evidence whose directory entry was not written back:
`store` syncs the payload and not the directory. `lost` and `clean` are history.

### KnowledgeBase

| Model | Code |
|---|---|
| `docs`, `file`, `Loaded`, `SaveDocuments`, `Added`, `Removed` | `DocumentManager`, `_load_documents`, `_save_documents` |
| `client`, `index`, `CollectionOf`, `UpsertChunks` | the Chroma server or the local directory, the collection of the corpus, get, delete and upsert |
| `Start`, `SyncDelete`, `SyncUpsert`, `SyncDone`, `SyncFails`, `AddSample` | `RAGService.initialize`; nothing is served before it ends |
| `AddDocuments`, `FinishUpsert`, `DeleteDocument`, `call` | the three requests; `call` holds the upserts that wait for their embeddings |
| `Zipped`, `AcceptedItems` | the pairing of texts and identifiers in a bulk request |
| `Stop` | a crash at any point, or the deployment of another corpus |

A text stands for its hash and its chunks. One process serves at a time, as the
chart's strategy `Recreate` has it; the replicas of `docker-compose.scale.yml`,
which share a volume, are not modelled. A deployment keeps its embedding model,
and a packaged corpus is read-only and has documents. `excused` and `unsaved`
are history: which documents the service has let go out of step until its next
start, and whether the last save was cut short.

### Corpus, Promotion and ReleasePath

| Model | Code |
|---|---|
| `MissionCoverage`, `RequirementStatus`, `Gap`, `Conflicted` | `coverage.py` |
| `Suitability`, `RequirementSuitable`, `Fresh`, `LineageHolds` | `suitability.py` |
| `Promoted`, `BindingHolds`, `SafetyPasses`, `ClassPasses`, `SuitabilityPasses` | the gates of `promotion.py` |
| `GovernanceHolds`, `PackageGovernance` | `governance.py` |
| `BuildCandidate`, `Attest`, `Authorize`, `AttestationVerifies`, `Independent` | packaging, `evaluation_attestation.py`, `authorize_release_signing` |
| `SignBegins`, `SignRefused`, `AdapterSigns`, `AdapterFails`, `Save` | the signing service: check policy, evidence and key, look at the replay store, sign outside it, look again and record |
| `store`, `Statement`, `Rows` | `SigningReplayStore`, whose primary key is the authorization and the release key; the statement whose digest it compares |
| `ReleaseKey`, `AllowedKeys`, `MaySign`, `Here.release` | the key the caller names, the allowlist of the policy, the rotation states that sign, the one key a verifier trusts |
| `Export`, `ImportBegins`, `ReadState`, `CopyToInbox`, `Commit`, `PlaceOutput`, `state`, `inbox` | `distribution.py`, one action for each write at the site |
| `PrepareActivation`, `packages` | `governed_distribution.py` |
| `Revoke`, `SignerLearns`, `SiteLearns` | revocation lists, external, each brought up to date in its own time |

The reports are computed from their inputs by the operators of `Corpus`, so that
a defect of a corpus or an inventory has to pass the code's own judgement to
reach a site. Digests are the values they are taken of; what may be absent is a
set of at most one element. An import takes no lock: `MediaOnce` is promised for
imports that do not overlap, `ImportedKept` for all. An authorization names no release
key: sent with two allowed keys it has a record under each, which is why
`OneSignatureReleased` speaks of an authorization and a key, and `ActivatedIsApproved`
of the key the site trusts. The decrypted output goes to a path of the caller's choice
that must not exist yet; an earlier output of the same transfer elsewhere refuses nothing.

## Runs

| Run | Shows | Instance |
|---|---|---|
| `activation_safety` | servable releases, the refinement of `ReleaseLedger`, production moves forward, ordered receipts, and success, failure and refusal agree with the pointer, also when its write raises after it took effect | two digests; candidates with wrong sequences, wrong or broken content and equal sequences; five authorizations of both kinds, reused identifiers and nonces, a foreign one; one fault of any kind; three receipts |
| `activation_governed` | pointers stay servable, service resumes | three releases with one sequence each, four authorizations, two faults (crash, failed write, failed step), fairness |
| `rollout` | loadable record, one pod replacement, earned verdict, budgets, the rollout settles | three releases, two attempts of each kind, two polls, a deadline of two ticks, one crash or storage error, one step back of the clock, one operation of somebody else |
| `offline_trust` | trusted time is never ahead and does not step back while trusted, revocations reach answers, answers stay within the horizon, an interrupted start converges | two anchors, two snapshots (nothing revoked, or source, release and key), two boots, one failed write or interrupted start |
| `fleet_control` | reports are learnt in order and once (refinement of `FleetView`), the newest is shown, compliance rests on what was served in the bounded past, revoked enrolments fade | one node, two messages, two keys, two releases, one change of each kind, one restart; skew of one and timeout of two ticks |
| `sms_pipeline` | with Redis an unfinished entry stays deliverable, accepted messages are accounted for and are resolved, an answer is repeated only for a reason | two messages, two routers, a queue and a stream of one, two attempts, two faults, fairness |
| `message_router` | no profile lets the model answer what it forbids, nothing raises after the delivery, memory stays with its sender, confirmed blocks are respected whenever the filter is heard | two requests of one or two senders, the three profiles of the charts, one clue, one slot, one remembered turn, one message per window |
| `acquisition` | the state file is backed by evidence, outcomes and events; nothing is told as unchanged that was never told as a change; while cycles run alone and complete, the ledger tells each change and no other | two controllers, two sources of which one expires, two contents, two selections, one publication, one crash or power loss, one restored ledger |
| `audit_anchor` | the chain of receipts is accepted exactly when no anchored entry is lost, nothing forked and no statement is stale | two requesters, three entries, three receipts, two generations, one restored ledger, a torn line |
| `knowledge_base` | a service that counted no error finds by vector what it finds by words; a package keeps its index; a restart keeps the documents | two documents, two texts, two packages and the mutable corpus, two stores, two requests at a time and three in all (single, bulk, with a refused item), two failures, any number of restarts |
| `release_path` | one record for an authorization and a release key; only sound and approved releases, signed with the key the site trusts, are prepared for activation; media are imported once and kept | eight corpora and eleven evidence sets, one of each without a defect; three sets of approvals; two allowed keys of which the site trusts one; two clients, two importers, three media, one crash |
| `sms_kafka` | violation, see below | one router, two messages, one fault |

Further configurations show behaviour that the properties above exclude, each
with one property that a document states and that TLC finds violated:
`ActivationPowerLoss.cfg`, `ActivationRepair.cfg`, `RolloutAttempts.cfg`,
`RolloutPostRestart.cfg`, `RolloutCap.cfg`, `OfflineTrustReboot.cfg`,
`SigningRetry.cfg`.

Bounds. `MaxCounter` stops new operations once three receipts exist: two
commits and a third operation that meets both, which is what a rollback, a
replay, an equal sequence or a return from recovery needs. One fault in the
safety run already meets every step of every operation; the governed run has
two, so that a recovery from a fault meets another. In `Rollout`, two attempts
distinguish the first, the last and the one beyond the last; the deadline of two
ticks can fall before, between and after the calls. In `OfflineTrust`, two
records of each kind are what a replay, a gap, a swapped order and a
replacement need; horizon and age limit are one unit, so that both expire
between two events; no event happens after `EventsUntil`, which leaves the time
(`MaxTime`) in which an installed anchor expires and its successor becomes
acceptable, as `StartupConverges` needs. In `FleetControl`, two messages are
what a replay, an overtaking and a registration followed by a heartbeat need,
three ticks are the age at which a status is too old; everything but the drift
groups concerns one node at a time, and the theorems hold for any number of
nodes, clock errors and messages. In `SmsPipeline`, two messages fill and trim
a stream of one and overtake one another, two faults are an ambiguous call and
what follows it. In `MessageRouter`, two requests are one that waits and one that
runs in between; one remembered turn is enough for a foreign one, and the number
of blocks, restarts and cut saves is not bounded. In `Acquisition`, two selections
are two sources of one cycle, two cycles after one another, or two at once. In
`AuditAnchor`, three receipts are a first, a predecessor and a fork. In
`ReleasePath`, each corpus, evidence set or set of approvals but the good one has
one defect that one gate has to find; two imports are a medium and its repetition,
its predecessor or a rival. The constraint `SignedFirst` lets both clients
race at the service until the first export and explores the rest of the path for
records that one of them asked for: a record counts as soon as it is in `released`. In `KnowledgeBase`, two requests meet on one document
while a third follows them; two failures are one that leaves something behind and one
that meets it. `CHECK_DEADLOCK FALSE` is
set where a bound or a settled rollout legitimately ends a behaviour.

Fairness. The manager's synchronous code runs on once called (`ManagerStep`);
the kubelet restarts the RAG container, whose boot runs the resolver to its end
(`ReadPointer`, `FinishResolve`), and the controller (`ControllerStarts`); the
worker advances in a loop (`Advance("worker")`); every call has a timeout, so it
ends in one way or another (`Continue`); time passes (`Tick`). In `OfflineTrust`
the kubelet keeps starting the container (`StartAnchor`, `StartSnapshot`), of
whose starts finitely many are interrupted. In `SmsPipeline` the gateway's worker
and the routers' loops run on, a call of `/route` ends, Kubernetes starts the pods
(`Connect`), and the idle time of an entry that no living router holds passes;
faults are finitely many. Nothing is assumed of operators, authorities,
deliveries, late calls, calls succeeding, or, in `Rollout`, of Kubernetes replacing
the pod. The other runs have no liveness property and assume no fairness.

### Divergences

What the code does otherwise than documented, by run or configuration:

- `ActivationPowerLoss.cfg`: ADR 0003 says that after power loss the node selects
  the old or the new release and never a partial one. The package and index are
  copied without `fsync` before the `fsync`ed pointer names them.
- `ActivationRepair.cfg`: ADR 0003 permits repair of the digest at the floor on
  return from recovery. `activate` compares with the active digest, which in
  recovery is the older one, and refuses.
- `RolloutAttempts.cfg`: `docs/corpus-packaging.md` calls the attempt limits
  durable. An interruption between the persisted attempt and its outcome buys
  another attempt each time. (`AttemptsBudgeted` is what does hold.)
- `RolloutCap.cfg`: the same document calls the controller
  crash-resumable. With a limit configured at the 100 the attempt fields can
  hold, which is allowed, an interrupted attempt is followed by one that
  persists 101, and no later load accepts that record. `RecordLoads` states the
  room that is needed; run `rollout` has it (`AttemptCap`).
- `RolloutPostRestart.cfg`: the same document requires a post-restart status. The
  status is read from whichever process answers after the PATCH was accepted;
  one that already serves the target verifies the rollout before the restart.
- `OfflineTrustReboot.cfg`: `docs/offline-time-and-revocation.md` says that a new
  anchor does not move the bounded civil time backward. Once the old anchor is
  not current any more, after a reboot or past its horizon, the lower bound is
  the time the old anchor was signed for, not the latest time that was trusted:
  an older signature is accepted. (`TrustedTimeContinues` is what does hold.)
- `sms_kafka`: `message_router/main.py:539` says of a message whose processing
  raised that it will be redelivered. With Kafka, `ack` of a later message of the
  partition commits the offset behind both. With Redis, the profile of the field,
  the comment is right, and `RedisRedelivers` proves it.
- `SigningRetry.cfg`: `docs/release-signing-service.md:9` calls an identical request
  idempotent. The digest that the replay store compares covers the time of
  signing, which the service reads from its clock: the request repeated later is
  refused as a different one. (`OneSignatureReleased` is what does hold, for each
  authorization and key.)

Without a run: `docs/architecture.md:135` calls the HTTP fallback at-most-once;
the gateway posts up to three times, and a post that timed out may have been
answered (`DuplicatesExplained` names the cause). Concurrent imports at a site
both read the state before either replaces it, so that both can admit one medium.

## Proofs

`ActivationProofs` proves `Spec => []TypeOK` and, for any sets of digests,
candidates, authorizations and fault kinds and any bounds:

- `InvariantHolds`: `IInv` is inductive. The safety properties are not inductive
  alone: that a committed production release lies above everything committed
  before needs that the running operation still works on the pointer it read
  and began above its floor (`OperationGrounded`); that receipts are numbered
  needs that the counter file is ahead of the receipt being built
  (`CountersOrdered`); that the RAG service serves committed releases needs that
  what it has read was committed and what is selected is recorded
  (`SelectionRecorded`), and `FloorCoversHistory`.
- `PointerAlwaysWellFormed`, `OnlyCommittedReleasesServed` follow from `IInv`.
- `NoProductionRollback`, `ReceiptCountersGrow`, `FailureIsHarmless` are action
  properties, proved action by action from `IInv`.
- `FilesImplementLedger`: the refinement of `ReleaseLedger`.
- `SuccessIsTrue` and `FailureIsHarmless` hold for every input and fault. A success
  receipt can name the candidate's sequence while the pointer has another one only
  where one digest is submitted under two, since the failure path compares digests;
  `SuccessIsExact` excludes it from `Numbered`, one sequence for each digest.
- `PointerIsServable` assumes `Governed`: one sequence and one content for each
  digest, recoveries to another release than the one served, and neither power
  losses nor writes that raise after they took effect. Crashes, failed writes and
  failed steps remain. `ServableInv` says that an operation writes
  beside the release that is served until it moves the pointer, and that the
  candidate's package and the two last states are there when it does. The
  instance of `activation_governed` is one such. No hypothesis can go from it, and TLC finds a
  counterexample without any one of them: an operation stages, and rejects, the
  very release that is served; a late error makes the failure path reject the
  release it has just selected; a power loss takes a package that nothing flushed
  (`ActivationPowerLoss.cfg`).

`RolloutProofs` proves for any releases, limits, faults and clocks:

- `InvariantHolds`: `IInv` is inductive. What the record claims is true
  (`Grounded`: a receipt means that the floor covers the target, an
  acknowledgement that the template carries the restart, a verdict that the
  target was served), what `advance()` holds fits the record (`Fits`), there is
  room for the next attempt whenever none is under way (`RoomForAttempt`), and a
  restart is on its way only once the activation is durable (`ClusterFollows`).
  Environment steps preserve it because what it rests on only grows; an
  interrupted save preserves it because the interruption itself pays for one
  more attempt.
- `RecordLoads`, `OnePodReplacement`, `VerdictEarned`, `RestartAfterActivation`
  and `BudgetHolds` follow; run `rollout` checks all of them but the fourth.

`OfflineTrustProofs` proves for any evidence, clocks, boots and faults:

- `InvariantHolds`: `IInv` is inductive. Besides the unbroken chains it needs
  that snapshots are signed in order (`SignedInOrder`), that within the boot that
  accepted the anchor the monotonic clock measures true time since then
  (`AnchorDated`), that the installed snapshot is the signed one
  (`SnapshotGenuine`), and that an answer names the snapshot that allowed it
  (`AnswerJustified`).
- `TimeNeverAhead`, `EvidenceChain` and `RevocationsReach` follow;
  `TimeContinues` and `WithinHorizon` are action properties proved from it. An
  answer rests on a snapshot at most `MaxAge` old, hence on one not older than
  the snapshot that stops the source, which then contains the entry.

`FleetControlProofs` proves for any nodes, messages, keys, skew, timeout and
bounded clock error:

- `InvariantHolds`: `IInv` is inductive. It needs that every message is true of
  its moment and numbered below the node's store (`MessagesTrue`), that numbers
  follow time (`NumberedInOrder`), that the history of what is served reaches to
  the present (`HistoryCurrent`), and that an entry comes from the last accepted
  message, whose key was enrolled when it was seen (`MemoryTrue`).
- `NewestShown`, `ComplianceEarned`, `RevocationFades`, `AgreementHolds` follow.
- `LearningInOrder`: the refinement of `FleetView`.

`SmsPipelineProofs` proves for any messages, routers, limits and faults:

- `InvariantHolds`: the worker holds a message unless it rests, a loop holds an
  entry of the log, and acknowledges only what it finished; `TypeCorrect` follows.
- `RedisRedelivers` assumes `Backend = "redis"`. The group has been given no entry
  beyond the log; new entries are taken in their order, a claim forgets only what
  was trimmed, an acknowledgement only what is finished.
- `AcceptedIsAccounted`: whatever is seen of a message (in memory, in the stream,
  in a call, in an answer) is of an accepted one, and an accepted one is kept
  somewhere: each step moves it from one place to the next.
- `DuplicatesAreExplained` (Redis) counts. `Owed` adds to the answers of a message the
  ways in which it may still be answered (the gateway may forward it, the group may
  deliver an entry of it, a loop works on one, a call is under way), as the
  cardinalities of finite sets; their sum stays within one and the excuses. Every step
  that adds a way takes another or is excused.

`ReleasePathProofs` proves for any corpora, evidence, approvals, requests,
importers and media:

- lemmas about the gates: a covered mission has every intent answered and no
  conflict (`CoverageAnswers`), a suitable inventory documents every fact
  (`SuitabilityDocuments`), what is promoted is sound (`PromotionIsSound`),
  independent approvals come from two people (`TwoPeopleApprove`).
- `OneSignature`: the store has one row for an authorization and a release key, and
  what is released is a row, because saving looks at the rows once more.
- `Approved`: what is in each place (attested, authorized, in the store, on a
  medium, in the inbox, prepared) comes from the place before it, and was signed with an
  allowed key that was active or overlapping.
- `Once` and `Kept`: the import state covers the commits while imports do not
  overlap, and the inbox covers the import state always.

`AnswerProofs` proves of the router, for any senders, requests at once, profiles, clues,
slots and turns, and any behaviour of the filter:

- `InvariantHolds`: `RouterInv` is inductive. It says of a request at each place what
  was decided to get there: who waits for the model may be answered by it and is
  grounded if the profile asks for that (`RequestsSafe`); a turn of the history is of a
  settled request of its sender, and once (`HistoryTrue`); what a request remembers is
  its sender's (`MemoryTrue`); a confirmed block is in memory, and on disk unless a
  save was cut short (`BlocksKept`).
- `TypeCorrect`, `GroundingKept`, `DeliveryNeverRaises` and `HistoryIsPrivate` follow;
  `BlocksHold` is an action property: a message that the filter validates and answers
  in time is answered as blocked when its sender is. The profile may be any of the rigid
  settings: the theorems hold for those the charts never combine.

And of the RAG service, for any documents, texts, packages, samples, bulk requests,
number of requests at once, faults and restarts:

- lemmas about a bulk request, whose items are numbered by counting: what is
  accepted are the items with a text, in their order (`AcceptedAre`), the last text of
  a document remains (`AddedAre`), and without a refused item each text meets its own
  identifier (`ZippedAre`). In place of an induction they take the least position at
  which a count is reached, which every set of naturals has (`HasLeast`).
- `KnowledgeHolds`: `KnowledgeInv` is inductive. A mutable corpus alone is changed
  (`CorpusInv`); files of a save that went well load as what is in memory
  (`FilesInv`); the collection agrees with memory from the end of the synchronization
  on (`IndexInv`); and the upserts left of a document belong to one request, the last
  of them with the text in memory (`PendingInv`). The last is what makes the end of a
  request right, and it fails for just the documents the property excepts.
- `KnowledgeTypeCorrect` and `AnswersAreCurrent` follow; `IndexIsReused` and
  `RestartIsKeeping` are action properties.

`LedgerProofs` is about the append-only ledger and its two users.

- `StateIsBacked`, for any controllers, sources, payloads, crashes and power losses.
  The state file is replaced by what a controller remembers, so the invariant is
  about every controller's memory, and about what a source under way has left behind
  at each step (`Left`); everything it rests on only grows (`Lasting`), but for a
  ledger that was put back, which the property exempts.
- `AuditTellsChanges`: what a controller remembers of a source is the digest of its last
  completion before the source was begun, and at most one runs, while the history
  is clean (`TrailInv`). In any history what is remembered, in a process or in the state
  file, was told as a change (`PrevInv`, `AllAnnounced`). The property reads the ledger
  backwards from each report; appending moves none of the earlier readings
  (`AppendKnows`, `AppendAnnounces`).
- `ChainOfAnchorsDecides`: the verifier accepts the chain exactly if the ledger is whole
  and extends what was anchored, no two requesters built on one receipt and none was
  signed under an outdated generation. `AnchorInv` says of the receipts that they
  are numbered in order, each building on the one before, until two build on one;
  that signing times never go back; and that generations do only between neighbours.

Assumptions are the named `ASSUME`s of the modules, which TLC evaluates in the
runs: sentinels are distinct from the values they stand beside, limits are
positive, candidates, authorizations and evidence have the types the contracts
enforce.

Only model-checked: everything temporal under fairness (`ServiceResumes`,
`RolloutSettles`, `StartupConverges`, `AcceptedResolved`).
What coverage and suitability compute is proved in one direction, the one that
matters (what passes is sound).
The type invariants of the modules with proofs, the inductive invariants,
`EvidenceUnbroken` (`EvidenceChain`) and `RestartFollowsActivation`
(`RestartAfterActivation`) are proved and are therefore not repeated as properties
of the runs.

## Not modelled

Signatures, hashing, parsing, encryption and HTTP are their verdicts.
Ranking, embeddings and language models are numerical or textual, and keep no
state between requests; so does the routing of a message to the least loaded node,
and the numerical analyses, reports and test drivers of the factory. Refresh,
review and sourcing compute a document from documents. Consent records share the
privacy filter's files and nothing else. The activation bootstrap and the validation of a
package run once, over files. The document manager's update, import, export and
cleanup have no caller. The plaintext carrier and the import of a package
that is not governed are outside the path to an activation. The mode of the node
manager without signatures is for a laboratory. Scripts, user interface and charts
hold no protocol; what the models take from the charts (the profiles of the
router, the strategy `Recreate`) is said above. The mode in which the operator is
given other verifiers, indexers or smoke tests is covered by the steps' freedom to
fail.

Two questions about the factory are open to a reader and outside the model: a
mission or registry that is edited under the same identifier (governance binds
identifiers of both), and the times at which reports were assessed, which nothing
compares with the time of signing.

## Plan

1. `Activation`, `ReleaseLedger`: modelled, checked and proved.
2. `Rollout`: modelled, checked and proved.
3. `OfflineTrust`: modelled, checked and proved.
4. `FleetControl`, `FleetView`: modelled, checked and proved.
5. `SmsPipeline`: modelled, checked and proved.
6. `MessageRouter` with `PrivacyFilter`: modelled, checked and proved.
7. `AuditLedger`, `Acquisition`, `AuditAnchor`: modelled, checked and proved.
8. `Corpus`, `Promotion`, `ReleasePath`: modelled, checked and proved.
9. `KnowledgeBase`: modelled, checked and proved.

What would add most next: Kafka with several partitions, and the routing of the
node manager once it keeps state.
