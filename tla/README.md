# HNB: TLA+ models and proofs

HNB is a cloud platform in Go. Its control plane accepts *operations* (deploy, delete, switch over, ...),
splits them into *steps*, and has workers carry the steps out against *runtime providers* (Kubernetes,
edge, gateway, network, ...). Agents in the clusters report what is there and keep a tunnel open through
which the platform reaches them; traffic is moved between clusters by controlled DNS changes. This directory
holds TLA+ models of these paths, TLC configurations that check them on small instances, and TLAPS proofs of
what holds for every instance.

## The system and its parts

| Part | Code | State | Operations | Model |
|---|---|---|---|---|
| Operation state machine | `operation-worker/internal/engine/state.go`, `platform-api/internal/store/state.go` | the status of an operation | `CanTransition`, `IsTerminal` | `OperationStates` |
| platform-api store | `platform-api/internal/store/operations.go` | PostgreSQL tables | submit, submit intent, approve, reject, cancel | `OperationStore` |
| operation-worker store | `operation-worker/internal/store/operations.go` | the same tables, `worker_leases`, the generation sequence | acquire, renew, retry, commit result | `OperationStore` |
| Outbox relay | `operation-worker/internal/nats/relay.go` | `outbox_events` | select, publish, mark, give up | `OperationStore`, `StepExecution` |
| Work queue | JetStream, configured in `nats/worker.go` | stream, consumer | deliver, redeliver, ack, nak, term | `StepExecution` (external) |
| Step worker | `operation-worker/internal/nats/worker.go` | locals of `handleMessage` | each call of the handler, heartbeat, crash | `StepExecution` |
| Provider protocol | `driver/http.go` | external resource with a stored generation | fence, write, answer | `StepExecution`, `FencedProvider` (abstract) |
| kubernetes-provider | `kubernetes-provider/internal/provider/provider.go` | a Deployment and its annotations | get, create, update, poll | `KubernetesProvider` |
| Switch requests | `apiserver/internal/application/gslb`, `infrastructure/gslb`, `pkg/gslb` | requests, linked operations, drill reports | submit, approve, reject, drill, plan | `GSLBSwitch` |
| Operation centre on these operations | `platform-api/internal/store/operations.go`, `operation-worker/internal/store/operations.go` | the linked operations and their steps | approve, reject, cancel, record a failed step | `GSLBSwitch` |
| gslb-controller | `gslb-controller/internal/{consumer,executor,store,reconciler}` | commands, DNS endpoints, the read model of pools | consume, execute a plan step by step, transition, announce, automatic failover | `GSLBSwitch` |
| Disaster recovery | `apiserver/internal/application/dr` | groups, runs, their requests | initiate, confirm data layer, dispatch, fail | `DRSwitch` |
| Observation | `cluster-agent` reporter, `platform-api/internal/observer` | the agent's inventory, cursor, projection, bindings | report, accept, save, reset, age | `TargetObservation` |
| Storage bindings | `apiserver/internal/handler/storage_desired*.go`, `import-observed-storage-classes.sql` | `storage_class_bindings` | create, update, delete, import | `TargetObservation` |
| Intent admission and batches | `platform-api/internal/api/server.go`, `store/operations.go`, `store/operation_batches.go` | commitments, challenges, batches, row locks | look up, admit, submit, attach, refresh | `IntentAdmission` |
| Tunnel | `pkg/tunnel`, proxy handler of apiserver | registry, connections, pending requests, channels | dial, greet, register, request, answer, expire | `AgentTunnel` |

`PROJECT.json` lists the other parts with the reason each is left out.

How they interact. platform-api admits an intent, then writes an operation, its steps, an audit row, the read
model and one `step-requested` row per ready step in one transaction and never talks to the broker. The relay
publishes outbox rows; a row stays locked from selection to commit, and a relay that dies in between publishes
it again. Workers share one durable consumer. For each delivery a worker reads the operation, the step and the
dependencies, takes a lease with a fresh *fencing generation*, calls the provider with that generation while
a heartbeat renews the lease, and records the result in one transaction that is refused unless the lease is
still its own. Only then is the message acknowledged. A provider refuses a generation lower than the one
stored with the resource. Which version of a target an intent was made for comes from the projector, which
orders an agent's reports by (generation, sequence). Switch requests take the same outbox to gslb-controller,
which alone writes DNS and mirrors each request into the operation tables. platform-api and operation-worker
treat such an operation like any other and move it without its request. Disaster recovery submits switch
requests once the data layer is confirmed. The tunnel is independent of all this: requests go down the socket
an agent opened and are matched with their answers by ID, per connection.

What makes it hard: every call is a separate transaction, so anything may happen between two of them; the
broker redelivers while the first worker still runs; leases lapse on the database clock; requests to a
provider, reports and answers arrive late; relay, worker, controller, handler and agent die anywhere; a commit
succeeds and its answer is lost.

What correctness means, per part:

* **Store.** Counters, verdict, audit, read model and outbox tell the same story; terminal states are
  final; generations only grow; nothing high-risk is dispatched without an approval.
* **Relay and queue.** No command disappears; each is settled or visibly given up.
* **Worker.** A message is answered only when the outcome is durable; a step ends once.
* **Provider.** The resource shows the write of the attempt that was committed; an outdated attempt never
  writes, a deleted workload does not come back by itself, success means what was asked for is there.
* **Switch requests and runs.** DNS moves only for an authorised request that is no drill; verdicts are not
  reopened; an operation departs from its request only while the request is open and only as the operation
  centre or a failed step moved it; traffic waits for the data layer and a run knows its requests.
* **Observation.** The read model is the inventory the agent had at the report the cursor names; a verdict of
  the projector on a storage binding is right for as long as it is shown as fresh.
* **Admission.** One key names one operation; an operation is accepted only at the version its caller saw; a
  batch shows an outcome only when its children have ended.
* **Tunnel.** Requests go to the connection that is served, answers to a caller who asked for them, and no
  goroutine and no caller waits for ever.

## Modules

* `OperationStates` - the status vocabulary and the transition table.
* `OperationStore` - the seven tables and every transaction on them. Every transaction locks the operation
  row first (`SaveStepRetry` and `RenewLease` are single guarded updates), so each is one action. Clients
  are as general as possible: any worker may present any generation, version and result at any time, hence
  whatever is proved here holds no matter how workers, broker and providers behave.
* `StepExecution` - extends `OperationStore` with relay, queue, workers and provider. Each database call of
  `handleMessage` is a store transaction and a step of its own. `ExecSpec` refines `Spec` of
  `OperationStore` (the tables map to themselves).
* `FencedProvider` - what a provider promises: the steps the provider part of `StepExecution` takes, alone.
* `KubernetesProvider` - `deploy` and `delete` on one Deployment, one action per call to the Kubernetes API,
  any number of executions at once. It refines `FencedProvider`: the generation of the last write is the
  one in the annotations, 0 when there is no object.
* `GSLBSwitch` - switch requests, their plans, the controllers that carry them out, the reconciler, and the
  operation centre, which moves the operation of a request and not the request.
* `DRSwitch` - extends `GSLBSwitch` with disaster recovery runs, which submit through its `Submit`.
* `TargetObservation` - agent, reports under way, projector, read model of one observed target, one storage
  binding and the operators who write it.
* `IntentAdmission` - extends `TargetObservation` with callers, the submitting transaction and its row locks,
  and batches; the projector moves versions under the callers and waits for their locks.
* `AgentTunnel` - agents, connections and their goroutines, requests and their channels.
* `MCOperationStore`, `MCStepExecution`, `MCKubernetesProvider`, `MCGSLB`, `MCAdmission`, `MCTunnel` -
  constants and scenarios for TLC.
* `OperationStoreProofs`, `OperationVerdictProofs`, `StepExecutionProofs`, `KubernetesProviderProofs`,
  `GSLBSwitchProofs`, `DRSwitchProofs`, `IntentAdmissionProofs`, `AgentTunnelProofs` - theorems.

Definitions keep the names of the Go functions (`SubmitOperation`, `transitionOperation`,
`commitStepResult`, `markFailedAttempt`, `retryOrFail`, `failPermanently`, ...). Operators introduced by
"Variant:" are deliberate mistakes (a dropped guard, a missing write): replacing the real definition by one
must make a run fail, which shows that the properties depend on it. They are used by nothing else.

### From code to state

Tables are variables and a transaction is one action; a handler that reads in one transaction and writes in a
later one takes two steps, with anything of the others in between. Only the columns that decide something are
kept.

* **Store.** `operations`, `steps`, `leases`, `outbox`, `readModel`, `audit` are tables. `generation` is the
  sequence `operation_fencing_generation_seq`, which a rollback does not restore (`LeaseNotAcquired`).
  `lease_id` is drawn together with the generation and is represented by it. `expires_at` is a countdown `ttl`
  that `LeaseAges` moves. A retry also writes an audit row without statuses; `audit` holds the rows that record
  a status change. A submission under a known idempotency key only reads, so it is not a step. `StaleOutcomes`
  is the set of initial statuses the policy for stale targets may impose on an intent.
* **Execution.** `pc` and `job` are the program counter and the locals of each worker's `handleMessage`; a
  worker handles one message at a time. `requests` are provider calls under way: they outlive the worker that
  sent them. `provider[s]` is the generation of the last external write for step `s`. An answer to the broker
  may be lost (`Settle`), a commit may succeed with its answer lost (`RecordSuccess`, `RecordFailure`,
  `LeaseRefused`), a database call may fail (`StoreFails`). `Malformed` is the set of steps whose command
  `validateStepRequest` rejects.
* **kubernetes-provider.** `existing` is the object as last read and `attempt` the counter of the loop. A step
  identity stands for operation, step and idempotency key together, an image for the pod template. The attempt
  id is drawn with the generation and represented by it (`ProviderAssumption`). `settled` stands for the
  observed generation and the available replicas. All retryable and internal errors are one answer,
  `unavailable`; a request with bad fields, missing `expected_uid` among them, is `invalid`. Other clients
  report status and remove the object; none edits its specification or its annotations.
* **Switch requests.** A request is a service and an idempotency key; its kind and target pool are constants.
  `session` is a decision between the read that checks the status in memory and the write that does not.
  `outbox` holds the unique keys of `outbox_events`, which is what makes a second announcement or a second
  dispatch abort. `job` is the command a controller handles: the message, where `HandleCommand` is, the steps
  left and the compensation. `ExecutePlan` sorts a map, so steps run in any order that `dependsOn` allows. A
  write of DNS can be refused, or take effect and report failure. `dns` holds the targets of each service's
  endpoint. Pools, members and priorities do not change. `lockOperation` has no filter on the type of an
  operation, so `ApproveOperation`, `RejectOperation` and `CancelOperation` apply to the operation of a request.
  An approval dispatches the ready steps of the plan; no provider is configured for them
  (`HTTPRunner.Execute`), so all operation-worker can do is to record the failure (`CommitStepFailure`). Leases,
  retries and delivery of these steps are those of `StepExecution` and are left out here: a failure is
  recorded at any time after the dispatch, or never. `failed` is the operation's counter of failed steps.
* **Disaster recovery.** A run is a group and a key, and `RequestFor` the request it submits for a service.
  `call` is a call of `InitiateSwitch` or `ConfirmDataLayer` with the members it read; each member is submitted
  in a transaction of its own and the call may end anywhere (`CallEnds`).
* **Observation.** `calls` holds every report the platform may still receive or be working on: the agent gives
  up on a report after 30 seconds and looks only at success, so a report may outlive the wait and the process.
  `Accept` reads the cursor, `SaveObservation` writes cursor and read model later. The storage inventory is one
  class; `other` stands for any other storage fact. An empty node list is absent from the JSON, hence not
  applied (`projectNodes`). `binding` is one row of `storage_class_bindings`. Operators create, update, delete
  and import it with any class, state and freshness of `BindingInputs` (`EditBinding`). The projector reads the
  bindings without a lock and updates them by id, so an edit may be committed between the two: `now` is the
  row that the verdict of `projectStorageBindingDrift` is written to. `judged` is history: the class the
  verdict in the row is about, empty once somebody else has stored the row.
* **Admission.** `requests[c]` is the request a handler goroutine serves and where it is. Row locks are as in
  PostgreSQL at read committed: `SharesRow` keeps the projector's update out, an insert waits for a transaction
  that holds the same key. Committed operations are identified by the caller that committed them.
  `OperationEnds` stands for what `OperationStore` does with the operation afterwards.
* **Tunnel.** A connection is a number in the order of acceptance, with its own `handleAgent` goroutine; a
  request is a `SendRequest` goroutine, its ID is the caller's or new. `down` and `up` are frames on the wire
  and are lost with the socket. The agent answers on whatever connection it has by then. Heartbeats change only
  what is displayed and are left out.

## Runs

All cfgs switch deadlock checking off: when every operation has ended and every message, report and request is
settled the system has nothing left to do.

| Run | Shows | States |
|---|---|---|
| `store` | seven properties of the tables; one high-risk operation, two steps, two interchangeable workers, three generations | 186,405 |
| `takeover` | no command lost, committed write stands; two interchangeable workers, one step, one retry | 1.2 million |
| `duplicates` | the committed write stands with two copies of one command in the stream | 1.5 million |
| `approval` | no external write without approval, no command lost; two steps, one of them with a command that cannot be executed | 749,389 |
| `liveness` | every command is settled or visibly given up, under `FairSpec`; `ExecSpec` implements `Spec` | 72,989 |
| `provider` | fence, tombstone and specification under four racing executions, a busy controller and removals | 744,942 |
| `gslb` | authorised traffic changes, verdicts, operations that track their requests, data layer first, complete records of runs; seven scenarios of deciders, the operation centre, controllers, the reconciler and recovery calls | 110,894 |
| `admission` | the read model follows the agent, fresh verdicts on bindings, one answer per key, acceptance at the version seen, batch outcomes; five scenarios | 439,500 |
| `tunnel` | routing, own answers, room for every answer, and three liveness properties; four scenarios | 45,468 |
| `store_stale_policy`, `gslb_switched`, `observer_cursor` | violations, see below | |

Bounds of the execution path. `MaxGeneration` caps the sequence. A command with `MaxDeliveries` 2 is delivered
at most three times and draws at most one generation per delivery, so 3 does not cut `takeover` short (a run
with 4 reaches the same states), nor does 4 cut the two copies with two deliveries each of `duplicates`; in
`store`, 3 allows a takeover on one step and a lease on the other. `LeaseDuration` 1 makes a lease live or
lapsed. `MaxDeliveries` 1 or 2 (10 in the code) reaches both limits, `MaxDeliveries` and
`consumerMaxDeliveries`. `MaxAttempts` 1 or 2 (more in the table's default) reaches an abandoned row.
`MaxCopies` 2 is one duplicate. `RelayedKinds` leaves result events in the outbox, which nobody in the model
consumes; `store` publishes every kind. Two workers suffice for a takeover, and a third attempt comes from the
first worker again.

In `provider`, `maxCASAttempts` 2 (5 in the code) lets an execution lose a round and win or lose the next.
`MaxRevision` 4 bounds the writes of other clients, not those of executions: it allows an update by the
controller between a read and a write, and a removal after a write. The four executions are two deploys that
disagree on the image, between them a delete naming the first object, and a last deploy that fits both the
live object and its tombstone.

`gslb`, `admission` and `tunnel` choose a scenario in the initial state: which actors act, never what an
action does. In `gslb` `MaxDeliver` 2 (5 in the code) gives a command one redelivery, to the same or the other
controller; two users decide on one request at once, and two calls confirm one run; the operation centre acts
in one scenario, on a request that two users decide and a controller carries out. In `admission` one scenario
has operators rebind, reject, retire, delete and import the binding while a full report and a delta are saved;
`MaxSequence` 3 is a full report and two deltas, of which one can be lost or overtaken (`MaxCalls` 2),
`MaxGeneration` and `MaxRuns` 2 allow a source reset and an agent restart, and two callers are enough for a race
on a key. In `tunnel` `MaxDials` 4 lets two agent processes replace each other twice and a lone one recover
from a fault; with `MaxFaults` 1 the lone agent needs fewer dials than there are, so the bound does not stop
its reconnection.

Fairness of `liveness` (`Fairness` in `StepExecution`). The relay polls on a ticker, the broker redelivers after
the ack wait, a running handler proceeds because the step timeout bounds its only long call; these are weakly
fair. The relay's commit is strongly fair: after each abort it is tried again. Nothing is assumed of users, of
the provider, of the lease clock or of crashes.

Fairness of `tunnel` (`TunnelFairness`). Each goroutine that can run does: `handleAgent` of a connection,
`SendRequest` of a request, whose timer fires, and the main loop of an agent, whose backoff ends and whose dial
is accepted in the end. A lost socket is noticed at both ends, by TCP keep-alive at the latest. Nothing is
assumed of callers, of the agent's Kubernetes API (`SendResponse` may never happen), or of faults.

## Proofs

TLAPS proves the following for all values of the constants, from the named assumptions of the modules alone:
any number of operations, workers, deliveries and retries, of executions on one Deployment, of services,
requests, controllers and runs, of reports, callers and batches, of agents, connections and requests.

| Theorem | States | Argument |
|---|---|---|
| `TypeCorrect` | `Spec => []TypeOK` | inductive as it stands, one case per transaction |
| `FencingIsMonotone` | `Spec => FencingMonotone` | `SequenceAhead`: the sequence is at or above every retained generation |
| `TerminalStatesAreFinal` | `Spec => TerminalStatesStick` | every write to `operations` is guarded by a status that is not terminal |
| `ResultsAreAnnounced` | `Spec => []OutboxMatchesResults` | the result rows of a pending step cannot exist yet, so `InsertOutbox` does not abort; the relay never removes a row |
| `AuditIsAChain` | `Spec => []AuditExplainsStatus` | every step is no write or one `WriteOperation` (`OneWrite`); strengthened by `AbsentAtZero` |
| `ApprovalComesFirst` | `Spec => []ApprovalPrecedesDispatch` if `"queued"` is not in `StaleOutcomes` | `RunnableIsApproved`: a high-risk operation that can run has an approval on record, and records are only appended |
| `VerdictIsSound` | `Spec => []OutcomeMatchesSteps` | cardinalities: a commit moves one step between two finite sets; a runnable operation has no failed step and not all succeeded |
| `ExecutionTyped` | `ExecSpec => []ExecTypeOK` | part of `ExecInv` |
| `ExecutionImplementsStore` | `ExecSpec => Spec` | every step of relay, broker, worker or provider is a transaction of the store or leaves the tables alone; all theorems about `Spec` carry over |
| `NoCommandIsLost` | `ExecSpec => []NoCommandLost` | `AnswersAreSafe`: a worker about to acknowledge has a settled step, one about to terminate a settled step or an isolated message |
| `CommittedWritesStand` | `ExecSpec => []CommittedWriteStands` | `FenceInv`, below |
| `WritesAreApproved` | `ExecSpec => []NoWriteWithoutApproval` if `"queued"` is not in `StaleOutcomes` | with `ApprovalComesFirst` through the refinement |
| `ProviderTypeCorrect` | `Spec => []ProviderTypeOK` | `Decided`: a write is attempted only in a round that was left |
| `FenceImplemented` | `Spec => FenceSpec` | `SwapKnows`, below |
| `TombstonesStay` | `Spec => TombstoneStays` | `SwapKnows`, below |
| `DeploysWhatIsAsked` | `Spec => []DeployedAsRequested` | `AsRequested`: the object of a generation is what its deploy asks for, kept by a takeover because it compares before it writes |
| `OperationsTrackRequests` | `DRSpec => []OperationTracksRequest` | whoever moves a request writes both rows with it and so ends any departure; the operation centre finds only an open operation, and its steps were sent only from PendingApproval (`CentreTracks`) |
| `TrafficChangesAreAuthorised` | `DRSpec => AuthorisedTrafficChange` | `Approvals`, `Jobs`: a controller past the status check works on a dispatched request whose approval is in the outbox for good |
| `VerdictsStay` | `DRSpec => VerdictNeverReopened` | a second approval would write a second dispatch row under the same key |
| `AnnouncementsHold` | `DRSpec => []AnnouncedSuccessHolds` | `Successes`, `Announcing` |
| `DataLayerComesFirst` | `DRSpec => []DataLayerFirst` | `Dispatchers`: a caller that dispatches has found the data layer confirmed |
| `RunsTrackTheirRequests` | `DRSpec => []RunTracksItsRequests` | `Dispatchers`, `Confirmations`: the key of the confirmation lets one caller through, which has collected all submissions |
| `SwitchTyped` | `DRSpec => []GSLBTypeOK` | below |
| `ReadModelFollowsAgent` | `ObsSpec => []CursorTellsInventory` | `InOrder`, below |
| `BindingsAreJudgedRight` | `ObsSpec => []FreshVerdictIsRight` | a report without storage inventory does not change the class (`Reported`); whoever else stores the binding takes the verdict away |
| `ObservationTyped`, `AdmissionTyped` | `ObsSpec => []ObsTypeOK`, `AdmSpec => []AdmTypeOK` | `Bounded` adds that the reports under way are finitely many |
| `RepliesAgree` | `AdmSpec => []OneAnswerPerKey` | `Inserting`: from the insert on the key is the caller's own and not committed |
| `AcceptedAtVersion` | `AdmSpec => AcceptedAtSeenVersion` | `Locking`: from the share lock on the target is at the version seen |
| `BatchesTellTheEnd` | `AdmSpec => []BatchOutcomeIsFinal` | `Handling`, `Attached`: a batch has one handler until it is refreshed |
| `TunnelTypeCorrect` | `TunnelSpec => []TunnelTypeOK` | part of the invariant of the tunnel |
| `ServedConnectionsRoutable` | `TunnelSpec => []LiveConnectionsRoutable` | `Fresh`: connections not yet accepted are nowhere; only the registered connection is taken out |
| `AnswersAreTheirOwn` | `TunnelSpec => []AnswersOwnRequest` | `Entries`, `Carried`, `Joined`, `Fitting`: what travels on a connection is of its cluster, and an entry of its table is under its ID |
| `DeliveryNeverBlocks` | `TunnelSpec => []DeliveryFindsRoom` | `Once`, below |

The arguments that need an invariant of their own:

* **Fencing** (`StepExecutionProofs`). `GenerationsInUse`: a generation in use was given to that step and to one
  worker. `OneRequestEach`: no request before the call, none left over after a success. `LastWriteCommitted`: a
  succeeded step carries the write of its last generation and whatever is or will be asked is older. A commit is
  accepted only under the lease's generation, which is the highest, so the third follows from the first two.
* **Compare and swap** (`KubernetesProviderProofs`). `SnapshotsAgree`: a resource version identifies a state of
  the object, so a swap that succeeds acts on exactly the object the execution has read; `Decided`: what is
  about to be written follows from what was read. A successful update therefore raises the generation, and
  brings a tombstone back only with its uid.
* **Switch requests and runs** (`GSLBSwitchProofs`, `DRSwitchProofs`). `SwitchInv` and `RunInv` rest on the
  outbox: rows are never taken back and their keys are unique, which is the only guard behind the decisions
  apiserver writes unchecked. `SwitchTyped` adds `Undoing`: a compensation under way is a step of the plan of
  its request. Together with the plan (`PlanTypes`) this says that whatever writes DNS writes clusters. A plan
  names the pool of greatest or least priority; that there is one follows from `FinitePools` and the
  well-foundedness of `<` on the naturals (`LeastNumber`).
* **Reports** (`IntentAdmissionProofs`). `InOrder` says that there is a history of inventories, one per sequence
  number, such that each report under way takes one entry to the next, the read model is the entry of the last
  report applied and the agent's cache the latest. The history is a witness of the proof, not a variable.
  `AdmissionLeavesObservation` (`AdmSpec => ObsSpec`) carries the results over to the composed system.
* **Tunnel** (`AgentTunnelProofs`). For `DeliveryFindsRoom` a request is taken for one token: its frame under
  way, the agent's work on it, its answer under way, the answer in the hands of `handleAgent` and the answer in
  a channel. `Once` says the token is never in two places and does not exist before the request is sent. When an
  answer is about to be delivered its token is there, so it is not in the channel; and by `Fitting` any other
  answer in that channel has the same ID.

Only model-checked: the liveness properties `CommandsResolve`, `RequestsReturn`, `AgentReconnects` and
`LostConnectionsEnd`, because fairness and ENABLED are out of the prover's reach. Everything else that a passing
run checks is also proved. The three violated properties are of course not theorems.

## Where code and documents disagree

With a run that shows it:

1. `store_stale_policy`: a stale-target policy answering `allow` replaces the initial status chosen by risk,
   so a high-risk operation is queued without approval (`server.go:651`), while `store/state.go:42` says that
   such types "require explicit approval before being queued". With the other outcomes `ApprovalComesFirst`
   holds.
2. `gslb_switched`: `ExecutePlan` runs the compensation step like the others (`executor.go:34`). When it comes
   last the service is back on its previous targets, or has none, and the request is `Succeeded`; GSLB-005
   (`openspec/specs/gslb/spec.md:57`) says the controller verifies that the targets are in effect.
3. `observer_cursor`: a report admitted before a source reset and saved after it moves the cursor back
   (`projector.go:263`), after which the new generation is fenced; `runtime-target/spec.md:143` says a lower
   generation is dropped.

Without a run, since the model shows them by its shape or they are outside what is modelled. Specifications are
under `openspec/specs/`:

* After `max_attempts` failed publications a command is abandoned and its operation waits for ever
  (`relay.go:196`); `contracts-events/spec.md:47` says "Outbox 保留待发送事件并在恢复后投递", and
  `composition-operation/spec.md:87` that the operation continues without being submitted again.
* The checkpoint is read before the lease is held and may be out of date when the provider is called
  (`worker.go:216`); `runtime-driver-execution/spec.md:43`: "下一次 Provider 调用收到该 Checkpoint".
* A retry after an attempt without checkpoint erases the previous one (`operation-worker` `operations.go:183`);
  `composition-operation/spec.md:47`: "Operation 从最近检查点继续".
* A step with dependencies is never dispatched (`platform-api` `operations.go:172`);
  `composition-operation/spec.md:25` describes what happens once the dependencies are ready.
* Nothing moves an operation that starts as `queued_offline` (`server.go:649`); `composition-operation/spec.md:37`
  says it fails after `maxOfflineDuration`.
* `commitStepResult` moves a queued operation directly to succeeded or failed, which `validTransitions` does not
  list.

Behaviour worth knowing that no document speaks of:

* Switch requests. The plan of a weight update has no targets, so its verification fails; the automatic failover
  key is unique for good, so a service gets one automatic request ever; approve and reject can both be recorded;
  a command is acknowledged whatever happened, so a failed read or transition leaves the request Approved or
  Dispatched; a Failed event is sent even if the transition failed; a crash between transition and event loses
  the announcement.
* Operation centre and switch requests. Approving the operation of a request does not approve the request: it
  sends steps that can only fail. Rejecting or cancelling it does not stop the switch. The next move of the
  request overwrites what the operation centre wrote, so an operation shown as cancelled or failed can succeed
  later; `OperationTracksRequest` says how far the two can be apart and that they meet when the request ends.
  The operation of a run is in progress or failed, which the operation centre cannot move.
* Runs. A crash in `dispatchTraffic` leaves a run in DataLayerCompleted with requests it does not know;
  `failRun` leaves earlier requests in place; two concurrent `InitiateSwitch` calls both pass the conflict check;
  the terminal status is computed for readers and never stored, so the operation of a run stays in progress.
* Observation. An agent restarted within its generation starts at sequence 1 and is answered `replayed`; one
  lost report leaves a gap that nothing but a source reset closes; an empty Full report leaves the projected
  nodes; only reports with storage facts move `projection_version`.
* Storage bindings. State and freshness that an operator or the import script stores are taken as sent, so a
  binding can be Active and Fresh without the class being there until the next storage report judges it; that
  report also overwrites Rejected and Imported. An edit committed while the projector works, to Retired among
  others, is overwritten by a verdict on the class read before.
* Batches. The status of a batch is refreshed once, after the last child was submitted; children are admitted
  without looking at the freshness of their targets.
* Tunnel. Requests that share an ID can get each other's late answers, and an answer to a shared ID can block
  the goroutine of the connection (`server.go:220`); a request that overtakes the greeting closes the
  connection; a late registration displaces a newer connection; two agents of one cluster replace each other
  for ever.
* kubernetes-provider. The fence lives in the annotations of the object and is lost when somebody removes it;
  `FencedProvider` says so with the action `Lose`.

## Not modelled

Leader election (nothing reads its outcome), the extension life cycle, the application market, alerting, the
other providers, offerings and backends of storage, deletion of targets, rendering of manifests and gateway
resources, request routing and middleware, authentication, web console, migrations, generated contracts, and
the pure planner and DAG code, which no running path or no protocol depends on. `PROJECT.json` lists every
part with the reason.
