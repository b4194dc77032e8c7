---------------------------- MODULE OperationStore ----------------------------
(***************************************************************************)
(* The PostgreSQL tables that are the only authority on operations, and    *)
(* every transaction that changes them: the submit, approve, reject and    *)
(* cancel transactions of platform-api (store/operations.go), the lease,   *)
(* retry and result transactions of operation-worker (store/operations.go) *)
(* and the outbox updates of its relay (nats/relay.go).                    *)
(*                                                                         *)
(* A transaction locks the operation row before it decides, so each one is *)
(* one atomic action.  The clients are left completely general: any worker *)
(* may present any fencing generation, version and result at any time.     *)
(* What is shown here therefore holds however the workers, the broker and  *)
(* the runtime providers behave.                                           *)
(*                                                                         *)
(* Ops are the operations platform-api creates.  GSLB and DR keep rows of  *)
(* their own kinds in the same tables and advance them themselves.         *)
(***************************************************************************)
EXTENDS OperationStates, Integers, Sequences, FiniteSets

CONSTANTS
  Ops,            \* operations, one per (tenant_id, idempotency_key)
  Steps,          \* rows of operation_steps
  OpOf,           \* [Steps -> Ops], the operation_id of a step
  DependsOn,      \* [Steps -> SUBSET Steps], depends_on of the plan
  HighRisk,       \* operations whose type is in highRiskTypes
  StaleOutcomes,  \* initial statuses the policy for stale targets may impose
  Workers,        \* worker ids
  NoWorker,       \* owner of no lease row
  Checkpoints,    \* checkpoints a provider may return
  NoCheckpoint,   \* the empty checkpoint
  LeaseDuration,  \* lifetime of a lease, in ticks of the database clock
  MaxGeneration,  \* bound: last value of operation_fencing_generation_seq
  MaxAttempts     \* max_attempts of an outbox row

ASSUME StoreAssumption ==
  /\ IsFiniteSet(Steps)
  /\ OpOf \in [Steps -> Ops]
  /\ \A o \in Ops : \E s \in Steps : OpOf[s] = o
  /\ DependsOn \in [Steps -> SUBSET Steps]
  /\ HighRisk \subseteq Ops
  /\ StaleOutcomes \subseteq {"queued", "pending_approval", "queued_offline"}
  /\ NoWorker \notin Workers
  /\ NoCheckpoint \in Checkpoints
  /\ LeaseDuration \in Nat \ {0}
  /\ MaxGeneration \in Nat
  /\ MaxAttempts \in Nat \ {0}

VARIABLES
  operations,  \* table operations
  steps,       \* table operation_steps
  leases,      \* table worker_leases (unique per step)
  generation,  \* last value drawn from operation_fencing_generation_seq
  outbox,      \* table outbox_events, by its unique key
  readModel,   \* table operation_read_model
  audit        \* state-changing rows of operation_audit, in order

storeVars == <<operations, steps, leases, generation, outbox, readModel, audit>>

-----------------------------------------------------------------------------
(* Rows.  A lease id is a fresh UUID drawn together with the generation, so *)
(* the generation stands for both.  A deleted and an expired lease row are  *)
(* told apart by no query; NoLease is the deleted one.                      *)

StepsOf(o) == {s \in Steps : OpOf[s] = o}

TotalSteps(o) == Cardinality(StepsOf(o))

OperationRow == [status : Statuses \cup {Absent}, completed : Nat, failed : Nat, version : Nat]

StepRow == [status : StepStatuses, version : Nat, retryCount : Nat,
            checkpoint : Checkpoints, generation : Nat]

LeaseRow == [owner : Workers \cup {NoWorker}, generation : Nat, ttl : 0..LeaseDuration]

NoLease == [owner |-> NoWorker, generation |-> 0, ttl |-> 0]

EventKinds == {"step-requested", "step-completed", "step-failed", "failed-message"}

Events == EventKinds \X Steps

OutboxRow == [status : {"none", "pending", "published", "failed"}, attempt : Nat]

NoEvent == [status |-> "none", attempt |-> 0]

NewEvent == [status |-> "pending", attempt |-> 0]

AuditRow == [event : {"created", "approved", "rejected", "cancelled", "step_completed", "step_failed"},
             from : Statuses \cup {Absent}, to : Statuses]

View(row) == [status |-> row.status, completed |-> row.completed, failed |-> row.failed]

ReadModelRow == [status : Statuses \cup {Absent}, completed : Nat, failed : Nat]

Init ==
  /\ operations = [o \in Ops |-> [status |-> Absent, completed |-> 0, failed |-> 0, version |-> 0]]
  /\ steps = [s \in Steps |-> [status |-> "pending", version |-> 0, retryCount |-> 0,
                               checkpoint |-> NoCheckpoint, generation |-> 0]]
  /\ leases = [s \in Steps |-> NoLease]
  /\ generation = 0
  /\ outbox = [e \in Events |-> NoEvent]
  /\ readModel = [o \in Ops |-> [status |-> Absent, completed |-> 0, failed |-> 0]]
  /\ audit = [o \in Ops |-> <<>>]

-----------------------------------------------------------------------------
(* The tail every operation-changing transaction shares: the new operation *)
(* row, its projection and its audit row are written together.             *)

(* Variant: the projection is left for somebody else to refresh. *)
WriteOperationStaleView(o, row, event) ==
  /\ operations' = [operations EXCEPT ![o] = row]
  /\ audit' = [audit EXCEPT ![o] =
       Append(@, [event |-> event, from |-> operations[o].status, to |-> row.status])]
  /\ UNCHANGED readModel

WriteOperation(o, row, event) ==
  /\ operations' = [operations EXCEPT ![o] = row]
  /\ readModel' = [readModel EXCEPT ![o] = View(row)]
  /\ audit' = [audit EXCEPT ![o] =
       Append(@, [event |-> event, from |-> operations[o].status, to |-> row.status])]

(* A row under an existing unique key would abort the transaction. *)
InsertOutbox(new) ==
  /\ \A e \in new : outbox[e] = NoEvent
  /\ outbox' = [e \in Events |-> IF e \in new THEN NewEvent ELSE outbox[e]]

Moved(row, to) ==
  [status |-> to, completed |-> row.completed, failed |-> row.failed, version |-> row.version + 1]

transitionOperation(o, to, event) == WriteOperation(o, Moved(operations[o], to), event)

(* Steps without dependencies, the only ones whose command is ever emitted. *)
ReadySteps(o) == {s \in StepsOf(o) : steps[s].status = "pending" /\ DependsOn[s] = {}}

(* Variant: the risk of the operation type is not looked at. *)
InitialStatusUngated(o) == "queued"

InitialStatus(o) == IF o \in HighRisk THEN "pending_approval" ELSE "queued"

(* First submission under an idempotency key.  A repeated submission hits  *)
(* ON CONFLICT DO NOTHING and only reads, so it is not a step.             *)
CreateOperation(o, status) ==
  /\ operations[o].status = Absent
  /\ WriteOperation(o, [operations[o] EXCEPT !.status = status], "created")
  /\ InsertOutbox(IF status = "queued" THEN {"step-requested"} \X ReadySteps(o) ELSE {})
  /\ UNCHANGED <<steps, leases, generation>>

SubmitOperation(o) == CreateOperation(o, InitialStatus(o))

(* An intent on a stale target starts in the status its policy imposes     *)
(* instead.  The recheck of the target version only refuses; the intent    *)
(* and target rows written beside the operation are not tables of this     *)
(* model.                                                                  *)
SubmitIntent(o) ==
  \E status \in {InitialStatus(o)} \cup StaleOutcomes : CreateOperation(o, status)

ApproveOperation(o) ==
  /\ operations[o].status = "pending_approval"
  /\ transitionOperation(o, "queued", "approved")
  /\ InsertOutbox({"step-requested"} \X ReadySteps(o))
  /\ UNCHANGED <<steps, leases, generation>>

RejectOperation(o) ==
  /\ operations[o].status = "pending_approval"
  /\ transitionOperation(o, "cancelled", "rejected")
  /\ UNCHANGED <<steps, leases, generation, outbox>>

CancelOperation(o) ==
  /\ CanTransition(operations[o].status, "cancelled")
  /\ transitionOperation(o, "cancelled", "cancelled")
  /\ UNCHANGED <<steps, leases, generation, outbox>>

-----------------------------------------------------------------------------
(* Leases. *)

(* Variant: only an operation that waits for approval is refused. *)
RunnableUnlessWaiting(o) == operations[o].status \notin {Absent, "pending_approval"}

Runnable(o) == operations[o].status \in RunnableStates

(* Variant: the generation is compared, the lease row is not. *)
HoldsLeaseByGeneration(w, s, g) == steps[s].generation >= g

HoldsLease(w, s, g) ==
  /\ steps[s].generation = g
  /\ leases[s].owner = w
  /\ leases[s].generation = g
  /\ leases[s].ttl > 0

(* What AcquireLease answers, in the order in which it decides. *)
AcquireOutcome(s, v) ==
  IF ~Runnable(OpOf[s]) THEN "operation_not_runnable"
  ELSE IF steps[s].status # "pending" THEN "step_already_completed"
  ELSE IF steps[s].version # v THEN "step_version_mismatch"
  ELSE IF generation + 1 <= steps[s].generation THEN "generation_not_monotone"
  ELSE IF leases[s].ttl > 0 THEN "lease_not_acquired"
  ELSE "acquired"

(* Variant: generations are counted per step instead of by the sequence. *)
AcquireLeaseCountingPerStep(w, s, v) ==
  LET g == steps[s].generation + 1 IN
  /\ AcquireOutcome(s, v) = "acquired"
  /\ generation < MaxGeneration
  /\ generation' = generation + 1
  /\ leases' = [leases EXCEPT ![s] = [owner |-> w, generation |-> g, ttl |-> LeaseDuration]]
  /\ steps' = [steps EXCEPT ![s].generation = g]
  /\ UNCHANGED <<operations, outbox, readModel, audit>>

AcquireLease(w, s, v) ==
  /\ AcquireOutcome(s, v) = "acquired"
  /\ generation < MaxGeneration
  /\ generation' = generation + 1
  /\ leases' = [leases EXCEPT ![s] = [owner |-> w, generation |-> generation + 1, ttl |-> LeaseDuration]]
  /\ steps' = [steps EXCEPT ![s].generation = generation + 1]
  /\ UNCHANGED <<operations, outbox, readModel, audit>>

(* A lost race rolls back, but nextval is not undone by the rollback. *)
LeaseNotAcquired(s, v) ==
  /\ AcquireOutcome(s, v) = "lease_not_acquired"
  /\ generation < MaxGeneration
  /\ generation' = generation + 1
  /\ UNCHANGED <<operations, steps, leases, outbox, readModel, audit>>

RenewLease(w, s, g) ==
  /\ HoldsLease(w, s, g)
  /\ leases' = [leases EXCEPT ![s].ttl = LeaseDuration]
  /\ UNCHANGED <<operations, steps, generation, outbox, readModel, audit>>

(* The database clock moves towards expires_at. *)
LeaseAges(s) ==
  /\ leases[s].ttl > 0
  /\ leases' = [leases EXCEPT ![s].ttl = @ - 1]
  /\ UNCHANGED <<operations, steps, generation, outbox, readModel, audit>>

-----------------------------------------------------------------------------
(* Results. *)

(* The WHERE clause of the fenced retry update; the operation is not read. *)
RetryAccepted(w, s, g, v) ==
  steps[s].status = "pending" /\ steps[s].version = v /\ HoldsLease(w, s, g)

SaveStepRetry(w, s, g, v, c) ==
  /\ RetryAccepted(w, s, g, v)
  /\ steps' = [steps EXCEPT ![s] =
       [status |-> "pending", version |-> @.version, retryCount |-> @.retryCount + 1,
        checkpoint |-> c, generation |-> @.generation]]
  /\ leases' = [leases EXCEPT ![s] = NoLease]
  /\ UNCHANGED <<operations, generation, outbox, readModel, audit>>

(* What commitStepResult answers, in the order in which it decides. *)
CommitOutcome(w, s, g, v) ==
  IF ~Runnable(OpOf[s]) THEN "operation_not_runnable"
  ELSE IF steps[s].status # "pending" THEN "step_already_completed"
  ELSE IF steps[s].version # v THEN "step_version_mismatch"
  ELSE IF ~HoldsLease(w, s, g) THEN "lease_lost"
  ELSE "committed"

(* Variant: the step being committed is not counted in. *)
StatusAfterOffByOne(row, total, r) ==
  IF r = "failed" THEN "failed"
  ELSE IF row.completed >= total THEN "succeeded"
  ELSE IF row.status = "queued" THEN "in_progress"
  ELSE row.status

(* Variant: a step status is written into the operation. *)
StatusAfterMisspelt(row, total, r) ==
  IF r = "failed" THEN "failed"
  ELSE IF row.completed + 1 >= total THEN "succeeded" ELSE "running"

(* The CASE expression of UPDATE operations. *)
StatusAfter(row, total, r) ==
  IF r = "failed" THEN "failed"
  ELSE IF row.completed + 1 >= total THEN "succeeded"
  ELSE IF row.status = "queued" THEN "in_progress"
  ELSE row.status

RowAfter(row, total, r) ==
  [status    |-> StatusAfter(row, total, r),
   completed |-> row.completed + (IF r = "succeeded" THEN 1 ELSE 0),
   failed    |-> row.failed + (IF r = "failed" THEN 1 ELSE 0),
   version   |-> row.version + 1]

(* Variant: a failed step is announced, its command is not kept. *)
ResultEventsWithoutCopy(s, r) ==
  {<<IF r = "succeeded" THEN "step-completed" ELSE "step-failed", s>>}

ResultEvents(s, r) ==
  IF r = "succeeded" THEN {<<"step-completed", s>>}
  ELSE {<<"step-failed", s>>, <<"failed-message", s>>}

commitStepResult(w, s, g, v, r, c) ==
  LET o == OpOf[s] IN
  /\ CommitOutcome(w, s, g, v) = "committed"
  /\ steps' = [steps EXCEPT ![s] =
       [status |-> r, version |-> @.version + 1, retryCount |-> @.retryCount,
        checkpoint |-> c, generation |-> @.generation]]
  /\ WriteOperation(o, RowAfter(operations[o], TotalSteps(o), r),
                    IF r = "succeeded" THEN "step_completed" ELSE "step_failed")
  /\ InsertOutbox(ResultEvents(s, r))
  /\ leases' = [leases EXCEPT ![s] = NoLease]
  /\ UNCHANGED generation

-----------------------------------------------------------------------------
(* The outbox rows as the relay leaves them. *)

Publishable(e) == outbox[e].status = "pending" /\ outbox[e].attempt < MaxAttempts

MarkPublished(e) ==
  /\ Publishable(e)
  /\ outbox' = [outbox EXCEPT ![e].status = "published"]
  /\ UNCHANGED <<operations, steps, leases, generation, readModel, audit>>

markFailedAttempt(e) ==
  /\ Publishable(e)
  /\ outbox' = [outbox EXCEPT ![e] =
       [status  |-> IF @.attempt + 1 >= MaxAttempts THEN "failed" ELSE "pending",
        attempt |-> @.attempt + 1]]
  /\ UNCHANGED <<operations, steps, leases, generation, readModel, audit>>

-----------------------------------------------------------------------------
ApiNext ==
  \E o \in Ops :
    \/ SubmitOperation(o) \/ SubmitIntent(o)
    \/ ApproveOperation(o) \/ RejectOperation(o) \/ CancelOperation(o)

(* A step is dispatched at version 0 and completed at version 1. *)
Versions == 0..1

WorkerNext ==
  \E w \in Workers, s \in Steps, v \in Versions :
    \/ AcquireLease(w, s, v)
    \/ LeaseNotAcquired(s, v)
    \/ \E g \in 1..MaxGeneration :
         \/ RenewLease(w, s, g)
         \/ \E c \in Checkpoints :
              \/ SaveStepRetry(w, s, g, v, c)
              \/ \E r \in {"succeeded", "failed"} : commitStepResult(w, s, g, v, r, c)

RelayNext == \E e \in Events : MarkPublished(e) \/ markFailedAttempt(e)

Next == ApiNext \/ WorkerNext \/ RelayNext \/ (\E s \in Steps : LeaseAges(s))

Spec == Init /\ [][Next]_storeVars

-----------------------------------------------------------------------------
(* Properties. *)

(* Every table holds rows of its shape. *)
TypeOK ==
  /\ operations \in [Ops -> OperationRow]
  /\ steps \in [Steps -> StepRow]
  /\ leases \in [Steps -> LeaseRow]
  /\ generation \in Nat
  /\ outbox \in [Events -> OutboxRow]
  /\ readModel \in [Ops -> ReadModelRow]
  /\ audit \in [Ops -> Seq(AuditRow)]

WithStatus(o, r) == {s \in StepsOf(o) : steps[s].status = r}

(* commitStepResult counts each step at most once and gives the operation  *)
(* the verdict its steps justify: the counters equal the number of steps   *)
(* with that result, the operation is succeeded exactly when all its steps *)
(* are, and failed exactly when one of them is, whichever leases expired,  *)
(* were taken over or were retried on the way.                             *)
OutcomeMatchesSteps ==
  \A o \in Ops :
    /\ operations[o].completed = Cardinality(WithStatus(o, "succeeded"))
    /\ operations[o].failed = Cardinality(WithStatus(o, "failed"))
    /\ operations[o].status = "succeeded" <=> WithStatus(o, "succeeded") = StepsOf(o)
    /\ operations[o].status = "failed" <=> WithStatus(o, "failed") # {}

Emitted(k, s) == outbox[<<k, s>>] # NoEvent

(* Transactional outbox: a result event exists if and only if the step has *)
(* that result, and a step whose result is recorded can be recorded no     *)
(* second time because its version moved.                                  *)
OutboxMatchesResults ==
  \A s \in Steps :
    /\ Emitted("step-completed", s) <=> steps[s].status = "succeeded"
    /\ Emitted("step-failed", s) <=> steps[s].status = "failed"
    /\ Emitted("failed-message", s) <=> steps[s].status = "failed"
    /\ steps[s].version = (IF steps[s].status = "pending" THEN 0 ELSE 1)

Approved(o) == \E i \in DOMAIN audit[o] : audit[o][i].event = "approved"

(* "highRiskTypes enter pending_approval and require explicit approval     *)
(* before being queued": no command is emitted and no lease is granted for *)
(* a step of a high-risk operation before an approval is on record.        *)
ApprovalPrecedesDispatch ==
  \A s \in Steps :
    OpOf[s] \in HighRisk /\ (Emitted("step-requested", s) \/ steps[s].generation > 0)
      => Approved(OpOf[s])

(* OP-006: the audit rows of an operation form an unbroken chain from its  *)
(* creation to its present status, one row per version, and the read model *)
(* shows that status and those counters.                                   *)
AuditExplainsStatus ==
  \A o \in Ops :
    /\ operations[o].status = (IF audit[o] = <<>> THEN Absent ELSE audit[o][Len(audit[o])].to)
    /\ audit[o] # <<>> => /\ audit[o][1].event = "created"
                          /\ Len(audit[o]) = operations[o].version + 1
    /\ \A i \in 1..(Len(audit[o]) - 1) : audit[o][i + 1].from = audit[o][i].to
    /\ readModel[o] = View(operations[o])

(* OP-003: no transaction changes the row of an operation that reached     *)
(* succeeded, failed or cancelled.                                         *)
TerminalStatesStick ==
  [][\A o \in Ops : IsTerminal(operations[o].status) => operations'[o] = operations[o]]_storeVars

(* OP-008: a newly granted generation exceeds every generation any step    *)
(* ever held, released and expired leases included, and the generation     *)
(* retained on a step is never lowered.                                    *)
FencingMonotone ==
  [][\A s \in Steps : steps'[s].generation # steps[s].generation
       => \A t \in Steps : steps'[s].generation > steps[t].generation]_storeVars
=============================================================================
