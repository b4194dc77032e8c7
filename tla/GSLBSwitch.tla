------------------------------ MODULE GSLBSwitch ------------------------------
(***************************************************************************)
(* Controlled traffic changes.  A switch request is submitted to apiserver *)
(* (application/gslb), decided there, dispatched through the outbox and    *)
(* carried out by gslb-controller, which alone writes DNS.  Its reconciler *)
(* projects health and asks for a failover by itself.                      *)
(*                                                                         *)
(* A request has an operation, and the operation centre (platform-api)     *)
(* approves, rejects and cancels any operation without knowing of the      *)
(* request; operation-worker is sent the steps and has no driver for them. *)
(*                                                                         *)
(* Tables are variables, a transaction is one action, a handler that reads *)
(* in one transaction and writes in a later one takes two steps.           *)
(***************************************************************************)
EXTENDS Naturals, FiniteSets

CONSTANTS
  Requests,         \* switch requests: a service and an idempotency key each
  Services, Pools, Clusters,
  NoPool, NoRequest,
  ServiceOf,        \* [Requests -> Services]
  KindOf,           \* [Requests -> Kinds]
  KeyOf,            \* [Requests -> idempotency keys], distinct within a service
  TargetPool,       \* [Requests -> Pools \cup {NoPool}]
  DRRequests,       \* requests that carry a drGroupRef
  AutoRequest,      \* [Services -> Requests]: key auto-failover-<service>
  PoolsOf,          \* [Services -> SUBSET Pools]
  ActivePool,       \* [Services -> Pools \cup {NoPool}]
  Priority,         \* [Pools -> Nat]
  Members,          \* [Pools -> SUBSET Clusters]: enabled members
  RequireApproval,  \* services with require_approval
  Users,            \* sessions of apiserver
  Controllers,      \* replicas of gslb-controller
  Domain,           \* the service the domain they are configured with belongs to
  MaxDeliver,       \* deliveries of one message (5 in the code)
  MaxCopies         \* copies of one command in the stream

Kinds == {"failover", "switchback", "weight-update", "drill"}

Statuses == {"PendingApproval", "Approved", "Rejected", "Dispatched",
             "Succeeded", "Failed", "DrillCompleted"}

Autos == {AutoRequest[s] : s \in Services}

ASSUME GSLBAssumption ==
  /\ NoPool \notin Pools
  /\ NoRequest \notin Requests
  /\ ServiceOf \in [Requests -> Services]
  /\ KindOf \in [Requests -> Kinds]
  /\ TargetPool \in [Requests -> Pools \cup {NoPool}]
  /\ DRRequests \subseteq Requests
  /\ AutoRequest \in [Services -> Requests]
  /\ \A s \in Services : ServiceOf[AutoRequest[s]] = s
  /\ \A r \in Autos : KindOf[r] = "failover" /\ r \notin DRRequests
  /\ \A r \in DRRequests : KindOf[r] \in {"failover", "switchback"}
  /\ PoolsOf \in [Services -> SUBSET Pools]
  /\ ActivePool \in [Services -> Pools \cup {NoPool}]
  /\ Priority \in [Pools -> Nat]
  /\ Members \in [Pools -> SUBSET Clusters]
  /\ RequireApproval \subseteq Services
  /\ Domain \in Services
  /\ MaxDeliver \in Nat
  /\ MaxCopies \in Nat

\* The pools of a service are rows of a table.
ASSUME FinitePools == \A s \in Services : IsFiniteSet(PoolsOf[s])

VARIABLES
  requests,    \* gslb_switch_requests.status, "absent" before the insert
  operations,  \* the linked row of operations
  opViews,     \* the linked row of operation_read_model
  drills,      \* verdict of gslb_drill_reports, "none" when there is none
  readModel,   \* gslb_read_model: healthy pools and current targets
  outbox,      \* unique keys of outbox_events
  commands,    \* the step-requested row: none, pending, published
  unacked,     \* messages of the durable consumer not yet acknowledged
  deliveries,  \* deliveries of each message
  session,     \* a user's decision between reading and writing
  job,         \* the command a replica handles
  deciding,    \* the service a reconciler has found without active failover
  dns          \* targets of each service's DNSEndpoint, {} when deleted

tables == <<requests, operations, opViews, drills, outbox, commands>>
queue == <<unacked, deliveries>>
vars == <<tables, queue, readModel, session, job, deciding, dns>>

-----------------------------------------------------------------------------
(* Plans: pkg/gslb *)

Targets(p) == IF p = NoPool THEN {} ELSE Members[p]

\* The pool with the highest priority that is not the active one.
BackupPool(s) ==
  LET others == PoolsOf[s] \ {ActivePool[s]}
  IN IF others = {} THEN NoPool
     ELSE CHOOSE p \in others : \A q \in others : Priority[q] <= Priority[p]

PrimaryPool(s) ==
  IF PoolsOf[s] = {} THEN NoPool
  ELSE CHOOSE p \in PoolsOf[s] : \A q \in PoolsOf[s] : Priority[p] <= Priority[q]

\* The reconciler and disaster recovery work out the pool, an operator names it.
TargetPoolOf(r) ==
  IF r \in Autos \/ (r \in DRRequests /\ KindOf[r] = "failover") THEN BackupPool(ServiceOf[r])
  ELSE IF r \in DRRequests THEN PrimaryPool(ServiceOf[r]) ELSE TargetPool[r]

\* buildPlan fills in the members of the active pool; the automatic request leaves them out.
PreviousTargets(r) ==
  LET active == ActivePool[ServiceOf[r]]
  IN IF r \in Autos \/ active = TargetPoolOf(r) THEN {} ELSE Targets(active)

PlanStep(type, targets, dependsOn, compensation) ==
  [type |-> type, targets |-> targets, dependsOn |-> dependsOn, compensation |-> compensation]

BuildPlan(r) ==
  LET targets == Targets(TargetPoolOf(r))
  IN CASE KindOf[r] \in {"failover", "switchback"} ->
            [apply  |-> PlanStep("dns_apply", targets, {}, "revert"),
             verify |-> PlanStep("dns_verify", targets, {"apply"}, "none"),
             revert |-> PlanStep("dns_revert", PreviousTargets(r), {}, "none")]
       [] KindOf[r] = "weight-update" ->
            [apply  |-> PlanStep("dns_apply", {}, {}, "none"),
             verify |-> PlanStep("dns_verify", {}, {"apply"}, "none")]
       [] KindOf[r] = "drill" ->
            [compute |-> PlanStep("drill_compute", {}, {}, "none")]

Plannable(r) ==
  KindOf[r] \in {"failover", "switchback"} => Targets(TargetPoolOf(r)) # {}

TotalSteps(r) == Cardinality(DOMAIN BuildPlan(r))

IsDrill(r) == KindOf[r] = "drill"

RequiresApproval(r) == KindOf[r] \in {"failover", "switchback"}

\* A switchback ordered by disaster recovery is approved whatever the service says;
\* the request of the reconciler is always pending.
NeedsApproval(r) ==
  \/ RequiresApproval(r) /\ ServiceOf[r] \in RequireApproval
  \/ r \in DRRequests /\ KindOf[r] = "switchback"
  \/ r \in Autos

InitialStatus(r) ==
  IF IsDrill(r) THEN "DrillCompleted"
  ELSE IF NeedsApproval(r) THEN "PendingApproval" ELSE "Approved"

-----------------------------------------------------------------------------
(* Rows of the operation tables *)

\* Variant: a status without an entry of its own is stored as it is.
operationStatusForRequestRaw(status) ==
  CASE status = "PendingApproval" -> "pending_approval"
    [] status = "Approved" -> "queued"
    [] status = "Rejected" -> "cancelled"
    [] status = "Dispatched" -> "in_progress"
    [] status = "Failed" -> "failed"
    [] OTHER -> status

operationStatusForRequest(status) ==
  CASE status = "PendingApproval" -> "pending_approval"
    [] status = "Approved" -> "queued"
    [] status = "Rejected" -> "cancelled"
    [] status = "Dispatched" -> "in_progress"
    [] status = "Failed" -> "failed"
    [] OTHER -> "succeeded"

OperationRow == [status : {"absent", "pending_approval", "queued", "cancelled",
                           "in_progress", "failed", "succeeded"},
                 completed : Nat, failed : Nat]

NoRow == [status |-> "absent", completed |-> 0, failed |-> 0]

NewRow(r, status) ==
  [status |-> operationStatusForRequest(status),
   completed |-> IF IsDrill(r) THEN TotalSteps(r) ELSE 0, failed |-> 0]

\* Variant: the read model is left behind.
WriteStatusRowOnly(r, status, op) ==
  LET synced(row) == [status |-> op,
                      completed |-> IF status = "Succeeded" THEN TotalSteps(r) ELSE row.completed,
                      failed |-> IF status = "Failed" THEN 1 ELSE row.failed]
  IN /\ requests' = [requests EXCEPT ![r] = status]
     /\ operations' = [operations EXCEPT ![r] = synced(@)]
     /\ UNCHANGED opViews

\* Both tables are written in the transaction that moves the request.
WriteStatus(r, status, op) ==
  LET synced(row) == [status |-> op,
                      completed |-> IF status = "Succeeded" THEN TotalSteps(r) ELSE row.completed,
                      failed |-> IF status = "Failed" THEN 1 ELSE row.failed]
  IN /\ requests' = [requests EXCEPT ![r] = status]
     /\ operations' = [operations EXCEPT ![r] = synced(@)]
     /\ opViews' = [opViews EXCEPT ![r] = synced(@)]

Insert(r, status) ==
  /\ requests' = [requests EXCEPT ![r] = status]
  /\ operations' = [operations EXCEPT ![r] = NewRow(r, status)]
  /\ opViews' = [opViews EXCEPT ![r] = NewRow(r, status)]

\* idx_outbox_tenant_type_idem: a second row under a key aborts the transaction.
Emit(events) ==
  /\ events \cap outbox = {}
  /\ outbox' = outbox \cup events

Submitted(r) == <<"submitted", KeyOf[r]>>
Dispatch(r) == <<"dispatch", KeyOf[r]>>
StatusChanged(r, status) == <<"status", r, status>>
StepRequested(r, id) == <<"step", r, id>>
StepFailed(r, id) == <<"stepFailed", r, id>>

Free == [message |-> <<NoRequest, 0>>, pc |-> "idle", todo |-> {}, undo |-> "none"]

Init ==
  /\ requests = [r \in Requests |-> "absent"]
  /\ operations = [r \in Requests |-> NoRow]
  /\ opViews = [r \in Requests |-> NoRow]
  /\ drills = [r \in Requests |-> "none"]
  /\ readModel = [s \in Services |-> [healthyPools |-> {}, currentTargets |-> {}]]
  /\ outbox = {}
  /\ commands = [r \in Requests |-> "none"]
  /\ unacked = {}
  /\ deliveries = [m \in Requests \X (1..MaxCopies) |-> 0]
  /\ session = [u \in Users |-> [request |-> NoRequest, to |-> "none"]]
  /\ job = [c \in Controllers |-> Free]
  /\ deciding = [c \in Controllers |-> {}]
  /\ dns = [s \in Services |-> Targets(ActivePool[s])]

-----------------------------------------------------------------------------
(* apiserver: submission and decision *)

\* The verdict compares the active pool, the target pool and the projected health.
buildDrillReport(r) ==
  LET target == TargetPool[r]
      active == ActivePool[ServiceOf[r]]
      pools == readModel[ServiceOf[r]].healthyPools
  IN IF target = NoPool \/ Targets(target) = {} \/ (active # NoPool /\ Targets(active) = {})
     THEN "Blocked"
     ELSE IF pools # {} /\ target \notin pools THEN "Degraded" ELSE "Ready"

\* A request under a known key is answered with the existing row.
SubmitIntent(r) ==
  /\ requests[r] = "absent" /\ Plannable(r)
  /\ LET status == InitialStatus(r)
         dispatched == status = "Approved"
     IN /\ Emit({Submitted(r)} \cup IF dispatched THEN {Dispatch(r)} ELSE {})
        /\ Insert(r, status)
        /\ commands' = IF dispatched THEN [commands EXCEPT ![r] = "pending"] ELSE commands
        /\ drills' = IF IsDrill(r) THEN [drills EXCEPT ![r] = buildDrillReport(r)] ELSE drills

Submit(r) ==
  /\ r \notin Autos \cup DRRequests
  /\ SubmitIntent(r)
  /\ UNCHANGED <<queue, readModel, session, job, deciding, dns>>

\* Approve and Reject read the request and test its status in memory ...
ReadForDecision(u, r, to) ==
  /\ session[u].request = NoRequest
  /\ requests[r] = "PendingApproval"
  /\ session' = [session EXCEPT ![u] = [request |-> r, to |-> to]]
  /\ UNCHANGED <<tables, queue, readModel, job, deciding, dns>>

\* Variant: the outbox takes a second row under the same key.
UpdateSwitchRequestStatusTwice(u) ==
  LET r == session[u].request
      to == session[u].to
  IN /\ r # NoRequest
     /\ outbox' = outbox \cup {StatusChanged(r, to)} \cup IF to = "Approved" THEN {Dispatch(r)} ELSE {}
     /\ WriteStatus(r, to, operationStatusForRequest(to))
     /\ commands' = IF to = "Approved" THEN [commands EXCEPT ![r] = "pending"] ELSE commands
     /\ session' = [session EXCEPT ![u] = [request |-> NoRequest, to |-> "none"]]
     /\ UNCHANGED <<drills, queue, readModel, job, deciding, dns>>

\* ... and write it in a later transaction, whatever its status is by then.
UpdateSwitchRequestStatus(u) ==
  LET r == session[u].request
      to == session[u].to
  IN /\ r # NoRequest
     /\ Emit({StatusChanged(r, to)} \cup IF to = "Approved" THEN {Dispatch(r)} ELSE {})
     /\ WriteStatus(r, to, operationStatusForRequest(to))
     /\ commands' = IF to = "Approved" THEN [commands EXCEPT ![r] = "pending"] ELSE commands
     /\ session' = [session EXCEPT ![u] = [request |-> NoRequest, to |-> "none"]]
     /\ UNCHANGED <<drills, queue, readModel, job, deciding, dns>>

\* The transaction aborts on a duplicate key or a lost connection.
DecisionFails(u) ==
  /\ session[u].request # NoRequest
  /\ session' = [session EXCEPT ![u] = [request |-> NoRequest, to |-> "none"]]
  /\ UNCHANGED <<tables, queue, readModel, job, deciding, dns>>

-----------------------------------------------------------------------------
(* platform-api and operation-worker: the operation, without its request *)

\* The row moves if its status allows it, and the read model is copied from it.
MoveOperation(r, from, to, failures) ==
  LET row == [status |-> to, completed |-> operations[r].completed, failed |-> operations[r].failed + failures]
  IN /\ operations[r].status \in from
     /\ operations' = [operations EXCEPT ![r] = row]
     /\ opViews' = [opViews EXCEPT ![r] = row]
     /\ UNCHANGED <<requests, drills, commands, queue, readModel, session, job, deciding, dns>>

ReadySteps(r) == {id \in DOMAIN BuildPlan(r) : BuildPlan(r)[id].dependsOn = {}}

\* The steps that wait for no other are sent to operation-worker, under keys made of the request's.
ApproveOperation(r) ==
  /\ MoveOperation(r, {"pending_approval"}, "queued", 0)
  /\ \A q \in Requests, id \in ReadySteps(r) : KeyOf[q] = KeyOf[r] => StepRequested(q, id) \notin outbox
  /\ outbox' = outbox \cup {StepRequested(r, id) : id \in ReadySteps(r)}

RejectOperation(r) ==
  /\ MoveOperation(r, {"pending_approval"}, "cancelled", 0)
  /\ UNCHANGED outbox

CancelOperation(r) ==
  /\ MoveOperation(r, {"pending_approval", "queued"}, "cancelled", 0)
  /\ UNCHANGED outbox

\* The worker was sent a step of type dns_apply or dns_revert, for which no provider is configured:
\* a permanent error.  It is committed while the operation can still run.
CommitStepFailure(r) ==
  /\ MoveOperation(r, {"queued", "in_progress"}, "failed", 1)
  /\ \E id \in ReadySteps(r) : StepRequested(r, id) \in outbox /\ Emit({StepFailed(r, id)})

-----------------------------------------------------------------------------
(* The relay and the durable consumer *)

Copies(r) == {i \in 1..MaxCopies : <<r, i>> \in unacked \/ deliveries[<<r, i>>] > 0}

\* The relay publishes a row and marks it; a relay that dies in between publishes it again.
PublishCommand(r) ==
  /\ commands[r] = "pending"
  /\ \E i \in (1..MaxCopies) \ Copies(r) :
       /\ i - 1 \in Copies(r) \cup {0}
       /\ unacked' = unacked \cup {<<r, i>>}
  /\ \E marked \in {"pending", "published"} : commands' = [commands EXCEPT ![r] = marked]
  /\ UNCHANGED <<requests, operations, opViews, drills, outbox, deliveries, readModel, session, job,
                 deciding, dns>>

Deliver(c, m) ==
  /\ job[c].pc = "idle"
  /\ m \in unacked /\ deliveries[m] < MaxDeliver
  /\ deliveries' = [deliveries EXCEPT ![m] = @ + 1]
  /\ job' = [job EXCEPT ![c] = [message |-> m, pc |-> "get", todo |-> {}, undo |-> "none"]]
  /\ UNCHANGED <<tables, unacked, readModel, session, deciding, dns>>

At(c, pc) == job[c].pc = pc

RequestOf(c) == job[c].message[1]

GotoWith(c, pc, todo, undo) ==
  job' = [job EXCEPT ![c] = [message |-> job[c].message, pc |-> pc, todo |-> todo, undo |-> undo]]

Goto(c, pc) == GotoWith(c, pc, job[c].todo, job[c].undo)

\* The callback acknowledges whatever HandleCommand returned; the acknowledgement may be lost.
Ack(c) ==
  /\ At(c, "ack")
  /\ unacked' \in {unacked, unacked \ {job[c].message}}
  /\ job' = [job EXCEPT ![c] = Free]
  /\ UNCHANGED <<tables, deliveries, readModel, session, deciding, dns>>

CrashController(c) ==
  /\ ~At(c, "idle")
  /\ job' = [job EXCEPT ![c] = Free]
  /\ UNCHANGED <<tables, queue, readModel, session, deciding, dns>>

-----------------------------------------------------------------------------
(* gslb-controller: HandleCommand *)

\* An UPDATE guarded by the status it expects, with the operation rows in the same transaction.
Transition(r, from, to) ==
  /\ requests[r] \in from
  /\ WriteStatus(r, to, operationStatusForRequest(to))
  /\ UNCHANGED <<drills, outbox, commands>>

RunPlan(c) == GotoWith(c, "run", DOMAIN BuildPlan(RequestOf(c)), "none")

\* Only an approved or an already dispatched request is carried out.
GetRequest(c) ==
  /\ At(c, "get")
  /\ LET status == requests[RequestOf(c)]
     IN \/ status = "Approved" /\ Goto(c, "dispatch")
        \/ status = "Dispatched" /\ RunPlan(c)
        \/ Goto(c, "ack")  \* another status, or the read failed
  /\ UNCHANGED <<tables, queue, readModel, session, deciding, dns>>

\* A failed transition, its answer lost included, rejects the command.
DispatchRequest(c) ==
  /\ At(c, "dispatch")
  /\ \/ Transition(RequestOf(c), {"Approved"}, "Dispatched") /\ (RunPlan(c) \/ Goto(c, "ack"))
     \/ UNCHANGED tables /\ Goto(c, "ack")
  /\ UNCHANGED <<queue, readModel, session, deciding, dns>>

Applied(r, targets) == dns' = [dns EXCEPT ![ServiceOf[r]] = targets]

\* The steps run in an order compatible with dependsOn; topoSort walks a map, so any such order.
\* Apply, revert and verify all write the endpoint; verify without targets is an error.
ExecuteStep(c) ==
  /\ At(c, "run")
  /\ LET r == RequestOf(c)
         plan == BuildPlan(r)
         rest(id) == job[c].todo \ {id}
     IN \E id \in job[c].todo :
          /\ plan[id].dependsOn \cap job[c].todo = {}
          /\ \/ /\ plan[id].type = "drill_compute"
                /\ UNCHANGED dns
             \/ /\ plan[id].type \in {"dns_apply", "dns_revert"} \/ plan[id].targets # {}
                /\ Applied(r, plan[id].targets)
          /\ GotoWith(c, IF rest(id) = {} THEN "succeed" ELSE "run", rest(id), "none")
  /\ UNCHANGED <<tables, queue, readModel, session, deciding>>

\* A write of the endpoint is refused, or its answer is lost.
StepFails(c) ==
  /\ At(c, "run")
  /\ LET r == RequestOf(c)
         plan == BuildPlan(r)
     IN \E id \in job[c].todo :
          /\ plan[id].dependsOn \cap job[c].todo = {}
          /\ plan[id].type # "drill_compute"
          /\ \/ UNCHANGED dns
             \/ plan[id].type # "dns_verify" /\ Applied(r, plan[id].targets)
             \/ plan[id].targets # {} /\ Applied(r, plan[id].targets)
          /\ GotoWith(c, IF plan[id].compensation = "none" THEN "fail" ELSE "compensate",
                      {}, plan[id].compensation)
  /\ UNCHANGED <<tables, queue, readModel, session, deciding>>

\* The compensation runs once; its own failure is only logged.
Compensate(c) ==
  /\ At(c, "compensate")
  /\ \/ Applied(RequestOf(c), BuildPlan(RequestOf(c))[job[c].undo].targets)
     \/ UNCHANGED dns
  /\ Goto(c, "fail")
  /\ UNCHANGED <<tables, queue, readModel, session, deciding>>

\* The error of this transition is ignored.
RecordFailed(c) ==
  /\ At(c, "fail")
  /\ Transition(RequestOf(c), {"Dispatched"}, "Failed") \/ UNCHANGED tables
  /\ Goto(c, "emitFailed")
  /\ UNCHANGED <<queue, readModel, session, deciding, dns>>

\* Variant: the error of the transition is ignored.
RecordSucceededAlways(c) ==
  /\ At(c, "succeed")
  /\ Transition(RequestOf(c), {"Dispatched"}, "Succeeded") \/ UNCHANGED tables
  /\ Goto(c, "emitSucceeded")
  /\ UNCHANGED <<queue, readModel, session, deciding, dns>>

RecordSucceeded(c) ==
  /\ At(c, "succeed")
  /\ \/ Transition(RequestOf(c), {"Dispatched"}, "Succeeded") /\ (Goto(c, "emitSucceeded") \/ Goto(c, "ack"))
     \/ UNCHANGED tables /\ Goto(c, "ack")
  /\ UNCHANGED <<queue, readModel, session, deciding, dns>>

\* The event is a transaction of its own, and its error is ignored.
EmitStatusChanged(c, status) ==
  /\ \/ status = "Failed" /\ At(c, "emitFailed")
     \/ status = "Succeeded" /\ At(c, "emitSucceeded")
  /\ \/ Emit({StatusChanged(RequestOf(c), status)})
     \/ UNCHANGED outbox
  /\ Goto(c, "ack")
  /\ UNCHANGED <<requests, operations, opViews, drills, commands, queue, readModel, session, deciding, dns>>

-----------------------------------------------------------------------------
(* gslb-controller: the reconciler *)

HealthyPools(s, up) == {p \in PoolsOf[s] : Members[p] \cap up # {}}

HasActiveFailoverRequest(s) ==
  \E r \in Requests : /\ ServiceOf[r] = s /\ KindOf[r] = "failover"
                      /\ requests[r] \in {"PendingApproval", "Approved", "Dispatched"}

\* A cycle projects what the probes found up; when nothing is, it looks for a failover to ask for.
Reconcile(c, s, up) ==
  /\ deciding[c] = {}
  /\ \/ readModel' = [readModel EXCEPT ![s] =
                        [healthyPools |-> HealthyPools(s, up),
                         currentTargets |-> Targets(ActivePool[s]) \cap up]]
     \/ UNCHANGED readModel
  /\ \/ /\ up = {} /\ Targets(BackupPool(s)) # {} /\ ~HasActiveFailoverRequest(s)
        /\ deciding' = [deciding EXCEPT ![c] = {s}]
     \/ UNCHANGED deciding
  /\ UNCHANGED <<tables, queue, session, job, dns>>

\* Variant: the reconciler approves its own request.
InsertAutoApproved(c) ==
  /\ \E s \in deciding[c] :
       /\ requests[AutoRequest[s]] = "absent"
       /\ Emit({<<"auto", s>>, Dispatch(AutoRequest[s])})
       /\ Insert(AutoRequest[s], "Approved")
       /\ commands' = [commands EXCEPT ![AutoRequest[s]] = "pending"]
       /\ UNCHANGED drills
  /\ deciding' = [deciding EXCEPT ![c] = {}]
  /\ UNCHANGED <<queue, readModel, session, job, dns>>

\* The request waits for approval; it is unique under its key for good.
EnsureFailoverRequest(c) ==
  /\ \E s \in deciding[c] :
       \/ /\ requests[AutoRequest[s]] = "absent"
          /\ Emit({<<"auto", s>>})
          /\ Insert(AutoRequest[s], "PendingApproval")
          /\ UNCHANGED <<drills, commands>>
       \/ UNCHANGED tables
  /\ deciding' = [deciding EXCEPT ![c] = {}]
  /\ UNCHANGED <<queue, readModel, session, job, dns>>

-----------------------------------------------------------------------------
Apiserver ==
  \/ \E r \in Requests : Submit(r) \/ PublishCommand(r)
  \/ \E u \in Users :
       \/ \E r \in Requests, to \in {"Approved", "Rejected"} : ReadForDecision(u, r, to)
       \/ UpdateSwitchRequestStatus(u)
       \/ DecisionFails(u)

OperationCentre ==
  \E r \in Requests :
    ApproveOperation(r) \/ RejectOperation(r) \/ CancelOperation(r) \/ CommitStepFailure(r)

Controller(c) ==
  \/ \E m \in unacked : Deliver(c, m)
  \/ GetRequest(c) \/ DispatchRequest(c)
  \/ ExecuteStep(c) \/ StepFails(c) \/ Compensate(c)
  \/ RecordFailed(c) \/ RecordSucceeded(c)
  \/ \E status \in {"Failed", "Succeeded"} : EmitStatusChanged(c, status)
  \/ Ack(c) \/ CrashController(c)
  \/ \E up \in SUBSET Clusters : Reconcile(c, Domain, up)
  \/ EnsureFailoverRequest(c)

Next == Apiserver \/ OperationCentre \/ \E c \in Controllers : Controller(c)

Spec == Init /\ [][Next]_vars

-----------------------------------------------------------------------------
(* Properties *)

Job == [message : Requests \X (1..MaxCopies) \cup {<<NoRequest, 0>>},
        pc : {"idle", "get", "dispatch", "run", "compensate", "fail", "emitFailed",
              "succeed", "emitSucceeded", "ack"},
        todo : SUBSET {"apply", "verify", "revert", "compute"},
        undo : {"none", "revert"}]

\* Every table and every process state has its type.
GSLBTypeOK ==
  /\ requests \in [Requests -> Statuses \cup {"absent"}]
  /\ operations \in [Requests -> OperationRow]
  /\ opViews \in [Requests -> OperationRow]
  /\ drills \in [Requests -> {"none", "Ready", "Blocked", "Degraded"}]
  /\ readModel \in [Services -> [healthyPools : SUBSET Pools, currentTargets : SUBSET Clusters]]
  /\ commands \in [Requests -> {"none", "pending", "published"}]
  /\ unacked \subseteq Requests \X (1..MaxCopies)
  /\ deliveries \in [Requests \X (1..MaxCopies) -> Nat]
  /\ session \in [Users -> [request : Requests \cup {NoRequest}, to : {"none", "Approved", "Rejected"}]]
  /\ job \in [Controllers -> Job]
  /\ deciding \in [Controllers -> SUBSET Services]
  /\ dns \in [Services -> SUBSET Clusters]

\* Four services write the operation of a request, and two of them do not know of requests.  The
\* row and its read model show the same; they show the status the request has, except that, until
\* the request has its verdict, they may show what the operation centre was told (cancelled while
\* it is not dispatched, queued while it still waits and its steps were sent) or that the worker
\* failed a step it was sent.  So an operation in progress or succeeded is a request dispatched or
\* succeeded, and no verdict is ever hidden.
OperationTracksRequest ==
  \A r \in Requests :
    /\ opViews[r] = operations[r]
    /\ requests[r] = "absent" => operations[r] = NoRow
    /\ requests[r] # "absent" =>
         \/ operations[r].status = operationStatusForRequest(requests[r])
         \/ operations[r].status = "cancelled" /\ requests[r] \in {"PendingApproval", "Approved"}
         \/ /\ operations[r].status = "queued" /\ requests[r] = "PendingApproval"
            /\ \E id \in ReadySteps(r) : StepRequested(r, id) \in outbox
         \/ /\ operations[r].status = "failed" /\ requests[r] \in {"PendingApproval", "Approved", "Dispatched"}
            /\ \E id \in ReadySteps(r) : StepFailed(r, id) \in outbox

\* DNS changes only while a replica carries out a request for that service; never for a drill, and
\* not before an approval is on record where one is needed, whatever was redelivered, decided
\* twice or asked for by the reconciler (GSLB-005, GSLB-009, GSLB-010).
AuthorisedTrafficChange ==
  [][\A s \in Services : dns'[s] # dns[s] =>
       \E c \in Controllers :
         /\ job[c].pc \in {"run", "compensate"} /\ ServiceOf[RequestOf(c)] = s
         /\ ~IsDrill(RequestOf(c))
         /\ NeedsApproval(RequestOf(c)) => StatusChanged(RequestOf(c), "Approved") \in outbox]_vars

\* A request that has its verdict is never carried out again: late decisions, of which apiserver
\* checks nothing when it writes, can only reject it.
VerdictNeverReopened ==
  [][\A r \in Requests : requests[r] \in {"Succeeded", "Failed", "DrillCompleted"} =>
       requests'[r] \in {requests[r], "Rejected"}]_vars

\* A success that is announced is the verdict of the request, unless a late rejection hid it.
AnnouncedSuccessHolds ==
  \A r \in Requests : StatusChanged(r, "Succeeded") \in outbox => requests[r] \in {"Succeeded", "Rejected"}

\* A request reported as succeeded left the service on the targets of its plan (GSLB-005:
\* the controller carries out the change and verifies that the targets are in effect).
\* Stated when no replica is at work and no other request for the service was carried out.
SucceededMeansSwitched ==
  \A r \in Requests :
    /\ requests[r] = "Succeeded" /\ RequiresApproval(r)
    /\ \A c \in Controllers : At(c, "idle")
    /\ \A q \in Requests \ {r} : ServiceOf[q] = ServiceOf[r] => commands[q] = "none"
    => dns[ServiceOf[r]] = Targets(TargetPoolOf(r))
===============================================================================
