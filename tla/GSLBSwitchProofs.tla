-------------------------- MODULE GSLBSwitchProofs --------------------------
(***************************************************************************)
(* Proofs about GSLBSwitch and DRSwitch for any number of requests,        *)
(* services, users, controllers and callers: what each step does to the    *)
(* tables and to the process that takes it, that types are kept, and the   *)
(* invariant of switch requests: who may carry one out, what is on record  *)
(* of it and what is announced.                                            *)
(***************************************************************************)
EXTENDS DRSwitch, TLAPS

-----------------------------------------------------------------------------
(* Facts about plans and statuses. *)

\* The steps of a plan and what compensates them come from a fixed set.
LEMMA PlanShape ==
  ASSUME NEW r \in Requests
  PROVE  /\ DOMAIN BuildPlan(r) \subseteq {"apply", "verify", "revert", "compute"}
         /\ \A id \in DOMAIN BuildPlan(r) : BuildPlan(r)[id].compensation \in {"none", "revert"}
<1>1. KindOf[r] \in {"failover", "switchback", "weight-update", "drill"}
  BY Zenon, GSLBAssumption DEF Kinds
<1>2. CASE KindOf[r] \in {"failover", "switchback"}
  <2> DEFINE a == PlanStep("dns_apply", Targets(TargetPoolOf(r)), {}, "revert")
             v == PlanStep("dns_verify", Targets(TargetPoolOf(r)), {"apply"}, "none")
             w == PlanStep("dns_revert", PreviousTargets(r), {}, "none")
  <2>1. BuildPlan(r) = [apply |-> a, verify |-> v, revert |-> w]
    BY Zenon, <1>2 DEF BuildPlan
  <2>2. a.compensation = "revert" /\ v.compensation = "none" /\ w.compensation = "none"
    BY Zenon DEF PlanStep
  <2> HIDE DEF a, v, w
  <2> QED BY <2>1, <2>2
<1>3. CASE KindOf[r] = "weight-update"
  <2> DEFINE a == PlanStep("dns_apply", {}, {}, "none")
             v == PlanStep("dns_verify", {}, {"apply"}, "none")
  <2>1. BuildPlan(r) = [apply |-> a, verify |-> v]
    BY Zenon, <1>3 DEF BuildPlan
  <2>2. a.compensation = "none" /\ v.compensation = "none"
    BY Zenon DEF PlanStep
  <2> HIDE DEF a, v
  <2> QED BY <2>1, <2>2
<1>4. CASE KindOf[r] = "drill"
  <2>1. BuildPlan(r) = [compute |-> PlanStep("drill_compute", {}, {}, "none")]
    BY Zenon, <1>4 DEF BuildPlan
  <2> QED BY <2>1 DEF PlanStep
<1> QED BY Zenon, <1>1, <1>2, <1>3, <1>4

\* The unique keys of two kinds of outbox rows never coincide.
LEMMA EventsDiffer ==
  /\ \A r, q, a, b : StatusChanged(r, a) = StatusChanged(q, b) => r = q /\ a = b
  /\ \A r, q, a : StatusChanged(r, a) # Submitted(q) /\ StatusChanged(r, a) # Dispatch(q)
  /\ \A r, a, k, b : StatusChanged(r, a) # Event(k, b)
  /\ \A r, a, s : StatusChanged(r, a) # <<"auto", s>>
  /\ \A k, b, l, d : Event(k, b) = Event(l, d) => k = l /\ b = d
  /\ \A k, b, q : Event(k, b) # Submitted(q) /\ Event(k, b) # Dispatch(q)
  /\ \A k, b, s : Event(k, b) # <<"auto", s>>
  /\ \A r, a, q, id : StatusChanged(r, a) # StepRequested(q, id) /\ StatusChanged(r, a) # StepFailed(q, id)
BY Zenon DEF StatusChanged, Submitted, Dispatch, Event, StepRequested, StepFailed

-----------------------------------------------------------------------------
(* Types, and what a step does to the process that takes it. *)

\* The part of the types the proofs use.
Shape ==
  /\ requests \in [Requests -> Statuses \cup {"absent"}]
  /\ DOMAIN operations = Requests
  /\ DOMAIN opViews = Requests
  /\ unacked \subseteq Requests \X (1..MaxCopies)
  /\ session \in [Users -> [request : Requests, to : {"Approved", "Rejected"}]
                            \cup {[request |-> NoRequest, to |-> "none"]}]
  /\ job \in [Controllers -> Job]
  /\ \A c \in Controllers : job[c].pc # "idle" => /\ job[c].message \in Requests \X (1..MaxCopies)
                                                 /\ job[c].todo \subseteq DOMAIN BuildPlan(RequestOf(c))
  /\ deciding \in [Controllers -> SUBSET Services]

\* A controller moves to another point of its command; the other controllers stay where they are.
Moved(c, pc) ==
  /\ job' \in [Controllers -> Job]
  /\ \A d \in Controllers : job'[d].pc # "idle" => /\ job'[d].message \in Requests \X (1..MaxCopies)
                                                  /\ job'[d].todo \subseteq DOMAIN BuildPlan(RequestOf(d)')
  /\ job'[c].pc = pc /\ job'[c].message = job[c].message
  /\ \A d \in Controllers \ {c} : job'[d] = job[d]

PCs == {"idle", "get", "dispatch", "run", "compensate", "fail", "emitFailed",
        "succeed", "emitSucceeded", "ack"}

\* A controller that is not idle holds a message, and the message names a request.
LEMMA RequestAtHand ==
  ASSUME Shape, NEW c \in Controllers, job[c].pc # "idle"
  PROVE  RequestOf(c) \in Requests
BY Zenon DEF Shape, RequestOf

\* A step of HandleCommand keeps the message and names steps of the plan of its request only.
LEMMA JobMoves ==
  ASSUME Shape, NEW c \in Controllers, job[c].pc # "idle",
         NEW pc \in PCs,
         NEW todo \in SUBSET DOMAIN BuildPlan(RequestOf(c)),
         NEW undo \in {"none", "revert"},
         GotoWith(c, pc, todo, undo)
  PROVE  Moved(c, pc)
<1> DEFINE new == [message |-> job[c].message, pc |-> pc, todo |-> todo, undo |-> undo]
<1>1. job[c].message \in Requests \X (1..MaxCopies)
  BY Zenon DEF Shape
<1>2. todo \in SUBSET {"apply", "verify", "revert", "compute"}
  BY Zenon, RequestAtHand, PlanShape
<1>3. new \in Job
  BY Zenon, <1>1, <1>2 DEF Job, PCs
<1>4. /\ new.message = job[c].message /\ new.pc = pc /\ new.todo = todo
      /\ job' = [job EXCEPT ![c] = new]
  BY Zenon DEF GotoWith
<1> HIDE DEF new
<1>5. /\ job' \in [Controllers -> Job]
      /\ job'[c] = new
      /\ \A d \in Controllers \ {c} : job'[d] = job[d]
  BY Zenon, <1>3, <1>4 DEF Shape
<1>6. RequestOf(c)' = RequestOf(c) /\ \A d \in Controllers \ {c} : RequestOf(d)' = RequestOf(d)
  BY Zenon, <1>4, <1>5 DEF RequestOf
<1>7. job'[c].message \in Requests \X (1..MaxCopies) /\ job'[c].todo \subseteq DOMAIN BuildPlan(RequestOf(c)')
  BY Zenon, <1>1, <1>4, <1>5, <1>6
<1>8. \A d \in Controllers \ {c} : job'[d].pc # "idle" =>
        /\ job'[d].message \in Requests \X (1..MaxCopies)
        /\ job'[d].todo \subseteq DOMAIN BuildPlan(RequestOf(d)')
  BY Zenon, <1>5, <1>6 DEF Shape
<1> QED BY Zenon, <1>4, <1>5, <1>7, <1>8 DEF Moved

\* The same where nothing but the place in HandleCommand changes.
LEMMA GotoMoves ==
  ASSUME Shape, NEW c \in Controllers, job[c].pc # "idle", NEW pc \in PCs, Goto(c, pc)
  PROVE  Moved(c, pc)
<1>1. /\ job[c].todo \in SUBSET DOMAIN BuildPlan(RequestOf(c))
      /\ job[c].undo \in {"none", "revert"}
  BY Zenon DEF Shape, Job
<1> QED BY Zenon, <1>1, JobMoves DEF Goto

\* Execute starts with all the steps of the plan.
LEMMA RunPlanMoves ==
  ASSUME Shape, NEW c \in Controllers, job[c].pc # "idle", RunPlan(c)
  PROVE  Moved(c, "run")
BY Zenon, JobMoves DEF RunPlan, PCs

\* GetRequest goes on only with an approved or a dispatched request.
LEMMA GetMoves ==
  ASSUME Shape, NEW c \in Controllers, GetRequest(c)
  PROVE  /\ UNCHANGED <<tables, queue, session, deciding>> /\ At(c, "get")
         /\ \/ Moved(c, "ack")
            \/ /\ Moved(c, "dispatch") \/ Moved(c, "run")
               /\ requests[RequestOf(c)] \in {"Approved", "Dispatched"}
BY Zenon, GotoMoves, RunPlanMoves DEF GetRequest, At, PCs

\* Executing and compensating steps leave the tables alone and never reach the announcements.
LEMMA PlanMoves ==
  ASSUME Shape, NEW c \in Controllers, ExecuteStep(c) \/ StepFails(c) \/ Compensate(c)
  PROVE  /\ UNCHANGED <<tables, queue, session, deciding>>
         /\ job[c].pc \in {"run", "compensate"}
         /\ \E pc \in {"run", "succeed", "fail", "compensate"} : Moved(c, pc)
<1>1. CASE ExecuteStep(c)
  <2>1. PICK id \in job[c].todo :
          GotoWith(c, IF job[c].todo \ {id} = {} THEN "succeed" ELSE "run", job[c].todo \ {id}, "none")
    BY Zenon, <1>1 DEF ExecuteStep
  <2>2. /\ job[c].pc = "run" /\ UNCHANGED <<tables, queue, session, deciding>>
        /\ job[c].todo \ {id} \in SUBSET DOMAIN BuildPlan(RequestOf(c))
    BY Zenon, <1>1 DEF ExecuteStep, At, Shape
  <2>3. Moved(c, "succeed") \/ Moved(c, "run")
    BY Zenon, <2>1, <2>2, JobMoves DEF PCs
  <2> QED BY Zenon, <2>2, <2>3
<1>2. CASE StepFails(c)
  <2> DEFINE plan == BuildPlan(RequestOf(c))
  <2>1. PICK id \in job[c].todo :
          GotoWith(c, IF plan[id].compensation = "none" THEN "fail" ELSE "compensate",
                   {}, plan[id].compensation)
    BY Zenon, <1>2 DEF StepFails
  <2>2. job[c].pc = "run" /\ UNCHANGED <<tables, queue, session, deciding>>
    BY Zenon, <1>2 DEF StepFails, At
  <2>3. plan[id].compensation \in {"none", "revert"}
    BY Zenon, <2>2, RequestAtHand, PlanShape DEF Shape
  <2>4. Moved(c, "fail") \/ Moved(c, "compensate")
    BY Zenon, <2>1, <2>2, <2>3, JobMoves DEF PCs
  <2> QED BY Zenon, <2>2, <2>4
<1>3. CASE Compensate(c)
  BY Zenon, <1>3, GotoMoves DEF Compensate, At, PCs
<1> QED BY Zenon, <1>1, <1>2, <1>3

\* What a write of a status does to the three tables, in which it leaves the other rows alone.
LEMMA StatusWritten ==
  ASSUME Shape, NEW r \in Requests, NEW status \in Statuses, NEW op,
         WriteStatus(r, status, op)
  PROVE  /\ requests' \in [Requests -> Statuses \cup {"absent"}]
         /\ DOMAIN operations' = Requests /\ DOMAIN opViews' = Requests
         /\ requests'[r] = status
         /\ operations'[r].status = op
         /\ operations[r] = opViews[r] => operations'[r] = opViews'[r]
         /\ \A q \in Requests \ {r} : /\ requests'[q] = requests[q]
                                      /\ operations'[q] = operations[q]
                                      /\ opViews'[q] = opViews[q]
BY Zenon DEF Shape, WriteStatus

\* What an insert does to the three tables, in which it leaves the other rows alone.
LEMMA RowInserted ==
  ASSUME Shape, NEW r \in Requests, NEW status \in Statuses, Insert(r, status)
  PROVE  /\ requests' \in [Requests -> Statuses \cup {"absent"}]
         /\ DOMAIN operations' = Requests /\ DOMAIN opViews' = Requests
         /\ requests'[r] = status
         /\ operations'[r].status = operationStatusForRequest(status)
         /\ operations'[r] = opViews'[r]
         /\ \A q \in Requests \ {r} : /\ requests'[q] = requests[q]
                                      /\ operations'[q] = operations[q]
                                      /\ opViews'[q] = opViews[q]
BY Zenon DEF Shape, Insert, NewRow

\* The transitions of a command: to Dispatched before it runs, to its verdict after it.
LEMMA VerdictMoves ==
  ASSUME Shape, NEW c \in Controllers
  PROVE  /\ DispatchRequest(c) =>
              /\ At(c, "dispatch") /\ UNCHANGED <<queue, session, deciding>>
              /\ \/ UNCHANGED tables /\ Moved(c, "ack")
                 \/ Transition(RequestOf(c), {"Approved"}, "Dispatched") /\ (Moved(c, "run") \/ Moved(c, "ack"))
         /\ RecordFailed(c) =>
              /\ At(c, "fail") /\ UNCHANGED <<queue, session, deciding>> /\ Moved(c, "emitFailed")
              /\ UNCHANGED tables \/ Transition(RequestOf(c), {"Dispatched"}, "Failed")
         /\ RecordSucceeded(c) =>
              /\ At(c, "succeed") /\ UNCHANGED <<queue, session, deciding>>
              /\ \/ UNCHANGED tables /\ Moved(c, "ack")
                 \/ /\ Transition(RequestOf(c), {"Dispatched"}, "Succeeded")
                    /\ Moved(c, "emitSucceeded") \/ Moved(c, "ack")
         /\ \A status \in {"Failed", "Succeeded"} : EmitStatusChanged(c, status) =>
              /\ job[c].pc = IF status = "Failed" THEN "emitFailed" ELSE "emitSucceeded"
              /\ UNCHANGED <<requests, operations, opViews, queue, session, deciding>> /\ Moved(c, "ack")
              /\ UNCHANGED outbox \/ Emit({StatusChanged(RequestOf(c), status)})
<1>1. DispatchRequest(c) =>
        /\ At(c, "dispatch") /\ UNCHANGED <<queue, session, deciding>>
        /\ \/ UNCHANGED tables /\ Moved(c, "ack")
           \/ Transition(RequestOf(c), {"Approved"}, "Dispatched") /\ (Moved(c, "run") \/ Moved(c, "ack"))
  BY Zenon, GotoMoves, RunPlanMoves DEF DispatchRequest, At, PCs
<1>2. RecordFailed(c) =>
        /\ At(c, "fail") /\ UNCHANGED <<queue, session, deciding>> /\ Moved(c, "emitFailed")
        /\ UNCHANGED tables \/ Transition(RequestOf(c), {"Dispatched"}, "Failed")
  BY Zenon, GotoMoves DEF RecordFailed, At, PCs
<1>3. RecordSucceeded(c) =>
        /\ At(c, "succeed") /\ UNCHANGED <<queue, session, deciding>>
        /\ \/ UNCHANGED tables /\ Moved(c, "ack")
           \/ /\ Transition(RequestOf(c), {"Dispatched"}, "Succeeded")
              /\ Moved(c, "emitSucceeded") \/ Moved(c, "ack")
  BY Zenon, GotoMoves DEF RecordSucceeded, At, PCs
<1>4. \A status \in {"Failed", "Succeeded"} : EmitStatusChanged(c, status) =>
        /\ job[c].pc = IF status = "Failed" THEN "emitFailed" ELSE "emitSucceeded"
        /\ UNCHANGED <<requests, operations, opViews, queue, session, deciding>> /\ Moved(c, "ack")
        /\ UNCHANGED outbox \/ Emit({StatusChanged(RequestOf(c), status)})
  BY Zenon, GotoMoves DEF EmitStatusChanged, At, PCs
<1> QED BY Zenon, <1>1, <1>2, <1>3, <1>4

\* Taking up a command and putting it down; neither is a point at which a request is carried out.
Replaced(c) ==
  /\ job' \in [Controllers -> Job]
  /\ \A d \in Controllers : job'[d].pc # "idle" => /\ job'[d].message \in Requests \X (1..MaxCopies)
                                                  /\ job'[d].todo \subseteq DOMAIN BuildPlan(RequestOf(d)')
  /\ job'[c].pc \in {"idle", "get"}
  /\ \A d \in Controllers \ {c} : job'[d] = job[d]

\* The durable consumer replaces what one controller works on.
LEMMA QueueMoves ==
  ASSUME Shape, NEW c \in Controllers,
         NEW new \in Job, job' = [job EXCEPT ![c] = new], new.pc \in {"idle", "get"}, new.todo = {},
         new.pc # "idle" => new.message \in Requests \X (1..MaxCopies)
  PROVE  Replaced(c)
<1>1. /\ job' \in [Controllers -> Job]
      /\ job'[c] = new
      /\ \A d \in Controllers \ {c} : job'[d] = job[d]
  BY Zenon DEF Shape
<1>2. \A d \in Controllers \ {c} : RequestOf(d)' = RequestOf(d)
  BY Zenon, <1>1 DEF RequestOf
<1>3. \A d \in Controllers \ {c} : job'[d].pc # "idle" =>
        /\ job'[d].message \in Requests \X (1..MaxCopies)
        /\ job'[d].todo \subseteq DOMAIN BuildPlan(RequestOf(d)')
  BY Zenon, <1>1, <1>2 DEF Shape
<1> QED BY Zenon, <1>1, <1>3 DEF Replaced

\* A delivery, an acknowledgement and a crash leave the tables alone.
LEMMA DeliveryMoves ==
  ASSUME Shape, NEW c \in Controllers,
         Ack(c) \/ CrashController(c) \/ \E m \in unacked : Deliver(c, m)
  PROVE  Replaced(c) /\ UNCHANGED <<tables, session, deciding>> /\ unacked' \subseteq unacked
<1>1. Free \in Job /\ Free.pc = "idle" /\ Free.todo = {}
  BY Zenon DEF Free, Job
<1>2. CASE Ack(c)
  BY Zenon, <1>1, <1>2, QueueMoves DEF Ack
<1>3. CASE CrashController(c)
  BY Zenon, <1>1, <1>3, QueueMoves DEF CrashController, queue
<1>4. CASE \E m \in unacked : Deliver(c, m)
  <2>1. PICK m \in unacked : Deliver(c, m)
    BY Zenon, <1>4
  <2> DEFINE new == [message |-> m, pc |-> "get", todo |-> {}, undo |-> "none"]
  <2>2. new \in Job /\ new.pc = "get" /\ new.todo = {} /\ new.message \in Requests \X (1..MaxCopies)
    BY Zenon DEF Job, Shape
  <2>3. job' = [job EXCEPT ![c] = new] /\ UNCHANGED <<tables, session, deciding, unacked>>
    BY Zenon, <2>1 DEF Deliver
  <2> HIDE DEF new
  <2> QED BY Zenon, <2>2, <2>3, QueueMoves
<1> QED BY Zenon, <1>2, <1>3, <1>4

\* A submission inserts the rows of a new request and leaves everything else as it is.
LEMMA SubmitInserts ==
  ASSUME Shape, NEW r \in Requests, SubmitIntent(r)
  PROVE  /\ requests[r] = "absent"
         /\ InitialStatus(r) \in {"DrillCompleted", "PendingApproval", "Approved"}
         /\ IsDrill(r) <=> InitialStatus(r) = "DrillCompleted"
         /\ NeedsApproval(r) => InitialStatus(r) # "Approved"
         /\ Insert(r, InitialStatus(r))
         /\ outbox' = outbox \cup {Submitted(r)} \cup IF InitialStatus(r) = "Approved" THEN {Dispatch(r)} ELSE {}
BY Zenon DEF SubmitIntent, InitialStatus, Emit

\* The operation centre and the worker leave the request alone and add rows of their own to the outbox.
LEMMA CentreLeaves ==
  ASSUME OperationCentre
  PROVE  /\ UNCHANGED <<requests, drills, commands, queue, readModel, session, job, deciding, dns>>
         /\ outbox \subseteq outbox'
         /\ \A r, a : StatusChanged(r, a) \in outbox' => StatusChanged(r, a) \in outbox
<1>1. PICK r \in Requests : ApproveOperation(r) \/ RejectOperation(r) \/ CancelOperation(r) \/ CommitStepFailure(r)
  BY Zenon DEF OperationCentre
<1>2. UNCHANGED <<requests, drills, commands, queue, readModel, session, job, deciding, dns>>
  BY Zenon, <1>1 DEF ApproveOperation, RejectOperation, CancelOperation, CommitStepFailure, MoveOperation
<1>3. /\ outbox \subseteq outbox'
      /\ \A e \in outbox' : e \in outbox \/ \E id : e = StepRequested(r, id) \/ e = StepFailed(r, id)
  BY Zenon, <1>1 DEF ApproveOperation, RejectOperation, CancelOperation, CommitStepFailure, Emit
<1>4. ASSUME NEW q, NEW a, StatusChanged(q, a) \in outbox'
      PROVE  StatusChanged(q, a) \in outbox
  <2>1. \A id : StatusChanged(q, a) # StepRequested(r, id) /\ StatusChanged(q, a) # StepFailed(r, id)
    BY Zenon, EventsDiffer
  <2> QED BY Zenon, <1>3, <1>4, <2>1
<1> QED BY Zenon, <1>2, <1>3, <1>4

\* Calls of disaster recovery keep their shape, and work on a run.
DRShape == DRTypeOK /\ \A a \in Callers : call[a].pc # "idle" => call[a].run \in Runs

\* A call that goes on stays in shape.
LEMMA CallMoves ==
  ASSUME DRShape, NEW a \in Callers, NEW k \in Runs,
         NEW pc \in {"create", "confirm", "dispatch", "fail"},
         NEW left \in SUBSET (Services \cup {DataMember}), NEW ids \in SUBSET DRRequests,
         Calls(a, pc, k, left, ids)
  PROVE  /\ call' \in [Callers -> [pc : {"idle", "create", "confirm", "dispatch", "fail"},
                                    run : Runs \cup {NoRun}, members : SUBSET (Services \cup {DataMember}),
                                    ids : SUBSET DRRequests]]
         /\ \A b \in Callers : call'[b].pc # "idle" => call'[b].run \in Runs
         /\ call'[a].pc = pc /\ call'[a].run = k /\ call'[a].ids = ids
         /\ \A b \in Callers \ {a} : call'[b] = call[b]
BY Zenon DEF DRShape, DRTypeOK, Calls

\* A call that returns, or dies, frees its caller.
LEMMA CallReturns ==
  ASSUME DRShape, NEW a \in Callers, Returns(a)
  PROVE  /\ call' \in [Callers -> [pc : {"idle", "create", "confirm", "dispatch", "fail"},
                                    run : Runs \cup {NoRun}, members : SUBSET (Services \cup {DataMember}),
                                    ids : SUBSET DRRequests]]
         /\ \A b \in Callers : call'[b].pc # "idle" => call'[b].run \in Runs
         /\ call'[a].pc = "idle"
         /\ \A b \in Callers \ {a} : call'[b] = call[b]
BY Zenon DEF DRShape, DRTypeOK, Returns, Idle

\* What a call holds after a step that writes it.
LEMMA CallEffect ==
  ASSUME DRShape, NEW a \in Callers, NEW k, NEW pc, NEW left, NEW ids, Calls(a, pc, k, left, ids)
  PROVE  /\ call'[a].pc = pc /\ call'[a].run = k /\ call'[a].ids = ids
         /\ \A b \in Callers \ {a} : call'[b] = call[b]
BY Zenon DEF DRShape, DRTypeOK, Calls

\* What a run holds after UpdateRun, and the one event that goes with it.
LEMMA RunEffect ==
  ASSUME DRShape, NEW k \in Runs, NEW status, NEW ids, NEW subject, UpdateRun(k, status, ids, subject)
  PROVE  /\ runs'[k].status = status /\ runs'[k].ids = ids
         /\ \A l \in Runs \ {k} : runs'[l] = runs[l]
         /\ Event(k, subject) \notin outbox /\ outbox' = outbox \cup {Event(k, subject)}
BY Zenon DEF DRShape, DRTypeOK, UpdateRun, Emit

\* UpdateRun keeps runs and their operations in shape.
LEMMA RunUpdated ==
  ASSUME DRShape, NEW k \in Runs, NEW status \in RunStatuses, NEW ids \in SUBSET DRRequests, NEW subject,
         UpdateRun(k, status, ids, subject)
  PROVE  /\ runs' \in [Runs -> [status : RunStatuses, ids : SUBSET DRRequests]]
         /\ runOps' \in [Runs -> {"absent", "in_progress", "failed"}]
         /\ runs'[k].status = status /\ runs'[k].ids = ids
         /\ \A l \in Runs \ {k} : runs'[l] = runs[l]
         /\ Event(k, subject) \notin outbox /\ outbox' = outbox \cup {Event(k, subject)}
BY Zenon DEF DRShape, DRTypeOK, UpdateRun, operationStatusForRun, Emit

\* Each step keeps runs and calls in shape.
LEMMA DRShapeStep ==
  ASSUME DRShape, [DRNext]_<<vars, drVars>>
  PROVE  DRShape'
<1>0. {} \in SUBSET DRRequests
  BY Zenon
<1>1. ASSUME NEW g \in Groups, NEW m \in Services \cup {DataMember}, AddMember(g, m)
      PROVE  DRShape'
  BY Zenon, <1>1 DEF DRShape, DRTypeOK, AddMember
<1>2. ASSUME NEW a \in Callers, NEW k \in Runs, InitiateSwitch(a, k)
      PROVE  DRShape'
  <2>1. members[GroupOf[k]] \in SUBSET (Services \cup {DataMember})
    BY Zenon, DRAssumption DEF DRShape, DRTypeOK
  <2> QED BY Zenon, <1>0, <1>2, <2>1, CallMoves DEF DRShape, DRTypeOK, InitiateSwitch
<1>3. ASSUME NEW a \in Callers, NEW k \in Runs, ReadRun(a, k)
      PROVE  DRShape'
  <2>1. TrafficMembers(members[GroupOf[k]]) \in SUBSET (Services \cup {DataMember})
    BY Zenon, DRAssumption DEF DRShape, DRTypeOK, TrafficMembers
  <2> QED BY Zenon, <1>0, <1>3, <2>1, CallMoves DEF DRShape, DRTypeOK, ReadRun
<1>4. ASSUME NEW a \in Callers, CreateRun(a)
      PROVE  DRShape'
  <2>1. call[a].run \in Runs /\ TrafficMembers(call[a].members) \in SUBSET (Services \cup {DataMember})
    BY Zenon, <1>4 DEF DRShape, DRTypeOK, CreateRun, TrafficMembers
  <2>2. PICK status \in RunStatuses : UpdateRun(call[a].run, status, {}, "initiated")
    BY Zenon, <1>4 DEF CreateRun, RunStatuses
  <2>3. /\ Calls(a, "dispatch", call[a].run, TrafficMembers(call[a].members), {}) \/ Returns(a)
        /\ UNCHANGED members
    BY Zenon, <1>4 DEF CreateRun
  <2>4. /\ runs' \in [Runs -> [status : RunStatuses, ids : SUBSET DRRequests]]
        /\ runOps' \in [Runs -> {"absent", "in_progress", "failed"}]
    BY Zenon, <1>0, <2>1, <2>2, RunUpdated
  <2>5. CASE Calls(a, "dispatch", call[a].run, TrafficMembers(call[a].members), {})
    BY Zenon, <1>0, <2>1, <2>3, <2>4, <2>5, CallMoves DEF DRShape, DRTypeOK
  <2>6. CASE Returns(a)
    BY Zenon, <2>3, <2>4, <2>6, CallReturns DEF DRShape, DRTypeOK
  <2> QED BY Zenon, <2>3, <2>5, <2>6
<1>5. ASSUME NEW a \in Callers, ConfirmDataLayer(a)
      PROVE  DRShape'
  <2>1. /\ call[a].run \in Runs /\ call[a].members \in SUBSET (Services \cup {DataMember})
        /\ runs[call[a].run].ids \in SUBSET DRRequests
    BY Zenon, <1>5 DEF DRShape, DRTypeOK, ConfirmDataLayer
  <2>2. /\ runs' \in [Runs -> [status : RunStatuses, ids : SUBSET DRRequests]]
        /\ runOps' \in [Runs -> {"absent", "in_progress", "failed"}]
    BY Zenon, <1>5, <2>1, RunUpdated DEF ConfirmDataLayer, RunStatuses
  <2>3. Calls(a, "dispatch", call[a].run, call[a].members, {}) /\ UNCHANGED members
    BY Zenon, <1>5 DEF ConfirmDataLayer
  <2> QED BY Zenon, <1>0, <2>1, <2>2, <2>3, CallMoves DEF DRShape, DRTypeOK
<1>6. ASSUME NEW a \in Callers, NEW s \in Services, DispatchMember(a, s)
      PROVE  DRShape'
  <2>1. /\ call[a].run \in Runs
        /\ call[a].members \in SUBSET (Services \cup {DataMember})
        /\ call[a].members \ {s} \in SUBSET (Services \cup {DataMember})
        /\ call[a].ids \in SUBSET DRRequests
        /\ call[a].ids \cup {RequestFor[call[a].run][s]} \in SUBSET DRRequests
    BY <1>6, DRAssumption DEF DRShape, DRTypeOK, DispatchMember
  <2> QED BY ZenonT(60), <1>6, <2>1, CallMoves DEF DRShape, DRTypeOK, DispatchMember
<1>7. ASSUME NEW a \in Callers, FinishDispatch(a)
      PROVE  DRShape'
  <2>1. call[a].run \in Runs /\ call[a].ids \in SUBSET DRRequests
    BY Zenon, <1>7 DEF DRShape, DRTypeOK, FinishDispatch
  <2> QED BY Zenon, <1>7, <2>1, CallReturns, RunUpdated DEF DRShape, DRTypeOK, FinishDispatch, RunStatuses
<1>8. ASSUME NEW a \in Callers, failRun(a)
      PROVE  DRShape'
  <2>1. call[a].run \in Runs /\ runs[call[a].run].ids \in SUBSET DRRequests
    BY Zenon, <1>8 DEF DRShape, DRTypeOK, failRun
  <2> QED BY Zenon, <1>8, <2>1, CallReturns, RunUpdated DEF DRShape, DRTypeOK, failRun, RunStatuses
<1>9. ASSUME NEW a \in Callers, CallEnds(a)
      PROVE  DRShape'
  BY Zenon, <1>9, CallReturns DEF DRShape, DRTypeOK, CallEnds
<1>10. CASE UNCHANGED drVars
  BY Zenon, <1>10 DEF DRShape, DRTypeOK, drVars
<1> QED
  BY Zenon, <1>1, <1>2, <1>3, <1>4, <1>5, <1>6, <1>7, <1>8, <1>9, <1>10 DEF DRNext, DRStep

\* Each step keeps the shape of the tables and of the processes.
LEMMA ShapeStep ==
  ASSUME Shape, DRShape, [DRNext]_<<vars, drVars>>
  PROVE  Shape'
<1> USE DEF Shape
<1>1. ASSUME NEW r \in Requests, SubmitIntent(r), UNCHANGED <<queue, session, job, deciding>>
      PROVE  Shape'
  BY ZenonT(30), <1>1, SubmitInserts, RowInserted DEF Statuses, queue, RequestOf
<1>2. ASSUME NEW r \in Requests, PublishCommand(r)
      PROVE  Shape'
  <2>1. PICK i \in 1..MaxCopies : unacked' = unacked \cup {<<r, i>>}
    BY Zenon, <1>2 DEF PublishCommand
  <2>2. unacked' \subseteq Requests \X (1..MaxCopies)
    BY SMTT(30), <2>1
  <2> QED BY Zenon, <1>2, <2>2 DEF PublishCommand, RequestOf
<1>3. ASSUME NEW u \in Users, NEW r \in Requests, NEW to \in {"Approved", "Rejected"}, ReadForDecision(u, r, to)
      PROVE  Shape'
  BY Zenon, <1>3 DEF ReadForDecision, tables, queue, RequestOf
<1>4. ASSUME NEW u \in Users, UpdateSwitchRequestStatus(u)
      PROVE  Shape'
  <2>1. session[u].request \in Requests /\ session[u].to \in Statuses
    BY <1>4 DEF UpdateSwitchRequestStatus, Statuses
  <2>2. WriteStatus(session[u].request, session[u].to, operationStatusForRequest(session[u].to))
    BY Zenon, <1>4 DEF UpdateSwitchRequestStatus
  <2>3. /\ session' \in [Users -> [request : Requests, to : {"Approved", "Rejected"}]
                                  \cup {[request |-> NoRequest, to |-> "none"]}]
        /\ UNCHANGED <<unacked, job, deciding>>
    BY Zenon, <1>4 DEF UpdateSwitchRequestStatus, queue
  <2> QED BY Zenon, <2>1, <2>2, <2>3, StatusWritten DEF RequestOf
<1>5. ASSUME NEW u \in Users, DecisionFails(u)
      PROVE  Shape'
  BY Zenon, <1>5 DEF DecisionFails, tables, queue, RequestOf
<1>6. ASSUME NEW c \in Controllers, Ack(c) \/ CrashController(c) \/ \E m \in unacked : Deliver(c, m)
      PROVE  Shape'
  BY Zenon, <1>6, DeliveryMoves DEF Replaced, tables
<1>7. ASSUME NEW c \in Controllers, GetRequest(c)
      PROVE  Shape'
  BY Zenon, <1>7, GetMoves DEF Moved, tables, queue
<1>8. ASSUME NEW c \in Controllers, ExecuteStep(c) \/ StepFails(c) \/ Compensate(c)
      PROVE  Shape'
  BY ZenonT(30), <1>8, PlanMoves DEF Moved, tables, queue
<1>9. ASSUME NEW c \in Controllers, DispatchRequest(c) \/ RecordFailed(c) \/ RecordSucceeded(c)
      PROVE  Shape'
  <2>1. RequestOf(c) \in Requests
    BY ZenonT(30), <1>9, VerdictMoves, RequestAtHand DEF At
  <2>2. UNCHANGED <<unacked, session, deciding>> /\ \E pc \in PCs : Moved(c, pc)
    BY ZenonT(30), <1>9, VerdictMoves DEF queue, PCs
  <2>3. CASE UNCHANGED tables
    BY ZenonT(30), <2>2, <2>3 DEF Moved, tables
  <2>4. CASE \E from, to : to \in Statuses /\ Transition(RequestOf(c), from, to)
    BY Zenon, <2>1, <2>2, <2>4, StatusWritten DEF Moved, Transition
  <2> QED BY ZenonT(30), <1>9, <2>3, <2>4, VerdictMoves DEF Statuses
<1>10. ASSUME NEW c \in Controllers, NEW status \in {"Failed", "Succeeded"}, EmitStatusChanged(c, status)
       PROVE  Shape'
  BY ZenonT(60), <1>10, VerdictMoves DEF Moved, queue
<1>11. ASSUME NEW c \in Controllers, NEW up \in SUBSET Clusters, Reconcile(c, Domain, up)
       PROVE  Shape'
  <2>1. deciding' \in [Controllers -> SUBSET Services]
    BY <1>11, GSLBAssumption DEF Reconcile
  <2>2. UNCHANGED <<requests, operations, opViews, unacked, session, job>>
    BY Zenon, <1>11 DEF Reconcile, tables, queue
  <2> QED BY Zenon, <2>1, <2>2 DEF RequestOf
<1>12. ASSUME NEW c \in Controllers, EnsureFailoverRequest(c)
       PROVE  Shape'
  <2>1. PICK s \in deciding[c] : \/ Insert(AutoRequest[s], "PendingApproval")
                                 \/ UNCHANGED tables
    BY ZenonT(30), <1>12 DEF EnsureFailoverRequest
  <2>2. AutoRequest[s] \in Requests
    BY SMTT(30), GSLBAssumption
  <2> QED BY Zenon, <1>12, <2>1, <2>2, RowInserted DEF EnsureFailoverRequest, Statuses, tables, queue, RequestOf
<1>13. ASSUME NEW a \in Callers, CreateRun(a) \/ ConfirmDataLayer(a) \/ FinishDispatch(a) \/ failRun(a)
       PROVE  Shape'
  BY ZenonT(30), <1>13 DEF CreateRun, ConfirmDataLayer, FinishDispatch, failRun, queue, RequestOf
<1>14. ASSUME NEW a \in Callers, NEW s \in Services, DispatchMember(a, s)
       PROVE  Shape'
  <2> HIDE DEF Shape
  <2>0. call[a].run \in Runs
    BY Zenon, <1>14 DEF DispatchMember, DRShape
  <2>1. RequestFor[call[a].run][s] \in Requests
    BY <2>0, GSLBAssumption, DRAssumption
  <2>2. SubmitIntent(RequestFor[call[a].run][s]) \/ UNCHANGED tables
    BY Zenon, <1>14 DEF DispatchMember
  <2>3. UNCHANGED <<queue, session, job, deciding>>
    BY Zenon, <1>14 DEF DispatchMember
  <2> QED BY ZenonT(30), <1>1, <2>1, <2>2, <2>3 DEF Shape, tables, queue, RequestOf
<1>15. CASE UNCHANGED vars
  BY Zenon, <1>15 DEF vars, tables, queue, RequestOf
<1>16. CASE OperationCentre
  <2>1. UNCHANGED <<requests, unacked, session, job, deciding>>
    BY Zenon, <1>16, CentreLeaves DEF queue
  <2>2. DOMAIN operations' = Requests /\ DOMAIN opViews' = Requests
    BY ZenonT(30), <1>16 DEF OperationCentre, ApproveOperation, RejectOperation, CancelOperation, CommitStepFailure,
                             MoveOperation
  <2> QED BY Zenon, <2>1, <2>2 DEF RequestOf
<1> QED
  BY ZenonT(30), <1>1, <1>2, <1>3, <1>4, <1>5, <1>6, <1>7, <1>8, <1>9, <1>10, <1>11, <1>12, <1>13, <1>14, <1>15, <1>16
  DEF DRNext, DRStep, Next, Apiserver, Controller, Submit, AddMember, InitiateSwitch, ReadRun, CallEnds

-----------------------------------------------------------------------------
(* The inductive invariant. *)

\* Statuses a request has only after it was dispatched.
Carried == {"Approved", "Dispatched", "Succeeded", "Failed"}

\* A drill never leaves its verdict, a dispatched request has its command in the outbox
\* and, where one is needed, its approval.
Approvals ==
  \A r \in Requests :
    /\ IsDrill(r) => requests[r] \in {"absent", "DrillCompleted"}
    /\ requests[r] = "DrillCompleted" => IsDrill(r)
    /\ requests[r] \in Carried => Dispatch(r) \in outbox
    /\ NeedsApproval(r) /\ requests[r] \in Carried => StatusChanged(r, "Approved") \in outbox

\* A user decides on a request that exists and is not a drill.
Decisions ==
  \A u \in Users : session[u].request # NoRequest =>
    requests[session[u].request] # "absent" /\ ~IsDrill(session[u].request)

\* A controller that is past the check of the status works on such a request.
Jobs ==
  \A c \in Controllers : job[c].pc \notin {"idle", "get", "ack"} =>
    /\ ~IsDrill(RequestOf(c))
    /\ Dispatch(RequestOf(c)) \in outbox
    /\ NeedsApproval(RequestOf(c)) => StatusChanged(RequestOf(c), "Approved") \in outbox

\* An announced success can only be hidden by a rejection: its command is in the outbox, so that
\* a second approval would write a second row under the same key.
Successes ==
  \A r \in Requests : StatusChanged(r, "Succeeded") \in outbox =>
    requests[r] \in {"Succeeded", "Rejected"} /\ Dispatch(r) \in outbox

\* The same of a success a controller is about to announce.
Announcing ==
  \A c \in Controllers : job[c].pc = "emitSucceeded" =>
    requests[RequestOf(c)] \in {"Succeeded", "Rejected"}

SwitchInv == Approvals /\ Decisions /\ Jobs /\ Successes /\ Announcing /\ OperationTracksRequest

-----------------------------------------------------------------------------
(* Each conjunct under the steps that do not write what it is about. *)

\* A controller's knowledge survives what others do: rows of the outbox are never taken back.
LEMMA JobsKept ==
  ASSUME Jobs, outbox \subseteq outbox', UNCHANGED job
  PROVE  Jobs'
BY Zenon DEF Jobs, RequestOf

\* HandleCommand checks the status in its first step only, and carries what it saw along.
LEMMA JobsMoved ==
  ASSUME Jobs, outbox \subseteq outbox', NEW c \in Controllers, NEW pc, Moved(c, pc),
         job[c].pc \notin {"idle", "get", "ack"} \/ pc \in {"idle", "get", "ack"}
  PROVE  Jobs'
<1>1. RequestOf(c)' = RequestOf(c) /\ \A d \in Controllers \ {c} : RequestOf(d)' = RequestOf(d) /\ job'[d] = job[d]
  BY Zenon DEF Moved, RequestOf
<1> QED BY Zenon, <1>1 DEF Jobs, Moved

\* A delivery, an acknowledgement and a crash leave no controller past the check.
LEMMA JobsReplaced ==
  ASSUME Jobs, outbox \subseteq outbox', NEW c \in Controllers, Replaced(c)
  PROVE  Jobs'
<1>1. \A d \in Controllers \ {c} : RequestOf(d)' = RequestOf(d) /\ job'[d] = job[d]
  BY Zenon DEF Replaced, RequestOf
<1> QED BY Zenon, <1>1 DEF Jobs, Replaced

\* A controller that did not just record a success announces what it announced before.
LEMMA AnnouncingKept ==
  ASSUME Shape, Announcing, NEW c \in Controllers,
         Replaced(c) \/ \E pc \in PCs \ {"emitSucceeded"} : Moved(c, pc),
         UNCHANGED requests
  PROVE  Announcing'
<1>1. /\ job'[c].pc # "emitSucceeded"
      /\ \A d \in Controllers \ {c} : RequestOf(d)' = RequestOf(d) /\ job'[d] = job[d]
  BY Zenon DEF Replaced, Moved, RequestOf
<1> QED BY Zenon, <1>1 DEF Announcing

\* Steps that leave the request tables alone and announce no success.
LEMMA TablesKept ==
  ASSUME SwitchInv, UNCHANGED <<requests, operations, opViews>>, outbox \subseteq outbox',
         \A r \in Requests : StatusChanged(r, "Succeeded") \in outbox' => StatusChanged(r, "Succeeded") \in outbox
  PROVE  Approvals' /\ Successes' /\ OperationTracksRequest'
BY Zenon DEF SwitchInv, Approvals, Successes, OperationTracksRequest

\* Whoever writes the request and both rows of its operation ends any departure of the two.
LEMMA RowsMeet ==
  ASSUME OperationTracksRequest, NEW r \in Requests, outbox \subseteq outbox',
         requests'[r] # "absent", operations'[r] = opViews'[r],
         operations'[r].status = operationStatusForRequest(requests'[r]),
         \A q \in Requests \ {r} : /\ requests'[q] = requests[q]
                                  /\ operations'[q] = operations[q]
                                  /\ opViews'[q] = opViews[q]
  PROVE  OperationTracksRequest'
<1> DEFINE Tracks(q) ==
      /\ opViews[q] = operations[q]
      /\ requests[q] = "absent" => operations[q] = NoRow
      /\ requests[q] # "absent" =>
           \/ operations[q].status = operationStatusForRequest(requests[q])
           \/ operations[q].status = "cancelled" /\ requests[q] \in {"PendingApproval", "Approved"}
           \/ /\ operations[q].status = "queued" /\ requests[q] = "PendingApproval"
              /\ \E id \in ReadySteps(q) : StepRequested(q, id) \in outbox
           \/ /\ operations[q].status = "failed" /\ requests[q] \in {"PendingApproval", "Approved", "Dispatched"}
              /\ \E id \in ReadySteps(q) : StepFailed(q, id) \in outbox
<1>1. Tracks(r)'
  BY Zenon
<1>2. ASSUME NEW q \in Requests \ {r}
      PROVE  Tracks(q)'
  <2>1. Tracks(q)
    BY Zenon DEF OperationTracksRequest
  <2>2. /\ requests'[q] = requests[q] /\ operations'[q] = operations[q] /\ opViews'[q] = opViews[q]
        /\ \A e : e \in outbox => e \in outbox'
    BY Zenon
  <2> QED BY Zenon, <2>1, <2>2
<1>3. \A q \in Requests : Tracks(q)'
  <2> HIDE DEF Tracks
  <2> QED BY Zenon, <1>1, <1>2
<1> QED BY Zenon, <1>3 DEF OperationTracksRequest

\* The rows of a request that is new to the tables, waiting or approved.
LEMMA RowsInserted ==
  ASSUME Shape, SwitchInv, NEW r \in Requests, NEW status \in {"PendingApproval", "Approved", "DrillCompleted"},
         requests[r] = "absent", Insert(r, status), outbox \subseteq outbox',
         \A q \in Requests : StatusChanged(q, "Succeeded") \in outbox' => StatusChanged(q, "Succeeded") \in outbox,
         IsDrill(r) <=> status = "DrillCompleted",
         status = "Approved" => Dispatch(r) \in outbox' /\ ~NeedsApproval(r),
         UNCHANGED <<session, job>>
  PROVE  SwitchInv'
<1>0. status \in Statuses
  BY Zenon DEF Statuses
<1>1. /\ requests'[r] = status
      /\ operations'[r].status = operationStatusForRequest(status)
      /\ operations'[r] = opViews'[r]
      /\ \A q \in Requests \ {r} : /\ requests'[q] = requests[q]
                                   /\ operations'[q] = operations[q]
                                   /\ opViews'[q] = opViews[q]
  BY Zenon, <1>0, RowInserted
<1>2. Approvals'
  BY Zenon, <1>1 DEF SwitchInv, Approvals, Carried
<1>3. Decisions'
  BY <1>1 DEF SwitchInv, Decisions, Shape
<1>4. Jobs'
  BY Zenon, JobsKept DEF SwitchInv
<1>5. Successes'
  BY Zenon, <1>1 DEF SwitchInv, Successes
<1>6. Announcing'
  <2>1. \A c \in Controllers : RequestOf(c)' = RequestOf(c)
    BY Zenon DEF RequestOf
  <2> QED BY Zenon, <1>1, <2>1, RequestAtHand DEF SwitchInv, Announcing
<1>7. OperationTracksRequest'
  BY Zenon, <1>1, RowsMeet DEF SwitchInv
<1> QED BY Zenon, <1>2, <1>3, <1>4, <1>5, <1>6, <1>7 DEF SwitchInv

\* A transition of the controller starts from Approved or Dispatched: it meets no verdict.
LEMMA StatusMoved ==
  ASSUME Shape, SwitchInv, NEW c \in Controllers, job[c].pc \notin {"idle", "get", "ack"},
         NEW from \in {"Approved", "Dispatched"}, NEW to \in {"Dispatched", "Failed", "Succeeded"},
         Transition(RequestOf(c), {from}, to),
         NEW pc \in PCs, Moved(c, pc), pc = "emitSucceeded" => to = "Succeeded",
         UNCHANGED session
  PROVE  SwitchInv'
<1> DEFINE r == RequestOf(c)
<1>0. r \in Requests /\ to \in Statuses
  BY Zenon, RequestAtHand DEF Statuses
<1>1. /\ requests[r] = from /\ outbox' = outbox
      /\ WriteStatus(r, to, operationStatusForRequest(to))
  BY Zenon DEF Transition
<1> HIDE DEF r
<1>2. /\ requests'[r] = to
      /\ operations'[r].status = operationStatusForRequest(to)
      /\ operations[r] = opViews[r] => operations'[r] = opViews'[r]
      /\ \A q \in Requests \ {r} : /\ requests'[q] = requests[q]
                                   /\ operations'[q] = operations[q]
                                   /\ opViews'[q] = opViews[q]
  BY ZenonT(30), <1>0, <1>1, StatusWritten
<1>3. Approvals'
  BY Zenon, <1>0, <1>1, <1>2 DEF SwitchInv, Approvals, Carried
<1>4. Decisions'
  BY <1>2 DEF SwitchInv, Decisions, Shape
<1>5. Jobs'
  BY Zenon, <1>1, JobsMoved DEF SwitchInv
<1>6. Successes'
  BY Zenon, <1>0, <1>1, <1>2 DEF SwitchInv, Successes
<1>7. Announcing'
  <2>1. /\ job'[c].pc = pc /\ RequestOf(c)' = r
        /\ \A d \in Controllers \ {c} : RequestOf(d)' = RequestOf(d) /\ job'[d] = job[d]
    BY Zenon DEF Moved, RequestOf, r
  <2>2. ASSUME NEW d \in Controllers \ {c}, job'[d].pc = "emitSucceeded"
        PROVE  requests'[RequestOf(d)'] \in {"Succeeded", "Rejected"}
    <3>1. RequestOf(d) \in Requests /\ requests[RequestOf(d)] \in {"Succeeded", "Rejected"}
      BY Zenon, <2>1, <2>2, RequestAtHand DEF SwitchInv, Announcing
    <3> QED BY <1>1, <1>2, <2>1, <3>1
  <2> QED BY Zenon, <1>2, <2>1, <2>2 DEF Announcing
<1>8. OperationTracksRequest'
  <2>1. requests'[r] # "absent" /\ operations[r] = opViews[r] /\ outbox \subseteq outbox'
    BY Zenon, <1>0, <1>1, <1>2 DEF SwitchInv, OperationTracksRequest
  <2> QED BY Zenon, <1>0, <1>2, <2>1, RowsMeet DEF SwitchInv
<1> QED BY Zenon, <1>3, <1>4, <1>5, <1>6, <1>7, <1>8 DEF SwitchInv

\* A decision of apiserver is written whatever the status is by then; an approval aborts when the
\* command is already in the outbox.
LEMMA DecisionWritten ==
  ASSUME Shape, SwitchInv, NEW u \in Users, UpdateSwitchRequestStatus(u)
  PROVE  SwitchInv'
<1> DEFINE r == session[u].request
           to == session[u].to
<1>0. /\ r \in Requests /\ to \in {"Approved", "Rejected"} /\ to \in Statuses
      /\ requests[r] # "absent" /\ ~IsDrill(r)
  BY DEF UpdateSwitchRequestStatus, Shape, Statuses, SwitchInv, Decisions
<1>1. /\ WriteStatus(r, to, operationStatusForRequest(to))
      /\ session' = [session EXCEPT ![u] = [request |-> NoRequest, to |-> "none"]]
      /\ UNCHANGED job
  BY Zenon DEF UpdateSwitchRequestStatus
<1>2. /\ outbox \subseteq outbox' /\ StatusChanged(r, to) \in outbox'
      /\ to = "Approved" => Dispatch(r) \notin outbox /\ Dispatch(r) \in outbox'
      /\ \A e \in outbox' \ outbox : e = StatusChanged(r, to) \/ e = Dispatch(r)
  BY Zenon DEF UpdateSwitchRequestStatus, Emit
<1> HIDE DEF r, to
<1>3. /\ requests'[r] = to
      /\ operations'[r].status = operationStatusForRequest(to)
      /\ operations[r] = opViews[r] => operations'[r] = opViews'[r]
      /\ \A q \in Requests \ {r} : /\ requests'[q] = requests[q]
                                   /\ operations'[q] = operations[q]
                                   /\ opViews'[q] = opViews[q]
  BY <1>0, <1>1, StatusWritten
<1>4. Approvals'
  BY ZenonT(30), <1>0, <1>2, <1>3 DEF SwitchInv, Approvals, Carried
<1>5. Decisions'
  <2>1. \A v \in Users : session'[v] = session[v] \/ session'[v].request = NoRequest
    BY Zenon, <1>1 DEF Shape
  <2>2. \A q \in Requests : requests[q] # "absent" => requests'[q] # "absent"
    BY Zenon, <1>0, <1>3
  <2> QED BY <2>1, <2>2 DEF SwitchInv, Decisions, Shape
<1>6. Jobs'
  BY Zenon, <1>1, <1>2, JobsKept DEF SwitchInv
<1>7. Successes'
  <2>1. \A q \in Requests : StatusChanged(q, "Succeeded") \in outbox' => StatusChanged(q, "Succeeded") \in outbox
    BY ZenonT(30), <1>0, <1>2, EventsDiffer
  <2> QED BY Zenon, <1>0, <1>2, <1>3, <2>1 DEF SwitchInv, Successes
<1>8. Announcing'
  <2>1. \A d \in Controllers : RequestOf(d)' = RequestOf(d) /\ job'[d] = job[d]
    BY Zenon, <1>1 DEF RequestOf
  <2>2. ASSUME NEW d \in Controllers, job[d].pc = "emitSucceeded"
        PROVE  requests'[RequestOf(d)] \in {"Succeeded", "Rejected"}
    <3>1. /\ RequestOf(d) \in Requests /\ requests[RequestOf(d)] \in {"Succeeded", "Rejected"}
          /\ Dispatch(RequestOf(d)) \in outbox
      BY Zenon, <2>2, RequestAtHand DEF SwitchInv, Announcing, Jobs
    <3> QED BY Zenon, <1>0, <1>2, <1>3, <3>1
  <2> QED BY Zenon, <2>1, <2>2 DEF Announcing
<1>9. OperationTracksRequest'
  <2>1. requests'[r] # "absent" /\ operations[r] = opViews[r]
    BY Zenon, <1>0, <1>3 DEF SwitchInv, OperationTracksRequest
  <2> QED BY Zenon, <1>0, <1>2, <1>3, <2>1, RowsMeet DEF SwitchInv
<1> QED BY ZenonT(30), <1>4, <1>5, <1>6, <1>7, <1>8, <1>9 DEF SwitchInv

\* A plan has a step that waits for no other.
LEMMA ReadyStep ==
  ASSUME NEW r \in Requests
  PROVE  \E id \in DOMAIN BuildPlan(r) : id \in ReadySteps(r)
<1>1. KindOf[r] \in {"failover", "switchback", "weight-update", "drill"}
  BY Zenon, GSLBAssumption DEF Kinds
<1>2. CASE KindOf[r] \in {"failover", "switchback"}
  <2> DEFINE a == PlanStep("dns_apply", Targets(TargetPoolOf(r)), {}, "revert")
             v == PlanStep("dns_verify", Targets(TargetPoolOf(r)), {"apply"}, "none")
             w == PlanStep("dns_revert", PreviousTargets(r), {}, "none")
  <2>1. BuildPlan(r) = [apply |-> a, verify |-> v, revert |-> w]
    BY Zenon, <1>2 DEF BuildPlan
  <2>2. a.dependsOn = {}
    BY Zenon DEF PlanStep
  <2> HIDE DEF a, v, w
  <2>3. "apply" \in DOMAIN BuildPlan(r) /\ BuildPlan(r)["apply"] = a
    BY SMT, <2>1
  <2> QED BY Zenon, <2>2, <2>3 DEF ReadySteps
<1>3. CASE KindOf[r] = "weight-update"
  <2> DEFINE a == PlanStep("dns_apply", {}, {}, "none")
             v == PlanStep("dns_verify", {}, {"apply"}, "none")
  <2>1. BuildPlan(r) = [apply |-> a, verify |-> v]
    BY Zenon, <1>3 DEF BuildPlan
  <2>2. a.dependsOn = {}
    BY Zenon DEF PlanStep
  <2> HIDE DEF a, v
  <2>3. "apply" \in DOMAIN BuildPlan(r) /\ BuildPlan(r)["apply"] = a
    BY SMT, <2>1
  <2> QED BY Zenon, <2>2, <2>3 DEF ReadySteps
<1>4. CASE KindOf[r] = "drill"
  <2> DEFINE a == PlanStep("drill_compute", {}, {}, "none")
  <2>1. BuildPlan(r) = [compute |-> a]
    BY Zenon, <1>4 DEF BuildPlan
  <2>2. a.dependsOn = {}
    BY Zenon DEF PlanStep
  <2> HIDE DEF a
  <2>3. "compute" \in DOMAIN BuildPlan(r) /\ BuildPlan(r)["compute"] = a
    BY SMT, <2>1
  <2> QED BY Zenon, <2>2, <2>3 DEF ReadySteps
<1> QED BY Zenon, <1>1, <1>2, <1>3, <1>4

\* What an open operation says of its request.
LEMMA OpenOperation ==
  ASSUME Shape, OperationTracksRequest, NEW r \in Requests
  PROVE  /\ operations[r].status = "pending_approval" => requests[r] = "PendingApproval"
         /\ operations[r].status = "queued" => requests[r] \in {"PendingApproval", "Approved"}
         /\ operations[r].status = "in_progress" => requests[r] = "Dispatched"
<1>1. requests[r] \in Statuses \cup {"absent"}
  BY Zenon DEF Shape
<1>2. requests[r] = "absent" => operations[r].status = "absent"
  <2>1. NoRow.status = "absent"
    BY Zenon DEF NoRow
  <2> QED BY Zenon, <2>1 DEF OperationTracksRequest
<1>3. requests[r] # "absent" =>
        \/ operations[r].status = operationStatusForRequest(requests[r])
        \/ operations[r].status \in {"cancelled", "failed"}
        \/ operations[r].status = "queued" /\ requests[r] = "PendingApproval"
  BY Zenon DEF OperationTracksRequest
<1>4. ASSUME NEW st \in Statuses
      PROVE  /\ operationStatusForRequest(st) = "pending_approval" => st = "PendingApproval"
             /\ operationStatusForRequest(st) = "queued" => st = "Approved"
             /\ operationStatusForRequest(st) = "in_progress" => st = "Dispatched"
  BY SMT DEF operationStatusForRequest, Statuses
<1> QED BY Zenon, <1>1, <1>2, <1>3, <1>4

\* What is written to the operation alone stays within what its request allows.
LEMMA CentreTracks ==
  ASSUME Shape, OperationTracksRequest, OperationCentre
  PROVE  OperationTracksRequest'
<1>1. PICK r \in Requests : ApproveOperation(r) \/ RejectOperation(r) \/ CancelOperation(r) \/ CommitStepFailure(r)
  BY Zenon DEF OperationCentre
<1>2. UNCHANGED requests /\ outbox \subseteq outbox'
  BY Zenon, CentreLeaves
<1>3. PICK from, to, n : MoveOperation(r, from, to, n)
  BY Zenon, <1>1 DEF ApproveOperation, RejectOperation, CancelOperation, CommitStepFailure
<1>4. /\ operations'[r] = opViews'[r]
      /\ \A q \in Requests \ {r} : operations'[q] = operations[q] /\ opViews'[q] = opViews[q]
  BY Zenon, <1>3 DEF MoveOperation, Shape
<1>5. /\ requests[r] # "absent"
      /\ \/ operations'[r].status = "cancelled" /\ requests[r] \in {"PendingApproval", "Approved"}
         \/ /\ operations'[r].status = "queued" /\ requests[r] = "PendingApproval"
            /\ \E id \in ReadySteps(r) : StepRequested(r, id) \in outbox'
         \/ /\ operations'[r].status = "failed" /\ requests[r] \in {"PendingApproval", "Approved", "Dispatched"}
            /\ \E id \in ReadySteps(r) : StepFailed(r, id) \in outbox'
  <2>1. ASSUME NEW open, NEW new, NEW k, MoveOperation(r, open, new, k)
        PROVE  operations[r].status \in open /\ operations'[r].status = new
    BY Zenon, <2>1 DEF MoveOperation, Shape
  <2>2. CASE ApproveOperation(r)
    <3>1. operations[r].status = "pending_approval" /\ operations'[r].status = "queued"
      BY Zenon, <2>1, <2>2 DEF ApproveOperation
    <3>2. \E id \in ReadySteps(r) : StepRequested(r, id) \in outbox'
      BY Zenon, <2>2, ReadyStep DEF ApproveOperation
    <3> QED BY Zenon, <3>1, <3>2, OpenOperation
  <2>3. CASE RejectOperation(r) \/ CancelOperation(r)
    <3>1. operations[r].status \in {"pending_approval", "queued"} /\ operations'[r].status = "cancelled"
      BY Zenon, <2>1, <2>3 DEF RejectOperation, CancelOperation
    <3> QED BY Zenon, <3>1, OpenOperation
  <2>4. CASE CommitStepFailure(r)
    <3>1. operations[r].status \in {"queued", "in_progress"} /\ operations'[r].status = "failed"
      BY Zenon, <2>1, <2>4 DEF CommitStepFailure
    <3>2. \E id \in ReadySteps(r) : StepFailed(r, id) \in outbox'
      BY Zenon, <2>4 DEF CommitStepFailure, Emit
    <3> QED BY Zenon, <3>1, <3>2, OpenOperation
  <2> QED BY Zenon, <1>1, <2>2, <2>3, <2>4
<1> QED BY ZenonT(40), <1>2, <1>4, <1>5 DEF OperationTracksRequest

\* Each step keeps the invariant.
LEMMA SwitchStep ==
  ASSUME Shape, DRShape, SwitchInv, [DRNext]_<<vars, drVars>>
  PROVE  SwitchInv'
<1>1. ASSUME NEW r \in Requests, SubmitIntent(r), UNCHANGED <<session, job>>
      PROVE  SwitchInv'
  <2>1. /\ outbox \subseteq outbox'
        /\ InitialStatus(r) = "Approved" => Dispatch(r) \in outbox'
        /\ \A e \in outbox' \ outbox : e = Submitted(r) \/ e = Dispatch(r)
    BY Zenon, <1>1, SubmitInserts
  <2>2. \A q \in Requests : StatusChanged(q, "Succeeded") \in outbox' => StatusChanged(q, "Succeeded") \in outbox
    BY Zenon, <2>1, EventsDiffer
  <2> QED BY Zenon, <1>1, <2>1, <2>2, SubmitInserts, RowsInserted
<1>2. ASSUME UNCHANGED <<requests, operations, opViews, session, job>>, outbox \subseteq outbox',
             \A r \in Requests : StatusChanged(r, "Succeeded") \in outbox' => StatusChanged(r, "Succeeded") \in outbox
      PROVE  SwitchInv'
  <2>1. Decisions' /\ Announcing'
    BY Zenon, <1>2 DEF SwitchInv, Decisions, Announcing, RequestOf
  <2> QED BY Zenon, <1>2, <2>1, TablesKept, JobsKept DEF SwitchInv
<1>3. ASSUME NEW u \in Users, NEW r \in Requests, NEW to \in {"Approved", "Rejected"}, ReadForDecision(u, r, to)
      PROVE  SwitchInv'
  <2>1. UNCHANGED <<requests, operations, opViews, outbox, job>> /\ requests[r] = "PendingApproval"
    BY Zenon, <1>3 DEF ReadForDecision, tables
  <2>2. \A v \in Users : session'[v] = session[v] \/ session'[v].request = r
    BY Zenon, <1>3 DEF ReadForDecision, Shape
  <2>3. Decisions' /\ Announcing'
    BY Zenon, <2>1, <2>2 DEF SwitchInv, Decisions, Announcing, RequestOf, Approvals
  <2> QED BY Zenon, <2>1, <2>3, TablesKept, JobsKept DEF SwitchInv
<1>4. ASSUME NEW u \in Users, DecisionFails(u)
      PROVE  SwitchInv'
  <2>1. UNCHANGED <<requests, operations, opViews, outbox, job>>
    BY Zenon, <1>4 DEF DecisionFails, tables
  <2>2. \A v \in Users : session'[v] = session[v] \/ session'[v].request = NoRequest
    BY Zenon, <1>4 DEF DecisionFails, Shape
  <2>3. Decisions' /\ Announcing'
    BY Zenon, <2>1, <2>2 DEF SwitchInv, Decisions, Announcing, RequestOf
  <2> QED BY Zenon, <2>1, <2>3, TablesKept, JobsKept DEF SwitchInv
<1>5. ASSUME NEW c \in Controllers, Ack(c) \/ CrashController(c) \/ \E m \in unacked : Deliver(c, m)
      PROVE  SwitchInv'
  <2>1. Replaced(c) /\ UNCHANGED <<requests, operations, opViews, outbox, session>>
    BY Zenon, <1>5, DeliveryMoves DEF tables
  <2>2. Decisions'
    BY Zenon, <2>1 DEF SwitchInv, Decisions
  <2> QED BY Zenon, <2>1, <2>2, TablesKept, JobsReplaced, AnnouncingKept DEF SwitchInv
<1>6. ASSUME NEW c \in Controllers, GetRequest(c)
      PROVE  SwitchInv'
  <2>1. UNCHANGED <<requests, operations, opViews, outbox, session>> /\ job[c].pc = "get"
    BY Zenon, <1>6, GetMoves DEF tables, At
  <2>2. Decisions'
    BY Zenon, <2>1 DEF SwitchInv, Decisions
  <2>3. PICK pc \in {"ack", "dispatch", "run"} :
          Moved(c, pc) /\ (pc # "ack" => requests[RequestOf(c)] \in {"Approved", "Dispatched"})
    BY Zenon, <1>6, GetMoves
  <2>4. Announcing'
    BY Zenon, <2>1, <2>3, AnnouncingKept DEF SwitchInv, PCs
  <2>5. Jobs'
    <3>1. RequestOf(c) \in Requests
      BY Zenon, <2>1, RequestAtHand
    <3>2. /\ job'[c].pc = pc /\ RequestOf(c)' = RequestOf(c)
          /\ \A d \in Controllers \ {c} : RequestOf(d)' = RequestOf(d) /\ job'[d] = job[d]
      BY Zenon, <2>3 DEF Moved, RequestOf
    <3> QED BY <2>1, <2>3, <3>1, <3>2 DEF SwitchInv, Jobs, Approvals, Carried
  <2> QED BY Zenon, <2>1, <2>2, <2>4, <2>5, TablesKept DEF SwitchInv
<1>7. ASSUME NEW c \in Controllers, ExecuteStep(c) \/ StepFails(c) \/ Compensate(c)
      PROVE  SwitchInv'
  <2>1. UNCHANGED <<requests, operations, opViews, outbox, session>> /\ job[c].pc \in {"run", "compensate"}
    BY Zenon, <1>7, PlanMoves DEF tables
  <2>2. PICK pc \in {"run", "succeed", "fail", "compensate"} : Moved(c, pc)
    BY Zenon, <1>7, PlanMoves
  <2>3. Decisions' /\ Announcing' /\ Jobs'
    BY Zenon, <2>1, <2>2, AnnouncingKept, JobsMoved DEF SwitchInv, Decisions, PCs
  <2> QED BY Zenon, <2>1, <2>3, TablesKept DEF SwitchInv
<1>8. ASSUME NEW c \in Controllers, DispatchRequest(c) \/ RecordFailed(c) \/ RecordSucceeded(c)
      PROVE  SwitchInv'
  <2>1. job[c].pc \in {"dispatch", "fail", "succeed"} /\ UNCHANGED session
    BY Zenon, <1>8, VerdictMoves DEF At
  <2>2. CASE UNCHANGED tables /\ \E pc \in {"ack", "emitFailed"} : Moved(c, pc)
    <3>1. PICK pc \in {"ack", "emitFailed"} : Moved(c, pc)
      BY Zenon, <2>2
    <3>2. UNCHANGED <<requests, operations, opViews, outbox>>
      BY Zenon, <2>2 DEF tables
    <3>3. Decisions' /\ Announcing' /\ Jobs'
      BY Zenon, <2>1, <3>1, <3>2, AnnouncingKept, JobsMoved DEF SwitchInv, Decisions, PCs
    <3> QED BY Zenon, <3>2, <3>3, TablesKept DEF SwitchInv
  <2>3. ASSUME NEW pc \in PCs, Moved(c, pc),
               NEW from \in {"Approved", "Dispatched"}, NEW to \in {"Dispatched", "Failed", "Succeeded"},
               Transition(RequestOf(c), {from}, to), pc = "emitSucceeded" => to = "Succeeded"
        PROVE  SwitchInv'
    BY Zenon, <2>1, <2>3, StatusMoved
  <2>4. CASE DispatchRequest(c)
    BY Zenon, <2>2, <2>3, <2>4, VerdictMoves DEF PCs
  <2>5. CASE RecordFailed(c)
    BY Zenon, <2>2, <2>3, <2>5, VerdictMoves DEF PCs
  <2>6. CASE RecordSucceeded(c)
    BY Zenon, <2>2, <2>3, <2>6, VerdictMoves DEF PCs
  <2> QED BY Zenon, <1>8, <2>4, <2>5, <2>6
<1>9. ASSUME NEW c \in Controllers, NEW status \in {"Failed", "Succeeded"}, EmitStatusChanged(c, status)
      PROVE  SwitchInv'
  <2>1. /\ job[c].pc = IF status = "Failed" THEN "emitFailed" ELSE "emitSucceeded"
        /\ UNCHANGED <<requests, operations, opViews, session>> /\ Moved(c, "ack")
        /\ outbox' = outbox \/ outbox' = outbox \cup {StatusChanged(RequestOf(c), status)}
    BY Zenon, <1>9, VerdictMoves DEF Emit
  <2>2. Decisions' /\ Announcing' /\ Jobs'
    BY Zenon, <2>1, AnnouncingKept, JobsMoved DEF SwitchInv, Decisions, PCs
  <2>3. CASE status = "Failed" \/ outbox' = outbox
    <3>1. \A r \in Requests : StatusChanged(r, "Succeeded") \in outbox' => StatusChanged(r, "Succeeded") \in outbox
      BY <2>1, <2>3, EventsDiffer
    <3> QED BY Zenon, <2>1, <2>2, <3>1, TablesKept DEF SwitchInv
  <2>4. CASE status = "Succeeded" /\ outbox' = outbox \cup {StatusChanged(RequestOf(c), "Succeeded")}
    <3>1. /\ RequestOf(c) \in Requests /\ requests[RequestOf(c)] \in {"Succeeded", "Rejected"}
          /\ Dispatch(RequestOf(c)) \in outbox
      BY Zenon, <2>1, <2>4, RequestAtHand DEF SwitchInv, Announcing, Jobs
    <3>2. Successes'
      BY SMTT(30), <2>1, <2>4, <3>1, EventsDiffer DEF SwitchInv, Successes
    <3>3. Approvals' /\ OperationTracksRequest'
      BY Zenon, <2>1, <2>4 DEF SwitchInv, Approvals, OperationTracksRequest
    <3> QED BY Zenon, <2>2, <3>2, <3>3 DEF SwitchInv
  <2> QED BY Zenon, <2>1, <2>3, <2>4
<1>10. ASSUME NEW c \in Controllers, EnsureFailoverRequest(c)
       PROVE  SwitchInv'
  <2>1. UNCHANGED <<session, job>>
    BY Zenon, <1>10 DEF EnsureFailoverRequest
  <2>2. PICK s \in deciding[c] :
          \/ /\ requests[AutoRequest[s]] = "absent" /\ outbox' = outbox \cup {<<"auto", s>>}
             /\ Insert(AutoRequest[s], "PendingApproval")
          \/ UNCHANGED tables
    BY Zenon, <1>10 DEF EnsureFailoverRequest, Emit
  <2>3. s \in Services /\ AutoRequest[s] \in Requests /\ ~IsDrill(AutoRequest[s])
    <3>1. s \in Services
      BY Zenon DEF Shape
    <3>2. AutoRequest[s] \in Autos /\ AutoRequest[s] \in Requests
      BY Zenon, <3>1, GSLBAssumption DEF Autos
    <3> QED BY Zenon, <3>1, <3>2, GSLBAssumption DEF IsDrill
  <2>4. CASE UNCHANGED tables
    BY Zenon, <1>2, <2>1, <2>4 DEF tables
  <2>5. CASE /\ requests[AutoRequest[s]] = "absent" /\ outbox' = outbox \cup {<<"auto", s>>}
             /\ Insert(AutoRequest[s], "PendingApproval")
    <3>1. \A q \in Requests : StatusChanged(q, "Succeeded") \in outbox' => StatusChanged(q, "Succeeded") \in outbox
      BY Zenon, <2>5, EventsDiffer
    <3> QED BY Zenon, <2>1, <2>3, <2>5, <3>1, RowsInserted
  <2> QED BY Zenon, <2>2, <2>4, <2>5
<1>11. ASSUME NEW a \in Callers, CreateRun(a) \/ ConfirmDataLayer(a) \/ FinishDispatch(a) \/ failRun(a)
       PROVE  SwitchInv'
  <2>1. UNCHANGED <<requests, operations, opViews, session, job>>
    BY Zenon, <1>11 DEF CreateRun, ConfirmDataLayer, FinishDispatch, failRun
  <2>2. \E k, subject : outbox' = outbox \cup {Event(k, subject)}
    BY Zenon, <1>11 DEF CreateRun, ConfirmDataLayer, FinishDispatch, failRun, UpdateRun, Emit
  <2> QED BY SMTT(30), <1>2, <2>1, <2>2, EventsDiffer
<1>12. ASSUME NEW a \in Callers, NEW s \in Services, DispatchMember(a, s)
       PROVE  SwitchInv'
  <2>1. call[a].run \in Runs
    BY Zenon, <1>12 DEF DispatchMember, DRShape
  <2>2. RequestFor[call[a].run][s] \in Requests
    BY SMTT(30), <2>1, GSLBAssumption, DRAssumption
  <2>3. SubmitIntent(RequestFor[call[a].run][s]) \/ UNCHANGED tables
    BY Zenon, <1>12 DEF DispatchMember
  <2>4. UNCHANGED <<session, job>>
    BY Zenon, <1>12 DEF DispatchMember
  <2> QED BY Zenon, <1>1, <1>2, <2>2, <2>3, <2>4 DEF tables
<1>13. ASSUME UNCHANGED <<requests, operations, opViews, outbox, session, job>>
       PROVE  SwitchInv'
  BY Zenon, <1>2, <1>13
<1>14. ASSUME NEW r \in Requests, PublishCommand(r)
       PROVE  SwitchInv'
  BY Zenon, <1>13, <1>14 DEF PublishCommand
<1>15. ASSUME NEW c \in Controllers, NEW up \in SUBSET Clusters, Reconcile(c, Domain, up)
       PROVE  SwitchInv'
  BY Zenon, <1>13, <1>15 DEF Reconcile, tables
<1>16. CASE UNCHANGED vars
  BY Zenon, <1>13, <1>16 DEF vars, tables
<1>17. CASE OperationCentre
  <2>1. /\ UNCHANGED <<requests, session, job>> /\ outbox \subseteq outbox'
        /\ \A r \in Requests : StatusChanged(r, "Succeeded") \in outbox' => StatusChanged(r, "Succeeded") \in outbox
    BY Zenon, <1>17, CentreLeaves
  <2>2. Approvals' /\ Successes' /\ Decisions' /\ Announcing'
    BY Zenon, <2>1 DEF SwitchInv, Approvals, Successes, Decisions, Announcing, RequestOf
  <2> QED BY Zenon, <1>17, <2>1, <2>2, CentreTracks, JobsKept DEF SwitchInv
<1> QED
  BY ZenonT(30), <1>1, <1>3, <1>4, <1>5, <1>6, <1>7, <1>8, <1>9, <1>10, <1>11, <1>12, <1>14, <1>15, <1>16, <1>17,
            DecisionWritten
  DEF DRNext, DRStep, Next, Apiserver, Controller, Submit, AddMember, InitiateSwitch, ReadRun, CallEnds

-----------------------------------------------------------------------------
(* The traffic a controller changes. *)

\* DNS is written only by a controller that runs or compensates a plan, for its own service.
LEMMA TrafficStep ==
  ASSUME [DRNext]_<<vars, drVars>>
  PROVE  \/ UNCHANGED dns
         \/ \E c \in Controllers : /\ job[c].pc \in {"run", "compensate"}
                                   /\ \E targets : Applied(RequestOf(c), targets)
<1>1. ASSUME NEW c \in Controllers, ExecuteStep(c) \/ StepFails(c) \/ Compensate(c)
      PROVE  /\ job[c].pc \in {"run", "compensate"}
             /\ UNCHANGED dns \/ \E targets : Applied(RequestOf(c), targets)
  <2>1. CASE ExecuteStep(c)
    BY Zenon, <2>1 DEF ExecuteStep, At
  <2>2. CASE StepFails(c)
    BY Zenon, <2>2 DEF StepFails, At
  <2>3. CASE Compensate(c)
    BY Zenon, <2>3 DEF Compensate, At
  <2> QED BY Zenon, <1>1, <2>1, <2>2, <2>3
<1>2. CASE DRStep
  BY ZenonT(30), <1>2 DEF DRStep, AddMember, InitiateSwitch, ReadRun, CreateRun, ConfirmDataLayer, FinishDispatch,
              failRun, CallEnds, DispatchMember, vars
<1>3. CASE Apiserver
  BY ZenonT(30), <1>3 DEF Apiserver, Submit, PublishCommand, ReadForDecision, UpdateSwitchRequestStatus, DecisionFails
<1>4. ASSUME NEW c \in Controllers, Controller(c)
      PROVE  UNCHANGED dns \/ ExecuteStep(c) \/ StepFails(c) \/ Compensate(c)
  BY Zenon, <1>4 DEF Controller, Deliver, GetRequest, DispatchRequest, RecordFailed, RecordSucceeded,
              EmitStatusChanged, Ack, CrashController, Reconcile, EnsureFailoverRequest
<1>5. CASE UNCHANGED vars
  BY Zenon, <1>5 DEF vars
<1>6. CASE OperationCentre
  BY Zenon, <1>6, CentreLeaves
<1> QED BY Zenon, <1>1, <1>2, <1>3, <1>4, <1>5, <1>6 DEF DRNext, Next

\* No step adds or drops the endpoint of a service.
LEMMA EndpointStep ==
  ASSUME DOMAIN dns = Services, [DRNext]_<<vars, drVars>>
  PROVE  DOMAIN dns' = Services
BY Zenon, TrafficStep DEF Applied
===============================================================================
