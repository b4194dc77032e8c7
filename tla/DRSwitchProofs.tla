--------------------------- MODULE DRSwitchProofs ---------------------------
(***************************************************************************)
(* The invariant of the runs of disaster recovery, and the theorems about  *)
(* switch requests and runs that follow from both invariants.              *)
(***************************************************************************)
EXTENDS GSLBSwitchProofs, FiniteSetTheorems, WellFoundedInduction

-----------------------------------------------------------------------------
(* Runs of disaster recovery. *)

\* One caller dispatches a run, between the switch of its data layer and the record of its requests;
\* the requests it collected are those that were submitted for the run.
Dispatchers ==
  /\ \A a, b \in Callers : call[a].pc \in {"dispatch", "fail"} /\ call[b].pc \in {"dispatch", "fail"}
                            /\ call[a].run = call[b].run => a = b
  /\ \A a \in Callers : call[a].pc \in {"dispatch", "fail"} => runs[call[a].run].status = "DataLayerCompleted"
  /\ \A a \in Callers, k \in Runs : call[a].pc = "dispatch" /\ call[a].run = k => Submissions(k) = call[a].ids

\* A caller that read a waiting run finds it waiting, or confirmed under the key of the confirmation.
Confirmations ==
  \A a \in Callers : call[a].pc = "confirm" =>
    \/ runs[call[a].run].status = "DataLayerPending"
    \/ Event(call[a].run, "confirmed") \in outbox

\* The record of a dispatched run.
Records == \A k \in Runs : runs[k].status = "AwaitingApproval" => runs[k].ids = Submissions(k)

RunInv == Dispatchers /\ Confirmations /\ DataLayerFirst /\ Records

\* Only dispatchTraffic brings requests of disaster recovery into being, and nothing removes one.
LEMMA PresenceStep ==
  ASSUME Shape, DRShape, SwitchInv, [DRNext]_<<vars, drVars>>,
         \A a \in Callers, s \in Services : ~DispatchMember(a, s)
  PROVE  \A r \in DRRequests : requests'[r] = "absent" <=> requests[r] = "absent"
<1> SUFFICES ASSUME NEW r \in DRRequests
             PROVE  requests'[r] = "absent" <=> requests[r] = "absent"
  BY Zenon
<1>0. r \in Requests
  BY Zenon, GSLBAssumption
<1>1. CASE UNCHANGED requests
  BY Zenon, <1>1
<1>2. ASSUME NEW q \in Requests, Submit(q)
      PROVE  requests'[r] = requests[r]
  BY Zenon, <1>0, <1>2 DEF Submit, SubmitIntent, Insert, Shape
<1>3. ASSUME NEW u \in Users, UpdateSwitchRequestStatus(u)
      PROVE  requests'[r] = "absent" <=> requests[r] = "absent"
  <2>1. /\ session[u].request \in Requests /\ session[u].to \in {"Approved", "Rejected"}
        /\ requests[session[u].request] # "absent"
    BY <1>3 DEF UpdateSwitchRequestStatus, Shape, SwitchInv, Decisions
  <2>2. requests' = [requests EXCEPT ![session[u].request] = session[u].to]
    BY Zenon, <1>3 DEF UpdateSwitchRequestStatus, WriteStatus
  <2> QED BY Zenon, <1>0, <2>1, <2>2 DEF Shape
<1>4. ASSUME NEW c \in Controllers, DispatchRequest(c) \/ RecordFailed(c) \/ RecordSucceeded(c)
      PROVE  requests'[r] = "absent" <=> requests[r] = "absent"
  <2>1. RequestOf(c) \in Requests
    BY Zenon, <1>4, VerdictMoves, RequestAtHand DEF At
  <2>2. \/ UNCHANGED requests
        \/ \E from \in {"Approved", "Dispatched"}, to \in {"Dispatched", "Failed", "Succeeded"} :
             Transition(RequestOf(c), {from}, to)
    BY Zenon, <1>4 DEF DispatchRequest, RecordFailed, RecordSucceeded, tables
  <2> QED BY <1>0, <2>1, <2>2 DEF Transition, WriteStatus, Shape
<1>5. ASSUME NEW c \in Controllers, EnsureFailoverRequest(c)
      PROVE  requests'[r] = requests[r]
  <2>1. PICK s \in deciding[c] : Insert(AutoRequest[s], "PendingApproval") \/ UNCHANGED requests
    BY Zenon, <1>5 DEF EnsureFailoverRequest, tables
  <2>2. AutoRequest[s] \in Autos
    BY Zenon DEF Shape, Autos
  <2>3. r # AutoRequest[s]
    BY Zenon, <2>2, GSLBAssumption
  <2> QED BY Zenon, <1>0, <2>1, <2>3 DEF Insert, Shape
<1>6. CASE DRStep
  BY Zenon, <1>1, <1>6 DEF DRStep, AddMember, InitiateSwitch, ReadRun, CreateRun, ConfirmDataLayer, FinishDispatch,
                    failRun, CallEnds, vars, tables
<1>7. CASE Apiserver
  <2>1. ASSUME NEW q \in Requests, PublishCommand(q)
        PROVE  UNCHANGED requests
    BY Zenon, <2>1 DEF PublishCommand
  <2>2. ASSUME NEW u \in Users, NEW q, NEW to, ReadForDecision(u, q, to) \/ DecisionFails(u)
        PROVE  UNCHANGED requests
    BY Zenon, <2>2 DEF ReadForDecision, DecisionFails, tables
  <2> QED BY Zenon, <1>1, <1>2, <1>3, <1>7, <2>1, <2>2 DEF Apiserver
<1>8. ASSUME NEW c \in Controllers, Controller(c)
      PROVE  \/ UNCHANGED requests \/ DispatchRequest(c) \/ RecordFailed(c) \/ RecordSucceeded(c)
             \/ EnsureFailoverRequest(c)
  BY Zenon, <1>8 DEF Controller, Deliver, GetRequest, ExecuteStep, StepFails, Compensate,
              EmitStatusChanged, Ack, CrashController, Reconcile, tables
<1>9. CASE UNCHANGED vars
  BY Zenon, <1>1, <1>9 DEF vars, tables
<1>10. CASE OperationCentre
  BY Zenon, <1>1, <1>10, CentreLeaves
<1> QED BY Zenon, <1>1, <1>4, <1>5, <1>6, <1>7, <1>8, <1>9, <1>10 DEF DRNext, Next

\* Rows of the outbox are only added.
LEMMA OutboxGrows ==
  ASSUME [DRNext]_<<vars, drVars>>
  PROVE  outbox \subseteq outbox'
<1>0. ASSUME NEW a \in Callers, CreateRun(a) \/ ConfirmDataLayer(a) \/ FinishDispatch(a) \/ failRun(a)
      PROVE  outbox \subseteq outbox'
  <2>1. \E k, subject : outbox' = outbox \cup {Event(k, subject)}
    BY Zenon, <1>0 DEF CreateRun, ConfirmDataLayer, FinishDispatch, failRun, UpdateRun, Emit
  <2> QED BY Zenon, <2>1
<1>1. CASE DRStep
  <2>1. ASSUME NEW a \in Callers, NEW s \in Services, DispatchMember(a, s)
        PROVE  outbox \subseteq outbox'
    <3>1. UNCHANGED tables \/ \E r : SubmitIntent(r)
      BY Zenon, <2>1 DEF DispatchMember
    <3> QED BY Zenon, <3>1 DEF SubmitIntent, Emit, tables
  <2> QED BY Zenon, <1>0, <1>1, <2>1 DEF DRStep, AddMember, InitiateSwitch, ReadRun, CallEnds, vars, tables
<1>2. CASE Apiserver
  BY Zenon, <1>2 DEF Apiserver, Submit, SubmitIntent, PublishCommand, ReadForDecision, UpdateSwitchRequestStatus,
              DecisionFails, Emit, tables
<1>3. ASSUME NEW c \in Controllers, Controller(c)
      PROVE  outbox \subseteq outbox'
  BY Zenon, <1>3 DEF Controller, Deliver, GetRequest, DispatchRequest, ExecuteStep, StepFails, Compensate, RecordFailed,
              RecordSucceeded, Transition, EmitStatusChanged, Ack, CrashController, Reconcile,
              EnsureFailoverRequest, Emit, tables
<1>4. CASE UNCHANGED vars
  BY Zenon, <1>4 DEF vars, tables
<1>5. CASE OperationCentre
  BY Zenon, <1>5, CentreLeaves
<1> QED BY Zenon, <1>1, <1>2, <1>3, <1>4, <1>5 DEF DRNext, Next

\* The requests of a run are the same when none of disaster recovery came into being.
LEMMA SubmissionsKept ==
  ASSUME \A r \in DRRequests : requests'[r] = "absent" <=> requests[r] = "absent", NEW k \in Runs
  PROVE  Submissions(k)' = Submissions(k)
<1>1. \A s \in Services : RequestFor[k][s] \in DRRequests
  BY DRAssumption
<1> QED BY Zenon, <1>1 DEF Submissions

\* The intent for a member adds one request to its run and none to another: keys differ.
LEMMA MemberSubmitted ==
  ASSUME Shape, NEW k \in Runs, NEW s \in Services,
         \/ SubmitIntent(RequestFor[k][s])
         \/ requests[RequestFor[k][s]] # "absent" /\ UNCHANGED requests
  PROVE  /\ Submissions(k)' = Submissions(k) \cup {RequestFor[k][s]}
         /\ \A l \in Runs \ {k} : Submissions(l)' = Submissions(l)
<1> DEFINE r == RequestFor[k][s]
<1>1. r \in Requests /\ \A l \in Runs, t \in Services : RequestFor[l][t] \in Requests
  BY GSLBAssumption, DRAssumption
<1>2. /\ requests'[r] # "absent"
      /\ \A q \in Requests \ {r} : requests'[q] = requests[q]
  <2>1. CASE SubmitIntent(r)
    <3>1. requests' = [requests EXCEPT ![r] = InitialStatus(r)] /\ InitialStatus(r) # "absent"
      BY Zenon, <1>1, <2>1, SubmitInserts DEF Insert
    <3> QED BY Zenon, <1>1, <3>1 DEF Shape
  <2>2. CASE requests[r] # "absent" /\ UNCHANGED requests
    BY Zenon, <2>2
  <2> QED BY Zenon, <2>1, <2>2
<1>3. \A l \in Runs \ {k}, t \in Services : RequestFor[l][t] # r
  BY DRAssumption
<1>4. \A l \in Runs \ {k} : Submissions(l)' = Submissions(l)
  BY <1>1, <1>2, <1>3 DEF Submissions
<1>5. Submissions(k)' = Submissions(k) \cup {r}
  BY Zenon, <1>1, <1>2 DEF Submissions
<1> QED BY Zenon, <1>4, <1>5

\* Each step keeps the invariant of runs.
LEMMA RunStep ==
  ASSUME Shape, DRShape, SwitchInv, RunInv, [DRNext]_<<vars, drVars>>
  PROVE  RunInv'
<1>0. outbox \subseteq outbox'
  BY Zenon, OutboxGrows
<1>1. ASSUME NEW a \in Callers, NEW s \in Services, DispatchMember(a, s)
      PROVE  RunInv'
  <2>0. PICK k \in Runs : k = call[a].run
    BY Zenon, <1>1 DEF DRShape, DispatchMember
  <2> DEFINE r == RequestFor[k][s]
  <2>1. /\ call[a].pc = "dispatch" /\ runs[k].status = "DataLayerCompleted"
        /\ Submissions(k) = call[a].ids
        /\ runs' = runs
    BY Zenon, <1>1, <2>0 DEF DispatchMember, RunInv, Dispatchers
  <2>4. \A b \in Callers \ {a} : call[b].pc \in {"dispatch", "fail"} => call[b].run \in Runs \ {k}
    BY Zenon, <2>0, <2>1 DEF DRShape, RunInv, Dispatchers
  <2>5. CASE /\ SubmitIntent(r) \/ (requests[r] # "absent" /\ UNCHANGED tables)
             /\ Calls(a, "dispatch", k, call[a].members \ {s}, call[a].ids \cup {r})
    <3>1. /\ Submissions(k)' = Submissions(k) \cup {r}
          /\ \A l \in Runs \ {k} : Submissions(l)' = Submissions(l)
      BY Zenon, <2>5, MemberSubmitted DEF tables
    <3> HIDE DEF r
    <3>2. /\ call'[a].pc = "dispatch" /\ call'[a].run = k /\ call'[a].ids = call[a].ids \cup {r}
          /\ \A b \in Callers \ {a} : call'[b] = call[b]
      <4>1. Calls(a, "dispatch", k, call[a].members \ {s}, call[a].ids \cup {r})
        BY Zenon, <2>5
      <4> QED BY Zenon, <4>1, CallEffect
    <3>3. Dispatchers'
      <4>1. Submissions(k)' = call'[a].ids
        BY Zenon, <2>1, <3>1, <3>2
      <4>2. \A b \in Callers \ {a}, l \in Runs : call[b].pc = "dispatch" /\ call[b].run = l => Submissions(l)' = call[b].ids
        BY Zenon, <2>4, <3>1 DEF RunInv, Dispatchers
      <4>3. \A b \in Callers, l \in Runs : call'[b].pc = "dispatch" /\ call'[b].run = l => Submissions(l)' = call'[b].ids
        BY SMTT(30), <3>2, <4>1, <4>2
      <4>4. \A b \in Callers : call'[b].pc \in {"dispatch", "fail"} => runs'[call'[b].run].status = "DataLayerCompleted"
        BY Zenon, <2>1, <3>2 DEF RunInv, Dispatchers
      <4>5. \A b, d \in Callers : call'[b].pc \in {"dispatch", "fail"} /\ call'[d].pc \in {"dispatch", "fail"}
                                 /\ call'[b].run = call'[d].run => b = d
        BY SMTT(30), <2>0, <2>1, <2>4, <3>2 DEF RunInv, Dispatchers
      <4> QED BY Zenon, <4>3, <4>4, <4>5 DEF Dispatchers
    <3>4. Confirmations'
      BY Zenon, <1>0, <2>1, <3>2 DEF RunInv, Confirmations
    <3>5. DataLayerFirst' /\ Records'
      BY Zenon, <2>1, <3>1 DEF RunInv, DataLayerFirst, Records
    <3> QED BY Zenon, <3>3, <3>4, <3>5 DEF RunInv
  <2>6. CASE UNCHANGED tables /\ Calls(a, "fail", k, call[a].members, call[a].ids)
    <3>1. \A l \in Runs : Submissions(l)' = Submissions(l)
      BY Zenon, <2>6 DEF tables, Submissions
    <3>2. /\ call'[a].pc = "fail" /\ call'[a].run = k
          /\ \A b \in Callers \ {a} : call'[b] = call[b]
      <4>1. Calls(a, "fail", k, call[a].members, call[a].ids)
        BY Zenon, <2>6
      <4> QED BY <4>1, CallEffect
    <3>3. Dispatchers'
      BY SMTT(30), <2>1, <2>4, <3>1, <3>2 DEF RunInv, Dispatchers
    <3>4. Confirmations'
      BY Zenon, <1>0, <2>1, <3>2 DEF RunInv, Confirmations
    <3>5. DataLayerFirst' /\ Records'
      BY Zenon, <2>1, <3>1 DEF RunInv, DataLayerFirst, Records
    <3> QED BY Zenon, <3>3, <3>4, <3>5 DEF RunInv
  <2> QED BY Zenon, <1>1, <2>0, <2>5, <2>6 DEF DispatchMember
<1>2. CASE \A a \in Callers, s \in Services : ~DispatchMember(a, s)
  <2>0. \A k \in Runs : Submissions(k)' = Submissions(k)
    BY Zenon, <1>2, PresenceStep, SubmissionsKept
  <2>1. ASSUME runs' = runs, NEW a \in Callers, call'[a].pc \in {"idle", "create", "confirm"},
               call'[a].pc = "confirm" => runs[call'[a].run].status = "DataLayerPending",
               \A b \in Callers \ {a} : call'[b] = call[b]
        PROVE  RunInv'
    <3>1. Dispatchers'
      BY SMTT(30), <2>0, <2>1 DEF RunInv, Dispatchers
    <3>2. Confirmations'
      BY Zenon, <1>0, <2>1 DEF RunInv, Confirmations
    <3>3. DataLayerFirst' /\ Records'
      BY Zenon, <2>0, <2>1 DEF RunInv, DataLayerFirst, Records
    <3> QED BY Zenon, <3>1, <3>2, <3>3 DEF RunInv
  <2>2. ASSUME NEW a \in Callers, NEW k \in Runs, InitiateSwitch(a, k)
        PROVE  RunInv'
    <3>2. call'[a].pc = "create" /\ \A b \in Callers \ {a} : call'[b] = call[b]
      BY <2>2, CallEffect DEF InitiateSwitch
    <3> QED BY Zenon, <2>1, <2>2, <3>2 DEF InitiateSwitch
  <2>3. ASSUME NEW a \in Callers, CallEnds(a)
        PROVE  RunInv'
    BY Zenon, <2>1, <2>3, CallReturns DEF CallEnds
  <2>4. ASSUME NEW a \in Callers, NEW k \in Runs, ReadRun(a, k)
        PROVE  RunInv'
    <3>2. /\ call'[a].pc = "confirm" /\ call'[a].run = k
          /\ \A b \in Callers \ {a} : call'[b] = call[b]
      BY <2>4, CallEffect DEF ReadRun
    <3> QED BY Zenon, <2>1, <2>4, <3>2 DEF ReadRun
  <2>5. ASSUME NEW a \in Callers, CreateRun(a)
        PROVE  RunInv'
    <3>0. PICK k \in Runs : k = call[a].run
      BY Zenon, <2>5 DEF DRShape, CreateRun
    <3>1. /\ call[a].pc = "create" /\ runs[k].status = "absent"
      BY Zenon, <2>5, <3>0 DEF CreateRun
    <3>2. PICK status \in {"DataLayerCompleted", "DataLayerPending"} :
            /\ UpdateRun(k, status, {}, "initiated")
            /\ \/ status = "DataLayerCompleted" /\ Calls(a, "dispatch", k, TrafficMembers(call[a].members), {})
               \/ Returns(a)
      BY Zenon, <2>5, <3>0 DEF CreateRun
    <3>3. /\ runs'[k].status = status
          /\ \A l \in Runs \ {k} : runs'[l] = runs[l]
      BY Zenon, <3>2, RunEffect
    <3>4. /\ \/ status = "DataLayerCompleted" /\ call'[a].pc = "dispatch" /\ call'[a].run = k /\ call'[a].ids = {}
             \/ call'[a].pc = "idle"
          /\ \A b \in Callers \ {a} : call'[b] = call[b]
      <4>1. CASE Returns(a)
        BY Zenon, <4>1, CallReturns
      <4>2. CASE status = "DataLayerCompleted" /\ Calls(a, "dispatch", k, TrafficMembers(call[a].members), {})
        BY <4>2, CallEffect
      <4> QED BY Zenon, <3>2, <4>1, <4>2
    <3>5. Submissions(k)' = {}
      BY Zenon, <2>0, <3>1 DEF RunInv, DataLayerFirst
    <3>6. \A b \in Callers : /\ call[b].pc \in {"dispatch", "fail"} => call[b].run \in Runs \ {k}
                             /\ call[b].pc = "confirm" => \/ call[b].run \in Runs \ {k}
                                                          \/ Event(call[b].run, "confirmed") \in outbox
      BY Zenon, <3>1 DEF DRShape, RunInv, Dispatchers, Confirmations
    <3>7. Dispatchers'
      <4>1. \A b \in Callers, l \in Runs : call'[b].pc = "dispatch" /\ call'[b].run = l => Submissions(l)' = call'[b].ids
        BY ZenonT(60), <2>0, <3>4, <3>5 DEF RunInv, Dispatchers
      <4>2. \A b \in Callers : call'[b].pc \in {"dispatch", "fail"} => runs'[call'[b].run].status = "DataLayerCompleted"
        BY <3>3, <3>4, <3>6 DEF RunInv, Dispatchers
      <4>3. \A b, d \in Callers : call'[b].pc \in {"dispatch", "fail"} /\ call'[d].pc \in {"dispatch", "fail"}
                                 /\ call'[b].run = call'[d].run => b = d
        BY <3>4, <3>6 DEF RunInv, Dispatchers
      <4> QED BY Zenon, <4>1, <4>2, <4>3 DEF Dispatchers
    <3>8. Confirmations'
      BY <1>0, <3>3, <3>4, <3>6 DEF RunInv, Confirmations
    <3>9. DataLayerFirst' /\ Records'
      BY Zenon, <2>0, <3>3, <3>5 DEF RunInv, DataLayerFirst, Records
    <3> QED BY Zenon, <3>7, <3>8, <3>9 DEF RunInv
  <2>6. ASSUME NEW a \in Callers, ConfirmDataLayer(a)
        PROVE  RunInv'
    <3>0. PICK k \in Runs : k = call[a].run
      BY Zenon, <2>6 DEF DRShape, ConfirmDataLayer
    <3>1. call[a].pc = "confirm"
      BY Zenon, <2>6 DEF ConfirmDataLayer
    <3>2. /\ Event(k, "confirmed") \notin outbox /\ outbox' = outbox \cup {Event(k, "confirmed")}
          /\ runs'[k].status = "DataLayerCompleted"
          /\ \A l \in Runs \ {k} : runs'[l] = runs[l]
      <4>1. UpdateRun(k, "DataLayerCompleted", runs[k].ids, "confirmed")
        BY Zenon, <2>6, <3>0 DEF ConfirmDataLayer
      <4> QED BY Zenon, <4>1, RunEffect
    <3>3. /\ call'[a].pc = "dispatch" /\ call'[a].run = k /\ call'[a].ids = {}
          /\ \A b \in Callers \ {a} : call'[b] = call[b]
      <4>1. Calls(a, "dispatch", k, call[a].members, {})
        BY ZenonT(30), <2>6, <3>0 DEF ConfirmDataLayer
      <4> QED BY Zenon, <4>1, CallEffect
    <3>4. runs[k].status = "DataLayerPending"
      BY Zenon, <3>0, <3>1, <3>2 DEF RunInv, Confirmations
    <3>5. Submissions(k)' = {}
      BY Zenon, <2>0, <3>4 DEF RunInv, DataLayerFirst
    <3>6. \A b \in Callers : call[b].pc \in {"dispatch", "fail"} => call[b].run \in Runs \ {k}
      BY Zenon, <3>4 DEF DRShape, RunInv, Dispatchers
    <3>7. Dispatchers'
      BY SMTT(30), <2>0, <3>2, <3>3, <3>5, <3>6 DEF RunInv, Dispatchers
    <3>8. Confirmations'
      BY <1>0, <3>2, <3>3 DEF DRShape, RunInv, Confirmations
    <3>9. DataLayerFirst' /\ Records'
      BY Zenon, <2>0, <3>2, <3>5 DEF RunInv, DataLayerFirst, Records
    <3> QED BY Zenon, <3>7, <3>8, <3>9 DEF RunInv
  <2>7. ASSUME NEW a \in Callers, FinishDispatch(a) \/ failRun(a)
        PROVE  RunInv'
    <3>0. PICK k \in Runs : k = call[a].run
      BY Zenon, <2>7 DEF DRShape, FinishDispatch, failRun
    <3>1. call[a].pc \in {"dispatch", "fail"}
      BY ZenonT(30), <2>7 DEF FinishDispatch, failRun
    <3>2. /\ \/ call[a].pc = "dispatch" /\ runs'[k].status = "AwaitingApproval" /\ runs'[k].ids = call[a].ids
             \/ runs'[k].status = "Failed"
          /\ \A l \in Runs \ {k} : runs'[l] = runs[l]
      BY SMTT(30), <2>7, <3>0, RunEffect DEF FinishDispatch, failRun
    <3>3. call'[a].pc = "idle" /\ \A b \in Callers \ {a} : call'[b] = call[b]
      BY Zenon, <2>7, CallReturns DEF FinishDispatch, failRun
    <3>4. runs[k].status = "DataLayerCompleted" /\ (call[a].pc = "dispatch" => Submissions(k) = call[a].ids)
      BY Zenon, <3>0, <3>1 DEF RunInv, Dispatchers
    <3>5. \A b \in Callers \ {a} : call[b].pc \in {"dispatch", "fail"} => call[b].run \in Runs \ {k}
      BY Zenon, <3>0, <3>1 DEF DRShape, RunInv, Dispatchers
    <3>6. Dispatchers'
      BY SMTT(30), <2>0, <3>2, <3>3, <3>5 DEF RunInv, Dispatchers
    <3>7. Confirmations'
      BY SMTT(30), <1>0, <3>2, <3>3, <3>4 DEF DRShape, RunInv, Confirmations
    <3>8. DataLayerFirst' /\ Records'
      BY Zenon, <2>0, <3>2, <3>4 DEF RunInv, DataLayerFirst, Records
    <3> QED BY Zenon, <3>6, <3>7, <3>8 DEF RunInv
  <2>8. CASE runs' = runs /\ call' = call
    BY Zenon, <1>0, <2>0, <2>8 DEF RunInv, Dispatchers, Confirmations, DataLayerFirst, Records
  <2> QED
    BY Zenon, <1>2, <2>2, <2>3, <2>4, <2>5, <2>6, <2>7, <2>8 DEF DRNext, DRStep, drVars, AddMember
<1> QED BY Zenon, <1>1, <1>2

-----------------------------------------------------------------------------
(* Theorems. *)

\* The inductive invariant of switch requests and runs.
Inv == Shape /\ DRShape /\ SwitchInv /\ RunInv /\ DOMAIN dns = Services

\* It holds before anything was submitted.
LEMMA Initially ==
  ASSUME DRInit
  PROVE  Inv
<1>1. Shape
  <2>1. Free \in Job /\ Free.pc = "idle"
    BY SMTT(30) DEF Free, Job
  <2> HIDE DEF Free
  <2> QED BY Zenon, <2>1 DEF DRInit, Init, Shape
<1>2. DRShape
  BY Zenon DEF DRInit, DRShape, DRTypeOK, Idle, RunStatuses
<1>3. SwitchInv
  <2>1. Free.pc = "idle"
    BY Zenon DEF Free
  <2>2. Jobs /\ Announcing
    BY Zenon, <2>1 DEF DRInit, Init, Jobs, Announcing
  <2>3. Approvals /\ Decisions /\ Successes /\ OperationTracksRequest
    BY SMTT(30) DEF DRInit, Init, Approvals, Carried, Decisions, Successes, OperationTracksRequest
  <2> QED BY Zenon, <2>2, <2>3 DEF SwitchInv
<1>4. RunInv
  <2>1. \A a \in Callers : call[a].pc = "idle"
    BY SMTT(30) DEF DRInit, Idle
  <2>2. \A k \in Runs : runs[k].status = "absent" /\ Submissions(k) = {}
    <3>1. \A k \in Runs, s \in Services : requests[RequestFor[k][s]] = "absent"
      BY SMTT(30), GSLBAssumption, DRAssumption DEF DRInit, Init
    <3> QED BY ZenonT(30), <3>1 DEF DRInit, Submissions
  <2> QED BY Zenon, <2>1, <2>2 DEF RunInv, Dispatchers, Confirmations, DataLayerFirst, Records
<1>5. DOMAIN dns = Services
  BY Zenon DEF DRInit, Init
<1> QED BY Zenon, <1>1, <1>2, <1>3, <1>4, <1>5 DEF Inv

\* Every reachable state satisfies it.
THEOREM Invariance == DRSpec => []Inv
<1>1. DRInit => Inv
  BY Zenon, Initially
<1>2. Inv /\ [DRNext]_<<vars, drVars>> => Inv'
  BY Zenon, ShapeStep, DRShapeStep, SwitchStep, RunStep, EndpointStep DEF Inv
<1> QED BY <1>1, <1>2, PTL DEF DRSpec

\* The types of runs and calls.
THEOREM RunsTyped == DRSpec => []DRTypeOK
<1>1. Inv => DRTypeOK
  BY Zenon DEF Inv, DRShape
<1> QED BY <1>1, Invariance, PTL

\* The operation of a request shows its status, or, while the request is open, what the operation
\* centre was told of it; it never hides a verdict and never runs ahead of the request.
THEOREM OperationsTrackRequests == DRSpec => []OperationTracksRequest
<1>1. Inv => OperationTracksRequest
  BY Zenon DEF Inv, SwitchInv
<1> QED BY <1>1, Invariance, PTL

\* An announced success stays the verdict until a late rejection.
THEOREM AnnouncementsHold == DRSpec => []AnnouncedSuccessHolds
<1>1. Inv => AnnouncedSuccessHolds
  BY Zenon DEF Inv, SwitchInv, Successes, AnnouncedSuccessHolds
<1> QED BY <1>1, Invariance, PTL

\* DNS changes only for requests that were dispatched with the approval they need.
THEOREM TrafficChangesAreAuthorised == DRSpec => AuthorisedTrafficChange
<1> DEFINE Authorised(s) ==
      \E c \in Controllers :
         /\ job[c].pc \in {"run", "compensate"} /\ ServiceOf[RequestOf(c)] = s
         /\ ~IsDrill(RequestOf(c))
         /\ NeedsApproval(RequestOf(c)) => StatusChanged(RequestOf(c), "Approved") \in outbox
<1>1. ASSUME Inv, [DRNext]_<<vars, drVars>>, NEW s \in Services, dns'[s] # dns[s]
      PROVE  Authorised(s)
  <2>1. PICK c \in Controllers : /\ job[c].pc \in {"run", "compensate"}
                                 /\ \E targets : Applied(RequestOf(c), targets)
    BY Zenon, <1>1, TrafficStep
  <2>2. ServiceOf[RequestOf(c)] = s
    BY Zenon, <1>1, <2>1 DEF Applied, Inv
  <2> QED BY ZenonT(30), <1>1, <2>1, <2>2 DEF Inv, SwitchInv, Jobs
<1>2. Inv /\ [DRNext]_<<vars, drVars>> => [\A s \in Services : dns'[s] # dns[s] => Authorised(s)]_vars
  BY Zenon, <1>1
<1> QED BY <1>2, Invariance, PTL DEF DRSpec, AuthorisedTrafficChange

\* A verdict can only be hidden by a late rejection: the dispatch key keeps a late approval out.
THEOREM VerdictsStay == DRSpec => VerdictNeverReopened
<1> DEFINE Verdicts == {"Succeeded", "Failed", "DrillCompleted"}
<1>1. ASSUME Inv, [DRNext]_<<vars, drVars>>, NEW r \in Requests, requests[r] \in Verdicts
      PROVE  requests'[r] \in {requests[r], "Rejected"}
  <2>0. Shape /\ DRShape /\ SwitchInv
    BY Zenon, <1>1 DEF Inv
  <2>1. CASE UNCHANGED requests
    BY Zenon, <2>1
  <2>2. ASSUME NEW q \in Requests, SubmitIntent(q)
        PROVE  requests'[r] = requests[r]
    BY ZenonT(30), <1>1, <2>0, <2>2 DEF SubmitIntent, Insert, Shape
  <2>3. ASSUME NEW u \in Users, UpdateSwitchRequestStatus(u)
        PROVE  requests'[r] \in {requests[r], "Rejected"}
    <3>1. /\ session[u].request \in Requests /\ session[u].to \in {"Approved", "Rejected"}
          /\ ~IsDrill(session[u].request)
          /\ requests' = [requests EXCEPT ![session[u].request] = session[u].to]
          /\ session[u].to = "Approved" => Dispatch(session[u].request) \notin outbox
      <4>1. session[u].request \in Requests /\ session[u].to \in {"Approved", "Rejected"}
        BY <2>0, <2>3 DEF UpdateSwitchRequestStatus, Shape
      <4>2. ~IsDrill(session[u].request)
        BY Zenon, <2>0, <4>1, GSLBAssumption DEF SwitchInv, Decisions
      <4>3. requests' = [requests EXCEPT ![session[u].request] = session[u].to]
        BY Zenon, <2>3 DEF UpdateSwitchRequestStatus, WriteStatus
      <4>4. session[u].to = "Approved" => Dispatch(session[u].request) \notin outbox
        BY Zenon, <2>3 DEF UpdateSwitchRequestStatus, Emit
      <4> QED BY ZenonT(60), <4>1, <4>2, <4>3, <4>4
    <3>2. CASE session[u].request = r /\ session[u].to = "Approved"
      <4>1. requests[r] \notin Carried
        BY Zenon, <2>0, <3>1, <3>2 DEF SwitchInv, Approvals
      <4>2. requests[r] # "absent" /\ requests[r] = "DrillCompleted"
        BY Zenon, <1>1, <4>1 DEF Carried
      <4> QED BY Zenon, <2>0, <3>1, <3>2, <4>2 DEF SwitchInv, Approvals
    <3> QED BY ZenonT(30), <2>0, <3>1, <3>2 DEF Shape
  <2>4. ASSUME NEW c \in Controllers, DispatchRequest(c) \/ RecordFailed(c) \/ RecordSucceeded(c)
        PROVE  requests'[r] = requests[r]
    <3>1. \/ UNCHANGED requests
          \/ \E from \in {"Approved", "Dispatched"}, to \in Statuses : Transition(RequestOf(c), {from}, to)
      BY Zenon, <2>4 DEF DispatchRequest, RecordFailed, RecordSucceeded, tables, Statuses
    <3> QED BY Zenon, <1>1, <2>0, <3>1 DEF Transition, WriteStatus, Shape
  <2>5. ASSUME NEW c \in Controllers, EnsureFailoverRequest(c)
        PROVE  requests'[r] = requests[r]
    BY ZenonT(30), <1>1, <2>0, <2>5 DEF EnsureFailoverRequest, Insert, Shape, tables
  <2>6. CASE DRStep
    <3>1. ASSUME NEW a \in Callers, NEW s \in Services, DispatchMember(a, s)
          PROVE  requests'[r] = requests[r]
      <4>0. call[a].run \in Runs
        BY Zenon, <2>0, <3>1 DEF DispatchMember, DRShape
      <4>1. RequestFor[call[a].run][s] \in Requests
        BY <4>0, GSLBAssumption, DRAssumption
      <4>2. SubmitIntent(RequestFor[call[a].run][s]) \/ UNCHANGED requests
        BY Zenon, <3>1 DEF DispatchMember, tables
      <4> QED BY Zenon, <2>2, <4>1, <4>2
    <3> QED BY ZenonT(30), <2>1, <2>6, <3>1 DEF DRStep, AddMember, InitiateSwitch, ReadRun, CreateRun, ConfirmDataLayer,
                                 FinishDispatch, failRun, CallEnds, vars, tables
  <2>7. CASE Apiserver
    <3>1. ASSUME NEW q \in Requests, PublishCommand(q)
          PROVE  UNCHANGED requests
      BY Zenon, <3>1 DEF PublishCommand
    <3>2. ASSUME NEW u \in Users, NEW q, NEW to, ReadForDecision(u, q, to) \/ DecisionFails(u)
          PROVE  UNCHANGED requests
      BY Zenon, <3>2 DEF ReadForDecision, DecisionFails, tables
    <3> QED BY Zenon, <2>1, <2>2, <2>3, <2>7, <3>1, <3>2 DEF Apiserver, Submit
  <2>8. ASSUME NEW c \in Controllers, Controller(c)
        PROVE  \/ UNCHANGED requests \/ DispatchRequest(c) \/ RecordFailed(c) \/ RecordSucceeded(c)
               \/ EnsureFailoverRequest(c)
    BY Zenon, <2>8 DEF Controller, Deliver, GetRequest, ExecuteStep, StepFails, Compensate,
                EmitStatusChanged, Ack, CrashController, Reconcile, tables
  <2>9. CASE UNCHANGED vars
    BY Zenon, <2>1, <2>9 DEF vars, tables
  <2>10. CASE OperationCentre
    BY Zenon, <2>1, <2>10, CentreLeaves
  <2> QED BY Zenon, <1>1, <2>1, <2>4, <2>5, <2>6, <2>7, <2>8, <2>9, <2>10 DEF DRNext, Next
<1>2. Inv /\ [DRNext]_<<vars, drVars>> =>
        [\A r \in Requests : requests[r] \in Verdicts => requests'[r] \in {requests[r], "Rejected"}]_vars
  BY Zenon, <1>1
<1> QED BY <1>2, Invariance, PTL DEF DRSpec, VerdictNeverReopened

\* Nothing is submitted for a run before its data layer is switched.
THEOREM DataLayerComesFirst == DRSpec => []DataLayerFirst
<1>1. Inv => DataLayerFirst
  BY SMTT(30) DEF Inv, RunInv
<1> QED BY <1>1, Invariance, PTL

\* A dispatched run has all its requests on record, and is completed when all of them are.
THEOREM RunsTrackTheirRequests == DRSpec => []RunTracksItsRequests
<1>1. Inv => RunTracksItsRequests
  <2> SUFFICES ASSUME Inv, NEW k \in Runs
               PROVE  /\ runs[k].status = "AwaitingApproval" => runs[k].ids = Submissions(k)
                      /\ aggregateRuns(k) = "Completed" => \A r \in Submissions(k) : requests[r] = "Succeeded"
    BY Zenon DEF RunTracksItsRequests
  <2>1. runs[k].status = "AwaitingApproval" => runs[k].ids = Submissions(k)
    BY Zenon DEF Inv, RunInv, Records
  <2>2. ASSUME aggregateRuns(k) = "Completed"
        PROVE  \A r \in Submissions(k) : requests[r] = "Succeeded"
    <3>1. runs[k].status # "Completed"
      BY Zenon DEF Inv, DRShape, DRTypeOK, RunStatuses
    <3>2. runs[k].status = "AwaitingApproval" /\ {requests[r] : r \in runs[k].ids} = {"Succeeded"}
      BY Zenon, <2>2, <3>1 DEF aggregateRuns
    <3> QED BY Zenon, <2>1, <3>2
  <2> QED BY Zenon, <2>1, <2>2
<1> QED BY <1>1, Invariance, PTL

-----------------------------------------------------------------------------
(* The types of the tables and of DNS. *)

\* A set of numbers that is not empty has a least one.
LEMMA LeastNumber ==
  ASSUME NEW T, T \subseteq Nat, T # {}
  PROVE  \E x \in T : \A y \in T : x <= y
<1>1. PICK x \in T : \A y \in T : ~(<<y, x>> \in OpToRel(<, Nat))
  BY Zenon, WFMin, NatLessThanWellFounded
<1>2. \A y \in T : ~(y < x)
  <2> SUFFICES ASSUME NEW y \in T, y < x PROVE FALSE BY Zenon
  <2>1. <<y, x>> \in Nat \X Nat /\ <<y, x>>[1] = y /\ <<y, x>>[2] = x BY Zenon
  <2>2. <<y, x>> \in OpToRel(<, Nat) BY Zenon, <2>1 DEF OpToRel
  <2> QED BY Zenon, <1>1, <2>2
<1> QED BY SMT, <1>2

\* A pool of least priority.
LEMMA LeastPool ==
  ASSUME NEW S \in SUBSET Pools, S # {}
  PROVE  \E p \in S : \A q \in S : Priority[p] <= Priority[q]
<1>1. PICK T : T = {Priority[p] : p \in S} BY Zenon
<1>0. \A p \in S : Priority[p] \in Nat BY Zenon, GSLBAssumption
<1>2. T \subseteq Nat /\ T # {} BY Zenon, <1>0, <1>1
<1>3. PICK x \in T : \A y \in T : x <= y BY Zenon, <1>2, LeastNumber
<1>4. PICK p \in S : x = Priority[p] BY Zenon, <1>1
<1> QED BY Zenon, <1>1, <1>3, <1>4

\* A pool of greatest priority: one with the fewest pools above it.
LEMMA GreatestPool ==
  ASSUME NEW S \in SUBSET Pools, IsFiniteSet(S), S # {}
  PROVE  \E p \in S : \A q \in S : Priority[q] <= Priority[p]
<1> DEFINE Above(p) == {q \in S : Priority[q] > Priority[p]}
<1>1. \A p \in S : IsFiniteSet(Above(p)) /\ Cardinality(Above(p)) \in Nat
  <2>1. \A p \in S : Above(p) \subseteq S BY Zenon
  <2>2. \A p \in S : IsFiniteSet(Above(p)) BY Zenon, <2>1, FS_Subset
  <2> QED BY Zenon, <2>2, FS_CardinalityType
<1>2. PICK T : T = {Cardinality(Above(p)) : p \in S} BY Zenon
<1>3. T \subseteq Nat /\ T # {} BY Zenon, <1>1, <1>2
<1>4. PICK x \in T : \A y \in T : x <= y BY Zenon, <1>3, LeastNumber
<1>5. PICK p \in S : x = Cardinality(Above(p)) BY Zenon, <1>2
<1>6. ASSUME NEW q \in S, Priority[q] > Priority[p] PROVE FALSE
  <2>1. \A r \in S : Priority[r] \in Nat BY Zenon, GSLBAssumption
  <2>2. Above(q) \subseteq Above(p) /\ q \in Above(p) /\ q \notin Above(q)
    BY SMT, <1>6, <2>1
  <2>3. Cardinality(Above(q)) < Cardinality(Above(p))
    <3>1. /\ Cardinality(Above(q)) <= Cardinality(Above(p))
          /\ Cardinality(Above(q)) = Cardinality(Above(p)) => Above(q) = Above(p)
      BY Zenon, <1>1, <2>2, FS_Subset
    <3>2. Above(q) # Above(p) BY Zenon, <2>2
    <3> QED BY SMTT(30), <1>1, <3>1, <3>2
  <2>4. Cardinality(Above(p)) <= Cardinality(Above(q)) BY Zenon, <1>2, <1>4, <1>5
  <2> QED BY SMT, <1>1, <2>3, <2>4
<1>7. \A r \in S : Priority[r] \in Nat BY Zenon, GSLBAssumption
<1> QED BY SMT, <1>6, <1>7

\* The pools a plan is made for exist.
LEMMA PoolTypes ==
  ASSUME NEW s \in Services
  PROVE  BackupPool(s) \in Pools \cup {NoPool} /\ PrimaryPool(s) \in Pools \cup {NoPool}
<1>1. PoolsOf[s] \in SUBSET Pools /\ IsFiniteSet(PoolsOf[s]) BY Zenon, GSLBAssumption, FinitePools
<1>2. BackupPool(s) \in Pools \cup {NoPool}
  <2>1. PICK others \in SUBSET Pools : others = PoolsOf[s] \ {ActivePool[s]} BY Zenon, <1>1
  <2>2. IsFiniteSet(others)
    <3>1. others \in SUBSET PoolsOf[s] BY Zenon, <2>1
    <3> QED BY Zenon, <1>1, <3>1, FS_Subset
  <2>3. CASE others = {} BY Zenon, <2>1, <2>3 DEF BackupPool
  <2>4. CASE others # {}
    <3>1. \E p \in others : \A q \in others : Priority[q] <= Priority[p] BY Zenon, <2>2, <2>4, GreatestPool
    <3>2. (CHOOSE p \in others : \A q \in others : Priority[q] <= Priority[p]) \in others BY Zenon, <3>1
    <3>3. BackupPool(s) = CHOOSE p \in others : \A q \in others : Priority[q] <= Priority[p]
      BY Zenon, <2>1, <2>4 DEF BackupPool
    <3> QED BY Zenon, <3>2, <3>3
  <2> QED BY Zenon, <2>3, <2>4
<1>3. PrimaryPool(s) \in Pools \cup {NoPool}
  <2>1. CASE PoolsOf[s] = {} BY Zenon, <2>1 DEF PrimaryPool
  <2>2. CASE PoolsOf[s] # {}
    <3>1. \E p \in PoolsOf[s] : \A q \in PoolsOf[s] : Priority[p] <= Priority[q] BY Zenon, <1>1, <2>2, LeastPool
    <3>2. (CHOOSE p \in PoolsOf[s] : \A q \in PoolsOf[s] : Priority[p] <= Priority[q]) \in PoolsOf[s]
      BY Zenon, <3>1
    <3> QED BY Zenon, <1>1, <2>2, <3>2 DEF PrimaryPool
  <2> QED BY Zenon, <2>1, <2>2
<1> QED BY Zenon, <1>2, <1>3

LEMMA TargetsTyped ==
  ASSUME NEW p \in Pools \cup {NoPool}
  PROVE  Targets(p) \subseteq Clusters
<1>1. CASE p = NoPool BY Zenon, <1>1 DEF Targets
<1>2. CASE p # NoPool
  <2>1. p \in Pools BY Zenon, <1>2
  <2>2. Members[p] \in SUBSET Clusters BY Zenon, <2>1, GSLBAssumption
  <2> QED BY Zenon, <1>2, <2>2 DEF Targets
<1> QED BY Zenon, <1>1, <1>2

\* A plan names clusters only, and what compensates a step is a step of the same plan.
LEMMA PlanTypes ==
  ASSUME NEW r \in Requests
  PROVE  /\ \A id \in DOMAIN BuildPlan(r) : BuildPlan(r)[id].targets \subseteq Clusters
         /\ \A id \in DOMAIN BuildPlan(r) : BuildPlan(r)[id].compensation \in DOMAIN BuildPlan(r) \cup {"none"}
         /\ TotalSteps(r) \in Nat
<1>1. KindOf[r] \in {"failover", "switchback", "weight-update", "drill"} /\ ServiceOf[r] \in Services
      /\ TargetPool[r] \in Pools \cup {NoPool}
  BY Zenon, GSLBAssumption DEF Kinds
<1>2. TargetPoolOf(r) \in Pools \cup {NoPool} /\ ActivePool[ServiceOf[r]] \in Pools \cup {NoPool}
  <2>1. BackupPool(ServiceOf[r]) \in Pools \cup {NoPool} /\ PrimaryPool(ServiceOf[r]) \in Pools \cup {NoPool}
    BY Zenon, <1>1, PoolTypes
  <2>2. TargetPoolOf(r) \in Pools \cup {NoPool} BY Zenon, <1>1, <2>1 DEF TargetPoolOf
  <2> QED BY Zenon, <1>1, <2>2, GSLBAssumption
<1>3. Targets(TargetPoolOf(r)) \subseteq Clusters BY Zenon, <1>2, TargetsTyped
<1>4. PreviousTargets(r) \subseteq Clusters
  <2>1. Targets(ActivePool[ServiceOf[r]]) \subseteq Clusters BY Zenon, <1>2, TargetsTyped
  <2> QED BY Zenon, <2>1 DEF PreviousTargets
<1>5. IsFiniteSet(DOMAIN BuildPlan(r))
  <2>1. DOMAIN BuildPlan(r) \in SUBSET {"apply", "verify", "revert", "compute"} BY Zenon, PlanShape
  <2>2. IsFiniteSet({"apply", "verify", "revert", "compute"})
    <3>1. IsFiniteSet({}) BY Zenon, FS_EmptySet
    <3>2. IsFiniteSet({"apply"}) /\ IsFiniteSet({"verify"}) /\ IsFiniteSet({"revert"}) /\ IsFiniteSet({"compute"})
      BY Zenon, FS_Singleton
    <3>3. IsFiniteSet({"apply"} \cup {"verify"}) /\ IsFiniteSet({"revert"} \cup {"compute"}) BY Zenon, <3>2, FS_Union
    <3>4. IsFiniteSet(({"apply"} \cup {"verify"}) \cup ({"revert"} \cup {"compute"})) BY Zenon, <3>3, FS_Union
    <3>5. {"apply", "verify", "revert", "compute"} = ({"apply"} \cup {"verify"}) \cup ({"revert"} \cup {"compute"})
      BY Zenon
    <3> QED BY Zenon, <3>4, <3>5
  <2> QED BY Zenon, <2>1, <2>2, FS_Subset
<1>6. TotalSteps(r) \in Nat BY Zenon, <1>5, FS_CardinalityType DEF TotalSteps
<1>7. CASE KindOf[r] \in {"failover", "switchback"}
  <2> DEFINE a == PlanStep("dns_apply", Targets(TargetPoolOf(r)), {}, "revert")
             v == PlanStep("dns_verify", Targets(TargetPoolOf(r)), {"apply"}, "none")
             w == PlanStep("dns_revert", PreviousTargets(r), {}, "none")
  <2>1. BuildPlan(r) = [apply |-> a, verify |-> v, revert |-> w]
    BY Zenon, <1>7 DEF BuildPlan
  <2>2. /\ a.compensation = "revert" /\ v.compensation = "none" /\ w.compensation = "none"
        /\ a.targets = Targets(TargetPoolOf(r)) /\ v.targets = Targets(TargetPoolOf(r)) /\ w.targets = PreviousTargets(r)
    BY Zenon DEF PlanStep
  <2> HIDE DEF a, v, w
  <2>3. /\ DOMAIN BuildPlan(r) = {"apply", "verify", "revert"}
        /\ BuildPlan(r)["apply"] = a /\ BuildPlan(r)["verify"] = v /\ BuildPlan(r)["revert"] = w
    BY SMT, <2>1
  <2> QED BY Zenon, <1>3, <1>4, <1>6, <2>2, <2>3
<1>8. CASE KindOf[r] = "weight-update"
  <2> DEFINE a == PlanStep("dns_apply", {}, {}, "none")
             v == PlanStep("dns_verify", {}, {"apply"}, "none")
  <2>1. BuildPlan(r) = [apply |-> a, verify |-> v]
    BY Zenon, <1>8 DEF BuildPlan
  <2>2. a.compensation = "none" /\ v.compensation = "none" /\ a.targets = {} /\ v.targets = {}
    BY Zenon DEF PlanStep
  <2> HIDE DEF a, v
  <2>3. /\ DOMAIN BuildPlan(r) = {"apply", "verify"} /\ BuildPlan(r)["apply"] = a /\ BuildPlan(r)["verify"] = v
    BY SMT, <2>1
  <2> QED BY Zenon, <1>6, <2>2, <2>3
<1>9. CASE KindOf[r] = "drill"
  <2> DEFINE v == PlanStep("drill_compute", {}, {}, "none")
  <2>1. BuildPlan(r) = [compute |-> v] BY Zenon, <1>9 DEF BuildPlan
  <2>2. v.compensation = "none" /\ v.targets = {} BY Zenon DEF PlanStep
  <2> HIDE DEF v
  <2>3. DOMAIN BuildPlan(r) = {"compute"} /\ BuildPlan(r)["compute"] = v BY SMT, <2>1
  <2> QED BY Zenon, <1>6, <2>2, <2>3
<1> QED BY Zenon, <1>1, <1>7, <1>8, <1>9

\* The types Shape leaves out.  A compensation under way is a step of the plan.
TableTypes ==
  /\ operations \in [Requests -> OperationRow]
  /\ opViews \in [Requests -> OperationRow]
  /\ drills \in [Requests -> {"none", "Ready", "Blocked", "Degraded"}]
  /\ commands \in [Requests -> {"none", "pending", "published"}]

ProcessTypes ==
  /\ readModel \in [Services -> [healthyPools : SUBSET Pools, currentTargets : SUBSET Clusters]]
  /\ deliveries \in [Requests \X (1..MaxCopies) -> Nat]

Undoing == \A c \in Controllers : job[c].pc = "compensate" => job[c].undo \in DOMAIN BuildPlan(RequestOf(c))

DNSTypes == dns \in [Services -> SUBSET Clusters]

\* The status of an operation row is one of the operation's.
LEMMA OperationStatusTyped ==
  ASSUME NEW status
  PROVE  operationStatusForRequest(status) \in {"pending_approval", "queued", "cancelled", "in_progress", "failed", "succeeded"}
BY SMT DEF operationStatusForRequest

LEMMA StatusWrittenTyped ==
  ASSUME TableTypes, NEW r \in Requests, NEW status, WriteStatus(r, status, operationStatusForRequest(status))
  PROVE  operations' \in [Requests -> OperationRow] /\ opViews' \in [Requests -> OperationRow]
<1> DEFINE op == operationStatusForRequest(status)
           synced(row) == [status |-> op,
                           completed |-> IF status = "Succeeded" THEN TotalSteps(r) ELSE row.completed,
                           failed |-> IF status = "Failed" THEN 1 ELSE row.failed]
<1>1. op \in {"absent", "pending_approval", "queued", "cancelled", "in_progress", "failed", "succeeded"}
  BY Zenon, OperationStatusTyped
<1>2. TotalSteps(r) \in Nat BY Zenon, PlanTypes
<1>3. ASSUME NEW row \in OperationRow PROVE synced(row) \in OperationRow
  <2>1. PICK n \in Nat : n = IF status = "Succeeded" THEN TotalSteps(r) ELSE row.completed
    BY Zenon, <1>2 DEF OperationRow
  <2>2. PICK b \in Nat : b = IF status = "Failed" THEN 1 ELSE row.failed
    BY SMT DEF OperationRow
  <2>3. synced(row) = [status |-> op, completed |-> n, failed |-> b] BY Zenon, <2>1, <2>2
  <2> QED BY Zenon, <1>1, <2>3 DEF OperationRow
<1>4. /\ operations' = [operations EXCEPT ![r] = synced(operations[r])]
      /\ opViews' = [opViews EXCEPT ![r] = synced(opViews[r])]
  BY Zenon DEF WriteStatus
<1>5. operations[r] \in OperationRow /\ opViews[r] \in OperationRow BY Zenon DEF TableTypes
<1>6. synced(operations[r]) \in OperationRow /\ synced(opViews[r]) \in OperationRow BY Zenon, <1>3, <1>5
<1> HIDE DEF synced
<1> QED BY Zenon, <1>4, <1>6 DEF TableTypes

LEMMA RowInsertedTyped ==
  ASSUME TableTypes, NEW r \in Requests, NEW status, Insert(r, status)
  PROVE  operations' \in [Requests -> OperationRow] /\ opViews' \in [Requests -> OperationRow]
<1>1. operationStatusForRequest(status) \in
        {"absent", "pending_approval", "queued", "cancelled", "in_progress", "failed", "succeeded"}
  BY Zenon, OperationStatusTyped
<1>2. TotalSteps(r) \in Nat BY Zenon, PlanTypes
<1>3. NewRow(r, status) \in OperationRow
  <2>1. PICK n \in Nat : n = IF IsDrill(r) THEN TotalSteps(r) ELSE 0 BY SMT, <1>2
  <2>3. PICK b \in Nat : b = 0 BY SMT
  <2>4. PICK st \in {"absent", "pending_approval", "queued", "cancelled", "in_progress", "failed", "succeeded"} :
          st = operationStatusForRequest(status)
    BY Zenon, <1>1
  <2>2. NewRow(r, status) = [status |-> st, completed |-> n, failed |-> b]
    BY Zenon, <2>1, <2>3, <2>4 DEF NewRow
  <2>5. [status |-> st, completed |-> n, failed |-> b] \in OperationRow BY Zenon DEF OperationRow
  <2> QED BY Zenon, <2>2, <2>5
<1>4. /\ operations' = [operations EXCEPT ![r] = NewRow(r, status)]
      /\ opViews' = [opViews EXCEPT ![r] = NewRow(r, status)]
  BY Zenon DEF Insert
<1> QED BY Zenon, <1>3, <1>4 DEF TableTypes

LEMMA CentreTyped ==
  ASSUME TableTypes, OperationCentre
  PROVE  TableTypes'
<1> DEFINE States == {"absent", "pending_approval", "queued", "cancelled", "in_progress", "failed", "succeeded"}
<1>1. PICK r \in Requests : ApproveOperation(r) \/ RejectOperation(r) \/ CancelOperation(r) \/ CommitStepFailure(r)
  BY Zenon DEF OperationCentre
<1>2. \E from : \E to \in States : \E k \in {0, 1} : MoveOperation(r, from, to, k)
  BY Zenon, <1>1 DEF ApproveOperation, RejectOperation, CancelOperation, CommitStepFailure
<1>3. PICK to \in States : \E from : \E k \in {0, 1} : MoveOperation(r, from, to, k)
  BY Zenon, <1>2
<1>4. PICK k \in {0, 1} : \E from : MoveOperation(r, from, to, k)
  BY Zenon, <1>3
<1>5. PICK n \in Nat : n = operations[r].completed
  BY Zenon DEF TableTypes, OperationRow
<1>6. PICK m \in Nat : m = operations[r].failed + k
  <2>1. operations[r].failed \in Nat
    BY Zenon DEF TableTypes, OperationRow
  <2> QED BY SMT, <2>1
<1>7. PICK row \in OperationRow : row = [status |-> to, completed |-> n, failed |-> m]
  BY Zenon DEF OperationRow
<1>8. operations' = [operations EXCEPT ![r] = row] /\ opViews' = [opViews EXCEPT ![r] = row]
  BY Zenon, <1>4, <1>5, <1>6, <1>7 DEF MoveOperation
<1>9. UNCHANGED <<drills, commands>>
  BY Zenon, CentreLeaves
<1> QED BY Zenon, <1>8, <1>9 DEF TableTypes

\* A row of the command table is set.
LEMMA CommandSet ==
  ASSUME TableTypes, NEW r \in Requests, NEW new \in {"none", "pending", "published"},
         commands' = [commands EXCEPT ![r] = new]
  PROVE  commands' \in [Requests -> {"none", "pending", "published"}]
BY Zenon DEF TableTypes

LEMMA SubmitTyped ==
  ASSUME TableTypes, NEW r \in Requests, SubmitIntent(r)
  PROVE  TableTypes'
<1>1. Insert(r, InitialStatus(r)) BY Zenon DEF SubmitIntent
<1>2. operations' \in [Requests -> OperationRow] /\ opViews' \in [Requests -> OperationRow]
  BY Zenon, <1>1, RowInsertedTyped
<1>3. commands' \in [Requests -> {"none", "pending", "published"}]
  <2>1. commands' = commands \/ commands' = [commands EXCEPT ![r] = "pending"] BY Zenon DEF SubmitIntent
  <2> QED BY Zenon, <2>1 DEF TableTypes
<1>4. drills' \in [Requests -> {"none", "Ready", "Blocked", "Degraded"}]
  <2>1. drills' = drills \/ drills' = [drills EXCEPT ![r] = buildDrillReport(r)] BY Zenon DEF SubmitIntent
  <2>2. buildDrillReport(r) \in {"none", "Ready", "Blocked", "Degraded"} BY Zenon DEF buildDrillReport
  <2> QED BY Zenon, <2>1, <2>2 DEF TableTypes
<1> QED BY Zenon, <1>2, <1>3, <1>4 DEF TableTypes

\* Only submissions, decisions, transitions, the operation centre, the reconciler and the relay
\* write these tables.
LEMMA TablesStep ==
  ASSUME Shape, DRShape, TableTypes, [DRNext]_<<vars, drVars>>
  PROVE  TableTypes'
<1>0. CASE UNCHANGED <<operations, opViews, drills, commands>> BY Zenon, <1>0 DEF TableTypes
<1>1. ASSUME NEW r \in Requests, SubmitIntent(r) PROVE TableTypes' BY Zenon, <1>1, SubmitTyped
<1>2. ASSUME NEW r \in Requests, PublishCommand(r) PROVE TableTypes'
  <2>1. PICK marked \in {"pending", "published"} : commands' = [commands EXCEPT ![r] = marked]
    BY Zenon, <1>2 DEF PublishCommand
  <2>2. marked \in {"none", "pending", "published"} BY Zenon
  <2>3. commands' \in [Requests -> {"none", "pending", "published"}] BY Zenon, <2>1, <2>2, CommandSet
  <2>4. UNCHANGED <<operations, opViews, drills>> BY Zenon, <1>2 DEF PublishCommand
  <2> QED BY Zenon, <2>3, <2>4 DEF TableTypes
<1>3. ASSUME NEW u \in Users, UpdateSwitchRequestStatus(u) PROVE TableTypes'
  <2>0. PICK to : to = session[u].to BY Zenon
  <2>1. PICK r \in Requests : r = session[u].request
    BY SMT, <1>3 DEF Shape, UpdateSwitchRequestStatus
  <2>2. /\ WriteStatus(r, to, operationStatusForRequest(to)) /\ UNCHANGED drills
        /\ commands' = commands \/ commands' = [commands EXCEPT ![r] = "pending"]
    BY Zenon, <1>3, <2>0, <2>1 DEF UpdateSwitchRequestStatus
  <2>3. operations' \in [Requests -> OperationRow] /\ opViews' \in [Requests -> OperationRow]
    BY Zenon, <2>2, StatusWrittenTyped
  <2>4. commands' \in [Requests -> {"none", "pending", "published"}] BY Zenon, <2>2 DEF TableTypes
  <2> QED BY Zenon, <2>2, <2>3, <2>4 DEF TableTypes
<1>4. ASSUME NEW r \in Requests, NEW from, NEW to, Transition(r, from, to) PROVE TableTypes'
  <2>1. WriteStatus(r, to, operationStatusForRequest(to)) /\ UNCHANGED <<drills, commands>>
    BY Zenon, <1>4 DEF Transition
  <2>2. operations' \in [Requests -> OperationRow] /\ opViews' \in [Requests -> OperationRow]
    BY Zenon, <2>1, StatusWrittenTyped
  <2> QED BY Zenon, <2>1, <2>2 DEF TableTypes
<1>5. ASSUME NEW c \in Controllers, DispatchRequest(c) \/ RecordFailed(c) \/ RecordSucceeded(c) PROVE TableTypes'
  <2>1. job[c].pc # "idle" BY Zenon, <1>5 DEF DispatchRequest, RecordFailed, RecordSucceeded, At
  <2>2. RequestOf(c) \in Requests BY Zenon, <2>1, RequestAtHand
  <2>3. UNCHANGED tables \/ \E from, to : Transition(RequestOf(c), from, to)
    BY Zenon, <1>5 DEF DispatchRequest, RecordFailed, RecordSucceeded
  <2>4. CASE UNCHANGED tables BY Zenon, <1>0, <2>4 DEF tables
  <2> QED BY Zenon, <1>4, <2>2, <2>3, <2>4
<1>6. ASSUME NEW c \in Controllers, EnsureFailoverRequest(c) PROVE TableTypes'
  <2>1. PICK s \in deciding[c] : \/ Insert(AutoRequest[s], "PendingApproval") /\ UNCHANGED <<drills, commands>>
                                 \/ UNCHANGED tables
    BY Zenon, <1>6 DEF EnsureFailoverRequest
  <2>2. AutoRequest[s] \in Requests
    <3>1. s \in Services BY Zenon DEF Shape
    <3> QED BY Zenon, <3>1, GSLBAssumption
  <2>3. CASE UNCHANGED tables BY Zenon, <1>0, <2>3 DEF tables
  <2>4. CASE Insert(AutoRequest[s], "PendingApproval") /\ UNCHANGED <<drills, commands>>
    BY Zenon, <2>2, <2>4, RowInsertedTyped DEF TableTypes
  <2> QED BY Zenon, <2>1, <2>3, <2>4
<1>7. ASSUME NEW a \in Callers, NEW s \in Services, DispatchMember(a, s) PROVE TableTypes'
  <2>1. call[a].run \in Runs BY Zenon, <1>7 DEF DispatchMember, DRShape
  <2>5. RequestFor[call[a].run] \in [Services -> DRRequests] BY Zenon, <2>1, DRAssumption
  <2>2. RequestFor[call[a].run][s] \in Requests BY Zenon, <2>5, GSLBAssumption
  <2>3. SubmitIntent(RequestFor[call[a].run][s]) \/ UNCHANGED tables BY Zenon, <1>7 DEF DispatchMember
  <2>4. CASE UNCHANGED tables BY Zenon, <1>0, <2>4 DEF tables
  <2> QED BY Zenon, <1>1, <2>2, <2>3, <2>4
<1>8. CASE DRStep
  <2>1. \/ UNCHANGED <<operations, opViews, drills, commands>>
        \/ \E a \in Callers, s \in Services : DispatchMember(a, s)
    BY ZenonT(30), <1>8 DEF DRStep, AddMember, InitiateSwitch, ReadRun, CreateRun, ConfirmDataLayer, FinishDispatch,
                failRun, CallEnds, vars, tables
  <2> QED BY Zenon, <1>0, <1>7, <2>1
<1>9. CASE Apiserver
  <2>1. \/ \E r \in Requests : SubmitIntent(r) \/ PublishCommand(r)
        \/ \E u \in Users : UpdateSwitchRequestStatus(u)
        \/ UNCHANGED <<operations, opViews, drills, commands>>
    BY ZenonT(30), <1>9 DEF Apiserver, Submit, ReadForDecision, DecisionFails, tables
  <2> QED BY Zenon, <1>0, <1>1, <1>2, <1>3, <2>1
<1>10. ASSUME NEW c \in Controllers, Controller(c) PROVE TableTypes'
  <2>1. \/ DispatchRequest(c) \/ RecordFailed(c) \/ RecordSucceeded(c) \/ EnsureFailoverRequest(c)
        \/ UNCHANGED <<operations, opViews, drills, commands>>
    BY ZenonT(30), <1>10 DEF Controller, Deliver, GetRequest, ExecuteStep, StepFails, Compensate, EmitStatusChanged,
                Ack, CrashController, Reconcile, tables
  <2> QED BY Zenon, <1>0, <1>5, <1>6, <2>1
<1>11. CASE UNCHANGED vars BY Zenon, <1>0, <1>11 DEF vars, tables
<1>12. CASE OperationCentre BY Zenon, <1>12, CentreTyped
<1> QED BY Zenon, <1>8, <1>9, <1>10, <1>11, <1>12 DEF DRNext, Next

LEMMA UndoKept ==
  ASSUME Undoing, NEW c \in Controllers, \A d \in Controllers \ {c} : job'[d] = job[d],
         job'[c].pc = "compensate" => job'[c].undo \in DOMAIN BuildPlan(job'[c].message[1])
  PROVE  Undoing'
<1> SUFFICES ASSUME NEW d \in Controllers, job'[d].pc = "compensate"
             PROVE  job'[d].undo \in DOMAIN BuildPlan(job'[d].message[1])
  BY Zenon DEF Undoing, RequestOf
<1>1. CASE d = c BY Zenon, <1>1
<1>2. CASE d # c
  <2>1. job'[d] = job[d] BY Zenon, <1>2
  <2>2. job[d].undo \in DOMAIN BuildPlan(job[d].message[1]) BY Zenon, <2>1 DEF Undoing, RequestOf
  <2> QED BY Zenon, <2>1, <2>2
<1> QED BY Zenon, <1>1, <1>2

\* A step of HandleCommand, in the fields of the job.
LEMMA GotoEffect ==
  ASSUME Shape, NEW c \in Controllers, NEW pc, NEW todo, NEW undo, GotoWith(c, pc, todo, undo)
  PROVE  /\ job'[c].pc = pc /\ job'[c].undo = undo /\ job'[c].message = job[c].message
         /\ \A d \in Controllers \ {c} : job'[d] = job[d]
<1>1. PICK new : new = [message |-> job[c].message, pc |-> pc, todo |-> todo, undo |-> undo] BY Zenon
<1>2. new.pc = pc /\ new.undo = undo /\ new.message = job[c].message BY Zenon, <1>1
<1>3. job' = [job EXCEPT ![c] = new] BY Zenon, <1>1 DEF GotoWith
<1>4. job'[c] = new /\ \A d \in Controllers \ {c} : job'[d] = job[d] BY Zenon, <1>3 DEF Shape
<1> QED BY Zenon, <1>2, <1>4

\* Only a failed step of the plan that names a compensation leads to one.
LEMMA UndoingStep ==
  ASSUME Shape, Undoing, [DRNext]_<<vars, drVars>>
  PROVE  Undoing'
<1>0. CASE UNCHANGED job BY Zenon, <1>0 DEF Undoing, RequestOf
<1>1. ASSUME NEW c \in Controllers, Ack(c) \/ CrashController(c) \/ \E m \in unacked : Deliver(c, m) PROVE Undoing'
  <2>1. job'[c].pc \in {"idle", "get"} /\ \A d \in Controllers \ {c} : job'[d] = job[d]
    BY Zenon, <1>1, DeliveryMoves DEF Replaced
  <2> QED BY Zenon, <2>1, UndoKept
<1>2. ASSUME NEW c \in Controllers, NEW pc, Moved(c, pc), pc # "compensate" PROVE Undoing'
  <2>1. job'[c].pc # "compensate" /\ \A d \in Controllers \ {c} : job'[d] = job[d] BY Zenon, <1>2 DEF Moved
  <2> QED BY Zenon, <2>1, UndoKept
<1>3. ASSUME NEW c \in Controllers, GetRequest(c) PROVE Undoing'
  <2>1. \E pc \in {"ack", "dispatch", "run"} : Moved(c, pc) BY Zenon, <1>3, GetMoves
  <2> QED BY Zenon, <1>2, <2>1
<1>4. ASSUME NEW c \in Controllers, DispatchRequest(c) \/ RecordFailed(c) \/ RecordSucceeded(c) PROVE Undoing'
  <2>1. \E pc \in {"ack", "run", "emitFailed", "emitSucceeded"} : Moved(c, pc) BY ZenonT(30), <1>4, VerdictMoves
  <2> QED BY Zenon, <1>2, <2>1
<1>5. ASSUME NEW c \in Controllers, NEW status \in {"Failed", "Succeeded"}, EmitStatusChanged(c, status) PROVE Undoing'
  <2>1. Moved(c, "ack") BY ZenonT(30), <1>5, VerdictMoves
  <2> QED BY Zenon, <1>2, <2>1
<1>6. ASSUME NEW c \in Controllers, ExecuteStep(c) PROVE Undoing'
  <2>0. \E pc \in {"succeed", "run"} : \E todo : GotoWith(c, pc, todo, "none") BY Zenon, <1>6 DEF ExecuteStep
  <2>1. PICK pc \in {"succeed", "run"} : \E todo : GotoWith(c, pc, todo, "none") BY Zenon, <2>0
  <2>2. job'[c].pc = pc /\ \A d \in Controllers \ {c} : job'[d] = job[d] BY Zenon, <2>1, GotoEffect
  <2>3. job'[c].pc # "compensate" BY Zenon, <2>2
  <2> QED BY Zenon, <2>2, <2>3, UndoKept
<1>7. ASSUME NEW c \in Controllers, StepFails(c) PROVE Undoing'
  <2>1. PICK id \in job[c].todo :
          GotoWith(c, IF BuildPlan(RequestOf(c))[id].compensation = "none" THEN "fail" ELSE "compensate",
                   {}, BuildPlan(RequestOf(c))[id].compensation)
    BY Zenon, <1>7 DEF StepFails
  <2>2. job[c].pc # "idle" BY Zenon, <1>7 DEF StepFails, At
  <2>3. RequestOf(c) \in Requests /\ id \in DOMAIN BuildPlan(RequestOf(c)) BY Zenon, <2>2, RequestAtHand DEF Shape
  <2>4. PICK undo \in DOMAIN BuildPlan(RequestOf(c)) \cup {"none"} : undo = BuildPlan(RequestOf(c))[id].compensation
    BY Zenon, <2>3, PlanTypes
  <2>5. PICK pc : pc = IF undo = "none" THEN "fail" ELSE "compensate" BY Zenon
  <2>6. GotoWith(c, pc, {}, undo) BY Zenon, <2>1, <2>4, <2>5
  <2>7. /\ job'[c].pc = pc /\ job'[c].undo = undo /\ job'[c].message = job[c].message
        /\ \A d \in Controllers \ {c} : job'[d] = job[d]
    BY Zenon, <2>6, GotoEffect
  <2>8. job'[c].pc = "compensate" => undo # "none" BY Zenon, <2>5, <2>7
  <2>9. job'[c].pc = "compensate" => job'[c].undo \in DOMAIN BuildPlan(job'[c].message[1])
    BY Zenon, <2>7, <2>8 DEF RequestOf
  <2> QED BY Zenon, <2>7, <2>9, UndoKept
<1>8. ASSUME NEW c \in Controllers, Compensate(c) PROVE Undoing'
  <2>1. job[c].pc # "idle" /\ Goto(c, "fail") BY Zenon, <1>8 DEF Compensate, At
  <2>2. Moved(c, "fail") BY Zenon, <2>1, GotoMoves DEF PCs
  <2> QED BY Zenon, <1>2, <2>2
<1>9. CASE DRStep
  <2>1. UNCHANGED job
    BY ZenonT(30), <1>9 DEF DRStep, AddMember, InitiateSwitch, ReadRun, CreateRun, ConfirmDataLayer, FinishDispatch,
                failRun, CallEnds, DispatchMember, vars
  <2> QED BY Zenon, <1>0, <2>1
<1>10. CASE Apiserver
  <2>1. UNCHANGED job
    BY ZenonT(30), <1>10 DEF Apiserver, Submit, PublishCommand, ReadForDecision, UpdateSwitchRequestStatus, DecisionFails
  <2> QED BY Zenon, <1>0, <2>1
<1>11. ASSUME NEW c \in Controllers, Controller(c) PROVE Undoing'
  <2>1. ASSUME \/ EnsureFailoverRequest(c)
               \/ \E up \in SUBSET Clusters : Reconcile(c, Domain, up)
        PROVE  UNCHANGED job
    BY Zenon, <2>1 DEF EnsureFailoverRequest, Reconcile
  <2> QED BY ZenonT(30), <1>0, <1>1, <1>3, <1>4, <1>5, <1>6, <1>7, <1>8, <1>11, <2>1 DEF Controller
<1>12. CASE UNCHANGED vars BY Zenon, <1>0, <1>12 DEF vars
<1>13. CASE OperationCentre BY Zenon, <1>0, <1>13, CentreLeaves
<1> QED BY Zenon, <1>9, <1>10, <1>11, <1>12, <1>13 DEF DRNext, Next

LEMMA TrafficApplied ==
  ASSUME DNSTypes, NEW r \in Requests, NEW targets \in SUBSET Clusters, Applied(r, targets)
  PROVE  DNSTypes'
<1>1. PICK s \in Services : s = ServiceOf[r] BY Zenon, GSLBAssumption
<1>2. dns' = [dns EXCEPT ![s] = targets] BY Zenon, <1>1 DEF Applied
<1> QED BY Zenon, <1>2 DEF DNSTypes

\* The endpoint of a service only ever names clusters: every step that writes it is one of a plan.
LEMMA DNSStep ==
  ASSUME Shape, Undoing, DNSTypes, [DRNext]_<<vars, drVars>>
  PROVE  DNSTypes'
<1>0. CASE UNCHANGED dns BY Zenon, <1>0 DEF DNSTypes
<1>1. ASSUME NEW c \in Controllers, job[c].pc # "idle", NEW id \in DOMAIN BuildPlan(RequestOf(c)),
             Applied(RequestOf(c), BuildPlan(RequestOf(c))[id].targets)
      PROVE  DNSTypes'
  <2>1. PICK r \in Requests : r = RequestOf(c) BY Zenon, <1>1, RequestAtHand
  <2>2. PICK targets \in SUBSET Clusters : targets = BuildPlan(r)[id].targets BY Zenon, <2>1, PlanTypes
  <2> QED BY Zenon, <1>1, <2>1, <2>2, TrafficApplied
<1>2. ASSUME NEW c \in Controllers, ExecuteStep(c) \/ StepFails(c) PROVE DNSTypes'
  <2>1. job[c].pc # "idle" BY Zenon, <1>2 DEF ExecuteStep, StepFails, At
  <2>2. job[c].todo \subseteq DOMAIN BuildPlan(RequestOf(c)) BY Zenon, <2>1 DEF Shape
  <2>3. UNCHANGED dns \/ \E id \in job[c].todo : Applied(RequestOf(c), BuildPlan(RequestOf(c))[id].targets)
    BY Zenon, <1>2 DEF ExecuteStep, StepFails
  <2> QED BY ZenonT(30), <1>0, <1>1, <2>1, <2>2, <2>3
<1>3. ASSUME NEW c \in Controllers, Compensate(c) PROVE DNSTypes'
  <2>1. job[c].pc = "compensate" BY Zenon, <1>3 DEF Compensate, At
  <2>2. job[c].undo \in DOMAIN BuildPlan(RequestOf(c)) BY Zenon, <2>1 DEF Undoing
  <2>3. UNCHANGED dns \/ Applied(RequestOf(c), BuildPlan(RequestOf(c))[job[c].undo].targets)
    BY Zenon, <1>3 DEF Compensate
  <2>4. job[c].pc # "idle" BY Zenon, <2>1
  <2> QED BY Zenon, <1>0, <1>1, <2>2, <2>3, <2>4
<1>4. CASE DRStep
  <2>1. UNCHANGED dns
    BY ZenonT(30), <1>4 DEF DRStep, AddMember, InitiateSwitch, ReadRun, CreateRun, ConfirmDataLayer, FinishDispatch,
                failRun, CallEnds, DispatchMember, vars
  <2> QED BY Zenon, <1>0, <2>1
<1>5. CASE Apiserver
  <2>1. UNCHANGED dns
    BY ZenonT(30), <1>5 DEF Apiserver, Submit, PublishCommand, ReadForDecision, UpdateSwitchRequestStatus, DecisionFails
  <2> QED BY Zenon, <1>0, <2>1
<1>6. ASSUME NEW c \in Controllers, Controller(c) PROVE DNSTypes'
  <2>1. UNCHANGED dns \/ ExecuteStep(c) \/ StepFails(c) \/ Compensate(c)
    BY Zenon, <1>6 DEF Controller, Deliver, GetRequest, DispatchRequest, RecordFailed, RecordSucceeded,
                EmitStatusChanged, Ack, CrashController, Reconcile, EnsureFailoverRequest
  <2> QED BY Zenon, <1>0, <1>2, <1>3, <2>1
<1>7. CASE UNCHANGED vars BY Zenon, <1>0, <1>7 DEF vars
<1>8. CASE OperationCentre BY Zenon, <1>0, <1>8, CentreLeaves
<1> QED BY ZenonT(30), <1>4, <1>5, <1>6, <1>7, <1>8 DEF DRNext, Next

\* Only the reconciler writes the read model of health, and only a delivery is counted.
LEMMA ProcessStep ==
  ASSUME Shape, ProcessTypes, [DRNext]_<<vars, drVars>>
  PROVE  ProcessTypes'
<1>0. CASE UNCHANGED <<readModel, deliveries>> BY Zenon, <1>0 DEF ProcessTypes
<1>1. ASSUME NEW c \in Controllers, NEW m \in unacked, Deliver(c, m) PROVE ProcessTypes'
  <2>1. PICK k \in Requests \X (1..MaxCopies) : k = m BY Zenon DEF Shape
  <2>2. deliveries[k] \in Nat BY Zenon, <2>1 DEF ProcessTypes
  <2>3. PICK n \in Nat : n = deliveries[k] + 1 BY SMT, <2>2
  <2>4. deliveries' = [deliveries EXCEPT ![k] = n] /\ UNCHANGED readModel BY Zenon, <1>1, <2>1, <2>3 DEF Deliver
  <2> QED BY Zenon, <2>4 DEF ProcessTypes
<1>2. ASSUME NEW c \in Controllers, NEW up \in SUBSET Clusters, Reconcile(c, Domain, up) PROVE ProcessTypes'
  <2>1. Domain \in Services /\ PoolsOf[Domain] \in SUBSET Pools /\ ActivePool[Domain] \in Pools \cup {NoPool}
    BY Zenon, GSLBAssumption
  <2>2. PICK healthy \in SUBSET Pools : healthy = HealthyPools(Domain, up) BY Zenon, <2>1 DEF HealthyPools
  <2>3. PICK current \in SUBSET Clusters : current = Targets(ActivePool[Domain]) \cap up BY Zenon
  <2>4. UNCHANGED deliveries /\ (\/ UNCHANGED readModel
                                 \/ readModel' = [readModel EXCEPT ![Domain] =
                                                    [healthyPools |-> healthy, currentTargets |-> current]])
    BY Zenon, <1>2, <2>2, <2>3 DEF Reconcile, queue
  <2>5. [healthyPools |-> healthy, currentTargets |-> current]
          \in [healthyPools : SUBSET Pools, currentTargets : SUBSET Clusters]
    BY Zenon
  <2> QED BY Zenon, <1>0, <2>1, <2>4, <2>5 DEF ProcessTypes
<1>3. CASE DRStep
  <2>1. UNCHANGED <<readModel, deliveries>>
    BY ZenonT(30), <1>3 DEF DRStep, AddMember, InitiateSwitch, ReadRun, CreateRun, ConfirmDataLayer, FinishDispatch,
                failRun, CallEnds, DispatchMember, vars, queue
  <2> QED BY Zenon, <1>0, <2>1
<1>4. CASE Apiserver
  <2>1. UNCHANGED <<readModel, deliveries>>
    BY ZenonT(30), <1>4 DEF Apiserver, Submit, PublishCommand, ReadForDecision, UpdateSwitchRequestStatus,
                DecisionFails, queue
  <2> QED BY Zenon, <1>0, <2>1
<1>5. ASSUME NEW c \in Controllers, Controller(c) PROVE ProcessTypes'
  <2>1. \/ UNCHANGED <<readModel, deliveries>>
        \/ \E m \in unacked : Deliver(c, m)
        \/ \E up \in SUBSET Clusters : Reconcile(c, Domain, up)
    BY ZenonT(30), <1>5 DEF Controller, GetRequest, ExecuteStep, StepFails, Compensate, DispatchRequest, RecordFailed,
                RecordSucceeded, EmitStatusChanged, Ack, CrashController, EnsureFailoverRequest, queue
  <2> QED BY Zenon, <1>0, <1>1, <1>2, <2>1
<1>6. CASE UNCHANGED vars BY Zenon, <1>0, <1>6 DEF vars, queue
<1>7. CASE OperationCentre BY Zenon, <1>0, <1>7, CentreLeaves DEF queue
<1> QED BY ZenonT(30), <1>3, <1>4, <1>5, <1>6, <1>7 DEF DRNext, Next

LEMMA TypesInitially ==
  ASSUME DRInit
  PROVE  TableTypes /\ ProcessTypes /\ Undoing /\ DNSTypes
<1>1. NoRow \in OperationRow
  <2>1. PICK n \in Nat, b \in Nat : n = 0 /\ b = 0 BY SMT
  <2>2. NoRow = [status |-> "absent", completed |-> n, failed |-> b] BY Zenon, <2>1 DEF NoRow
  <2>3. [status |-> "absent", completed |-> n, failed |-> b] \in OperationRow BY Zenon DEF OperationRow
  <2> QED BY Zenon, <2>2, <2>3
<1>2. TableTypes BY Zenon, <1>1 DEF DRInit, Init, TableTypes
<1>3. ProcessTypes
  <2>1. [healthyPools |-> {}, currentTargets |-> {}] \in [healthyPools : SUBSET Pools, currentTargets : SUBSET Clusters]
    BY SMT
  <2>2. readModel \in [Services -> [healthyPools : SUBSET Pools, currentTargets : SUBSET Clusters]]
    BY Zenon, <2>1 DEF DRInit, Init
  <2>3. PICK n \in Nat : n = 0 BY SMT
  <2>4. deliveries \in [Requests \X (1..MaxCopies) -> Nat] BY Zenon, <2>3 DEF DRInit, Init
  <2> QED BY Zenon, <2>2, <2>4 DEF ProcessTypes
<1>4. Undoing
  <2>1. ASSUME NEW c \in Controllers PROVE job[c].pc = "idle" BY Zenon DEF DRInit, Init, Free
  <2> QED BY Zenon, <2>1 DEF Undoing
<1>5. DNSTypes
  <2>1. ASSUME NEW s \in Services PROVE Targets(ActivePool[s]) \in SUBSET Clusters
    <3>1. ActivePool[s] \in Pools \cup {NoPool} BY Zenon, GSLBAssumption
    <3> QED BY Zenon, <3>1, TargetsTyped
  <2> QED BY Zenon, <2>1 DEF DRInit, Init, DNSTypes
<1> QED BY Zenon, <1>2, <1>3, <1>4, <1>5

\* Every table, message and process of a switch has its type; in particular the endpoint of a
\* service only ever names clusters, whatever plan, failure or compensation wrote it last.
THEOREM SwitchTyped == DRSpec => []GSLBTypeOK
<1> DEFINE Types == TableTypes /\ ProcessTypes /\ Undoing /\ DNSTypes
<1>1. DRInit => Types BY Zenon, TypesInitially
<1>2. Inv /\ Types /\ [DRNext]_<<vars, drVars>> => Types'
  BY Zenon, TablesStep, ProcessStep, UndoingStep, DNSStep DEF Inv
<1>3. Inv /\ Types => GSLBTypeOK
  <2> SUFFICES ASSUME Shape, Types PROVE GSLBTypeOK BY Zenon DEF Inv
  <2>1. session \in [Users -> [request : Requests \cup {NoRequest}, to : {"none", "Approved", "Rejected"}]]
    <3>1. [request : Requests, to : {"Approved", "Rejected"}] \cup {[request |-> NoRequest, to |-> "none"]}
            \subseteq [request : Requests \cup {NoRequest}, to : {"none", "Approved", "Rejected"}]
      BY SMT
    <3> QED BY Zenon, <3>1 DEF Shape
  <2> QED BY Zenon, <2>1 DEF GSLBTypeOK, Shape, TableTypes, ProcessTypes, DNSTypes
<1> HIDE DEF Types
<1> QED BY <1>1, <1>2, <1>3, Invariance, PTL DEF DRSpec
===============================================================================
