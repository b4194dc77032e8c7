----------------------- MODULE KubernetesProviderProofs -----------------------
(***************************************************************************)
(* For any executions, any number of rounds and any interference of other  *)
(* clients, the compare-and-swap loop implements the fence of              *)
(* FencedProvider, keeps tombstones, and leaves what was asked for.        *)
(***************************************************************************)
EXTENDS KubernetesProvider, TLAPS

(* Resource versions identify states of the object. *)
SnapshotsAgree ==
  /\ Found(deployment) => deployment.resourceVersion <= revision
  /\ \A r \in Requests : Found(existing[r]) =>
       /\ existing[r].resourceVersion <= revision
       /\ Found(deployment) /\ deployment.resourceVersion = existing[r].resourceVersion
            => deployment = existing[r]

(* An execution that is about to write has decided so on what it has read, *)
(* in a round that was left, and it answers once.                          *)
Decided ==
  \A r \in Requests :
    /\ pc[r] = "update" => /\ Found(existing[r])
                           /\ Verdict(existing[r], ExecutionOf[r]) = "update"
    /\ pc[r] = "create" => ExecutionOf[r].stepType = "deploy"
    /\ pc[r] \in {"create", "update"} => attempt[r] < maxCASAttempts
    /\ (pc[r] = "done") <=> (answer[r] # "none")

(* The object of a generation is what the deploy of that generation asks for. *)
AsRequested ==
  \A r \in Requests :
    /\ Found(deployment) /\ deployment.generation = ExecutionOf[r].generation
    /\ ExecutionOf[r].stepType = "deploy"
    => sameDeploySpec(deployment, ExecutionOf[r])

IInv == ProviderTypeOK /\ SnapshotsAgree /\ Decided /\ AsRequested

-----------------------------------------------------------------------------
(* A stored object is never taken for a missing one. *)
LEMMA StoredIsFound == \A d \in Deployment : Found(d)
<1> SUFFICES ASSUME NEW d \in Deployment, d = NotFound PROVE FALSE
  BY Zenon DEF Found
<1>1. "tenant" \in DOMAIN d
  BY Zenon DEF Deployment
<1>2. DOMAIN NotFound = {"uid"}
  BY Zenon DEF NotFound
<1> QED BY Zenon, <1>1, <1>2

(* The invariant holds before anything runs. *)
LEMMA InvInit == Init => IInv
<1> SUFFICES ASSUME Init PROVE IInv
  BY Zenon
<1> USE ProviderAssumption DEF Init
<1>1. ProviderTypeOK BY DEF ProviderTypeOK, Labels, Answers
<1>2. SnapshotsAgree BY Zenon DEF SnapshotsAgree, Found
<1>3. Decided BY Zenon DEF Decided
<1>4. AsRequested BY Zenon DEF AsRequested, Found
<1> QED BY Zenon, <1>1, <1>2, <1>3, <1>4 DEF IInv

-----------------------------------------------------------------------------
(* What a successful compare-and-swap knows: the object is the one the     *)
(* execution has read and decided on.                                      *)
LEMMA SwapKnows ==
  ASSUME IInv, NEW r \in Requests, pc[r] = "update", UnchangedSinceRead(r)
  PROVE  /\ deployment = existing[r]
         /\ deployment \in Deployment
         /\ deployment.generation < ExecutionOf[r].generation
         /\ ExecutionOf[r].stepType = "deploy" => deployment.image = ExecutionOf[r].image
         /\ ExecutionOf[r].stepType = "deploy" /\ deployment.lastAction = "delete"
              => ExecutionOf[r].expectedUID = deployment.uid
<1>1. Found(existing[r]) /\ Verdict(existing[r], ExecutionOf[r]) = "update"
  BY Zenon DEF IInv, Decided
<1>2. Found(deployment) /\ deployment = existing[r]
  BY Zenon, <1>1 DEF IInv, SnapshotsAgree, UnchangedSinceRead
<1>3. deployment \in Deployment
  BY Zenon, <1>2 DEF IInv, ProviderTypeOK, Found
<1>4. ExecutionOf[r] \in Execution
  BY Zenon, ProviderAssumption
<1>5. deployment.generation \in Nat /\ ExecutionOf[r].generation \in Nat
  BY Zenon, <1>3, <1>4 DEF Deployment, Execution
<1> QED
  BY <1>1, <1>2, <1>3, <1>5
  DEF Verdict, deployVerdict, deleteVerdict, Takeover, Resurrectable, sameDeploySpec, sameDeployTemplate

(* Every write stores a well-formed object under a fresh resource version. *)
LEMMA CreateStores ==
  ASSUME IInv, NEW r \in Requests, Create(r), ~Found(deployment)
  PROVE  /\ deployment' \in Deployment
         /\ deployment'.resourceVersion = revision + 1
         /\ deployment'.generation = ExecutionOf[r].generation
         /\ deployment'.lastAction = "deploy"
         /\ sameDeploySpec(deployment', ExecutionOf[r])
         /\ ExecutionOf[r].stepType = "deploy"
         /\ revision' = revision + 1
<1>1. ExecutionOf[r] \in Execution /\ revision \in Nat
  BY Zenon, ProviderAssumption DEF IInv, ProviderTypeOK
<1>2. ExecutionOf[r].stepType = "deploy"
  BY Zenon DEF IInv, Decided, Create
<1>3. deployment' = [uid |-> revision + 1, resourceVersion |-> revision + 1,
         tenant |-> ExecutionOf[r].tenant, step |-> ExecutionOf[r].step,
         generation |-> ExecutionOf[r].generation,
         lastAction |-> "deploy", image |-> ExecutionOf[r].image,
         replicas |-> ExecutionOf[r].replicas, settled |-> FALSE]
      /\ revision' = revision + 1
  BY Zenon DEF Create, Store
<1>4. deployment' \in Deployment
  BY <1>1, <1>3 DEF Deployment, Execution
<1> QED
  BY Zenon, <1>2, <1>3, <1>4 DEF sameDeploySpec, sameDeployTemplate

(* So does an update, which only ever raises the generation. *)
LEMMA UpdateStores ==
  ASSUME IInv, NEW r \in Requests, Update(r), UnchangedSinceRead(r)
  PROVE  /\ deployment' \in Deployment
         /\ deployment'.resourceVersion = revision + 1
         /\ deployment'.generation = ExecutionOf[r].generation
         /\ deployment'.lastAction = ExecutionOf[r].stepType
         /\ ExecutionOf[r].stepType = "deploy" => sameDeploySpec(deployment', ExecutionOf[r])
         /\ revision' = revision + 1
<1>1. ExecutionOf[r] \in Execution /\ revision \in Nat
  BY Zenon, ProviderAssumption DEF IInv, ProviderTypeOK
<1>2. /\ deployment = existing[r]
      /\ existing[r] \in Deployment
      /\ ExecutionOf[r].stepType = "deploy" => existing[r].image = ExecutionOf[r].image
  BY Zenon, SwapKnows DEF Update
<1>3. DesiredReplicas(ExecutionOf[r]) \in Nat
  BY Zenon, <1>1 DEF DesiredReplicas, Execution
<1>4. existing[r].replicas \in Nat /\ existing[r].settled \in BOOLEAN /\ existing[r].image \in Images
      /\ existing[r].uid \in Nat
  BY Zenon, <1>2 DEF Deployment
<1>5. (existing[r].settled /\ existing[r].replicas = DesiredReplicas(ExecutionOf[r])) \in BOOLEAN
  BY Zenon
<1>6. deployment' = [uid |-> existing[r].uid, resourceVersion |-> revision + 1,
         tenant |-> ExecutionOf[r].tenant, step |-> ExecutionOf[r].step,
         generation |-> ExecutionOf[r].generation,
         lastAction |-> ExecutionOf[r].stepType, image |-> existing[r].image,
         replicas |-> DesiredReplicas(ExecutionOf[r]),
         settled |-> existing[r].settled /\ existing[r].replicas = DesiredReplicas(ExecutionOf[r])]
      /\ revision' = revision + 1
  BY Zenon DEF Update, Store
<1>7. deployment' \in Deployment
  BY <1>1, <1>3, <1>4, <1>5, <1>6 DEF Deployment, Execution
<1>8. ExecutionOf[r].stepType = "deploy" => sameDeploySpec(deployment', ExecutionOf[r])
  BY Zenon, <1>2, <1>6 DEF sameDeploySpec, sameDeployTemplate, DesiredReplicas
<1> QED
  BY Zenon, <1>6, <1>7, <1>8

-----------------------------------------------------------------------------
(* An answer leaves the object alone. *)
LEMMA AnswerStep ==
  ASSUME IInv, NEW r \in Requests, NEW a \in Answers \ {"none"}, Finish(r, a),
         UNCHANGED <<deployment, revision, attempt>>,
         existing' \in {existing, [existing EXCEPT ![r] = deployment]}
  PROVE  IInv'
<1> USE DEF IInv, Finish
<1>1. ProviderTypeOK'
  BY Zenon DEF ProviderTypeOK, Labels
<1>2. SnapshotsAgree'
  BY Zenon DEF ProviderTypeOK, SnapshotsAgree
<1>3. Decided'
  BY DEF Decided, ProviderTypeOK
<1>4. AsRequested'
  BY Zenon DEF AsRequested
<1> QED BY Zenon, <1>1, <1>2, <1>3, <1>4

(* So does going on; an execution that goes on to a write has just read    *)
(* the object.                                                             *)
LEMMA ProceedStep ==
  ASSUME IInv, NEW r \in Requests, pc[r] # "done",
         UNCHANGED <<deployment, revision, answer>>,
         existing' \in {existing, [existing EXCEPT ![r] = deployment]},
         NEW n \in 0..maxCASAttempts, attempt' = [attempt EXCEPT ![r] = n],
         NEW label \in Labels \ {"done"}, pc' = [pc EXCEPT ![r] = label],
         \/ label \notin {"create", "update"}
         \/ /\ existing'[r] = deployment /\ n < maxCASAttempts
            /\ Verdict(deployment, ExecutionOf[r]) = label
  PROVE  IInv'
<1> USE DEF IInv
<1>1. ProviderTypeOK'
  BY Zenon DEF ProviderTypeOK
<1>2. SnapshotsAgree'
  BY Zenon DEF ProviderTypeOK, SnapshotsAgree
<1>3. ASSUME label = "update" PROVE Found(deployment)
  <2>1. Verdict(deployment, ExecutionOf[r]) = "update" BY Zenon, <1>3
  <2> QED BY Zenon, <2>1 DEF Verdict, deployVerdict, deleteVerdict
<1>4. ASSUME label = "create" PROVE ExecutionOf[r].stepType = "deploy"
  <2>1. Verdict(deployment, ExecutionOf[r]) = "create" BY Zenon, <1>4
  <2> QED BY Zenon, <2>1 DEF Verdict, deployVerdict, deleteVerdict
<1>5. Decided'
  <2> SUFFICES ASSUME NEW q \in Requests
      PROVE /\ pc'[q] = "update" => /\ Found(existing'[q])
                                    /\ Verdict(existing'[q], ExecutionOf[q]) = "update"
            /\ pc'[q] = "create" => ExecutionOf[q].stepType = "deploy"
            /\ pc'[q] \in {"create", "update"} => attempt'[q] < maxCASAttempts
            /\ (pc'[q] = "done") <=> (answer'[q] # "none")
    BY Zenon DEF Decided
  <2>1. CASE q = r
    BY Zenon, <1>3, <1>4, <2>1 DEF ProviderTypeOK, Decided
  <2>2. CASE q # r
    BY Zenon, <2>2 DEF Decided, ProviderTypeOK
  <2> QED BY Zenon, <2>1, <2>2
<1>6. AsRequested'
  BY Zenon DEF AsRequested
<1> QED BY Zenon, <1>1, <1>2, <1>5, <1>6

(* A write under a fresh resource version preserves it if the object shows *)
(* what its generation asks for.                                           *)
LEMMA WriteStep ==
  ASSUME IInv,
         deployment' \in Deployment,
         deployment'.resourceVersion = revision + 1, revision' = revision + 1,
         UNCHANGED <<existing, attempt, answer>>,
         pc' \in [Requests -> Labels],
         \A q \in Requests : pc'[q] = pc[q] \/ (pc'[q] = "wait" /\ pc[q] # "done"),
         AsRequested'
  PROVE  IInv'
<1>1. revision \in Nat
  BY Zenon DEF IInv, ProviderTypeOK
<1>2. ProviderTypeOK'
  BY <1>1 DEF IInv, ProviderTypeOK
<1>3. SnapshotsAgree'
  <2> SUFFICES ASSUME NEW q \in Requests, Found(existing[q])
      PROVE /\ existing[q].resourceVersion <= revision + 1
            /\ deployment'.resourceVersion # existing[q].resourceVersion
    BY <1>1 DEF SnapshotsAgree, Found
  <2>1. existing[q].resourceVersion \in Nat /\ existing[q].resourceVersion <= revision
    BY Zenon DEF IInv, ProviderTypeOK, SnapshotsAgree, Found, Deployment
  <2> QED BY <1>1, <2>1
<1>4. Decided'
  BY DEF IInv, Decided
<1> QED BY Zenon, <1>2, <1>3, <1>4 DEF IInv

(* Every step of an execution preserves the invariant. *)
LEMMA HandleKeepsInv ==
  ASSUME IInv, NEW r \in Requests, Handle(r)
  PROVE  IInv'
<1>1. /\ attempt \in [Requests -> 0..maxCASAttempts] /\ maxCASAttempts \in Nat
      /\ attempt = [attempt EXCEPT ![r] = attempt[r]]
  BY Zenon, ProviderAssumption DEF IInv, ProviderTypeOK
<1>2. ASSUME Again(r), pc[r] \in {"create", "update"} PROVE IInv'
  <2>1. attempt[r] + 1 \in 0..maxCASAttempts
    BY <1>1, <1>2 DEF IInv, Decided
  <2>2. "get" \in Labels \ {"done"}
    BY Zenon DEF Labels
  <2> QED BY Zenon, <1>2, <2>1, <2>2, ProceedStep DEF Again
<1>3. CASE Execute(r)
  <2>1. CASE ExecutionOf[r].stepType = "delete" /\ ExecutionOf[r].expectedUID = 0
    BY Zenon, <1>3, <2>1, AnswerStep DEF Execute, Answers
  <2>2. CASE ~(ExecutionOf[r].stepType = "delete" /\ ExecutionOf[r].expectedUID = 0)
    <3>1. "get" \in Labels \ {"done"}
      BY Zenon DEF Labels
    <3> QED BY Zenon, <1>1, <1>3, <2>2, <3>1, ProceedStep DEF Execute
  <2> QED BY Zenon, <2>1, <2>2
<1>4. CASE Get(r)
  <2>1. Verdict(deployment, ExecutionOf[r]) \in {"create", "update", "wait", "fenced", "conflict"}
    BY Zenon DEF Verdict, deployVerdict, deleteVerdict
  <2>2. /\ existing' = [existing EXCEPT ![r] = deployment] /\ existing'[r] = deployment
        /\ UNCHANGED <<deployment, revision, attempt>> /\ pc[r] = "get"
        /\ attempt[r] < maxCASAttempts
    BY Zenon, <1>4 DEF Get, IInv, ProviderTypeOK, RoundLeft
  <2>3. CASE Verdict(deployment, ExecutionOf[r]) \in {"fenced", "conflict"}
    <3>1. PICK a \in {"fenced", "conflict"} : Finish(r, a)
      BY Zenon, <1>4, <2>3 DEF Get
    <3> QED BY Zenon, <2>2, <3>1, AnswerStep DEF Answers
  <2>4. CASE Verdict(deployment, ExecutionOf[r]) \in {"create", "update", "wait"}
    <3>1. PICK label \in {"create", "update", "wait"} : label = Verdict(deployment, ExecutionOf[r])
      BY Zenon, <2>4
    <3>2. pc' = [pc EXCEPT ![r] = label] /\ UNCHANGED answer
      BY Zenon, <1>4, <3>1 DEF Get
    <3>3. label \in Labels \ {"done"}
      BY Zenon, <3>1 DEF Labels
    <3> QED BY Zenon, <1>1, <2>2, <3>1, <3>2, <3>3, ProceedStep
  <2> QED BY Zenon, <2>1, <2>3, <2>4
<1>5. CASE RoundsExhausted(r)
  BY Zenon, <1>5, AnswerStep DEF RoundsExhausted, Answers
<1>6. CASE Create(r)
  <2>1. CASE Found(deployment)
    BY Zenon, <1>2, <1>6, <2>1 DEF Create
  <2>2. CASE ~Found(deployment)
    <3>1. /\ deployment' \in Deployment /\ deployment'.resourceVersion = revision + 1
          /\ revision' = revision + 1
          /\ deployment'.generation = ExecutionOf[r].generation
          /\ sameDeploySpec(deployment', ExecutionOf[r])
      BY Zenon, <1>6, <2>2, CreateStores
    <3>2. AsRequested'
      BY Zenon, <3>1, ProviderAssumption DEF AsRequested
    <3>3. /\ pc' = [pc EXCEPT ![r] = "wait"] /\ pc[r] = "create"
          /\ UNCHANGED <<existing, attempt, answer>>
      BY Zenon, <1>6, <2>2 DEF Create, Store
    <3>4. pc' \in [Requests -> Labels]
          /\ \A q \in Requests : pc'[q] = pc[q] \/ (pc'[q] = "wait" /\ pc[q] # "done")
      BY Zenon, <3>3 DEF IInv, ProviderTypeOK, Labels
    <3> QED BY Zenon, <3>1, <3>2, <3>3, <3>4, WriteStep
  <2> QED BY Zenon, <2>1, <2>2
<1>7. CASE Update(r)
  <2>1. CASE ~UnchangedSinceRead(r)
    BY Zenon, <1>2, <1>7, <2>1 DEF Update
  <2>2. CASE UnchangedSinceRead(r)
    <3>1. /\ deployment' \in Deployment /\ deployment'.resourceVersion = revision + 1
          /\ revision' = revision + 1
          /\ deployment'.generation = ExecutionOf[r].generation
          /\ ExecutionOf[r].stepType = "deploy" => sameDeploySpec(deployment', ExecutionOf[r])
      BY Zenon, <1>7, <2>2, UpdateStores
    <3>2. AsRequested'
      BY Zenon, <3>1, ProviderAssumption DEF AsRequested
    <3>3. /\ pc' = [pc EXCEPT ![r] = "wait"] /\ pc[r] = "update"
          /\ UNCHANGED <<existing, attempt, answer>>
      BY Zenon, <1>7, <2>2 DEF Update, Store
    <3>4. pc' \in [Requests -> Labels]
          /\ \A q \in Requests : pc'[q] = pc[q] \/ (pc'[q] = "wait" /\ pc[q] # "done")
      BY Zenon, <3>3 DEF IInv, ProviderTypeOK, Labels
    <3> QED BY Zenon, <3>1, <3>2, <3>3, <3>4, WriteStep
  <2> QED BY Zenon, <2>1, <2>2
<1>8. CASE Poll(r)
  <2>1. PICK a \in {"unavailable", "fenced", "conflict", "succeeded"} : Finish(r, a)
    BY Zenon, <1>8 DEF Poll
  <2> QED BY Zenon, <1>8, <2>1, AnswerStep DEF Poll, Answers
<1>9. CASE TargetError(r)
  BY Zenon, <1>9, AnswerStep DEF TargetError, Answers
<1> QED BY Zenon, <1>3, <1>4, <1>5, <1>6, <1>7, <1>8, <1>9 DEF Handle

-----------------------------------------------------------------------------
(* A status report keeps all but the resource version and the status. *)
LEMMA StatusKeeps ==
  ASSUME IInv, StatusReported
  PROVE  /\ deployment' \in Deployment /\ deployment'.resourceVersion = revision + 1
         /\ deployment'.uid = deployment.uid /\ deployment'.generation = deployment.generation
         /\ deployment'.lastAction = deployment.lastAction
         /\ deployment'.image = deployment.image /\ deployment'.replicas = deployment.replicas
<1>1. revision \in Nat /\ deployment \in Deployment
  BY Zenon DEF IInv, ProviderTypeOK, StatusReported, Found
<1>2. PICK settled \in BOOLEAN :
        deployment' = [[deployment EXCEPT !.resourceVersion = revision + 1] EXCEPT !.settled = settled]
  BY Zenon DEF StatusReported
<1> DEFINE d == [deployment EXCEPT !.resourceVersion = revision + 1]
<1>3. /\ d \in Deployment /\ d.resourceVersion = revision + 1
      /\ d.uid = deployment.uid /\ d.generation = deployment.generation
      /\ d.lastAction = deployment.lastAction
      /\ d.image = deployment.image /\ d.replicas = deployment.replicas
  BY <1>1 DEF Deployment
<1>4. deployment' = [d EXCEPT !.settled = settled]
  BY Zenon, <1>2
<1> HIDE DEF d
<1> QED BY Zenon, <1>3, <1>4 DEF Deployment

(* Every step preserves the invariant. *)
LEMMA InvStep == IInv /\ [Next]_vars => IInv'
<1> SUFFICES ASSUME IInv, [Next]_vars PROVE IInv'
  BY Zenon
<1>1. CASE StatusReported
  <2>1. AsRequested'
    <3>1. Found(deployment)
      BY Zenon, <1>1 DEF StatusReported
    <3> QED BY Zenon, <1>1, <3>1, StatusKeeps DEF IInv, AsRequested, sameDeploySpec, sameDeployTemplate
  <2>2. revision' = revision + 1 /\ UNCHANGED <<pc, existing, attempt, answer>>
    BY Zenon, <1>1 DEF StatusReported
  <2>3. pc' \in [Requests -> Labels] /\ \A q \in Requests : pc'[q] = pc[q]
    BY Zenon, <2>2 DEF IInv, ProviderTypeOK
  <2> QED BY Zenon, <1>1, <2>1, <2>2, <2>3, StatusKeeps, WriteStep
<1>2. CASE Removed
  <2>1. ~Found(deployment')
    BY Zenon, <1>2 DEF Removed, Found
  <2>2. ProviderTypeOK'
    BY <1>2 DEF Removed, IInv, ProviderTypeOK
  <2>3. SnapshotsAgree'
    <3>1. revision \in Nat /\ revision' = revision + 1 /\ existing' = existing
      BY Zenon, <1>2 DEF Removed, IInv, ProviderTypeOK
    <3>2. ASSUME NEW q \in Requests, Found(existing[q]) PROVE existing[q].resourceVersion <= revision'
      <4>1. existing[q].resourceVersion \in Nat /\ existing[q].resourceVersion <= revision
        BY Zenon, <3>2 DEF IInv, ProviderTypeOK, SnapshotsAgree, Found, Deployment
      <4> QED BY <3>1, <4>1
    <3> QED BY Zenon, <2>1, <3>1, <3>2 DEF SnapshotsAgree, Found
  <2>4. Decided'
    BY Zenon, <1>2 DEF Removed, IInv, Decided
  <2>5. AsRequested'
    BY Zenon, <2>1 DEF AsRequested, Found
  <2> QED BY Zenon, <2>2, <2>3, <2>4, <2>5 DEF IInv
<1>3. CASE \E r \in Requests : Handle(r)
  BY Zenon, <1>3, HandleKeepsInv
<1>4. CASE UNCHANGED vars
  BY Zenon, <1>4 DEF vars, IInv, ProviderTypeOK, SnapshotsAgree, Decided, AsRequested
<1> QED BY Zenon, <1>1, <1>2, <1>3, <1>4 DEF Next

(* The invariant holds always. *)
LEMMA InvAlways == Spec => []IInv
BY InvInit, InvStep, PTL DEF Spec

(* Object, executions and answers keep their shape and no execution uses   *)
(* more than maxCASAttempts rounds of the loop in deploy and delete.       *)
THEOREM ProviderTypeCorrect == Spec => []ProviderTypeOK
<1>1. IInv => ProviderTypeOK
  BY Zenon DEF IInv
<1> QED BY <1>1, InvAlways, PTL

(* A deploy that answered with success left image and replicas as asked    *)
(* for, also when it took the object over from an earlier attempt.         *)
THEOREM DeploysWhatIsAsked == Spec => []DeployedAsRequested
<1>1. IInv => DeployedAsRequested
  BY Zenon DEF IInv, AsRequested, DeployedAsRequested
<1> QED BY <1>1, InvAlways, PTL

-----------------------------------------------------------------------------
(* A tombstone is brought back only by a newer deploy that names its uid:  *)
(* the compare-and-swap of deploy makes what it has read still true when   *)
(* it writes.                                                              *)
THEOREM TombstonesStay == Spec => TombstoneStays
<1> DEFINE Brought == Found(deployment) /\ deployment.lastAction = "delete" /\ Found(deployment')
                        /\ deployment'.lastAction # "delete" /\ deployment'.uid = deployment.uid
           Named == \E r \in Requests : /\ ExecutionOf[r].generation = deployment'.generation
                                        /\ ExecutionOf[r].stepType = "deploy"
                                        /\ ExecutionOf[r].expectedUID = deployment.uid
                                        /\ ExecutionOf[r].generation > deployment.generation
<1>1. ASSUME IInv, Next, Brought PROVE Named
  <2>1. CASE StatusReported
    BY Zenon, <1>1, <2>1, StatusKeeps
  <2>2. CASE Removed
    BY Zenon, <1>1, <2>2 DEF Removed, Found
  <2>3. CASE \E r \in Requests : Handle(r)
    <3> PICK r \in Requests : Handle(r)
      BY Zenon, <2>3
    <3>1. deployment' # deployment
      BY Zenon, <1>1
    <3>2. CASE Create(r)
      BY Zenon, <1>1, <3>1, <3>2 DEF Create, Again
    <3>3. CASE Update(r)
      <4>1. UnchangedSinceRead(r) /\ pc[r] = "update"
        BY Zenon, <3>1, <3>3 DEF Update, Again
      <4>2. /\ deployment'.lastAction = ExecutionOf[r].stepType
            /\ deployment'.generation = ExecutionOf[r].generation
        BY Zenon, <1>1, <3>3, <4>1, UpdateStores
      <4>3. ExecutionOf[r].stepType = "deploy"
        BY Zenon, <1>1, <4>2, ProviderAssumption DEF Execution
      <4>4. deployment.generation \in Nat /\ ExecutionOf[r].generation \in Nat
        BY Zenon, <1>1, <4>1, SwapKnows, ProviderAssumption DEF Deployment, Execution
      <4> QED BY Zenon, <1>1, <4>1, <4>2, <4>3, <4>4, SwapKnows
    <3>4. CASE Execute(r) \/ Get(r) \/ RoundsExhausted(r) \/ Poll(r) \/ TargetError(r)
      BY Zenon, <3>1, <3>4 DEF Execute, Get, RoundsExhausted, Poll, TargetError
    <3> QED BY Zenon, <3>2, <3>3, <3>4 DEF Handle
  <2> QED BY Zenon, <1>1, <2>1, <2>2, <2>3 DEF Next
<1>2. IInv /\ [Next]_vars => [Brought => Named]_vars
  BY Zenon, <1>1
<1> QED BY <1>2, InvAlways, PTL DEF Spec, TombstoneStays

-----------------------------------------------------------------------------
(* An answer of an execution is the answer of the abstract provider. *)
LEMMA AnswerMaps ==
  ASSUME IInv, NEW r \in Requests, NEW a \in Answers \ {"none"}, Finish(r, a),
         UNCHANGED <<deployment, revision>>, pc[r] # "done",
         a = "succeeded" => WrittenGeneration = ExecutionOf[r].generation,
         a = "fenced" => WrittenGeneration > ExecutionOf[r].generation
  PROVE  Fence!Next
<1> DEFINE mapped == [q \in Requests |-> AbstractAnswer(answer[q])]
<1>1. answer[r] = "none" /\ answer \in [Requests -> Answers]
  BY Zenon DEF IInv, Decided, ProviderTypeOK
<1>2. WrittenGeneration' = WrittenGeneration
  BY Zenon DEF WrittenGeneration
<1>3. mapped' = [mapped EXCEPT ![r] = AbstractAnswer(a)] /\ mapped[r] = "none"
  BY Zenon, <1>1 DEF Finish, AbstractAnswer
<1>4. Fence!Reply(r, AbstractAnswer(a))
  BY Zenon, <1>2, <1>3 DEF Fence!Reply
<1>5. CASE a = "succeeded"
  BY Zenon, <1>4, <1>5 DEF Fence!Succeed, Fence!Next, AbstractAnswer
<1>6. CASE a = "fenced"
  BY Zenon, <1>4, <1>6 DEF Fence!Fence, Fence!Next, AbstractAnswer
<1>7. CASE a \notin {"succeeded", "fenced"}
  BY Zenon, <1>4, <1>7 DEF Fence!Fail, Fence!Next, AbstractAnswer
<1> QED BY Zenon, <1>5, <1>6, <1>7

(* A write of an execution is a write of the abstract provider. *)
LEMMA WriteMaps ==
  ASSUME IInv, NEW r \in Requests, pc[r] # "done", UNCHANGED answer,
         ExecutionOf[r].generation >= WrittenGeneration,
         WrittenGeneration' = ExecutionOf[r].generation
  PROVE  Fence!Next
<1>1. answer[r] = "none"
  BY Zenon DEF IInv, Decided
<1>2. Fence!Write(r)
  BY Zenon, <1>1 DEF Fence!Write, AbstractAnswer
<1> QED BY Zenon, <1>2 DEF Fence!Next

(* Every step is a step of the abstract provider or invisible to it. *)
LEMMA FenceStep == IInv /\ [Next]_vars => [Fence!Next]_(Fence!fenceVars)
<1> SUFFICES ASSUME IInv, [Next]_vars
    PROVE Fence!Next \/ (WrittenGeneration' = WrittenGeneration /\ answer' = answer)
  BY Zenon DEF Fence!fenceVars
<1>1. CASE UNCHANGED <<deployment, answer>>
  BY Zenon, <1>1 DEF WrittenGeneration
<1>2. CASE StatusReported
  <2>1. Found(deployment) /\ Found(deployment') /\ deployment'.generation = deployment.generation
    BY Zenon, <1>2, StatusKeeps, StoredIsFound DEF StatusReported
  <2> QED BY Zenon, <1>2, <2>1 DEF WrittenGeneration, StatusReported, Found
<1>3. CASE Removed
  <2>1. WrittenGeneration' = 0 /\ answer' = answer
    BY Zenon, <1>3 DEF Removed, WrittenGeneration, Found
  <2>2. Fence!Lose
    BY Zenon, <2>1 DEF Fence!Lose
  <2> QED BY Zenon, <2>2 DEF Fence!Next
<1>4. ASSUME NEW r \in Requests, Handle(r) PROVE Fence!Next \/ UNCHANGED <<deployment, answer>>
  <2>1. /\ ExecutionOf[r].generation \in Nat
        /\ deployment \in Deployment \cup {NotFound}
        /\ Found(deployment) => deployment.generation \in Nat
    BY Zenon, ProviderAssumption DEF IInv, ProviderTypeOK, Execution, Deployment, Found
  <2>2. CASE Execute(r)
    <3>1. CASE UNCHANGED answer
      BY Zenon, <2>2, <3>1 DEF Execute
    <3>2. CASE Finish(r, "invalid")
      BY Zenon, <2>2, <3>2, AnswerMaps DEF Execute, Answers
    <3> QED BY Zenon, <2>2, <3>1, <3>2 DEF Execute
  <2>3. CASE Get(r)
    <3>1. CASE Verdict(deployment, ExecutionOf[r]) = "fenced"
      <4>1. Found(deployment) /\ deployment.generation > ExecutionOf[r].generation
        BY Zenon, <3>1 DEF Verdict, deployVerdict, deleteVerdict
      <4>2. WrittenGeneration > ExecutionOf[r].generation
        BY Zenon, <4>1 DEF WrittenGeneration
      <4>3. Finish(r, "fenced") /\ pc[r] # "done" /\ UNCHANGED <<deployment, revision>>
        BY Zenon, <2>3, <3>1 DEF Get
      <4> QED BY Zenon, <4>2, <4>3, AnswerMaps DEF Answers
    <3>2. CASE Verdict(deployment, ExecutionOf[r]) = "conflict"
      <4>1. Finish(r, "conflict") /\ pc[r] # "done" /\ UNCHANGED <<deployment, revision>>
        BY Zenon, <2>3, <3>2 DEF Get
      <4> QED BY Zenon, <4>1, AnswerMaps DEF Answers
    <3>3. CASE Verdict(deployment, ExecutionOf[r]) \notin {"fenced", "conflict"}
      BY Zenon, <2>3, <3>3 DEF Get
    <3> QED BY Zenon, <3>1, <3>2, <3>3
  <2>4. CASE RoundsExhausted(r)
    BY Zenon, <2>4, AnswerMaps DEF RoundsExhausted, Answers
  <2>5. CASE Create(r)
    <3>1. CASE Found(deployment)
      BY Zenon, <2>5, <3>1 DEF Create, Again
    <3>2. CASE ~Found(deployment)
      <4>1. WrittenGeneration = 0 /\ WrittenGeneration' = ExecutionOf[r].generation
        BY Zenon, <2>5, <3>2, CreateStores, StoredIsFound DEF WrittenGeneration, Found
      <4>2. pc[r] # "done" /\ UNCHANGED answer
        BY Zenon, <2>5, <3>2 DEF Create, Store
      <4> QED BY <2>1, <4>1, <4>2, WriteMaps
    <3> QED BY Zenon, <3>1, <3>2
  <2>6. CASE Update(r)
    <3>1. CASE ~UnchangedSinceRead(r)
      BY Zenon, <2>6, <3>1 DEF Update, Again
    <3>2. CASE UnchangedSinceRead(r)
      <4>1. pc[r] = "update" /\ UNCHANGED answer
        BY Zenon, <2>6, <3>2 DEF Update, Store
      <4>2. WrittenGeneration' = ExecutionOf[r].generation
        BY Zenon, <2>6, <3>2, UpdateStores, StoredIsFound DEF WrittenGeneration, Found
      <4>3. Found(deployment) /\ deployment.generation < ExecutionOf[r].generation
        BY Zenon, <3>2, <4>1, SwapKnows, StoredIsFound
      <4>4. ExecutionOf[r].generation >= WrittenGeneration
        BY <2>1, <4>3 DEF WrittenGeneration
      <4> QED BY Zenon, <4>1, <4>2, <4>4, WriteMaps
    <3> QED BY Zenon, <3>1, <3>2
  <2>7. CASE Poll(r)
    <3>1. pc[r] # "done" /\ UNCHANGED <<deployment, revision>>
      BY Zenon, <2>7 DEF Poll
    <3>2. PICK a \in {"unavailable", "fenced", "conflict", "succeeded"} :
            /\ Finish(r, a)
            /\ a = "fenced" => Found(deployment) /\ deployment.generation > ExecutionOf[r].generation
            /\ a = "succeeded" => Found(deployment) /\ deployment.generation = ExecutionOf[r].generation
      BY Zenon, <2>7 DEF Poll
    <3>3. /\ a = "fenced" => WrittenGeneration > ExecutionOf[r].generation
          /\ a = "succeeded" => WrittenGeneration = ExecutionOf[r].generation
      BY Zenon, <3>2 DEF WrittenGeneration
    <3> QED BY Zenon, <3>1, <3>2, <3>3, AnswerMaps DEF Answers
  <2>8. CASE TargetError(r)
    BY Zenon, <2>8, AnswerMaps DEF TargetError, Answers
  <2> QED BY Zenon, <1>4, <2>2, <2>3, <2>4, <2>5, <2>6, <2>7, <2>8 DEF Handle
<1>5. CASE \E r \in Requests : Handle(r)
  BY Zenon, <1>1, <1>4, <1>5
<1> QED BY Zenon, <1>1, <1>2, <1>3, <1>5 DEF Next, vars

(* RDI-005: the loop of reading, deciding and compare-and-swap in deploy   *)
(* and delete implements the fence of FencedProvider.                      *)
THEOREM FenceImplemented == Spec => FenceSpec
<1>1. Init => Fence!Init
  BY Zenon DEF Init, Fence!Init, WrittenGeneration, Found, AbstractAnswer
<1> QED BY <1>1, FenceStep, InvAlways, PTL DEF Spec, FenceSpec, Fence!Spec
=============================================================================
