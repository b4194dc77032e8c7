-------------------------- MODULE KubernetesProvider --------------------------
(***************************************************************************)
(* deploy and delete of kubernetes-provider (provider.go) on one           *)
(* Deployment.  Any number of executions run at once; each reads the       *)
(* object, decides, and writes under the resource version it has read, so  *)
(* that every other writer may come in between.  The fence is kept in the  *)
(* annotations of the object; delete leaves it behind as a tombstone       *)
(* without replicas.                                                       *)
(***************************************************************************)
EXTENDS Integers

CONSTANTS
  Requests,        \* executions, each one POST /v2/steps:execute
  ExecutionOf,     \* [Requests -> Execution]
  Tenants, Steps,  \* tenants; logical identities (operation, step, key)
  Images,          \* pod templates
  maxCASAttempts,  \* rounds of the compare-and-swap loop
  MaxRevision      \* bound: last resource version others write

(* expected_uid is 0 when it is not given. *)
Execution == [stepType : {"deploy", "delete"}, tenant : Tenants, step : Steps, generation : Nat \ {0},
              image : Images, replicas : Nat \ {0}, expectedUID : Nat]

(* Generation and attempt id are drawn together, once per granted lease. *)
ASSUME ProviderAssumption ==
  /\ ExecutionOf \in [Requests -> Execution]
  /\ \A r, q \in Requests :
       ExecutionOf[r].generation = ExecutionOf[q].generation => ExecutionOf[r] = ExecutionOf[q]
  /\ maxCASAttempts \in Nat
  /\ MaxRevision \in Nat

VARIABLES
  deployment,  \* the object in the Kubernetes API
  revision,    \* last resource version given out
  pc,          \* where each execution is
  existing,    \* the object as the execution last read it
  attempt,     \* rounds of the loop an execution has begun again
  answer       \* its result

vars == <<deployment, revision, pc, existing, attempt, answer>>

-----------------------------------------------------------------------------
(* A uid is the resource version of the creation.  settled: the controller *)
(* has observed the specification and the available replicas match it.     *)
Deployment == [uid : Nat, resourceVersion : Nat, tenant : Tenants, step : Steps, generation : Nat,
               lastAction : {"deploy", "delete"}, image : Images, replicas : Nat, settled : BOOLEAN]

NotFound == [uid |-> 0]

Labels == {"idle", "get", "create", "update", "wait", "done"}

Answers == {"none", "succeeded", "fenced", "conflict", "unavailable", "invalid"}

Found(d) == d # NotFound

Init ==
  /\ deployment = NotFound
  /\ revision = 0
  /\ pc = [r \in Requests |-> "idle"]
  /\ existing = [r \in Requests |-> NotFound]
  /\ attempt = [r \in Requests |-> 0]
  /\ answer = [r \in Requests |-> "none"]

sameLogicalIdentity(d, x) == d.tenant = x.tenant /\ d.step = x.step

exactExecution(d, x) == sameLogicalIdentity(d, x) /\ d.lastAction = x.stepType

sameDeployTemplate(d, x) == d.image = x.image

sameDeploySpec(d, x) == d.replicas = x.replicas /\ sameDeployTemplate(d, x)

(* Variant: any newer deploy may bring a tombstone back. *)
ResurrectableByAnyone(d, x) == d.generation < x.generation

Resurrectable(d, x) == x.expectedUID = d.uid /\ sameDeployTemplate(d, x)

(* Variant: a takeover does not compare what is deployed. *)
TakeoverByIdentity(d, x) == sameLogicalIdentity(d, x)

Takeover(d, x) == sameLogicalIdentity(d, x) /\ sameDeploySpec(d, x)

(* What deploy does with the object it has read, in the order of its checks. *)
deployVerdict(d, x) ==
  IF ~Found(d) THEN "create"
  ELSE IF d.tenant # x.tenant THEN "conflict"
  ELSE IF d.generation > x.generation THEN "fenced"
  ELSE IF d.generation = x.generation
    THEN IF exactExecution(d, x) /\ sameDeploySpec(d, x) THEN "wait" ELSE "conflict"
  ELSE IF d.lastAction = "delete"
    THEN IF Resurrectable(d, x) THEN "update" ELSE "conflict"
  ELSE IF Takeover(d, x) THEN "update" ELSE "conflict"

deleteVerdict(d, x) ==
  IF ~Found(d) \/ d.tenant # x.tenant \/ d.uid # x.expectedUID THEN "conflict"
  ELSE IF d.generation > x.generation THEN "fenced"
  ELSE IF d.generation = x.generation
    THEN IF exactExecution(d, x) /\ d.replicas = 0 THEN "wait" ELSE "conflict"
  ELSE IF d.lastAction = "delete" /\ ~sameLogicalIdentity(d, x) THEN "conflict"
  ELSE "update"

Verdict(d, x) == IF x.stepType = "deploy" THEN deployVerdict(d, x) ELSE deleteVerdict(d, x)

-----------------------------------------------------------------------------
Finish(r, a) ==
  /\ pc' = [pc EXCEPT ![r] = "done"]
  /\ answer' = [answer EXCEPT ![r] = a]

(* delete without expected_uid is refused before anything is read. *)
Execute(r) ==
  /\ pc[r] = "idle"
  /\ IF ExecutionOf[r].stepType = "delete" /\ ExecutionOf[r].expectedUID = 0
     THEN Finish(r, "invalid")
     ELSE pc' = [pc EXCEPT ![r] = "get"] /\ UNCHANGED answer
  /\ UNCHANGED <<deployment, revision, existing, attempt>>

(* Variant: one round too many. *)
RoundLeftInclusive(r) == attempt[r] <= maxCASAttempts

RoundLeft(r) == attempt[r] < maxCASAttempts

Get(r) ==
  LET verdict == Verdict(deployment, ExecutionOf[r]) IN
  /\ pc[r] = "get" /\ RoundLeft(r)
  /\ existing' = [existing EXCEPT ![r] = deployment]
  /\ IF verdict \in {"fenced", "conflict"} THEN Finish(r, verdict)
     ELSE pc' = [pc EXCEPT ![r] = verdict] /\ UNCHANGED answer
  /\ UNCHANGED <<deployment, revision, attempt>>

RoundsExhausted(r) ==
  /\ pc[r] = "get" /\ ~RoundLeft(r)
  /\ Finish(r, "unavailable")
  /\ UNCHANGED <<deployment, revision, existing, attempt>>

Store(r, d) ==
  /\ deployment' = d
  /\ revision' = revision + 1
  /\ pc' = [pc EXCEPT ![r] = "wait"]
  /\ UNCHANGED <<existing, attempt, answer>>

(* AlreadyExists, a conflict, or the object is gone. *)
Again(r) ==
  /\ pc' = [pc EXCEPT ![r] = "get"]
  /\ attempt' = [attempt EXCEPT ![r] = @ + 1]
  /\ UNCHANGED <<deployment, revision, existing, answer>>

Create(r) ==
  LET x == ExecutionOf[r] IN
  /\ pc[r] = "create"
  /\ IF Found(deployment) THEN Again(r)
     ELSE Store(r, [uid |-> revision + 1, resourceVersion |-> revision + 1,
                    tenant |-> x.tenant, step |-> x.step, generation |-> x.generation,
                    lastAction |-> "deploy", image |-> x.image, replicas |-> x.replicas,
                    settled |-> FALSE])

(* The replicas the updated object asks for; a takeover changes none. *)
DesiredReplicas(x) == IF x.stepType = "deploy" THEN x.replicas ELSE 0

(* Variant: the write does not carry the resource version. *)
UnchangedSinceReadIgnored(r) == Found(deployment)

UnchangedSinceRead(r) ==
  Found(deployment) /\ deployment.resourceVersion = existing[r].resourceVersion

Update(r) ==
  LET x == ExecutionOf[r]
      d == existing[r] IN
  /\ pc[r] = "update"
  /\ IF ~UnchangedSinceRead(r) THEN Again(r)
     ELSE Store(r, [uid |-> d.uid, resourceVersion |-> revision + 1,
                    tenant |-> x.tenant, step |-> x.step, generation |-> x.generation,
                    lastAction |-> x.stepType, image |-> d.image, replicas |-> DesiredReplicas(x),
                    settled |-> d.settled /\ d.replicas = DesiredReplicas(x)])

(* waitAvailable and waitDeleted: a poll that sees neither an end nor an   *)
(* error changes nothing.                                                  *)
Poll(r) ==
  LET x == ExecutionOf[r] IN
  /\ pc[r] = "wait"
  /\ \/ ~Found(deployment) /\ Finish(r, "unavailable")
     \/ /\ Found(deployment) /\ deployment.generation > x.generation
        /\ Finish(r, "fenced")
     \/ /\ Found(deployment) /\ deployment.generation <= x.generation
        /\ ~(deployment.generation = x.generation /\ exactExecution(deployment, x))
        /\ Finish(r, "conflict")
     \/ /\ Found(deployment) /\ deployment.generation = x.generation /\ exactExecution(deployment, x)
        /\ deployment.settled /\ (x.stepType = "delete" => deployment.replicas = 0)
        /\ Finish(r, "succeeded")
  /\ UNCHANGED <<deployment, revision, existing, attempt>>

(* The API server fails, the caller goes away, or the process ends.  A     *)
(* write whose answer is lost is Create or Update followed by this.        *)
TargetError(r) ==
  /\ pc[r] \in {"get", "create", "update", "wait"}
  /\ Finish(r, "unavailable")
  /\ UNCHANGED <<deployment, revision, existing, attempt>>

-----------------------------------------------------------------------------
(* Other clients of the API: the controller reports status, and somebody   *)
(* removes the object.                                                     *)

StatusReported ==
  /\ Found(deployment) /\ revision < MaxRevision
  /\ \E settled \in BOOLEAN :
       deployment' = [[deployment EXCEPT !.resourceVersion = revision + 1] EXCEPT !.settled = settled]
  /\ revision' = revision + 1
  /\ UNCHANGED <<pc, existing, attempt, answer>>

Removed ==
  /\ Found(deployment) /\ revision < MaxRevision
  /\ deployment' = NotFound
  /\ revision' = revision + 1
  /\ UNCHANGED <<pc, existing, attempt, answer>>

Handle(r) ==
  \/ Execute(r) \/ Get(r) \/ RoundsExhausted(r) \/ Create(r) \/ Update(r) \/ Poll(r)
  \/ TargetError(r)

Next == StatusReported \/ Removed \/ \E r \in Requests : Handle(r)

Spec == Init /\ [][Next]_vars

-----------------------------------------------------------------------------
(* Properties. *)

(* The object, the executions and their answers have their shape, and no   *)
(* execution begins more rounds than maxCASAttempts.                       *)
ProviderTypeOK ==
  /\ deployment \in Deployment \cup {NotFound}
  /\ revision \in Nat
  /\ pc \in [Requests -> Labels]
  /\ existing \in [Requests -> Deployment \cup {NotFound}]
  /\ attempt \in [Requests -> 0..maxCASAttempts]
  /\ answer \in [Requests -> Answers]

WrittenGeneration == IF Found(deployment) THEN deployment.generation ELSE 0

AbstractAnswer(a) == IF a \in {"none", "succeeded", "fenced"} THEN a ELSE "failed"

Fence == INSTANCE FencedProvider
  WITH Generation <- [r \in Requests |-> ExecutionOf[r].generation],
       written <- WrittenGeneration,
       answer <- [r \in Requests |-> AbstractAnswer(answer[r])]

(* RDI-005: the compare-and-swap loop implements the fence that the worker *)
(* relies on, whatever executions and other clients do between its reads   *)
(* and its writes.                                                         *)
FenceSpec == Fence!Spec

(* "LogicalDeleteRetainsTombstoneAndPreventsResurrection": a tombstone     *)
(* gets replicas again only from a newer deploy that names its uid, never  *)
(* from one that had read the object before it was deleted.                *)
TombstoneStays ==
  [][Found(deployment) /\ deployment.lastAction = "delete" /\ Found(deployment')
       /\ deployment'.lastAction # "delete" /\ deployment'.uid = deployment.uid
     => \E r \in Requests : /\ ExecutionOf[r].generation = deployment'.generation
                            /\ ExecutionOf[r].stepType = "deploy"
                            /\ ExecutionOf[r].expectedUID = deployment.uid
                            /\ ExecutionOf[r].generation > deployment.generation]_vars

(* A deploy answered with success left exactly what it was asked for: as   *)
(* long as its write is the last one, image and replicas are the requested *)
(* ones, although a takeover rewrites only the annotations.                *)
DeployedAsRequested ==
  \A r \in Requests :
    /\ answer[r] = "succeeded" /\ ExecutionOf[r].stepType = "deploy"
    /\ Found(deployment) /\ deployment.generation = ExecutionOf[r].generation
    => sameDeploySpec(deployment, ExecutionOf[r])
=============================================================================
