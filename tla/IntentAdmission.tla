--------------------------- MODULE IntentAdmission ---------------------------
(***************************************************************************)
(* How platform-api turns a runtime intent into an operation: the lookup   *)
(* of an earlier commitment under the same key, the admission of the       *)
(* target's version and freshness, and the transaction of                  *)
(* store.SubmitIntent; and the batch that unmanages several targets.       *)
(* Composed with TargetObservation: the projector moves the target's       *)
(* version while intents are on their way in.                              *)
(*                                                                         *)
(* The transaction is read committed and takes its locks as PostgreSQL     *)
(* does: SELECT ... FOR SHARE on the target row keeps the projector's      *)
(* UPDATE out until the transaction ends; INSERT ... ON CONFLICT DO        *)
(* NOTHING waits for a transaction that has inserted the same key and not  *)
(* ended, and then sees what that one committed.                           *)
(***************************************************************************)
EXTENDS TargetObservation

CONSTANTS
  Callers,       \* handler goroutines of all platform-api replicas
  Keys,          \* (intent kind, action, idempotency key) of one tenant
  CreateKeys,    \* the keys of create and import intents; the others delete or upgrade
  Batches,       \* idempotency keys of batches
  ChildKey,      \* [Batches -> [Targets -> Keys]]: the key a batch uses for a target
  StaleOutcome,  \* what the stale-target policy answers
  NoOperation, NoBatch,
  MaxVersion     \* bound on projection_version

\* What an intent's digest covers: its target and the version the caller saw.
\* The risk confirmation is not part of it.
Contents == [target : Targets, expected : 0..MaxVersion]
Statuses == {"pending_approval", "queued_offline", "queued", "succeeded", "failed", "cancelled"}

ASSUME AdmissionAssumption ==
  /\ CreateKeys \subseteq Keys
  /\ ChildKey \in [Batches -> [Targets -> Keys \ CreateKeys]]
  /\ StaleOutcome \in {"allow", "require_approval", "queued_offline", "deny"}
  /\ NoOperation \notin Callers \cup [id : Callers, content : Contents, status : Statuses]
  /\ NoBatch \notin Batches \cup {"pending"}
  /\ MaxVersion \in Nat

VARIABLES
  exists,      \* the targets that have a row in runtime_targets
  operations,  \* per key: the committed operation and its intent, or NoOperation
  challenges,  \* stale-target challenges issued and still valid
  requests,    \* per caller: the request it serves and how far it has come
  answers,     \* the operations that were named to callers, under which key
  batches,     \* rows of operation_batches
  children     \* rows of operation_batch_children

admVars == <<exists, operations, challenges, requests, answers, batches, children>>
vars == <<obsVars, admVars>>

\* What a challenge binds: the request and the target's state at that time.
Claims == [content : Contents, version : 0..MaxVersion, generation : 0..MaxGeneration,
           revision : 0..MaxSequence]
Ended == {"succeeded", "failed", "cancelled"}

Idle == [pc |-> "idle"]
Children == [batch : Batches, target : Targets, key : Keys]

AdmInit ==
  /\ ObsInit
  /\ exists \in {s \in SUBSET Targets : Observed \in s}
  /\ operations = [k \in Keys |-> NoOperation]
  /\ challenges = {}
  /\ requests = [c \in Callers |-> Idle]
  /\ answers = {}
  /\ batches = [b \in Batches |-> NoBatch]
  /\ children = {}

\* A caller's step that writes nothing but its own progress.
Goes(c, state) ==
  /\ requests' = [requests EXCEPT ![c] = state]
  /\ UNCHANGED <<exists, operations, batches, children>>

\* The answer to a request.  A batch goes on: to the attachment of the child when
\* an operation was named, else to the next target.
Answers(c, operation) ==
  LET r == requests[c] IN
  /\ answers' = IF operation = NoOperation THEN answers
                ELSE answers \cup {[key |-> r.key, content |-> r.content, operation |-> operation]}
  /\ requests' = [requests EXCEPT ![c] =
       IF r.batch = NoBatch THEN Idle
       ELSE [pc |-> IF operation = NoOperation THEN "children" ELSE "attach",
             batch |-> r.batch, key |-> r.key, content |-> r.content, todo |-> r.todo]]

\* The request ends without an operation.
Refused(c) ==
  /\ Answers(c, NoOperation)
  /\ UNCHANGED <<exists, operations, challenges, batches, children>>

\* The commitment under a key, as GetIntentCommitment reads it: the same request
\* is answered with the operation that exists, another one with a conflict.
Replay(c) ==
  LET r == requests[c] IN
  /\ operations[r.key] # NoOperation
  /\ Answers(c, IF operations[r.key].content = r.content
                THEN operations[r.key].id ELSE NoOperation)
  /\ UNCHANGED <<exists, operations, challenges, batches, children>>

------------------------------------------------------------------------------
(* handleSubmitIntent. *)

\* A request arrives, made for a version of the target that somebody read.  `confirmed': the challenge it answers, if any.
Receive(c, key, content, confirmed) ==
  /\ requests[c] = Idle
  /\ confirmed \subseteq challenges /\ Cardinality(confirmed) <= 1
  /\ Goes(c, [pc |-> "lookup", key |-> key, content |-> content, confirmed |-> confirmed,
              status |-> "queued", batch |-> NoBatch, todo |-> {}])
  /\ UNCHANGED <<answers, challenges>>

\* GetIntentCommitment before anything else is looked at.
Lookup(c) ==
  LET r == requests[c] IN
  /\ r.pc = "lookup"
  /\ \/ Replay(c)
     \/ /\ operations[r.key] = NoOperation
        /\ Goes(c, [r EXCEPT !.pc = "admit"])
        /\ UNCHANGED <<answers, challenges>>

staleChallengeClaims(content) ==
  [content |-> content, version |-> row[content.target].version,
   generation |-> row[content.target].generation, revision |-> row[content.target].revision]

\* InitialStatus of the intent's operation type, unless the policy named another.
InitialStatus(key) == IF key \in CreateKeys THEN "queued" ELSE "pending_approval"

\* Variant: the policy's outcome is stored as it is.
PolicyStatusRaw == StaleOutcome

PolicyStatus == CASE StaleOutcome = "require_approval" -> "pending_approval"
                  [] StaleOutcome = "queued_offline" -> "queued_offline"
                  [] OTHER -> "queued"

\* The target exists and is at the version the caller saw.
admitClusterIntent(content) ==
  content.target \in exists /\ row[content.target].version = content.expected

\* Issue: the caller is asked to confirm what is bound in a challenge.
Issue(c, claims) ==
  /\ challenges' = challenges \cup {claims}
  /\ Answers(c, NoOperation)
  /\ UNCHANGED <<exists, operations, batches, children>>

\* The challenge binds the same request and the state the target still has.
Verify(confirmed, claims) == confirmed = {claims}

\* The intent goes on to its transaction, to be stored with this status.
Admitted(c, status) ==
  /\ Goes(c, [requests[c] EXCEPT !.pc = "begin", !.status = status])
  /\ UNCHANGED <<answers, challenges>>

\* A stale target needs a confirmation, and the policy's consent.
admitStaleTarget(c) ==
  LET r == requests[c]
      claims == staleChallengeClaims(r.content)
  IN \/ row[r.content.target].fresh /\ Admitted(c, InitialStatus(r.key))
     \/ /\ ~row[r.content.target].fresh
        /\ \/ r.confirmed = {} /\ Issue(c, claims)
           \/ /\ r.confirmed # {} /\ Refused(c)
              /\ ~Verify(r.confirmed, claims) \/ StaleOutcome = "deny"
           \/ Verify(r.confirmed, claims) /\ StaleOutcome # "deny" /\ Admitted(c, PolicyStatus)

\* A create or import names no target.
Admit(c) ==
  LET r == requests[c] IN
  /\ r.pc = "admit"
  /\ \/ r.key \in CreateKeys /\ Admitted(c, InitialStatus(r.key))
     \/ r.key \notin CreateKeys /\ ~admitClusterIntent(r.content) /\ Refused(c)
     \/ r.key \notin CreateKeys /\ admitClusterIntent(r.content) /\ admitStaleTarget(c)

------------------------------------------------------------------------------
(* store.SubmitIntent. *)

InTransaction(c) == requests[c].pc \in {"locked", "inserted"}
\* Variant: the target is read without FOR SHARE.
SharesRowNever(c, t) == FALSE

\* A share lock on the target's row; a create locks no row before it inserts one.
SharesRow(c, t) ==
  InTransaction(c) /\ requests[c].content.target = t /\ requests[c].key \notin CreateKeys

\* The commitment is looked up again, then the target is locked and its version
\* compared with the caller's.
BeginSubmit(c) ==
  LET r == requests[c]
      t == r.content.target
  IN
  /\ r.pc = "begin"
  /\ \/ Replay(c)
     \/ /\ operations[r.key] = NoOperation
        /\ r.key \notin CreateKeys
        /\ t \notin exists \/ row[t].version # r.content.expected
        /\ Refused(c)
     \/ /\ operations[r.key] = NoOperation
        /\ r.key \in CreateKeys \/ (t \in exists /\ row[t].version = r.content.expected)
        /\ Goes(c, [r EXCEPT !.pc = "locked"])
        /\ UNCHANGED <<answers, challenges>>

\* Variant: the operation is inserted without waiting for its key.
InsertOperationNoWait(c) ==
  LET r == requests[c] IN
  /\ r.pc = "locked"
  /\ Goes(c, [r EXCEPT !.pc = "inserted"])
  /\ UNCHANGED <<answers, challenges>>

\* The plan and the operation are inserted: both inserts wait for a transaction
\* that holds the same key; an operation committed meanwhile is answered instead.
InsertOperation(c) ==
  LET r == requests[c] IN
  /\ r.pc = "locked"
  /\ \A d \in Callers \ {c} : requests[d].pc = "inserted" => requests[d].key # r.key
  /\ \/ Replay(c)
     \/ /\ operations[r.key] = NoOperation
        /\ Goes(c, [r EXCEPT !.pc = "inserted"])
        /\ UNCHANGED <<answers, challenges>>

\* Steps, audit records, read model, intent and commands become visible with the
\* operation; a create also provisions its target unless there is one.
CommitSubmit(c) ==
  LET r == requests[c] IN
  /\ r.pc = "inserted"
  /\ operations' = [operations EXCEPT ![r.key] =
       [id |-> c, content |-> r.content, status |-> r.status]]
  /\ exists' = IF r.key \in CreateKeys THEN exists \cup {r.content.target} ELSE exists
  /\ Answers(c, c)
  /\ UNCHANGED <<challenges, batches, children>>

\* A statement fails, the caller disconnects or the process dies before the
\* commit: the transaction rolls back and the request, with the rest of its
\* batch, is over.
Abandon(c) ==
  /\ requests[c] # Idle
  /\ Goes(c, Idle)
  /\ UNCHANGED <<answers, challenges>>

\* The operation is decided and executed (OperationStore).
OperationEnds(key, verdict) ==
  /\ operations[key] # NoOperation
  /\ operations[key].status \notin Ended
  /\ operations' = [operations EXCEPT ![key].status = verdict]
  /\ UNCHANGED <<exists, challenges, requests, answers, batches, children>>

------------------------------------------------------------------------------
(* handleCreateRuntimeIntentBatch. *)

\* Preflight: every target exists; its version is read.  Then the parent row.
\* A batch key that is taken is answered with the batch that exists.
CreateOperationBatch(c, b, targets) ==
  /\ requests[c] = Idle
  /\ targets # {} /\ targets \subseteq exists
  /\ \/ /\ batches[b] = NoBatch
        /\ batches' = [batches EXCEPT ![b] = "pending"]
        /\ requests' = [requests EXCEPT ![c] =
             [pc |-> "children", batch |-> b,
              todo |-> {[target |-> t, expected |-> row[t].version] : t \in targets}]]
     \/ /\ batches[b] # NoBatch
        /\ UNCHANGED <<batches, requests>>
  /\ UNCHANGED <<exists, operations, challenges, answers, children>>

\* The next target: planned and submitted under a key of its own, or skipped when
\* planning fails.  The freshness of the target is not looked at.
NextChild(c, content) ==
  LET r == requests[c]
      key == ChildKey[r.batch][content.target]
  IN
  /\ r.pc = "children"
  /\ content \in r.todo
  /\ \/ Goes(c, [pc |-> "begin", key |-> key, content |-> content, confirmed |-> {},
                 status |-> InitialStatus(key), batch |-> r.batch, todo |-> r.todo \ {content}])
     \/ Goes(c, [pc |-> "children", batch |-> r.batch, todo |-> r.todo \ {content}])
  /\ UNCHANGED <<answers, challenges>>

\* Its error is ignored.
AttachOperationBatchChild(c) ==
  LET r == requests[c]
      child == [batch |-> r.batch, target |-> r.content.target, key |-> r.key]
  IN
  /\ r.pc = "attach"
  /\ children' \in {children, children \cup {child}}
  /\ requests' = [requests EXCEPT ![c] = [pc |-> "children", batch |-> r.batch, todo |-> r.todo]]
  /\ UNCHANGED <<exists, operations, challenges, answers, batches>>

\* Variant: an operation that waits for its approval does not count as running.
BatchStatusOnlyQueued(b) ==
  LET statuses == {operations[x.key].status : x \in {y \in children : y.batch = b}} IN
  IF "queued" \in statuses THEN "running"
  ELSE IF {"failed", "succeeded"} \subseteq statuses THEN "partial_succeeded"
  ELSE IF "failed" \in statuses THEN "failed"
  ELSE IF statuses = {"cancelled"} THEN "cancelled"
  ELSE IF "succeeded" \in statuses THEN "succeeded"
  ELSE "pending"

\* The CASE of RefreshOperationBatchStatus over the attached children.
BatchStatus(b) ==
  LET statuses == {operations[x.key].status : x \in {y \in children : y.batch = b}} IN
  IF statuses \ Ended # {} THEN "running"
  ELSE IF {"failed", "succeeded"} \subseteq statuses THEN "partial_succeeded"
  ELSE IF "failed" \in statuses THEN "failed"
  ELSE IF statuses = {"cancelled"} THEN "cancelled"
  ELSE IF statuses = {"succeeded"} THEN "succeeded"
  ELSE "pending"

\* After the last target, once.
RefreshOperationBatchStatus(c) ==
  LET r == requests[c] IN
  /\ r.pc = "children"
  /\ r.todo = {}
  /\ batches' = [batches EXCEPT ![r.batch] = BatchStatus(r.batch)]
  /\ requests' = [requests EXCEPT ![c] = Idle]
  /\ UNCHANGED <<exists, operations, challenges, answers, children>>

------------------------------------------------------------------------------
Submission ==
  \/ \E c \in Callers, key \in Keys, t \in Targets, confirmed \in SUBSET challenges :
       \E expected \in 0..row[t].version :
         Receive(c, key, [target |-> t, expected |-> expected], confirmed)
  \/ \E c \in Callers : Lookup(c) \/ Admit(c) \/ BeginSubmit(c) \/ InsertOperation(c)
                        \/ CommitSubmit(c) \/ Abandon(c)
  \/ \E key \in Keys, verdict \in Ended : OperationEnds(key, verdict)

Batch ==
  \/ \E c \in Callers, b \in Batches, targets \in SUBSET Targets :
       CreateOperationBatch(c, b, targets)
  \/ \E c \in Callers, content \in Contents : NextChild(c, content)
  \/ \E c \in Callers : AttachOperationBatchChild(c) \/ RefreshOperationBatchStatus(c)

\* The projector's update of a row waits for the share locks on it.
Observation ==
  /\ ObsNext
  /\ \A c \in Callers, t \in Targets : SharesRow(c, t) => row'[t] = row[t]
  /\ \A t \in Targets : row'[t].version <= MaxVersion
  /\ UNCHANGED admVars

AdmNext ==
  \/ Observation
  \/ (Submission \/ Batch) /\ UNCHANGED obsVars

AdmSpec == AdmInit /\ [][AdmNext]_vars

------------------------------------------------------------------------------
(* Properties. *)

\* Types of the admission's tables and requests.
AdmTypeOK ==
  /\ exists \subseteq Targets
  /\ operations \in [Keys -> [id : Callers, content : Contents, status : Statuses]
                             \cup {NoOperation}]
  /\ challenges \subseteq Claims
  /\ answers \subseteq [key : Keys, content : Contents, operation : Callers]
  /\ batches \in [Batches -> {NoBatch, "pending", "running", "partial_succeeded", "failed",
                              "cancelled", "succeeded"}]
  /\ children \subseteq Children

\* Everybody who was told the name of an operation under a key was told the same
\* one, it exists, and it was created for exactly the request they sent, however
\* many replicas took the request in at the same time (operations.go:826: the
\* loser of the insert reads the winner's commitment).
OneAnswerPerKey ==
  \A a \in answers :
    /\ operations[a.key] # NoOperation
    /\ operations[a.key].id = a.operation
    /\ operations[a.key].content = a.content

\* An operation on an existing target comes into being only while the target is
\* at the version its caller saw: the observer's update cannot slip in between
\* the check and the commit (operations.go:744, FOR SHARE).
AcceptedAtSeenVersion ==
  [][\A k \in Keys \ CreateKeys :
       operations[k] = NoOperation /\ operations'[k] # NoOperation =>
         LET content == operations'[k].content IN
         /\ content.target \in exists
         /\ row'[content.target].version = content.expected]_vars

\* The children of a batch are operations on the batch's own targets under the
\* batch's own keys, and a batch shows an outcome only once all of them have
\* ended, also when its handler died half way, a second request with the same
\* key came in, or a key was already taken by a single request.
BatchOutcomeIsFinal ==
  \A x \in children :
    /\ x.key = ChildKey[x.batch][x.target]
    /\ operations[x.key] # NoOperation
    /\ operations[x.key].content.target = x.target
    /\ batches[x.batch] \in {"partial_succeeded", "failed", "cancelled", "succeeded"} =>
         operations[x.key].status \in Ended
==============================================================================
