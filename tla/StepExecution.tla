---------------------------- MODULE StepExecution ----------------------------
(***************************************************************************)
(* The execution of steps: the outbox relay publishes step-requested       *)
(* commands to the JetStream work queue, workers of the shared consumer    *)
(* run handleMessage on each delivery, and a runtime provider performs the *)
(* external write behind its fence.  The tables are those of               *)
(* OperationStore; every database call of the handler is one of its        *)
(* transactions and a step of its own here, so everything that can happen  *)
(* between two calls does happen: redelivery to another worker, expiry and *)
(* takeover of the lease, cancellation, a crash, an answer that is lost.   *)
(***************************************************************************)
EXTENDS OperationStore

CONSTANTS
  MaxRetries,     \* max_retries of a step
  MaxDeliveries,  \* maxDeliveries: from this delivery on the worker gives up
  MaxCopies,      \* bound: messages one outbox row may leave in the stream
  RelayedKinds,   \* bound: kinds of outbox rows the relay gets to
  Malformed       \* steps whose command fails validateStepRequest

ASSUME ExecutionAssumption ==
  /\ MaxRetries \in Nat
  /\ MaxDeliveries \in Nat \ {0}
  /\ MaxCopies \in Nat \ {0}
  /\ RelayedKinds \subseteq EventKinds
  /\ Malformed \subseteq Steps

VARIABLES
  relay,         \* outbox rows locked by a relay that has published them
  stream,        \* the work queue: state and delivery count of each message
  failedStream,  \* messages isolated on hnb.failed.*
  pc,            \* where each worker is in handleMessage
  job,           \* the local variables of its handleMessage
  requests,      \* provider requests that are still under way
  provider       \* per step, the generation of the last external write

execVars == <<relay, stream, failedStream, pc, job, requests, provider>>

vars == <<storeVars, execVars>>

-----------------------------------------------------------------------------
consumerMaxDeliveries == MaxDeliveries + 1

ExpectedVersion == 0

Msgs == Steps \X (1..MaxCopies)

NoMsg == <<NoWorker, 0>>

Message == [state : {"none", "ready", "pending", "acked", "terminated"}, deliveries : Nat]

Labels == {"idle", "load_operation", "load_step", "load_dependencies", "acquire", "call",
           "executing", "succeeded", "failed", "ack", "nak", "term", "isolate"}

Job == [msg : Msgs \cup {NoMsg}, delivery : Nat, retryCount : Nat, checkpoint : Checkpoints,
        dependenciesSatisfied : BOOLEAN, generation : Nat, permanent : BOOLEAN]

NoJob == [msg |-> NoMsg, delivery |-> 0, retryCount |-> 0, checkpoint |-> NoCheckpoint,
          dependenciesSatisfied |-> FALSE, generation |-> 0, permanent |-> FALSE]

Request == [step : Steps, generation : Nat]

StepOf(w) == job[w].msg[1]

ExecInit ==
  /\ Init
  /\ relay = {}
  /\ stream = [m \in Msgs |-> [state |-> "none", deliveries |-> 0]]
  /\ failedStream = {}
  /\ pc = [w \in Workers |-> "idle"]
  /\ job = [w \in Workers |-> NoJob]
  /\ requests = {}
  /\ provider = [s \in Steps |-> 0]

-----------------------------------------------------------------------------
(* The relay.  PublishMsg carries message_id as JetStream's deduplication  *)
(* id: the first publication stores a message, a repeated one stores       *)
(* another only when the two-minute duplicate window has passed.           *)

Stored(s) == {n \in 1..MaxCopies : stream[<<s, n>>].state # "none"}

StoreMessage(s) ==
  \E n \in (1..MaxCopies) \ Stored(s) :
    /\ n - 1 \in Stored(s) \cup {0}
    /\ stream' = [stream EXCEPT ![<<s, n>>].state = "ready"]

PublishMsg(e) ==
  IF e[1] = "step-requested"
  THEN StoreMessage(e[2]) \/ (Stored(e[2]) # {} /\ UNCHANGED stream)
  ELSE UNCHANGED stream

RelayPublishes(e) ==
  /\ Publishable(e) /\ e \notin relay
  /\ PublishMsg(e)
  /\ relay' = relay \cup {e}
  /\ UNCHANGED <<storeVars, failedStream, pc, job, requests, provider>>

RelayCommits(e) ==
  /\ e \in relay
  /\ MarkPublished(e)
  /\ relay' = relay \ {e}
  /\ UNCHANGED <<stream, failedStream, pc, job, requests, provider>>

(* The process dies or its commit fails after the publication. *)
RelayAborts(e) ==
  /\ e \in relay
  /\ relay' = relay \ {e}
  /\ UNCHANGED <<storeVars, stream, failedStream, pc, job, requests, provider>>

(* PublishMsg reports an error; the server may have stored the message. *)
RelayFails(e) ==
  /\ e \notin relay
  /\ markFailedAttempt(e)
  /\ PublishMsg(e) \/ UNCHANGED stream
  /\ UNCHANGED <<relay, failedStream, pc, job, requests, provider>>

-----------------------------------------------------------------------------
(* Delivery by the shared durable consumer. *)

Deliver(w, m) ==
  /\ pc[w] = "idle"
  /\ stream[m].state = "ready" /\ stream[m].deliveries < consumerMaxDeliveries
  /\ stream' = [stream EXCEPT ![m] = [state |-> "pending", deliveries |-> @.deliveries + 1]]
  /\ pc' = [pc EXCEPT ![w] = "load_operation"]
  /\ job' = [job EXCEPT ![w] = [NoJob EXCEPT !.msg = m, !.delivery = stream[m].deliveries + 1]]
  /\ UNCHANGED <<storeVars, relay, failedStream, requests, provider>>

(* No acknowledgement within the ack wait, whether or not the worker lives. *)
AckTimeout(m) ==
  /\ stream[m].state = "pending"
  /\ stream' = [stream EXCEPT ![m].state = "ready"]
  /\ UNCHANGED <<storeVars, relay, failedStream, pc, job, requests, provider>>

-----------------------------------------------------------------------------
(* handleMessage up to the lease. *)

(* On its way to an answer the handler uses only the message again. *)
Answering == {"ack", "nak", "term", "isolate"}

Jump(w, label, locals) ==
  /\ pc' = [pc EXCEPT ![w] = label]
  /\ job' = [job EXCEPT ![w] =
       IF label \in Answering
       THEN [NoJob EXCEPT !.msg = locals.msg, !.delivery = locals.delivery] ELSE locals]

(* Variant: a transient error is acknowledged. *)
retryOrFailAcks(w) == "ack"

retryOrFail(w) == IF job[w].delivery >= MaxDeliveries THEN "isolate" ELSE "nak"

LoadOperation(w) ==
  LET o == OpOf[StepOf(w)] IN
  /\ pc[w] = "load_operation"
  /\ Jump(w, IF StepOf(w) \in Malformed THEN "isolate"
             ELSE IF IsTerminal(operations[o].status) THEN "ack"
             ELSE IF Runnable(o) THEN "load_step"
             ELSE retryOrFail(w), job[w])
  /\ UNCHANGED <<storeVars, relay, stream, failedStream, requests, provider>>

(* GetStepState: retry count and checkpoint are remembered from here on. *)
LoadStep(w) ==
  LET row == steps[StepOf(w)] IN
  /\ pc[w] = "load_step"
  /\ Jump(w, IF row.status = "succeeded" \/ row.version # ExpectedVersion
             THEN "ack" ELSE "load_dependencies",
          [job[w] EXCEPT !.retryCount = row.retryCount, !.checkpoint = row.checkpoint])
  /\ UNCHANGED <<storeVars, relay, stream, failedStream, requests, provider>>

DependenciesSatisfied(s) == \A d \in DependsOn[s] : steps[d].status = "succeeded"

LoadDependencies(w) ==
  /\ pc[w] = "load_dependencies"
  /\ Jump(w, "acquire",
          [job[w] EXCEPT !.dependenciesSatisfied = DependenciesSatisfied(StepOf(w))])
  /\ UNCHANGED <<storeVars, relay, stream, failedStream, requests, provider>>

(* A step dispatched before its prerequisites fails under its own lease. *)
LeaseAcquired(w) ==
  /\ pc[w] = "acquire"
  /\ AcquireLease(w, StepOf(w), ExpectedVersion)
  /\ Jump(w, IF job[w].dependenciesSatisfied THEN "call" ELSE "failed",
          [job[w] EXCEPT !.generation = generation + 1, !.permanent = ~job[w].dependenciesSatisfied])
  /\ UNCHANGED <<relay, stream, failedStream, requests, provider>>

(* Variant: whoever holds the lease is trusted to finish the step. *)
LeaseRefusedAcks(w) ==
  /\ pc[w] = "acquire"
  /\ \/ AcquireLease(w, StepOf(w), ExpectedVersion)
     \/ LeaseNotAcquired(StepOf(w), ExpectedVersion)
     \/ /\ AcquireOutcome(StepOf(w), ExpectedVersion) \notin {"acquired", "lease_not_acquired"}
        /\ UNCHANGED storeVars
  /\ Jump(w, "ack", job[w])
  /\ UNCHANGED <<relay, stream, failedStream, requests, provider>>

(* Refused, or granted by a transaction whose answer was lost. *)
LeaseRefused(w) ==
  /\ pc[w] = "acquire"
  /\ \/ AcquireLease(w, StepOf(w), ExpectedVersion)
     \/ LeaseNotAcquired(StepOf(w), ExpectedVersion)
     \/ /\ AcquireOutcome(StepOf(w), ExpectedVersion) \notin {"acquired", "lease_not_acquired"}
        /\ UNCHANGED storeVars
  /\ Jump(w, retryOrFail(w), job[w])
  /\ UNCHANGED <<relay, stream, failedStream, requests, provider>>

-----------------------------------------------------------------------------
(* executeStep, its heartbeat and the provider, which keeps the promises   *)
(* of FencedProvider for the resource of each step.                        *)

(* Variant: the request names the message instead of the step. *)
CallProviderByMessage(w) ==
  /\ pc[w] = "call"
  /\ requests' = requests \cup {[step |-> job[w].msg, generation |-> job[w].generation]}
  /\ Jump(w, "executing", job[w])
  /\ UNCHANGED <<storeVars, relay, stream, failedStream, provider>>

CallProvider(w) ==
  /\ pc[w] = "call"
  /\ requests' = requests \cup {[step |-> StepOf(w), generation |-> job[w].generation]}
  /\ Jump(w, "executing", job[w])
  /\ UNCHANGED <<storeVars, relay, stream, failedStream, provider>>

(* Variant: the heartbeat revives whatever lease row there is. *)
HeartbeatRevives(w) ==
  /\ pc[w] = "executing"
  /\ leases' = [leases EXCEPT ![StepOf(w)].ttl = LeaseDuration]
  /\ UNCHANGED <<operations, steps, generation, outbox, readModel, audit, execVars>>

HeartbeatRenews(w) ==
  /\ pc[w] = "executing"
  /\ RenewLease(w, StepOf(w), job[w].generation)
  /\ UNCHANGED execVars

HeartbeatLosesLease(w) ==
  /\ pc[w] = "executing"
  /\ ~HoldsLease(w, StepOf(w), job[w].generation)
  /\ Jump(w, retryOrFail(w), job[w])
  /\ UNCHANGED <<storeVars, relay, stream, failedStream, requests, provider>>

(* Timeout of the step, a lost connection or a heartbeat error other than  *)
(* ErrLeaseLost: a retryable failure without checkpoint.  The request may  *)
(* still reach the provider.                                               *)
ExecutionInterrupted(w) ==
  /\ pc[w] \in {"call", "executing"}
  /\ Jump(w, "failed", [job[w] EXCEPT !.checkpoint = NoCheckpoint, !.permanent = FALSE])
  /\ UNCHANGED <<storeVars, relay, stream, failedStream, requests, provider>>

(* Variant: the provider does not compare generations. *)
FencedNever(q) == FALSE

Fenced(q) == q.generation < provider[q.step]

(* The answer reaches the worker that still waits for it, if there is one. *)
Answer(q, answer, c, permanent) ==
  LET waiting == {w \in Workers : /\ pc[w] = "executing" /\ StepOf(w) = q.step
                                  /\ job[w].generation = q.generation} IN
  /\ requests' = requests \ {q}
  /\ \/ waiting = {} /\ UNCHANGED <<pc, job>>
     \/ \E w \in waiting :
          Jump(w, IF answer = "fenced" THEN retryOrFail(w) ELSE answer,
               [job[w] EXCEPT !.checkpoint = c, !.permanent = permanent])

ProviderFences(q) ==
  /\ Fenced(q)
  /\ Answer(q, "fenced", NoCheckpoint, FALSE)
  /\ UNCHANGED <<storeVars, relay, stream, failedStream, provider>>

(* The external write; the provider goes on to wait for its effect. *)
ProviderWrites(q) ==
  /\ ~Fenced(q)
  /\ provider' = [provider EXCEPT ![q.step] = q.generation]
  /\ UNCHANGED <<storeVars, relay, stream, failedStream, pc, job, requests>>

(* Success is answered while the own write is still the last one. *)
ProviderSucceeds(q) ==
  /\ provider[q.step] = q.generation
  /\ \E c \in Checkpoints : Answer(q, "succeeded", c, FALSE)
  /\ UNCHANGED <<storeVars, relay, stream, failedStream, provider>>

(* A failure before or after the external write, or a success overtaken by *)
(* the end of the step timeout, which the heartbeat reports instead.       *)
ProviderFails(q) ==
  /\ \E c \in Checkpoints, permanent \in BOOLEAN : Answer(q, "failed", c, permanent)
  /\ UNCHANGED <<storeVars, relay, stream, failedStream, provider>>

-----------------------------------------------------------------------------
(* Recording the result.  A commit whose answer is lost counts as an error. *)

RecordSuccess(w) ==
  LET s == StepOf(w)
      outcome == CommitOutcome(w, s, job[w].generation, ExpectedVersion) IN
  /\ pc[w] = "succeeded"
  /\ \/ /\ commitStepResult(w, s, job[w].generation, ExpectedVersion, "succeeded", job[w].checkpoint)
        /\ \E label \in {"ack", retryOrFail(w)} : Jump(w, label, job[w])
     \/ /\ outcome # "committed"
        /\ UNCHANGED storeVars
        /\ Jump(w, IF outcome \in {"step_already_completed", "step_version_mismatch"}
                   THEN "ack" ELSE retryOrFail(w), job[w])
  /\ UNCHANGED <<relay, stream, failedStream, requests, provider>>

MayRetry(w) ==
  ~job[w].permanent /\ job[w].retryCount < MaxRetries /\ job[w].delivery < MaxDeliveries

(* The error exit of failStepExecution's terminal branch. *)
nakOrIsolate(w) == IF job[w].delivery >= consumerMaxDeliveries THEN "isolate" ELSE "nak"

RecordRetry(w) ==
  LET s == StepOf(w) IN
  /\ pc[w] = "failed" /\ MayRetry(w)
  /\ \/ SaveStepRetry(w, s, job[w].generation, ExpectedVersion, job[w].checkpoint) /\ Jump(w, "nak", job[w])
     \/ /\ ~RetryAccepted(w, s, job[w].generation, ExpectedVersion)
        /\ UNCHANGED storeVars
        /\ Jump(w, retryOrFail(w), job[w])
  /\ UNCHANGED <<relay, stream, failedStream, requests, provider>>

RecordFailure(w) ==
  LET s == StepOf(w)
      outcome == CommitOutcome(w, s, job[w].generation, ExpectedVersion) IN
  /\ pc[w] = "failed" /\ ~MayRetry(w)
  /\ \/ /\ commitStepResult(w, s, job[w].generation, ExpectedVersion, "failed", job[w].checkpoint)
        /\ \E label \in {"term", nakOrIsolate(w)} : Jump(w, label, job[w])
     \/ /\ outcome # "committed"
        /\ UNCHANGED storeVars
        /\ Jump(w, IF outcome = "step_already_completed" THEN "ack" ELSE nakOrIsolate(w), job[w])
  /\ UNCHANGED <<relay, stream, failedStream, requests, provider>>

(* A database error on any call of the handler; nothing was written. *)
StoreFails(w) ==
  /\ pc[w] \in {"load_operation", "load_step", "load_dependencies", "acquire", "succeeded", "failed"}
  /\ Jump(w, IF pc[w] = "failed" /\ ~MayRetry(w) THEN nakOrIsolate(w) ELSE retryOrFail(w), job[w])
  /\ UNCHANGED <<storeVars, relay, stream, failedStream, requests, provider>>

-----------------------------------------------------------------------------
(* Answering the delivery.  JetStream settles a message by its stream      *)
(* sequence, so the answer to an old delivery counts; any answer may be    *)
(* lost, which the code only logs.                                         *)

Settle(w, state) ==
  /\ stream' \in {stream, [stream EXCEPT ![job[w].msg].state = state]}
  /\ pc' = [pc EXCEPT ![w] = "idle"]
  /\ job' = [job EXCEPT ![w] = NoJob]
  /\ UNCHANGED <<storeVars, relay, failedStream, requests, provider>>

InStream(m) == stream[m].state \in {"ready", "pending"}

Settled(w, state) == IF InStream(job[w].msg) THEN state ELSE stream[job[w].msg].state

Ack(w) == pc[w] = "ack" /\ Settle(w, Settled(w, "acked"))

Nak(w) == pc[w] = "nak" /\ Settle(w, Settled(w, "ready"))

Term(w) == pc[w] = "term" /\ Settle(w, Settled(w, "terminated"))

(* Variant: the message is terminated even when it could not be isolated. *)
failPermanentlyDrops(w) ==
  /\ pc[w] = "isolate"
  /\ failedStream' \in {failedStream, failedStream \cup {job[w].msg}}
  /\ Jump(w, "term", job[w])
  /\ UNCHANGED <<storeVars, relay, stream, requests, provider>>

failPermanently(w) ==
  /\ pc[w] = "isolate"
  /\ \/ failedStream' = failedStream \cup {job[w].msg} /\ Jump(w, "term", job[w])
     \/ UNCHANGED failedStream /\ Jump(w, "nak", job[w])
  /\ UNCHANGED <<storeVars, relay, stream, requests, provider>>

Crash(w) ==
  /\ pc[w] # "idle"
  /\ pc' = [pc EXCEPT ![w] = "idle"]
  /\ job' = [job EXCEPT ![w] = NoJob]
  /\ UNCHANGED <<storeVars, relay, stream, failedStream, requests, provider>>

-----------------------------------------------------------------------------
(* The steps by which a handler proceeds to its answer. *)
Handle(w) ==
  \/ LoadOperation(w) \/ LoadStep(w) \/ LoadDependencies(w)
  \/ LeaseAcquired(w) \/ LeaseRefused(w)
  \/ CallProvider(w) \/ HeartbeatLosesLease(w) \/ ExecutionInterrupted(w)
  \/ RecordSuccess(w) \/ RecordRetry(w) \/ RecordFailure(w) \/ StoreFails(w)
  \/ Ack(w) \/ Nak(w) \/ Term(w) \/ failPermanently(w)

Relay(e) == RelayPublishes(e) \/ RelayCommits(e) \/ RelayAborts(e) \/ RelayFails(e)

ProviderStep(q) ==
  ProviderFences(q) \/ ProviderWrites(q) \/ ProviderSucceeds(q) \/ ProviderFails(q)

ExecNext ==
  \/ ApiNext /\ UNCHANGED execVars
  \/ \E s \in Steps : LeaseAges(s) /\ UNCHANGED execVars
  \/ \E e \in RelayedKinds \X Steps : Relay(e)
  \/ \E w \in Workers, m \in Msgs : Deliver(w, m)
  \/ \E m \in Msgs : AckTimeout(m)
  \/ \E w \in Workers : Handle(w) \/ HeartbeatRenews(w) \/ Crash(w)
  \/ \E q \in requests : ProviderStep(q)

ExecSpec == ExecInit /\ [][ExecNext]_vars

(* The relay polls every second, the broker redelivers after the ack wait, *)
(* and a handler that is not killed runs on: the step timeout bounds the   *)
(* provider call.  A relay commit is attempted again after every abort, so *)
(* it does not fail forever.  No fairness is assumed of the API, the       *)
(* provider, the lease clock or a crash.                                   *)
Fairness ==
  /\ \A e \in RelayedKinds \X Steps : WF_vars(RelayPublishes(e) \/ RelayFails(e)) /\ SF_vars(RelayCommits(e))
  /\ \A m \in Msgs : WF_vars(AckTimeout(m)) /\ WF_vars(\E w \in Workers : Deliver(w, m))
  /\ \A w \in Workers : WF_vars(Handle(w))

FairSpec == ExecSpec /\ Fairness

-----------------------------------------------------------------------------
(* Properties. *)

(* The queue, the handlers and the provider hold values of their shape. *)
ExecTypeOK ==
  /\ relay \subseteq Events
  /\ stream \in [Msgs -> Message]
  /\ failedStream \subseteq Msgs
  /\ pc \in [Workers -> Labels]
  /\ job \in [Workers -> Job]
  /\ requests \subseteq Request
  /\ provider \in [Steps -> Nat]

SettledStep(s) == steps[s].status # "pending" \/ IsTerminal(operations[OpOf[s]].status)

(* OP-007: a command leaves the work queue only after the outcome is       *)
(* durable.  A message that was acknowledged or terminated belongs to a    *)
(* step with a recorded result, to an operation that already ended, or is  *)
(* kept on the failed stream, through every crash, redelivery, lost answer *)
(* and lease takeover.                                                     *)
NoCommandLost ==
  \A m \in Msgs :
    /\ stream[m].state = "acked" => SettledStep(m[1])
    /\ stream[m].state = "terminated" => SettledStep(m[1]) \/ m \in failedStream

(* OP-008: the external state of a succeeded step was written by exactly   *)
(* the attempt whose result was committed, and no write of an attempt that *)
(* lost its lease lands after it.                                          *)
CommittedWriteStands ==
  \A s \in Steps :
    steps[s].status = "succeeded" =>
      /\ provider[s] = steps[s].generation
      /\ \A q \in requests : q.step = s => Fenced(q)

(* TENANT-007 across all processes: no external write and no provider      *)
(* request for a step of a high-risk operation without its approval.       *)
NoWriteWithoutApproval ==
  \A s \in Steps :
    OpOf[s] \in HighRisk /\ (provider[s] > 0 \/ \E q \in requests : q.step = s)
      => Approved(OpOf[s])

Exhausted(m) == InStream(m) /\ stream[m].deliveries = consumerMaxDeliveries

(* Every emitted command is eventually settled, or it is visibly given up: *)
(* its outbox row is failed, it is isolated on the failed stream, or the   *)
(* consumer has used up its deliveries.                                    *)
CommandsResolve ==
  \A s \in Steps :
    Emitted("step-requested", s) ~>
      \/ SettledStep(s)
      \/ outbox[<<"step-requested", s>>].status = "failed"
      \/ \E n \in 1..MaxCopies : <<s, n>> \in failedStream \/ Exhausted(<<s, n>>)
=============================================================================
