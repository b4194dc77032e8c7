------------------------- MODULE StepExecutionProofs -------------------------
(***************************************************************************)
(* Proofs about StepExecution for every number of workers, steps, copies   *)
(* of a command, retries and deliveries.  The handlers, the relay and the  *)
(* provider use the tables only through the transactions of                *)
(* OperationStore, so the execution implements Spec and inherits what is   *)
(* proved of it; on top of that no command is lost and the external state  *)
(* of a succeeded step is the write of the attempt that was committed.     *)
(***************************************************************************)
EXTENDS StepExecution, OperationStoreProofs

-----------------------------------------------------------------------------
(* The inductive invariant. *)

(* A command is being answered only when that is safe. *)
AnswersAreSafe ==
  \A w \in Workers :
    /\ pc[w] # "idle" => job[w].msg \in Msgs
    /\ pc[w] = "ack" => SettledStep(StepOf(w))
    /\ pc[w] = "term" => SettledStep(StepOf(w)) \/ job[w].msg \in failedStream

(* Where a worker goes on with the generation its lease gave it. *)
Holding == {"call", "executing", "succeeded", "failed"}

(* A generation in use was given to that step, and to one worker only. *)
GenerationsInUse ==
  /\ \A w \in Workers : pc[w] \in Holding =>
       job[w].generation > 0 /\ job[w].generation <= steps[StepOf(w)].generation
  /\ \A w, x \in Workers :
       pc[w] \in Holding /\ pc[x] \in Holding /\ w # x => job[w].generation # job[x].generation
  /\ \A s \in Steps : provider[s] <= steps[s].generation
  /\ \A q \in requests : q.generation > 0 /\ q.generation <= steps[q.step].generation

Asked(w) == \E q \in requests : q.step = StepOf(w) /\ q.generation = job[w].generation

(* One request per generation: none before the call, none left over once   *)
(* the provider answered success, which it does after its own write.       *)
OneRequestEach ==
  \A w \in Workers :
    /\ pc[w] = "call" => ~Asked(w)
    /\ pc[w] = "succeeded" => ~Asked(w) /\ provider[StepOf(w)] >= job[w].generation

(* A step that succeeded carries the write of its last generation, and     *)
(* whatever is or will be asked of the provider is older.                  *)
LastWriteCommitted ==
  \A s \in Steps : steps[s].status = "succeeded" =>
    /\ provider[s] = steps[s].generation
    /\ \A q \in requests : q.step = s => q.generation < provider[s]
    /\ \A w \in Workers : pc[w] = "call" /\ StepOf(w) = s => job[w].generation < provider[s]

StoreInv == TypeOK /\ SequenceAhead /\ OutboxMatchesResults /\ LeasesAreNumbered

FenceInv == GenerationsInUse /\ OneRequestEach /\ LastWriteCommitted

ExecInv == StoreInv /\ ExecTypeOK /\ AnswersAreSafe /\ NoCommandLost /\ FenceInv

-----------------------------------------------------------------------------
(* What the transactions keep. *)

(* A step that is settled stays so. *)
LEMMA SettledStays ==
  ASSUME TypeOK, [Next]_storeVars, NEW s \in Steps, SettledStep(s)
  PROVE  SettledStep(s)'
<1>1. CASE steps[s].status # "pending"
  BY Zenon, <1>1, ResultStays DEF SettledStep
<1>2. CASE IsTerminal(operations[OpOf[s]].status)
  <2>1. OpOf[s] \in Ops BY Zenon, StoreAssumption
  <2>2. operations'[OpOf[s]] = operations[OpOf[s]] BY Zenon, <1>2, <2>1, TerminalStep
  <2> QED BY Zenon, <1>2, <2>2 DEF SettledStep
<1> QED BY Zenon, <1>1, <1>2 DEF SettledStep

(* What every transaction keeps of the tables. *)
LEMMA StoreStep ==
  ASSUME StoreInv, [Next]_storeVars
  PROVE  /\ StoreInv'
         /\ \A s \in Steps : /\ steps'[s].generation >= steps[s].generation
                             /\ steps[s].status # "pending" => steps'[s] = steps[s]
                             /\ SettledStep(s) => SettledStep(s)'
<1>1. StoreInv' BY Zenon, TypeStep, GenerationStep, ResultsStep, NumberedStep DEF StoreInv
<1>2. \A s \in Steps : steps'[s].generation >= steps[s].generation
  BY Zenon, GenerationsGrow DEF StoreInv
<1>3. \A s \in Steps : steps[s].status # "pending" => steps'[s] = steps[s]
  BY Zenon, ResultStays DEF StoreInv
<1>4. \A s \in Steps : SettledStep(s) => SettledStep(s)'
  BY Zenon, SettledStays DEF StoreInv
<1> QED BY Zenon, <1>1, <1>2, <1>3, <1>4

-----------------------------------------------------------------------------
(* What a step may do to answers and to the fence. *)

(* Answers: a command is acknowledged, terminated or about to be so only   *)
(* if it already was, or its step is settled, or it is isolated.           *)
AnswersCalm ==
  /\ failedStream \subseteq failedStream'
  /\ \A x \in Workers :
       /\ pc'[x] # "idle" => job'[x].msg \in Msgs
       /\ pc'[x] = "ack" => \/ pc[x] = "ack" /\ job'[x].msg = job[x].msg
                            \/ SettledStep(StepOf(x))'
       /\ pc'[x] = "term" => \/ pc[x] = "term" /\ job'[x].msg = job[x].msg
                             \/ SettledStep(StepOf(x))' \/ job'[x].msg \in failedStream'
  /\ \A m \in Msgs :
       /\ stream'[m].state = "acked" => stream[m].state = "acked" \/ SettledStep(m[1])'
       /\ stream'[m].state = "terminated" =>
            stream[m].state = "terminated" \/ SettledStep(m[1])' \/ m \in failedStream'

(* The fence: no lease is granted, nothing is asked of or written by the   *)
(* provider, no step succeeds and no worker learns of a success.           *)
FenceCalm ==
  /\ requests' \subseteq requests /\ provider' = provider
  /\ \A s \in Steps : steps'[s].status = "succeeded" => steps[s].status = "succeeded"
  /\ \A x \in Workers : pc'[x] \in Holding =>
       /\ pc[x] \in Holding /\ job'[x].msg = job[x].msg /\ job'[x].generation = job[x].generation
       /\ pc'[x] \in {"call", "succeeded"} => pc'[x] = pc[x]

Good == [Next]_storeVars /\ ExecTypeOK' /\ AnswersCalm /\ (FenceCalm \/ FenceInv')

LEMMA MsgOf == ASSUME NEW m \in Msgs PROVE m[1] \in Steps
BY Zenon DEF Msgs

LEMMA AnswersStay ==
  ASSUME StoreInv, AnswersAreSafe, NoCommandLost, [Next]_storeVars, AnswersCalm
  PROVE  AnswersAreSafe' /\ NoCommandLost'
<1>1. \A s \in Steps : SettledStep(s) => SettledStep(s)' BY Zenon, StoreStep
<1>2. ASSUME NEW x \in Workers
      PROVE /\ pc'[x] # "idle" => job'[x].msg \in Msgs
            /\ pc'[x] = "ack" => SettledStep(StepOf(x))'
            /\ pc'[x] = "term" => SettledStep(StepOf(x))' \/ job'[x].msg \in failedStream'
  <2>1. pc'[x] # "idle" => job'[x].msg \in Msgs /\ job'[x].msg[1] \in Steps
    BY Zenon, MsgOf DEF AnswersCalm
  <2>2. CASE pc'[x] = "ack"
    <3>1. CASE pc[x] = "ack" /\ job'[x].msg = job[x].msg
      <4>1. SettledStep(job[x].msg[1]) /\ job[x].msg[1] \in Steps
        BY Zenon, <2>1, <2>2, <3>1 DEF AnswersAreSafe, StepOf
      <4>2. PICK s \in Steps : s = job[x].msg[1] BY Zenon, <4>1
      <4>3. SettledStep(s)' /\ s = job'[x].msg[1] BY Zenon, <1>1, <3>1, <4>1, <4>2
      <4> QED BY Zenon, <2>1, <2>2, <4>3 DEF SettledStep, StepOf
    <3> QED BY Zenon, <2>1, <2>2, <3>1 DEF AnswersCalm
  <2>3. CASE pc'[x] = "term"
    <3>1. CASE pc[x] = "term" /\ job'[x].msg = job[x].msg
      <4>1. job[x].msg[1] \in Steps /\ (SettledStep(job[x].msg[1]) \/ job'[x].msg \in failedStream)
        BY Zenon, <2>1, <2>3, <3>1 DEF AnswersAreSafe, StepOf
      <4> QED BY <1>1, <3>1, <4>1, Zenon DEF SettledStep, StepOf, AnswersCalm
    <3> QED BY Zenon, <2>1, <2>3, <3>1 DEF AnswersCalm
  <2> QED BY Zenon, <2>1, <2>2, <2>3
<1>3. AnswersAreSafe' BY Zenon, <1>2 DEF AnswersAreSafe, StepOf
<1>4. NoCommandLost'
  <2> SUFFICES ASSUME NEW m \in Msgs
               PROVE  /\ stream'[m].state = "acked" => SettledStep(m[1])'
                      /\ stream'[m].state = "terminated" => SettledStep(m[1])' \/ m \in failedStream'
    BY Zenon DEF NoCommandLost, Msgs
  <2>1. m[1] \in Steps BY Zenon, MsgOf
  <2> QED BY Zenon, <1>1, <2>1 DEF NoCommandLost, AnswersCalm
<1> QED BY Zenon, <1>3, <1>4

LEMMA FenceStays ==
  ASSUME StoreInv, ExecTypeOK, AnswersAreSafe, FenceInv, [Next]_storeVars, ExecTypeOK', FenceCalm
  PROVE  FenceInv'
<1>1. /\ \A s \in Steps : steps'[s].generation >= steps[s].generation
      /\ \A s \in Steps : steps[s].status # "pending" => steps'[s] = steps[s]
      /\ \A s \in Steps : steps[s].generation \in Nat /\ steps'[s].generation \in Nat
  BY Zenon, StoreStep DEF StoreInv, TypeOK, StepRow
<1>2. \A x \in Workers : pc[x] \in Holding => job[x].msg[1] \in Steps
  BY Zenon, MsgOf DEF AnswersAreSafe, Holding
<1>3. /\ \A x \in Workers : job[x].generation \in Nat /\ job'[x].generation \in Nat
      /\ \A q \in requests : q.step \in Steps /\ q.generation \in Nat
      /\ \A s \in Steps : provider[s] \in Nat
  BY Zenon DEF ExecTypeOK, Job, Request
<1>4. GenerationsInUse'
  <2>1. \A w \in Workers : pc'[w] \in Holding =>
          job'[w].generation > 0 /\ job'[w].generation <= steps'[job'[w].msg[1]].generation
    BY <1>1, <1>2, <1>3 DEF FenceInv, GenerationsInUse, FenceCalm, StepOf
  <2>2. \A w, x \in Workers : pc'[w] \in Holding /\ pc'[x] \in Holding /\ w # x
          => job'[w].generation # job'[x].generation
    BY DEF FenceInv, GenerationsInUse, FenceCalm
  <2>3. \A s \in Steps : provider'[s] <= steps'[s].generation
    BY <1>1, <1>3 DEF FenceInv, GenerationsInUse, FenceCalm
  <2>4. \A q \in requests' : q.generation > 0 /\ q.generation <= steps'[q.step].generation
    BY <1>1, <1>3 DEF FenceInv, GenerationsInUse, FenceCalm
  <2> QED BY Zenon, <2>1, <2>2, <2>3, <2>4 DEF GenerationsInUse, StepOf
<1>5. OneRequestEach'
  BY DEF FenceInv, OneRequestEach, Asked, FenceCalm, StepOf, Holding
<1>6. LastWriteCommitted'
  <2> SUFFICES ASSUME NEW s \in Steps, steps'[s].status = "succeeded"
               PROVE  /\ provider'[s] = steps'[s].generation
                      /\ \A q \in requests' : q.step = s => q.generation < provider'[s]
                      /\ \A w \in Workers : pc'[w] = "call" /\ job'[w].msg[1] = s
                           => job'[w].generation < provider'[s]
    BY Zenon DEF LastWriteCommitted, StepOf
  <2>1. steps[s].status = "succeeded" /\ steps'[s] = steps[s]
    BY Zenon, <1>1 DEF FenceCalm
  <2> QED BY Zenon, <2>1 DEF FenceInv, LastWriteCommitted, FenceCalm, StepOf, Holding
<1> QED BY Zenon, <1>4, <1>5, <1>6 DEF FenceInv

LEMMA GoodKeeps == ExecInv /\ Good => ExecInv'
BY Zenon, StoreStep, AnswersStay, FenceStays DEF ExecInv, Good

-----------------------------------------------------------------------------
(* What the moves of one worker do. *)

LEMMA Jumped ==
  ASSUME ExecTypeOK, NEW w \in Workers, NEW label \in Labels, NEW locals \in Job, Jump(w, label, locals)
  PROVE  /\ pc' \in [Workers -> Labels] /\ job' \in [Workers -> Job]
         /\ pc'[w] = label /\ job'[w].msg = locals.msg
         /\ label \notin Answering => job'[w] = locals
         /\ \A x \in Workers : x # w => pc'[x] = pc[x] /\ job'[x] = job[x]
<1> DEFINE left == [NoJob EXCEPT !.msg = locals.msg, !.delivery = locals.delivery]
           new == IF label \in Answering THEN left ELSE locals
<1>1. left \in Job /\ left.msg = locals.msg
  <2>1. locals.msg \in Msgs \cup {NoMsg} /\ locals.delivery \in Nat BY Zenon DEF Job
  <2>2. NoJob \in Job BY Zenon, StoreAssumption DEF NoJob, Job
  <2> QED BY <2>1, <2>2, Zenon DEF Job
<1>2. new \in Job /\ new.msg = locals.msg /\ (label \notin Answering => new = locals)
  BY Zenon, <1>1
<1>3. pc' = [pc EXCEPT ![w] = label] /\ job' = [job EXCEPT ![w] = new]
  BY Zenon DEF Jump
<1> HIDE DEF new
<1> QED BY Zenon, <1>2, <1>3 DEF ExecTypeOK

(* A worker under way goes on, gives up or answers, while the queue and    *)
(* the provider stay as they are.                                          *)
LEMMA WorkerMoves ==
  ASSUME ExecInv, NEW w \in Workers, NEW label \in Labels \ {"idle", "call", "succeeded"}, NEW locals \in Job,
         pc[w] # "idle", Jump(w, label, locals), locals.msg = job[w].msg,
         [Next]_storeVars, UNCHANGED <<relay, stream, failedStream, requests, provider>>,
         \A s \in Steps : steps'[s].status = "succeeded" => steps[s].status = "succeeded",
         label \in Holding => pc[w] \in Holding /\ locals.generation = job[w].generation,
         NEW step, step = StepOf(w), label \in {"ack", "term"} => SettledStep(step)'
  PROVE  Good
<1>t. ExecTypeOK /\ AnswersAreSafe BY Zenon DEF ExecInv
<1>1. /\ pc' \in [Workers -> Labels] /\ job' \in [Workers -> Job]
      /\ pc'[w] = label /\ job'[w].msg = job[w].msg
      /\ label \notin Answering => job'[w] = locals
      /\ \A x \in Workers : x # w => pc'[x] = pc[x] /\ job'[x] = job[x]
  BY ZenonT(60), <1>t, Jumped
<1>2. ExecTypeOK' BY Zenon, <1>t, <1>1 DEF ExecTypeOK
<1>3. AnswersCalm
  <2>1. \A m \in Msgs : stream'[m].state = stream[m].state
    BY Zenon
  <2>2. ASSUME label \in {"ack", "term"} PROVE SettledStep(StepOf(w))'
    <3>1. step = job'[w].msg[1] BY Zenon, <1>1 DEF StepOf
    <3> QED BY Zenon, <2>2, <3>1 DEF SettledStep, StepOf
  <2>3. job[w].msg \in Msgs BY Zenon, <1>t DEF AnswersAreSafe
  <2> QED BY Zenon, <1>t, <1>1, <2>1, <2>2, <2>3 DEF AnswersCalm, AnswersAreSafe
<1>4. FenceCalm
  <2>1. Holding \cap Answering = {} BY Zenon DEF Holding, Answering
  <2> QED BY Zenon, <1>1, <2>1 DEF FenceCalm
<1> QED BY Zenon, <1>2, <1>3, <1>4 DEF Good

(* The exits of a failed attempt. *)
LEMMA GivesUp ==
  ASSUME NEW w
  PROVE  retryOrFail(w) \in {"nak", "isolate"} /\ nakOrIsolate(w) \in {"nak", "isolate"}
BY Zenon DEF retryOrFail, nakOrIsolate

LEMMA WorkerTyped ==
  ASSUME ExecInv, NEW w \in Workers, pc[w] # "idle"
  PROVE  /\ job[w] \in Job /\ job[w].msg \in Msgs /\ StepOf(w) \in Steps /\ OpOf[StepOf(w)] \in Ops
         /\ steps[StepOf(w)] \in StepRow
         /\ job[w].generation \in Nat /\ job[w].checkpoint \in Checkpoints
<1>1. job[w] \in Job /\ job[w].msg \in Msgs BY Zenon DEF ExecInv, ExecTypeOK, AnswersAreSafe
<1>2. StepOf(w) \in Steps BY Zenon, <1>1, MsgOf DEF StepOf
<1>3. OpOf[StepOf(w)] \in Ops BY Zenon, <1>2, StoreAssumption
<1>4. steps[StepOf(w)] \in StepRow BY Zenon, <1>2 DEF ExecInv, StoreInv, TypeOK
<1>5. job[w].generation \in Nat /\ job[w].checkpoint \in Checkpoints BY Zenon, <1>1 DEF Job
<1> QED BY Zenon, <1>1, <1>2, <1>3, <1>4, <1>5

(* A result that is on record, or a version that moved, settles the step. *)
LEMMA RecordedIsSettled ==
  ASSUME OutboxMatchesResults, NEW s \in Steps,
         steps[s].status # "pending" \/ steps[s].version # 0
  PROVE  SettledStep(s)
BY Zenon DEF OutboxMatchesResults, SettledStep

(* The tables change, but neither does a handler move nor a step succeed. *)
LEMMA ExecutionRests ==
  ASSUME ExecInv, [Next]_storeVars, UNCHANGED execVars,
         \A s \in Steps : steps'[s].status = "succeeded" => steps[s].status = "succeeded"
  PROVE  Good
<1>1. /\ relay' = relay /\ stream' = stream /\ failedStream' = failedStream /\ pc' = pc /\ job' = job
      /\ requests' = requests /\ provider' = provider
  BY Zenon DEF execVars
<1>2. ExecTypeOK' BY Zenon, <1>1 DEF ExecInv, ExecTypeOK
<1>3. AnswersCalm BY Zenon, <1>1 DEF AnswersCalm, ExecInv, AnswersAreSafe
<1>4. FenceCalm BY Zenon, <1>1 DEF FenceCalm
<1> QED BY Zenon, <1>2, <1>3, <1>4 DEF Good

-----------------------------------------------------------------------------
(* The steps of a handler. *)

(* Nothing is written to the tables. *)
LEMMA NothingWritten ==
  ASSUME UNCHANGED storeVars
  PROVE  /\ [Next]_storeVars
         /\ \A s \in Steps : steps'[s].status = "succeeded" => steps[s].status = "succeeded"
         /\ \A s : SettledStep(s)' <=> SettledStep(s)
BY Zenon DEF storeVars, SettledStep

LEMMA LoadOperationKeeps ==
  ASSUME ExecInv, NEW w \in Workers, LoadOperation(w)
  PROVE  Good
<1> DEFINE label == IF StepOf(w) \in Malformed THEN "isolate"
                    ELSE IF IsTerminal(operations[OpOf[StepOf(w)]].status) THEN "ack"
                    ELSE IF Runnable(OpOf[StepOf(w)]) THEN "load_step"
                    ELSE retryOrFail(w)
<1>1. pc[w] = "load_operation" /\ Jump(w, label, job[w])
      /\ UNCHANGED storeVars /\ UNCHANGED <<relay, stream, failedStream, requests, provider>>
  BY Zenon DEF LoadOperation, storeVars
<1>2. job[w] \in Job BY Zenon, <1>1, WorkerTyped
<1>3. label \in {"isolate", "ack", "load_step", "nak"} BY Zenon, GivesUp
<1>4. label = "ack" => IsTerminal(operations[OpOf[StepOf(w)]].status) BY Zenon, GivesUp
<1>5. label = "ack" => SettledStep(StepOf(w)) BY Zenon, <1>4 DEF SettledStep
<1>6. label \in Labels \ {"idle", "call", "succeeded"} /\ label \notin Holding /\ label # "term"
  BY Zenon, <1>3 DEF Labels, Holding
<1> HIDE DEF label
<1>7. PICK s : s = StepOf(w) BY Zenon
<1>8. label \in {"ack", "term"} => SettledStep(s)' BY Zenon, <1>1, <1>5, <1>6, <1>7, NothingWritten
<1> QED BY Zenon, <1>1, <1>2, <1>6, <1>7, <1>8, NothingWritten, WorkerMoves

LEMMA LoadStepKeeps ==
  ASSUME ExecInv, NEW w \in Workers, LoadStep(w)
  PROVE  Good
<1> DEFINE row == steps[StepOf(w)]
           label == IF row.status = "succeeded" \/ row.version # ExpectedVersion THEN "ack" ELSE "load_dependencies"
           locals == [job[w] EXCEPT !.retryCount = row.retryCount, !.checkpoint = row.checkpoint]
<1>1. pc[w] = "load_step" /\ Jump(w, label, locals)
      /\ UNCHANGED storeVars /\ UNCHANGED <<relay, stream, failedStream, requests, provider>>
  BY Zenon DEF LoadStep, storeVars
<1>2. job[w] \in Job /\ StepOf(w) \in Steps /\ row \in StepRow BY Zenon, <1>1, WorkerTyped
<1>3. locals \in Job /\ locals.msg = job[w].msg
  <2>1. row.retryCount \in Nat /\ row.checkpoint \in Checkpoints BY Zenon, <1>2 DEF StepRow
  <2> HIDE DEF row
  <2> QED BY <1>2, <2>1, Zenon DEF Job
<1>4. label = "ack" => SettledStep(StepOf(w))
  <2>1. OutboxMatchesResults BY Zenon DEF ExecInv, StoreInv
  <2>2. label = "ack" => row.status # "pending" \/ row.version # 0 BY Zenon DEF ExpectedVersion
  <2> QED BY Zenon, <1>2, <2>1, <2>2, RecordedIsSettled
<1>5. label \in Labels \ {"idle", "call", "succeeded"} /\ label \notin Holding /\ label # "term"
  BY Zenon DEF Labels, Holding
<1> HIDE DEF label, locals
<1>6. PICK s : s = StepOf(w) BY Zenon
<1>7. label \in {"ack", "term"} => SettledStep(s)' BY Zenon, <1>1, <1>4, <1>5, <1>6, NothingWritten
<1> QED BY Zenon, <1>1, <1>3, <1>5, <1>6, <1>7, NothingWritten, WorkerMoves

LEMMA LoadDependenciesKeeps ==
  ASSUME ExecInv, NEW w \in Workers, LoadDependencies(w)
  PROVE  Good
<1> DEFINE locals == [job[w] EXCEPT !.dependenciesSatisfied = DependenciesSatisfied(StepOf(w))]
<1>1. pc[w] = "load_dependencies" /\ Jump(w, "acquire", locals)
      /\ UNCHANGED storeVars /\ UNCHANGED <<relay, stream, failedStream, requests, provider>>
  BY Zenon DEF LoadDependencies, storeVars
<1>2. job[w] \in Job BY Zenon, <1>1, WorkerTyped
<1>3. locals \in Job /\ locals.msg = job[w].msg
  <2>1. DependenciesSatisfied(StepOf(w)) \in BOOLEAN BY Zenon DEF DependenciesSatisfied
  <2> QED BY Zenon, <1>2, <2>1 DEF Job
<1>4. "acquire" \in Labels \ {"idle", "call", "succeeded"} /\ "acquire" \notin Holding
  BY Zenon DEF Labels, Holding
<1> HIDE DEF locals
<1> QED BY Zenon, <1>1, <1>3, <1>4, NothingWritten, WorkerMoves

(* Acquiring, and failing to acquire, are transactions of the store. *)
LEMMA AcquireIsNext ==
  ASSUME ExecInv, NEW w \in Workers, NEW s \in Steps,
         AcquireLease(w, s, ExpectedVersion) \/ LeaseNotAcquired(s, ExpectedVersion)
  PROVE  Next /\ \A t \in Steps : steps'[t].status = steps[t].status
<1>1. ExpectedVersion \in Versions BY DEF ExpectedVersion, Versions
<1>2. Next BY Zenon, <1>1 DEF Next, WorkerNext
<1>3. ASSUME AcquireLease(w, s, ExpectedVersion) PROVE \A t \in Steps : steps'[t].status = steps[t].status
  BY Zenon, <1>3 DEF AcquireLease, ExecInv, StoreInv, TypeOK, StepRow
<1>4. ASSUME LeaseNotAcquired(s, ExpectedVersion) PROVE \A t \in Steps : steps'[t].status = steps[t].status
  BY Zenon, <1>4 DEF LeaseNotAcquired
<1> QED BY Zenon, <1>2, <1>3, <1>4

LEMMA LeaseRefusedKeeps ==
  ASSUME ExecInv, NEW w \in Workers, LeaseRefused(w)
  PROVE  Good
<1>1. pc[w] = "acquire" /\ Jump(w, retryOrFail(w), job[w])
      /\ UNCHANGED <<relay, stream, failedStream, requests, provider>>
  BY Zenon DEF LeaseRefused
<1>2. job[w] \in Job /\ StepOf(w) \in Steps BY Zenon, <1>1, WorkerTyped
<1>3. [Next]_storeVars /\ \A s \in Steps : steps'[s].status = "succeeded" => steps[s].status = "succeeded"
  BY Zenon, <1>2, AcquireIsNext, NothingWritten DEF LeaseRefused
<1>4. retryOrFail(w) \in Labels \ {"idle", "call", "succeeded", "ack", "term"} /\ retryOrFail(w) \notin Holding
  BY Zenon, GivesUp DEF Labels, Holding
<1> QED BY Zenon, <1>1, <1>2, <1>3, <1>4, WorkerMoves

LEMMA HeartbeatLosesLeaseKeeps ==
  ASSUME ExecInv, NEW w \in Workers, HeartbeatLosesLease(w)
  PROVE  Good
<1>1. pc[w] = "executing" /\ Jump(w, retryOrFail(w), job[w])
      /\ UNCHANGED storeVars /\ UNCHANGED <<relay, stream, failedStream, requests, provider>>
  BY Zenon DEF HeartbeatLosesLease, storeVars
<1>2. job[w] \in Job BY Zenon, <1>1, WorkerTyped
<1>3. retryOrFail(w) \in Labels \ {"idle", "call", "succeeded", "ack", "term"} /\ retryOrFail(w) \notin Holding
  BY Zenon, GivesUp DEF Labels, Holding
<1> QED BY Zenon, <1>1, <1>2, <1>3, NothingWritten, WorkerMoves

LEMMA ExecutionInterruptedKeeps ==
  ASSUME ExecInv, NEW w \in Workers, ExecutionInterrupted(w)
  PROVE  Good
<1> DEFINE locals == [job[w] EXCEPT !.checkpoint = NoCheckpoint, !.permanent = FALSE]
<1>1. pc[w] \in {"call", "executing"} /\ Jump(w, "failed", locals)
      /\ UNCHANGED storeVars /\ UNCHANGED <<relay, stream, failedStream, requests, provider>>
  BY Zenon DEF ExecutionInterrupted, storeVars
<1>2. job[w] \in Job BY Zenon, <1>1, WorkerTyped
<1>3. locals \in Job /\ locals.msg = job[w].msg /\ locals.generation = job[w].generation
  BY <1>2, StoreAssumption, Zenon DEF Job
<1>4. "failed" \in Labels \ {"idle", "call", "succeeded"} /\ pc[w] \in Holding
  BY Zenon, <1>1 DEF Labels, Holding
<1> HIDE DEF locals
<1> QED BY Zenon, <1>1, <1>3, <1>4, NothingWritten, WorkerMoves

LEMMA StoreFailsKeeps ==
  ASSUME ExecInv, NEW w \in Workers, StoreFails(w)
  PROVE  Good
<1> DEFINE label == IF pc[w] = "failed" /\ ~MayRetry(w) THEN nakOrIsolate(w) ELSE retryOrFail(w)
<1>1. pc[w] # "idle" /\ Jump(w, label, job[w])
      /\ UNCHANGED storeVars /\ UNCHANGED <<relay, stream, failedStream, requests, provider>>
  BY Zenon DEF StoreFails, storeVars
<1>2. job[w] \in Job BY Zenon, <1>1, WorkerTyped
<1>3. label \in Labels \ {"idle", "call", "succeeded", "ack", "term"} /\ label \notin Holding
  BY Zenon, GivesUp DEF Labels, Holding
<1> HIDE DEF label
<1> QED BY Zenon, <1>1, <1>2, <1>3, NothingWritten, WorkerMoves

(* A generation under which a lease is held is one the sequence gave out. *)
LEMMA HeldGeneration ==
  ASSUME StoreInv, NEW w, NEW s \in Steps, NEW g, HoldsLease(w, s, g)
  PROVE  g \in 1..MaxGeneration
<1>1. /\ g = steps[s].generation /\ g > 0 /\ steps[s].generation <= generation /\ generation <= MaxGeneration
  BY Zenon DEF HoldsLease, StoreInv, LeasesAreNumbered, SequenceAhead
<1>2. steps[s].generation \in Nat /\ generation \in Nat /\ MaxGeneration \in Nat
  BY Zenon, StoreAssumption DEF StoreInv, TypeOK, StepRow
<1> QED BY <1>1, <1>2

LEMMA HeartbeatRenewsKeeps ==
  ASSUME ExecInv, NEW w \in Workers, HeartbeatRenews(w)
  PROVE  Good
<1>1. pc[w] = "executing" /\ RenewLease(w, StepOf(w), job[w].generation) /\ UNCHANGED execVars
  BY Zenon DEF HeartbeatRenews
<1>2. StepOf(w) \in Steps BY Zenon, <1>1, WorkerTyped
<1>3. job[w].generation \in 1..MaxGeneration
  BY Zenon, <1>1, <1>2, HeldGeneration DEF RenewLease, ExecInv
<1>4. Next
  <2>1. 0 \in Versions BY DEF Versions
  <2> QED BY Zenon, <1>1, <1>2, <1>3, <2>1 DEF Next, WorkerNext
<1>5. UNCHANGED steps BY Zenon, <1>1 DEF RenewLease
<1> QED BY Zenon, <1>1, <1>4, <1>5, ExecutionRests

LEMMA Committed ==
  ASSUME ExecInv, NEW w \in Workers, NEW s \in Steps, NEW g, NEW r \in {"succeeded", "failed"},
         NEW c \in Checkpoints, commitStepResult(w, s, g, ExpectedVersion, r, c)
  PROVE  /\ Next
         /\ steps[s].generation = g
         /\ steps'[s].status = r /\ steps'[s].generation = g
         /\ \A t \in Steps : t # s => steps'[t] = steps[t]
<1>1. HoldsLease(w, s, g) BY Zenon DEF commitStepResult, CommitOutcome
<1>2. g \in 1..MaxGeneration BY Zenon, <1>1, HeldGeneration DEF ExecInv
<1>3. ExpectedVersion \in Versions BY DEF ExpectedVersion, Versions
<1>4. Next BY Zenon, <1>2, <1>3 DEF Next, WorkerNext
<1>5. steps[s].generation = g BY Zenon, <1>1 DEF HoldsLease
<1>6. steps' = [steps EXCEPT ![s] =
        [status |-> r, version |-> steps[s].version + 1, retryCount |-> steps[s].retryCount,
         checkpoint |-> c, generation |-> steps[s].generation]]
  BY Zenon DEF commitStepResult
<1>7. steps \in [Steps -> StepRow] BY Zenon DEF ExecInv, StoreInv, TypeOK
<1> QED BY Zenon, <1>4, <1>5, <1>6, <1>7

LEMMA RecordRetryKeeps ==
  ASSUME ExecInv, NEW w \in Workers, RecordRetry(w)
  PROVE  Good
<1> DEFINE s == StepOf(w)
<1>0. pc[w] = "failed" /\ UNCHANGED <<relay, stream, failedStream, requests, provider>>
  BY Zenon DEF RecordRetry
<1>1. /\ job[w] \in Job /\ s \in Steps /\ job[w].checkpoint \in Checkpoints
      /\ steps \in [Steps -> StepRow]
  BY Zenon, <1>0, WorkerTyped DEF ExecInv, StoreInv, TypeOK
<1>2. retryOrFail(w) \in Labels \ {"idle", "call", "succeeded", "ack", "term"} /\ retryOrFail(w) \notin Holding
      /\ "nak" \in Labels \ {"idle", "call", "succeeded", "ack", "term"} /\ "nak" \notin Holding
  BY Zenon, GivesUp DEF Labels, Holding
<1>3. CASE SaveStepRetry(w, s, job[w].generation, ExpectedVersion, job[w].checkpoint) /\ Jump(w, "nak", job[w])
  <2>1. job[w].generation \in 1..MaxGeneration
    BY Zenon, <1>1, <1>3, HeldGeneration DEF SaveStepRetry, RetryAccepted, ExecInv
  <2>2. ExpectedVersion \in Versions BY DEF ExpectedVersion, Versions
  <2>3. Next BY Zenon, <1>1, <1>3, <2>1, <2>2 DEF Next, WorkerNext
  <2>4. \A t \in Steps : steps'[t].status = "succeeded" => steps[t].status = "succeeded"
    BY Zenon, <1>1, <1>3 DEF SaveStepRetry
  <2> QED BY Zenon, <1>0, <1>1, <1>2, <1>3, <2>3, <2>4, WorkerMoves
<1>4. CASE UNCHANGED storeVars /\ Jump(w, retryOrFail(w), job[w])
  BY Zenon, <1>0, <1>1, <1>2, <1>4, NothingWritten, WorkerMoves
<1> QED BY Zenon, <1>3, <1>4 DEF RecordRetry

LEMMA RecordFailureKeeps ==
  ASSUME ExecInv, NEW w \in Workers, RecordFailure(w)
  PROVE  Good
<1> DEFINE s == StepOf(w)
           outcome == CommitOutcome(w, s, job[w].generation, ExpectedVersion)
<1>0. pc[w] = "failed" /\ UNCHANGED <<relay, stream, failedStream, requests, provider>>
  BY Zenon DEF RecordFailure
<1>1. job[w] \in Job /\ s \in Steps /\ job[w].checkpoint \in Checkpoints
  BY Zenon, <1>0, WorkerTyped
<1>p. PICK step \in Steps : step = s BY Zenon, <1>1
<1>2. /\ {"term", "ack", nakOrIsolate(w)} \subseteq Labels \ {"idle", "call", "succeeded"}
      /\ {"term", "ack", nakOrIsolate(w)} \cap Holding = {}
      /\ nakOrIsolate(w) \notin {"ack", "term"}
  BY Zenon, GivesUp DEF Labels, Holding
<1>3. ASSUME commitStepResult(w, s, job[w].generation, ExpectedVersion, "failed", job[w].checkpoint),
             NEW label \in {"term", nakOrIsolate(w)}, Jump(w, label, job[w])
      PROVE  Good
  <2>1. /\ Next /\ steps'[s].status = "failed"
        /\ \A t \in Steps : t # s => steps'[t] = steps[t]
    BY ZenonT(60), <1>1, <1>3, Committed
  <2>2. SettledStep(step)' BY Zenon, <1>p, <2>1 DEF SettledStep
  <2>3. \A t \in Steps : steps'[t].status = "succeeded" => steps[t].status = "succeeded" BY Zenon, <2>1
  <2> QED BY Zenon, <1>0, <1>1, <1>p, <1>2, <1>3, <2>1, <2>2, <2>3, WorkerMoves
<1>4. CASE UNCHANGED storeVars
           /\ Jump(w, IF outcome = "step_already_completed" THEN "ack" ELSE nakOrIsolate(w), job[w])
  <2>1. outcome = "step_already_completed" => SettledStep(s) BY Zenon DEF CommitOutcome, SettledStep
  <2>2. outcome = "step_already_completed" => SettledStep(step)' BY Zenon, <1>p, <1>4, <2>1, NothingWritten
  <2> HIDE DEF outcome
  <2> QED BY Zenon, <1>0, <1>1, <1>p, <1>2, <1>4, <2>2, NothingWritten, WorkerMoves
<1> QED BY Zenon, <1>3, <1>4 DEF RecordFailure

(* The commit of a success finds the own write in place: the step still    *)
(* has the generation of the worker, so nobody was given a later one, and  *)
(* every other request and caller has an earlier one.                      *)
LEMMA CommitKeepsFence ==
  ASSUME StoreInv, ExecTypeOK, AnswersAreSafe, FenceInv, ExecTypeOK', NEW w \in Workers, pc[w] = "succeeded",
         UNCHANGED <<requests, provider>>, pc'[w] \notin Holding,
         \A x \in Workers : x # w => pc'[x] = pc[x] /\ job'[x] = job[x],
         steps[StepOf(w)].generation = job[w].generation,
         steps'[StepOf(w)].generation = job[w].generation,
         \A t \in Steps : t # StepOf(w) => steps'[t] = steps[t]
  PROVE  FenceInv'
<1> DEFINE s == StepOf(w)
           g == job[w].generation
<1>1. /\ s \in Steps /\ g \in Nat /\ provider[s] \in Nat
      /\ \A x \in Workers : job[x].generation \in Nat
      /\ \A q \in requests : q.step \in Steps /\ q.generation \in Nat
  BY Zenon, MsgOf DEF ExecTypeOK, AnswersAreSafe, StepOf, Job, Request
<1>2. \A t \in Steps : steps'[t].generation = steps[t].generation BY Zenon
<1>3. \A x \in Workers : pc'[x] \in Holding => x # w /\ pc[x] \in Holding /\ pc'[x] = pc[x] /\ job'[x] = job[x]
  BY Zenon
<1>m. \A x \in Workers : pc[x] \in Holding => job[x].msg[1] \in Steps
  BY Zenon, MsgOf DEF AnswersAreSafe, Holding
<1>4. GenerationsInUse'
  BY SMTT(30), <1>1, <1>2, <1>3, <1>m DEF FenceInv, GenerationsInUse, StepOf
<1>5. OneRequestEach'
  BY SMTT(30), <1>3 DEF FenceInv, OneRequestEach, Asked, StepOf, Holding
<1>6. LastWriteCommitted'
  <2>1. provider[s] = g BY SMTT(30), <1>1 DEF FenceInv, GenerationsInUse, OneRequestEach
  <2>2. \A q \in requests : q.step = s => q.generation < g
    BY SMTT(30), <1>1 DEF FenceInv, GenerationsInUse, OneRequestEach, Asked
  <2>3. \A x \in Workers : pc'[x] = "call" /\ job'[x].msg[1] = s => job'[x].generation < g
    BY SMTT(30), <1>1, <1>3 DEF FenceInv, GenerationsInUse, StepOf, Holding
  <2>4. \A x \in Workers : pc'[x] = "call" => pc[x] = "call" /\ job'[x] = job[x]
    BY Zenon, <1>3 DEF Holding
  <2> QED BY <2>1, <2>2, <2>3, <2>4 DEF FenceInv, LastWriteCommitted, StepOf
<1> QED BY Zenon, <1>4, <1>5, <1>6 DEF FenceInv

LEMMA RecordSuccessKeeps ==
  ASSUME ExecInv, NEW w \in Workers, RecordSuccess(w)
  PROVE  Good
<1> DEFINE s == StepOf(w)
           g == job[w].generation
           outcome == CommitOutcome(w, s, g, ExpectedVersion)
           label == IF outcome \in {"step_already_completed", "step_version_mismatch"} THEN "ack" ELSE retryOrFail(w)
<1>0. pc[w] = "succeeded" /\ UNCHANGED <<relay, stream, failedStream, requests, provider>>
  BY Zenon DEF RecordSuccess
<1>1. job[w] \in Job /\ job[w].msg \in Msgs /\ s \in Steps /\ job[w].checkpoint \in Checkpoints /\ g \in Nat
  BY Zenon, <1>0, WorkerTyped
<1>p. PICK step \in Steps : step = s BY Zenon, <1>1
<1>2. /\ {"ack", retryOrFail(w)} \subseteq Labels \ {"idle", "call", "succeeded"}
      /\ {"ack", retryOrFail(w)} \cap Holding = {}
      /\ retryOrFail(w) \notin {"ack", "term"}
  BY Zenon, GivesUp DEF Labels, Holding
<1>3. CASE UNCHANGED storeVars /\ Jump(w, label, job[w])
  <2>1. outcome \in {"step_already_completed", "step_version_mismatch"} => SettledStep(s)
    <3>1. OutboxMatchesResults BY Zenon DEF ExecInv, StoreInv
    <3>2. outcome \in {"step_already_completed", "step_version_mismatch"}
            => steps[s].status # "pending" \/ steps[s].version # 0
      BY Zenon DEF CommitOutcome, ExpectedVersion
    <3> QED BY Zenon, <1>1, <3>1, <3>2, RecordedIsSettled
  <2>2. outcome \in {"step_already_completed", "step_version_mismatch"} => SettledStep(step)'
    BY Zenon, <1>p, <1>3, <2>1, NothingWritten
  <2> HIDE DEF outcome
  <2>3. /\ label \in Labels \ {"idle", "call", "succeeded"} /\ label \notin Holding
        /\ label \in {"ack", "term"} => SettledStep(step)'
    BY Zenon, <1>2, <2>2
  <2> HIDE DEF label
  <2> QED BY Zenon, <1>0, <1>1, <1>p, <1>3, <2>3, NothingWritten, WorkerMoves
<1>4. ASSUME commitStepResult(w, s, g, ExpectedVersion, "succeeded", job[w].checkpoint),
             NEW to \in {"ack", retryOrFail(w)}, Jump(w, to, job[w])
      PROVE  Good
  <2>t. ExecTypeOK /\ StoreInv /\ AnswersAreSafe /\ FenceInv BY Zenon DEF ExecInv
  <2>1. /\ Next /\ steps'[s].status = "succeeded" /\ steps[s].generation = g /\ steps'[s].generation = g
        /\ \A t \in Steps : t # s => steps'[t] = steps[t]
    BY ZenonT(60), <1>1, <1>4, Committed
  <2>2. /\ pc' \in [Workers -> Labels] /\ job' \in [Workers -> Job]
        /\ pc'[w] = to /\ job'[w].msg = job[w].msg
        /\ \A x \in Workers : x # w => pc'[x] = pc[x] /\ job'[x] = job[x]
    BY Zenon, <1>1, <1>2, <1>4, <2>t, Jumped
  <2>3. ExecTypeOK' BY Zenon, <1>0, <2>t, <2>2 DEF ExecTypeOK
  <2>4. AnswersCalm
    <3>1. SettledStep(StepOf(w))'
      <4>1. s = job'[w].msg[1] BY Zenon, <2>2 DEF StepOf
      <4> QED BY Zenon, <2>1, <4>1 DEF SettledStep, StepOf
    <3> QED BY Zenon, <1>0, <1>1, <1>2, <2>t, <2>2, <3>1 DEF AnswersCalm, AnswersAreSafe
  <2>5. FenceInv' BY Zenon, <1>0, <1>1, <1>2, <1>4, <2>t, <2>1, <2>2, <2>3, CommitKeepsFence
  <2> QED BY Zenon, <2>1, <2>3, <2>4, <2>5 DEF Good
<1> QED BY Zenon, <1>3, <1>4 DEF RecordSuccess

-----------------------------------------------------------------------------
(* The lease and the provider. *)

LEMMA LeaseAcquiredKeeps ==
  ASSUME ExecInv, NEW w \in Workers, LeaseAcquired(w)
  PROVE  Good
<1> DEFINE s == StepOf(w)
           label == IF job[w].dependenciesSatisfied THEN "call" ELSE "failed"
           locals == [job[w] EXCEPT !.generation = generation + 1, !.permanent = ~job[w].dependenciesSatisfied]
<1>t. StoreInv /\ ExecTypeOK /\ AnswersAreSafe /\ FenceInv BY Zenon DEF ExecInv
<1>0. /\ pc[w] = "acquire" /\ AcquireLease(w, s, ExpectedVersion) /\ Jump(w, label, locals)
      /\ UNCHANGED <<relay, stream, failedStream, requests, provider>>
  BY Zenon DEF LeaseAcquired
<1>1. job[w] \in Job /\ job[w].msg \in Msgs /\ s \in Steps BY Zenon, <1>0, WorkerTyped
<1>2. generation \in Nat /\ steps \in [Steps -> StepRow] BY Zenon, <1>t DEF StoreInv, TypeOK
<1>3. locals \in Job /\ locals.msg = job[w].msg /\ locals.generation = generation + 1
  <2>1. PICK p \in BOOLEAN : p = ~job[w].dependenciesSatisfied BY Zenon
  <2>2. generation + 1 \in Nat BY <1>2
  <2>3. locals = [job[w] EXCEPT !.generation = generation + 1, !.permanent = p] BY Zenon, <2>1
  <2> HIDE DEF locals
  <2> QED BY <1>1, <2>2, <2>3, Zenon DEF Job
<1>4. label \in Labels /\ label \notin Answering /\ label \in {"call", "failed"} BY Zenon DEF Labels, Answering
<1> HIDE DEF label, locals
<1>5. /\ pc' \in [Workers -> Labels] /\ job' \in [Workers -> Job]
      /\ pc'[w] = label /\ job'[w] = locals
      /\ \A x \in Workers : x # w => pc'[x] = pc[x] /\ job'[x] = job[x]
  BY <1>t, <1>0, <1>3, <1>4, Jumped
<1>6. /\ Next /\ \A t \in Steps : steps'[t].status = steps[t].status
  BY Zenon, <1>0, <1>1, AcquireIsNext
<1>7. /\ steps'[s].generation = generation + 1 /\ steps[s].status = "pending"
      /\ \A t \in Steps : t # s => steps'[t] = steps[t]
  BY Zenon, <1>0, <1>1, <1>2 DEF AcquireLease, AcquireOutcome, StepRow
<1>8. ExecTypeOK' BY Zenon, <1>t, <1>0, <1>5 DEF ExecTypeOK
<1>9. AnswersCalm
  BY Zenon, <1>t, <1>0, <1>1, <1>3, <1>4, <1>5 DEF AnswersCalm, AnswersAreSafe
<1>10. FenceInv'
  <2>1. /\ \A t \in Steps : steps[t].generation \in Nat /\ steps[t].generation <= generation
        /\ \A t \in Steps : steps'[t].generation >= steps[t].generation /\ steps'[t].generation \in Nat
    BY <1>t, <1>2, <1>7 DEF StoreInv, SequenceAhead, StepRow
  <2>2. /\ \A x \in Workers : job[x].generation \in Nat
        /\ \A q \in requests : q.step \in Steps /\ q.generation \in Nat
        /\ \A t \in Steps : provider[t] \in Nat
        /\ \A x \in Workers : pc[x] \in Holding => job[x].msg[1] \in Steps
    BY Zenon, <1>t, MsgOf DEF ExecTypeOK, Job, Request, AnswersAreSafe, Holding
  <2>3. /\ \A x \in Workers : pc[x] \in Holding =>
             /\ job[x].generation > 0 /\ job[x].generation <= steps[job[x].msg[1]].generation
             /\ job[x].generation <= generation
        /\ \A q \in requests : q.generation <= generation
    BY <1>t, <1>2, <2>1, <2>2 DEF FenceInv, GenerationsInUse, StepOf
  <2>4. GenerationsInUse'
    <3>1. \A x \in Workers : pc'[x] \in Holding =>
            job'[x].generation > 0 /\ job'[x].generation <= steps'[job'[x].msg[1]].generation
      BY <1>1, <1>2, <1>3, <1>5, <1>7, <2>1, <2>2, <2>3 DEF StepOf
    <3>2. \A x, y \in Workers : pc'[x] \in Holding /\ pc'[y] \in Holding /\ x # y
            => job'[x].generation # job'[y].generation
      BY <1>t, <1>2, <1>3, <1>5, <2>2, <2>3 DEF FenceInv, GenerationsInUse
    <3>3. \A t \in Steps : provider'[t] <= steps'[t].generation
      BY <1>t, <1>0, <2>1, <2>2 DEF FenceInv, GenerationsInUse
    <3>4. \A q \in requests' : q.generation > 0 /\ q.generation <= steps'[q.step].generation
      BY <1>t, <1>0, <2>1, <2>2 DEF FenceInv, GenerationsInUse
    <3> QED BY ZenonT(60), <3>1, <3>2, <3>3, <3>4 DEF GenerationsInUse, StepOf
  <2>5. OneRequestEach'
    <3>1. \A q \in requests : q.generation # job'[w].generation BY <1>2, <1>3, <1>5, <2>2, <2>3
    <3> QED BY <1>t, <1>0, <1>4, <1>5, <3>1 DEF FenceInv, OneRequestEach, Asked, StepOf
  <2>6. LastWriteCommitted'
    <3>1. \A t \in Steps : steps'[t].status = "succeeded" =>
            steps[t].status = "succeeded" /\ steps'[t] = steps[t] /\ t # s
      BY Zenon, <1>6, <1>7
    <3>2. job'[w].msg[1] = s BY Zenon, <1>3, <1>5 DEF StepOf
    <3> QED BY <1>t, <1>0, <1>5, <3>1, <3>2 DEF FenceInv, LastWriteCommitted, StepOf
  <2> QED BY Zenon, <2>4, <2>5, <2>6 DEF FenceInv
<1> QED BY Zenon, <1>6, <1>8, <1>9, <1>10 DEF Good

LEMMA CallProviderKeeps ==
  ASSUME ExecInv, NEW w \in Workers, CallProvider(w)
  PROVE  Good
<1> DEFINE new == [step |-> StepOf(w), generation |-> job[w].generation]
<1>t. StoreInv /\ ExecTypeOK /\ AnswersAreSafe /\ FenceInv BY Zenon DEF ExecInv
<1>0. /\ pc[w] = "call" /\ requests' = requests \cup {new} /\ Jump(w, "executing", job[w])
      /\ UNCHANGED storeVars /\ UNCHANGED <<relay, stream, failedStream, provider>> /\ UNCHANGED steps
  BY Zenon DEF CallProvider, storeVars
<1>1. job[w] \in Job /\ job[w].msg \in Msgs /\ StepOf(w) \in Steps /\ job[w].generation \in Nat
  BY Zenon, <1>0, WorkerTyped
<1>2. "executing" \in Labels /\ "executing" \notin Answering BY Zenon DEF Labels, Answering
<1>3. /\ pc' \in [Workers -> Labels] /\ job' = job
      /\ pc'[w] = "executing" /\ \A x \in Workers : x # w => pc'[x] = pc[x]
  BY Zenon, <1>t, <1>0, <1>1, <1>2 DEF Jump, ExecTypeOK
<1>4. new \in Request /\ new.step = StepOf(w) /\ new.generation = job[w].generation BY Zenon, <1>1 DEF Request
<1> HIDE DEF new
<1>5. ExecTypeOK' BY Zenon, <1>t, <1>0, <1>3, <1>4 DEF ExecTypeOK
<1>6. AnswersCalm BY Zenon, <1>t, <1>0, <1>1, <1>3 DEF AnswersCalm, AnswersAreSafe
<1>7. FenceInv'
  <2>1. \A x \in Workers : pc'[x] \in Holding => pc[x] \in Holding BY Zenon, <1>0, <1>3 DEF Holding
  <2>2. \A x \in Workers : pc'[x] \in {"call", "succeeded"} => x # w /\ pc'[x] = pc[x] /\ pc[x] \in Holding
    BY Zenon, <1>3 DEF Holding
  <2>3. pc[w] \in Holding BY Zenon, <1>0 DEF Holding
  <2>4. GenerationsInUse' BY <1>t, <1>0, <1>3, <1>4, <2>1, <2>3 DEF FenceInv, GenerationsInUse, StepOf
  <2>5. OneRequestEach'
    <3>1. \A x \in Workers : pc'[x] \in {"call", "succeeded"} => job[x].generation # new.generation
      BY Zenon, <1>t, <1>4, <2>2, <2>3 DEF FenceInv, GenerationsInUse
    <3> QED BY <1>t, <1>0, <1>3, <2>2, <3>1 DEF FenceInv, OneRequestEach, Asked, StepOf
  <2>6. LastWriteCommitted'
    BY <1>t, <1>0, <1>3, <1>4, <2>2 DEF FenceInv, LastWriteCommitted, StepOf
  <2> QED BY Zenon, <2>4, <2>5, <2>6 DEF FenceInv
<1> QED BY Zenon, <1>0, <1>5, <1>6, <1>7, NothingWritten DEF Good

LEMMA ProviderWritesKeeps ==
  ASSUME ExecInv, NEW q \in requests, ProviderWrites(q)
  PROVE  Good
<1>t. StoreInv /\ ExecTypeOK /\ AnswersAreSafe /\ FenceInv BY Zenon DEF ExecInv
<1>0. /\ provider' = [provider EXCEPT ![q.step] = q.generation] /\ ~(q.generation < provider[q.step])
      /\ UNCHANGED storeVars /\ UNCHANGED <<relay, stream, failedStream, pc, job, requests>> /\ UNCHANGED steps
  BY Zenon DEF ProviderWrites, Fenced, storeVars
<1>1. /\ q.step \in Steps /\ q.generation \in Nat /\ provider \in [Steps -> Nat]
      /\ \A x \in Workers : job[x].generation \in Nat
  BY Zenon, <1>t DEF ExecTypeOK, Request, Job
<1>2. /\ provider'[q.step] = q.generation /\ q.generation >= provider[q.step]
      /\ \A t \in Steps : t # q.step => provider'[t] = provider[t]
  BY <1>0, <1>1
<1>3. ExecTypeOK' BY Zenon, <1>t, <1>0, <1>1 DEF ExecTypeOK
<1>4. AnswersCalm BY Zenon, <1>t, <1>0 DEF AnswersCalm, AnswersAreSafe
<1>5. FenceInv'
  <2>1. GenerationsInUse' BY Zenon, <1>t, <1>0, <1>1, <1>2 DEF FenceInv, GenerationsInUse, StepOf
  <2>2. OneRequestEach'
    <3>1. \A x \in Workers : pc[x] = "succeeded" => StepOf(x) \in Steps
      BY Zenon, <1>t, MsgOf DEF AnswersAreSafe, StepOf
    <3> QED BY <1>t, <1>0, <1>1, <1>2, <3>1 DEF FenceInv, OneRequestEach, Asked, StepOf
  <2>3. steps[q.step].status # "succeeded" BY <1>t, <1>1, <1>2 DEF FenceInv, LastWriteCommitted
  <2>4. LastWriteCommitted' BY Zenon, <1>t, <1>0, <1>2, <2>3 DEF FenceInv, LastWriteCommitted, StepOf
  <2> QED BY Zenon, <2>1, <2>2, <2>4 DEF FenceInv
<1> QED BY Zenon, <1>0, <1>3, <1>4, <1>5, NothingWritten DEF Good

(* The answer removes the request and moves at most the worker that waits. *)
LEMMA Answered ==
  ASSUME ExecInv, NEW q \in requests, NEW answer \in {"fenced", "failed", "succeeded"}, NEW c \in Checkpoints,
         NEW permanent \in BOOLEAN, Answer(q, answer, c, permanent),
         UNCHANGED storeVars, UNCHANGED <<relay, stream, failedStream, provider>>
  PROVE  /\ ExecTypeOK' /\ AnswersCalm /\ requests' = requests \ {q}
         /\ \/ UNCHANGED <<pc, job>>
            \/ \E w \in Workers, label \in Labels :
                 /\ pc[w] = "executing" /\ StepOf(w) = q.step /\ job[w].generation = q.generation
                 /\ label = answer \/ (answer = "fenced" /\ label \in {"nak", "isolate"})
                 /\ pc'[w] = label /\ job'[w].msg = job[w].msg
                 /\ label \notin Answering => job'[w].generation = job[w].generation
                 /\ \A x \in Workers : x # w => pc'[x] = pc[x] /\ job'[x] = job[x]
<1>t. StoreInv /\ ExecTypeOK /\ AnswersAreSafe BY Zenon DEF ExecInv
<1>r. requests' = requests \ {q} BY Zenon DEF Answer
<1>1. CASE UNCHANGED <<pc, job>>
  <2>1. ExecTypeOK' BY Zenon, <1>t, <1>r, <1>1 DEF ExecTypeOK
  <2>2. AnswersCalm BY Zenon, <1>t, <1>1 DEF AnswersCalm, AnswersAreSafe
  <2> QED BY Zenon, <1>r, <1>1, <2>1, <2>2
<1>2. CASE ~UNCHANGED <<pc, job>>
  <2>1. PICK w \in Workers :
          /\ pc[w] = "executing" /\ StepOf(w) = q.step /\ job[w].generation = q.generation
          /\ Jump(w, IF answer = "fenced" THEN retryOrFail(w) ELSE answer,
                  [job[w] EXCEPT !.checkpoint = c, !.permanent = permanent])
    BY <1>2, Zenon DEF Answer
  <2> DEFINE label == IF answer = "fenced" THEN retryOrFail(w) ELSE answer
             locals == [job[w] EXCEPT !.checkpoint = c, !.permanent = permanent]
  <2>2. job[w] \in Job /\ job[w].msg \in Msgs BY Zenon, <2>1, WorkerTyped
  <2>3. locals \in Job /\ locals.msg = job[w].msg /\ locals.generation = job[w].generation
    BY <2>2, Zenon DEF Job
  <2>4. /\ label \in Labels /\ label \notin {"idle", "ack", "term"}
        /\ label = answer \/ (answer = "fenced" /\ label \in {"nak", "isolate"})
    BY Zenon, GivesUp DEF Labels
  <2>5. Jump(w, label, locals) BY Zenon, <2>1
  <2> HIDE DEF label, locals
  <2>6. /\ pc' \in [Workers -> Labels] /\ job' \in [Workers -> Job]
        /\ pc'[w] = label /\ job'[w].msg = job[w].msg
        /\ label \notin Answering => job'[w].generation = job[w].generation
        /\ \A x \in Workers : x # w => pc'[x] = pc[x] /\ job'[x] = job[x]
    BY <1>t, <2>3, <2>4, <2>5, Jumped
  <2>7. ExecTypeOK' BY Zenon, <1>t, <1>r, <2>6 DEF ExecTypeOK
  <2>8. AnswersCalm BY Zenon, <1>t, <2>2, <2>4, <2>6 DEF AnswersCalm, AnswersAreSafe
  <2> QED BY Zenon, <1>r, <2>1, <2>4, <2>6, <2>7, <2>8
<1> QED BY Zenon, <1>1, <1>2

LEMMA RefusedAnswerKeeps ==
  ASSUME ExecInv, NEW q \in requests, ProviderFences(q) \/ ProviderFails(q)
  PROVE  Good
<1>0. UNCHANGED storeVars /\ UNCHANGED <<relay, stream, failedStream, provider>>
  BY Zenon DEF ProviderFences, ProviderFails, storeVars
<1>1. PICK answer \in {"fenced", "failed"}, c \in Checkpoints, permanent \in BOOLEAN :
        Answer(q, answer, c, permanent)
  BY StoreAssumption, ZenonT(60) DEF ProviderFences, ProviderFails
<1>2. /\ ExecTypeOK' /\ AnswersCalm /\ requests' = requests \ {q}
      /\ \/ UNCHANGED <<pc, job>>
         \/ \E w \in Workers, label \in Labels :
              /\ pc[w] = "executing" /\ StepOf(w) = q.step /\ job[w].generation = q.generation
              /\ label = answer \/ (answer = "fenced" /\ label \in {"nak", "isolate"})
              /\ pc'[w] = label /\ job'[w].msg = job[w].msg
              /\ label \notin Answering => job'[w].generation = job[w].generation
              /\ \A x \in Workers : x # w => pc'[x] = pc[x] /\ job'[x] = job[x]
  BY <1>0, <1>1, Answered
<1>3. \A s \in Steps : steps'[s].status = "succeeded" => steps[s].status = "succeeded"
  BY Zenon, <1>0, NothingWritten
<1>4. \A x \in Workers : pc'[x] \in Holding =>
        /\ pc[x] \in Holding /\ job'[x].msg = job[x].msg /\ job'[x].generation = job[x].generation
        /\ pc'[x] \in {"call", "succeeded"} => pc'[x] = pc[x]
  <2>1. CASE UNCHANGED <<pc, job>> BY Zenon, <2>1
  <2>2. ASSUME NEW w \in Workers, NEW label \in Labels,
               pc[w] = "executing", label \in {"fenced", "failed", "nak", "isolate"},
               pc'[w] = label, job'[w].msg = job[w].msg,
               label \notin Answering => job'[w].generation = job[w].generation,
               \A x \in Workers : x # w => pc'[x] = pc[x] /\ job'[x] = job[x],
               NEW x \in Workers, pc'[x] \in Holding
        PROVE  /\ pc[x] \in Holding /\ job'[x].msg = job[x].msg /\ job'[x].generation = job[x].generation
               /\ pc'[x] \in {"call", "succeeded"} => pc'[x] = pc[x]
    BY Zenon, <2>2 DEF Holding, Answering
  <2> QED BY <1>1, <1>2, <2>1, <2>2
<1>5. FenceCalm BY Zenon, <1>0, <1>2, <1>3, <1>4 DEF FenceCalm
<1> QED BY Zenon, <1>0, <1>2, <1>5, NothingWritten DEF Good

LEMMA ProviderSucceedsKeeps ==
  ASSUME ExecInv, NEW q \in requests, ProviderSucceeds(q)
  PROVE  Good
<1>t. StoreInv /\ ExecTypeOK /\ AnswersAreSafe /\ FenceInv BY Zenon DEF ExecInv
<1>0. /\ UNCHANGED storeVars /\ UNCHANGED <<relay, stream, failedStream, provider>> /\ UNCHANGED steps
      /\ provider[q.step] = q.generation
  BY Zenon DEF ProviderSucceeds, storeVars
<1>1. PICK answer \in {"succeeded"}, c \in Checkpoints, permanent \in BOOLEAN : Answer(q, answer, c, permanent)
  BY Zenon DEF ProviderSucceeds
<1>2. /\ ExecTypeOK' /\ AnswersCalm /\ requests' = requests \ {q}
      /\ \/ UNCHANGED <<pc, job>>
         \/ \E w \in Workers :
              /\ pc[w] = "executing" /\ StepOf(w) = q.step /\ job[w].generation = q.generation
              /\ pc'[w] = "succeeded" /\ job'[w].msg = job[w].msg
              /\ job'[w].generation = job[w].generation
              /\ \A x \in Workers : x # w => pc'[x] = pc[x] /\ job'[x] = job[x]
  <2>1. /\ ExecTypeOK' /\ AnswersCalm /\ requests' = requests \ {q}
        /\ \/ UNCHANGED <<pc, job>>
           \/ \E w \in Workers, label \in Labels :
                /\ pc[w] = "executing" /\ StepOf(w) = q.step /\ job[w].generation = q.generation
                /\ label = answer \/ (answer = "fenced" /\ label \in {"nak", "isolate"})
                /\ pc'[w] = label /\ job'[w].msg = job[w].msg
                /\ label \notin Answering => job'[w].generation = job[w].generation
                /\ \A x \in Workers : x # w => pc'[x] = pc[x] /\ job'[x] = job[x]
    BY <1>0, <1>1, Answered
  <2>2. answer = "succeeded" /\ answer \notin Answering BY Zenon, <1>1 DEF Answering
  <2> QED BY Zenon, <2>1, <2>2
<1>3. CASE UNCHANGED <<pc, job>>
  <2>1. FenceCalm BY Zenon, <1>0, <1>2, <1>3 DEF FenceCalm
  <2> QED BY Zenon, <1>0, <1>2, <2>1, NothingWritten DEF Good
<1>4. ASSUME NEW w \in Workers,
             pc[w] = "executing", StepOf(w) = q.step, job[w].generation = q.generation,
             pc'[w] = "succeeded", job'[w].msg = job[w].msg, job'[w].generation = job[w].generation,
             \A x \in Workers : x # w => pc'[x] = pc[x] /\ job'[x] = job[x]
      PROVE  Good
  <2>1. /\ \A x \in Workers : /\ pc'[x] \in Holding => pc[x] \in Holding
                              /\ job'[x].msg = job[x].msg /\ job'[x].generation = job[x].generation
                              /\ x # w /\ pc'[x] \in {"call", "succeeded"} => pc[x] = pc'[x]
                              /\ pc'[x] = "call" => x # w /\ pc[x] = "call"
    BY Zenon, <1>4 DEF Holding
  <2>2. GenerationsInUse' BY <1>t, <1>0, <1>2, <2>1 DEF FenceInv, GenerationsInUse, StepOf
  <2>3. OneRequestEach'
    <3>1. \A r \in requests' : ~(r.step = job'[w].msg[1] /\ r.generation = job'[w].generation)
      <4> SUFFICES ASSUME NEW r \in requests', r.step = job'[w].msg[1], r.generation = job'[w].generation
                   PROVE FALSE
        BY Zenon
      <4>1. r \in requests /\ r # q BY Zenon, <1>2
      <4>2. r \in Request /\ q \in Request BY Zenon, <1>t, <4>1 DEF ExecTypeOK
      <4>3. r.step = q.step /\ r.generation = q.generation BY Zenon, <1>4 DEF StepOf
      <4>4. r = q BY <4>2, <4>3 DEF Request
      <4> QED BY Zenon, <4>1, <4>4
    <3>2. provider'[job'[w].msg[1]] >= job'[w].generation
      <4>1. q.generation \in Nat BY Zenon, <1>t DEF ExecTypeOK, Request
      <4> QED BY <1>0, <1>4, <4>1 DEF StepOf
    <3>3. \A x \in Workers : x # w =>
            /\ pc'[x] = "call" => ~\E r \in requests' : r.step = job'[x].msg[1] /\ r.generation = job'[x].generation
            /\ pc'[x] = "succeeded" =>
                 /\ ~\E r \in requests' : r.step = job'[x].msg[1] /\ r.generation = job'[x].generation
                 /\ provider'[job'[x].msg[1]] >= job'[x].generation
      BY SMTT(30), <1>t, <1>0, <1>2, <2>1 DEF FenceInv, OneRequestEach, Asked, StepOf
    <3> QED BY Zenon, <1>4, <3>1, <3>2, <3>3 DEF OneRequestEach, Asked, StepOf
  <2>4. LastWriteCommitted' BY <1>t, <1>0, <1>2, <2>1 DEF FenceInv, LastWriteCommitted, StepOf
  <2>5. FenceInv' BY Zenon, <2>2, <2>3, <2>4 DEF FenceInv
  <2> QED BY Zenon, <1>0, <1>2, <2>5, NothingWritten DEF Good
<1> QED BY Zenon, <1>2, <1>3, <1>4

-----------------------------------------------------------------------------
(* The queue: delivery, answers and the relay. *)

(* Only the queue and handlers that hold no generation move. *)
LEMMA QueueMoves ==
  ASSUME ExecInv, ExecTypeOK', AnswersCalm, [Next]_storeVars, UNCHANGED <<steps, requests, provider>>,
         \A x \in Workers : (pc'[x] = pc[x] /\ job'[x] = job[x]) \/ pc'[x] \notin Holding
  PROVE  Good
<1>1. FenceCalm BY Zenon DEF FenceCalm
<1> QED BY Zenon, <1>1 DEF Good

LEMMA MessageTyped ==
  ASSUME ExecTypeOK, NEW m \in Msgs
  PROVE  /\ stream[m].state \in {"none", "ready", "pending", "acked", "terminated"}
         /\ stream[m].deliveries \in Nat
BY Zenon DEF ExecTypeOK, Message

(* The state of one message changes. *)
LEMMA StreamChange ==
  ASSUME ExecTypeOK, NEW m \in Msgs, NEW st \in {"none", "ready", "pending", "acked", "terminated"},
         stream' = [stream EXCEPT ![m].state = st]
  PROVE  /\ stream' \in [Msgs -> Message] /\ stream'[m].state = st
         /\ \A n \in Msgs : n # m => stream'[n] = stream[n]
<1> DEFINE new == [stream[m] EXCEPT !.state = st]
<1>1. stream' = [stream EXCEPT ![m] = new] BY Zenon
<1>2. stream \in [Msgs -> Message] BY Zenon DEF ExecTypeOK
<1>3. new \in Message /\ new.state = st BY Zenon, <1>2 DEF Message
<1> HIDE DEF new
<1> QED BY Zenon, <1>1, <1>2, <1>3

LEMMA NoJobTyped == NoJob \in Job
BY Zenon, StoreAssumption DEF NoJob, Job

LEMMA DeliverKeeps ==
  ASSUME ExecInv, NEW w \in Workers, NEW m \in Msgs, Deliver(w, m)
  PROVE  Good
<1> DEFINE row == [state |-> "pending", deliveries |-> stream[m].deliveries + 1]
           new == [NoJob EXCEPT !.msg = m, !.delivery = stream[m].deliveries + 1]
<1>t. ExecTypeOK /\ AnswersAreSafe BY Zenon DEF ExecInv
<1>0. /\ stream' = [stream EXCEPT ![m] = row] /\ pc' = [pc EXCEPT ![w] = "load_operation"]
      /\ job' = [job EXCEPT ![w] = new]
      /\ UNCHANGED storeVars /\ UNCHANGED <<relay, failedStream, requests, provider>> /\ UNCHANGED steps
  BY Zenon DEF Deliver, storeVars
<1>1. stream[m].deliveries + 1 \in Nat
  <2>1. stream[m].deliveries \in Nat BY Zenon, <1>t, MessageTyped
  <2> QED BY <2>1
<1>2. row \in Message /\ row.state = "pending" BY Zenon, <1>1 DEF Message
<1>3. new \in Job /\ new.msg = m BY <1>1, NoJobTyped, Zenon DEF Job
<1> HIDE DEF row, new
<1>4. ExecTypeOK'
  <2>1. "load_operation" \in Labels BY Zenon DEF Labels
  <2> QED BY Zenon, <1>t, <1>0, <1>2, <1>3, <2>1 DEF ExecTypeOK
<1>5. /\ pc'[w] = "load_operation" /\ job'[w].msg = m /\ stream'[m].state = "pending"
      /\ \A x \in Workers : x # w => pc'[x] = pc[x] /\ job'[x] = job[x]
      /\ \A n \in Msgs : n # m => stream'[n] = stream[n]
  BY Zenon, <1>t, <1>0, <1>2, <1>3 DEF ExecTypeOK
<1>6. AnswersCalm BY Zenon, <1>t, <1>0, <1>5 DEF AnswersCalm, AnswersAreSafe
<1>7. \A x \in Workers : (pc'[x] = pc[x] /\ job'[x] = job[x]) \/ pc'[x] \notin Holding
  BY Zenon, <1>5 DEF Holding
<1> QED BY Zenon, <1>0, <1>4, <1>6, <1>7, NothingWritten, QueueMoves

LEMMA AckTimeoutKeeps ==
  ASSUME ExecInv, NEW m \in Msgs, AckTimeout(m)
  PROVE  Good
<1>t. ExecTypeOK /\ AnswersAreSafe BY Zenon DEF ExecInv
<1>0. /\ stream' = [stream EXCEPT ![m].state = "ready"]
      /\ UNCHANGED storeVars /\ UNCHANGED <<relay, failedStream, pc, job, requests, provider>> /\ UNCHANGED steps
  BY Zenon DEF AckTimeout, storeVars
<1>1. /\ stream' \in [Msgs -> Message] /\ stream'[m].state = "ready"
      /\ \A n \in Msgs : n # m => stream'[n] = stream[n]
  BY <1>t, <1>0, StreamChange, Zenon
<1>2. ExecTypeOK' BY Zenon, <1>t, <1>0, <1>1 DEF ExecTypeOK
<1>3. AnswersCalm BY Zenon, <1>t, <1>0, <1>1 DEF AnswersCalm, AnswersAreSafe
<1> QED BY Zenon, <1>0, <1>2, <1>3, NothingWritten, QueueMoves

(* A worker is done with its message, answered or not. *)
LEMMA WorkerLeaves ==
  ASSUME ExecInv, NEW w \in Workers, pc' = [pc EXCEPT ![w] = "idle"], job' = [job EXCEPT ![w] = NoJob],
         UNCHANGED storeVars, UNCHANGED <<relay, failedStream, requests, provider>>,
         stream' \in [Msgs -> Message],
         \A m \in Msgs :
           /\ stream'[m].state = "acked" => stream[m].state = "acked" \/ SettledStep(m[1])
           /\ stream'[m].state = "terminated" =>
                stream[m].state = "terminated" \/ SettledStep(m[1]) \/ m \in failedStream
  PROVE  Good
<1>t. ExecTypeOK /\ AnswersAreSafe BY Zenon DEF ExecInv
<1>1. /\ pc'[w] = "idle" /\ \A x \in Workers : x # w => pc'[x] = pc[x] /\ job'[x] = job[x]
  BY Zenon, <1>t DEF ExecTypeOK
<1>2. ExecTypeOK'
  <2>1. "idle" \in Labels BY Zenon DEF Labels
  <2> QED BY Zenon, <1>t, <2>1, NoJobTyped DEF ExecTypeOK
<1>3. AnswersCalm
  <2>1. \A m \in Msgs : SettledStep(m[1]) => SettledStep(m[1])' BY Zenon, NothingWritten
  <2> QED BY Zenon, <1>t, <1>1, <2>1 DEF AnswersCalm, AnswersAreSafe
<1>4. \A x \in Workers : (pc'[x] = pc[x] /\ job'[x] = job[x]) \/ pc'[x] \notin Holding
  BY Zenon, <1>1 DEF Holding
<1>5. UNCHANGED steps BY Zenon DEF storeVars
<1> QED BY Zenon, <1>2, <1>3, <1>4, <1>5, NothingWritten, QueueMoves

LEMMA AnswerKeeps ==
  ASSUME ExecInv, NEW w \in Workers, Ack(w) \/ Nak(w) \/ Term(w)
  PROVE  Good
<1>t. ExecTypeOK /\ AnswersAreSafe BY Zenon DEF ExecInv
<1>1. PICK st \in {"acked", "ready", "terminated"} :
        /\ Settle(w, Settled(w, st))
        /\ pc[w] = (CASE st = "acked" -> "ack" [] st = "ready" -> "nak" [] st = "terminated" -> "term")
  BY Zenon DEF Ack, Nak, Term
<1> DEFINE m == job[w].msg
           to == Settled(w, st)
<1>2. m \in Msgs BY Zenon, <1>t, <1>1 DEF AnswersAreSafe
<1>3. /\ to \in {"none", "ready", "pending", "acked", "terminated"}
      /\ to = st \/ to = stream[m].state
  BY Zenon, <1>t, <1>2, MessageTyped DEF Settled
<1>4. /\ st = "acked" => SettledStep(m[1])
      /\ st = "terminated" => SettledStep(m[1]) \/ m \in failedStream
  BY Zenon, <1>t, <1>1 DEF AnswersAreSafe, StepOf
<1>5. /\ stream' \in {stream, [stream EXCEPT ![m].state = to]}
      /\ pc' = [pc EXCEPT ![w] = "idle"] /\ job' = [job EXCEPT ![w] = NoJob]
      /\ UNCHANGED storeVars /\ UNCHANGED <<relay, failedStream, requests, provider>>
  BY Zenon, <1>1 DEF Settle, storeVars
<1> HIDE DEF m, to
<1>6. stream' \in [Msgs -> Message] BY Zenon, <1>t, <1>2, <1>3, <1>5, StreamChange DEF ExecTypeOK
<1>7. \A n \in Msgs :
        /\ stream'[n].state = "acked" => stream[n].state = "acked" \/ SettledStep(n[1])
        /\ stream'[n].state = "terminated" =>
             stream[n].state = "terminated" \/ SettledStep(n[1]) \/ n \in failedStream
  <2>1. CASE stream' = stream BY Zenon, <2>1
  <2>2. CASE stream' = [stream EXCEPT ![m].state = to]
    <3>1. stream'[m].state = to /\ \A n \in Msgs : n # m => stream'[n] = stream[n]
      BY <1>t, <1>2, <1>3, <2>2, StreamChange, Zenon
    <3> QED BY Zenon, <1>3, <1>4, <3>1
  <2> QED BY Zenon, <1>5, <2>1, <2>2
<1> QED BY <1>5, <1>6, <1>7, WorkerLeaves, Zenon

LEMMA CrashKeeps ==
  ASSUME ExecInv, NEW w \in Workers, Crash(w)
  PROVE  Good
<1>1. /\ pc' = [pc EXCEPT ![w] = "idle"] /\ job' = [job EXCEPT ![w] = NoJob]
      /\ UNCHANGED storeVars /\ UNCHANGED <<relay, failedStream, requests, provider>> /\ stream' = stream
  BY Zenon DEF Crash, storeVars
<1>2. stream \in [Msgs -> Message] BY Zenon DEF ExecInv, ExecTypeOK
<1> QED BY <1>1, <1>2, WorkerLeaves, Zenon

LEMMA failPermanentlyKeeps ==
  ASSUME ExecInv, NEW w \in Workers, failPermanently(w)
  PROVE  Good
<1>t. ExecTypeOK /\ AnswersAreSafe BY Zenon DEF ExecInv
<1>0. /\ pc[w] = "isolate"
      /\ UNCHANGED storeVars /\ UNCHANGED <<relay, stream, requests, provider>> /\ UNCHANGED steps
  BY Zenon DEF failPermanently, storeVars
<1>1. job[w] \in Job /\ job[w].msg \in Msgs BY Zenon, <1>0, WorkerTyped
<1>2. PICK label \in {"nak", "term"} :
        /\ Jump(w, label, job[w])
        /\ \/ label = "term" /\ failedStream' = failedStream \cup {job[w].msg}
           \/ label = "nak" /\ failedStream' = failedStream
  BY Zenon DEF failPermanently
<1>3. /\ pc' \in [Workers -> Labels] /\ job' \in [Workers -> Job]
      /\ pc'[w] = label /\ job'[w].msg = job[w].msg
      /\ \A x \in Workers : x # w => pc'[x] = pc[x] /\ job'[x] = job[x]
  <2>1. label \in Labels BY Zenon DEF Labels
  <2> QED BY Zenon, <1>t, <1>1, <1>2, <2>1, Jumped
<1>4. ExecTypeOK' BY Zenon, <1>t, <1>0, <1>1, <1>2, <1>3 DEF ExecTypeOK
<1>5. AnswersCalm BY Zenon, <1>t, <1>0, <1>1, <1>2, <1>3 DEF AnswersCalm, AnswersAreSafe
<1>6. \A x \in Workers : (pc'[x] = pc[x] /\ job'[x] = job[x]) \/ pc'[x] \notin Holding
  BY Zenon, <1>3 DEF Holding
<1> QED BY Zenon, <1>0, <1>4, <1>5, <1>6, NothingWritten, QueueMoves

(* A publication adds messages that are ready and changes no other. *)
LEMMA Published ==
  ASSUME ExecTypeOK, NEW e \in Events, PublishMsg(e) \/ UNCHANGED stream
  PROVE  /\ stream' \in [Msgs -> Message]
         /\ \A m \in Msgs : stream'[m].state = stream[m].state \/ stream'[m].state = "ready"
<1>1. stream \in [Msgs -> Message] BY Zenon DEF ExecTypeOK
<1>2. CASE stream' = stream BY Zenon, <1>1, <1>2
<1>3. ASSUME NEW n \in 1..MaxCopies, stream' = [stream EXCEPT ![<<e[2], n>>].state = "ready"]
      PROVE  /\ stream' \in [Msgs -> Message]
             /\ \A m \in Msgs : stream'[m].state = stream[m].state \/ stream'[m].state = "ready"
  <2>1. <<e[2], n>> \in Msgs BY Zenon DEF Events, Msgs
  <2>2. PICK m0 \in Msgs : m0 = <<e[2], n>> BY Zenon, <2>1
  <2>3. stream' = [stream EXCEPT ![m0].state = "ready"] BY Zenon, <1>3, <2>2
  <2>4. /\ stream' \in [Msgs -> Message] /\ stream'[m0].state = "ready"
        /\ \A m \in Msgs : m # m0 => stream'[m] = stream[m]
    BY <2>3, StreamChange, Zenon
  <2> QED BY Zenon, <2>4
<1> QED BY <1>2, <1>3, Zenon DEF PublishMsg, StoreMessage

LEMMA RelayKeeps ==
  ASSUME ExecInv, NEW e \in RelayedKinds \X Steps, Relay(e)
  PROVE  Good
<1>t. ExecTypeOK /\ AnswersAreSafe BY Zenon DEF ExecInv
<1>e. e \in Events BY Zenon, ExecutionAssumption DEF Events
<1>0. UNCHANGED <<failedStream, pc, job, requests, provider>>
  BY Zenon DEF Relay, RelayPublishes, RelayCommits, RelayAborts, RelayFails
<1>1. relay' \subseteq Events
  BY Zenon, <1>t, <1>e DEF ExecTypeOK, Relay, RelayPublishes, RelayCommits, RelayAborts, RelayFails
<1>2. PublishMsg(e) \/ UNCHANGED stream
  BY Zenon DEF Relay, RelayPublishes, RelayCommits, RelayAborts, RelayFails
<1>3. /\ stream' \in [Msgs -> Message]
      /\ \A m \in Msgs : stream'[m].state = stream[m].state \/ stream'[m].state = "ready"
  BY Zenon, <1>t, <1>e, <1>2, Published
<1>4. [Next]_storeVars /\ UNCHANGED steps
  <2>1. UNCHANGED storeVars \/ MarkPublished(e) \/ markFailedAttempt(e)
    BY Zenon DEF Relay, RelayPublishes, RelayCommits, RelayAborts, RelayFails, storeVars
  <2>2. CASE UNCHANGED storeVars BY Zenon, <2>2 DEF storeVars
  <2>3. CASE MarkPublished(e) \/ markFailedAttempt(e)
    <3>1. UNCHANGED steps BY Zenon, <2>3 DEF MarkPublished, markFailedAttempt
    <3> QED BY Zenon, <1>e, <2>3, <3>1 DEF Next, RelayNext
  <2> QED BY Zenon, <2>1, <2>2, <2>3
<1>5. ExecTypeOK' BY Zenon, <1>t, <1>0, <1>1, <1>3 DEF ExecTypeOK
<1>6. AnswersCalm BY Zenon, <1>t, <1>0, <1>3 DEF AnswersCalm, AnswersAreSafe
<1> QED BY Zenon, <1>0, <1>4, <1>5, <1>6, QueueMoves

-----------------------------------------------------------------------------
(* The specification. *)

LEMMA EveryStepIsGood == ExecInv /\ ExecNext => Good
<1> SUFFICES ASSUME ExecInv, ExecNext PROVE Good BY Zenon
<1>1. CASE ApiNext /\ UNCHANGED execVars
  <2>1. UNCHANGED steps
    BY <1>1, ApiShape, Zenon DEF Created, CreateOperation, ApproveOperation, RejectOperation, CancelOperation
  <2>2. Next BY Zenon, <1>1 DEF Next
  <2> QED BY Zenon, <1>1, <2>1, <2>2, ExecutionRests
<1>2. ASSUME NEW s \in Steps, LeaseAges(s), UNCHANGED execVars PROVE Good
  <2>1. UNCHANGED steps BY Zenon, <1>2 DEF LeaseAges
  <2>2. Next BY Zenon, <1>2 DEF Next
  <2> QED BY Zenon, <1>2, <2>1, <2>2, ExecutionRests
<1>3. ASSUME NEW w \in Workers, Handle(w) PROVE Good
  BY <1>3, LoadOperationKeeps, LoadStepKeeps, LoadDependenciesKeeps, LeaseAcquiredKeeps, LeaseRefusedKeeps,
     CallProviderKeeps, HeartbeatLosesLeaseKeeps, ExecutionInterruptedKeeps, RecordSuccessKeeps,
     RecordRetryKeeps, RecordFailureKeeps, StoreFailsKeeps, AnswerKeeps, failPermanentlyKeeps
     DEF Handle
<1>4. ASSUME NEW w \in Workers, HeartbeatRenews(w) \/ Crash(w) PROVE Good
  BY Zenon, <1>4, HeartbeatRenewsKeeps, CrashKeeps
<1>5. ASSUME NEW q \in requests, ProviderStep(q) PROVE Good
  BY Zenon, <1>5, RefusedAnswerKeeps, ProviderWritesKeeps, ProviderSucceedsKeeps DEF ProviderStep
<1> QED BY Zenon, <1>1, <1>2, <1>3, <1>4, <1>5, RelayKeeps, DeliverKeeps, AckTimeoutKeeps DEF ExecNext

LEMMA ExecInitially == ExecInit => ExecInv
<1> SUFFICES ASSUME ExecInit PROVE ExecInv BY Zenon
<1>0. Init BY Zenon DEF ExecInit
<1>1. StoreInv
  <2>1. TypeOK BY Zenon, <1>0, TypeInit
  <2>2. SequenceAhead BY <1>0 DEF Init, SequenceAhead
  <2>3. OutboxMatchesResults BY Zenon, <1>0, NothingAnnounced
  <2>4. LeasesAreNumbered BY <1>0, StoreAssumption DEF Init, LeasesAreNumbered, NoLease
  <2> QED BY Zenon, <2>1, <2>2, <2>3, <2>4 DEF StoreInv
<1>2. ExecTypeOK
  <2>1. [state |-> "none", deliveries |-> 0] \in Message BY Zenon DEF Message
  <2>2. "idle" \in Labels BY Zenon DEF Labels
  <2> QED BY Zenon, <2>1, <2>2, NoJobTyped DEF ExecInit, ExecTypeOK
<1>3. AnswersAreSafe BY Zenon DEF ExecInit, AnswersAreSafe
<1>4. NoCommandLost BY Zenon DEF ExecInit, NoCommandLost
<1>5. FenceInv
  <2>1. \A s \in Steps : steps[s].generation = 0 /\ steps[s].status = "pending" /\ provider[s] = 0
    BY <1>0 DEF Init, ExecInit
  <2>2. \A w \in Workers : pc[w] = "idle" BY Zenon DEF ExecInit
  <2>3. requests = {} BY Zenon DEF ExecInit
  <2> QED BY <2>1, <2>2, <2>3 DEF FenceInv, GenerationsInUse, OneRequestEach, LastWriteCommitted, Holding
<1> QED BY Zenon, <1>1, <1>2, <1>3, <1>4, <1>5 DEF ExecInv

LEMMA ExecStep == ExecInv /\ [ExecNext]_vars => ExecInv' /\ [Next]_storeVars
<1> SUFFICES ASSUME ExecInv, [ExecNext]_vars PROVE ExecInv' /\ [Next]_storeVars BY Zenon
<1>1. CASE ExecNext
  <2>1. Good BY Zenon, <1>1, EveryStepIsGood
  <2> QED BY Zenon, <2>1, GoodKeeps DEF Good
<1>2. CASE UNCHANGED vars
  <2>1. UNCHANGED storeVars /\ UNCHANGED execVars BY Zenon, <1>2 DEF vars
  <2>2. Good BY Zenon, <2>1, NothingWritten, ExecutionRests
  <2> QED BY Zenon, <2>2, GoodKeeps DEF Good
<1> QED BY Zenon, <1>1, <1>2

LEMMA Invariance == ExecSpec => []ExecInv
BY ExecInitially, ExecStep, PTL DEF ExecSpec

(* The queue, the locals of every handler and the provider hold values of  *)
(* their shape, for any number of workers, steps and copies of a command.  *)
THEOREM ExecutionTyped == ExecSpec => []ExecTypeOK
<1>1. ExecInv => ExecTypeOK BY Zenon DEF ExecInv
<1> QED BY <1>1, Invariance, PTL

(* Whatever the relay, the broker, the handlers and the provider do, the   *)
(* tables only go through the transactions of OperationStore.  Everything  *)
(* proved of Spec (terminal states, fencing generations, result events,    *)
(* the audit chain, verdicts) therefore holds of the running system.       *)
THEOREM ExecutionImplementsStore == ExecSpec => Spec
<1>1. ExecInit => Init BY Zenon DEF ExecInit
<1> QED BY <1>1, Invariance, ExecStep, PTL DEF ExecSpec, Spec

(* OP-007, for any number of workers, deliveries and crashes: a command    *)
(* leaves the work queue only when its step has a result, its operation    *)
(* ended, or a copy is on the failed stream.                               *)
THEOREM NoCommandIsLost == ExecSpec => []NoCommandLost
<1>1. ExecInv => NoCommandLost BY Zenon DEF ExecInv
<1> QED BY <1>1, Invariance, PTL

(* OP-008 across worker, database and provider, for any number of workers  *)
(* and takeovers: the external state of a succeeded step is the write of   *)
(* the attempt whose result was committed, and every request that is still *)
(* on its way to the provider will be fenced.                              *)
THEOREM CommittedWritesStand == ExecSpec => []CommittedWriteStands
<1>1. ExecInv => CommittedWriteStands
  BY Zenon DEF ExecInv, FenceInv, LastWriteCommitted, CommittedWriteStands, Fenced
<1> QED BY <1>1, Invariance, PTL

(* TENANT-007 across all processes, provided the policy for stale targets  *)
(* cannot queue an operation by itself: nothing is written to or asked of  *)
(* the provider for a high-risk operation without its approval.            *)
THEOREM WritesAreApproved ==
  ASSUME "queued" \notin StaleOutcomes
  PROVE  ExecSpec => []NoWriteWithoutApproval
<1>1. ExecInv /\ ApprovalPrecedesDispatch => NoWriteWithoutApproval
  <2> SUFFICES ASSUME ExecInv, ApprovalPrecedesDispatch, NEW s \in Steps, OpOf[s] \in HighRisk,
                      provider[s] > 0 \/ \E q \in requests : q.step = s
               PROVE  Approved(OpOf[s])
    BY Zenon DEF NoWriteWithoutApproval
  <2>1. /\ steps[s].generation \in Nat /\ provider[s] \in Nat
        /\ \A q \in requests : q.generation \in Nat
    BY ZenonT(60) DEF ExecInv, StoreInv, TypeOK, StepRow, ExecTypeOK, Request
  <2>2. steps[s].generation > 0 BY <2>1 DEF ExecInv, FenceInv, GenerationsInUse
  <2> QED BY Zenon, <2>2 DEF ApprovalPrecedesDispatch
<1>2. Spec => []ApprovalPrecedesDispatch BY Zenon, ApprovalComesFirst
<1> QED BY <1>1, <1>2, ExecutionImplementsStore, Invariance, PTL
=============================================================================
