------------------------- MODULE OperationStoreProofs -------------------------
(***************************************************************************)
(* Proofs about OperationStore for every set of operations, steps and      *)
(* workers, every dependency relation and every bound.                     *)
(***************************************************************************)
EXTENDS OperationStore, TLAPS

(* Every row written by a transaction has the shape of its table. *)
LEMMA WriteTyped ==
  ASSUME TypeOK, NEW o \in Ops, NEW row \in OperationRow, row.status \in Statuses,
         NEW event \in {"created", "approved", "rejected", "cancelled", "step_completed", "step_failed"},
         WriteOperation(o, row, event)
  PROVE  /\ operations' \in [Ops -> OperationRow]
         /\ readModel' \in [Ops -> ReadModelRow]
         /\ audit' \in [Ops -> Seq(AuditRow)]
<1>1. operations' \in [Ops -> OperationRow]
  BY Zenon DEF WriteOperation, TypeOK
<1>2. View(row) \in ReadModelRow
  BY Zenon DEF View, OperationRow, ReadModelRow
<1>3. readModel' \in [Ops -> ReadModelRow]
  BY Zenon, <1>2 DEF WriteOperation, TypeOK
<1>4. [event |-> event, from |-> operations[o].status, to |-> row.status] \in AuditRow
  BY Zenon DEF AuditRow, OperationRow, TypeOK
<1>5. audit' \in [Ops -> Seq(AuditRow)]
  BY <1>4 DEF WriteOperation, TypeOK
<1> QED BY Zenon, <1>1, <1>3, <1>5

LEMMA TypeInit == Init => TypeOK
<1> SUFFICES ASSUME Init PROVE TypeOK
  BY Zenon
<1> USE StoreAssumption DEF Init
<1>1. operations \in [Ops -> OperationRow]
  BY Zenon DEF OperationRow
<1>2. steps \in [Steps -> StepRow]
  BY Zenon DEF StepRow, StepStatuses
<1>3. leases \in [Steps -> LeaseRow]
  BY DEF LeaseRow, NoLease
<1>4. outbox \in [Events -> OutboxRow]
  BY Zenon DEF OutboxRow, NoEvent
<1>5. readModel \in [Ops -> ReadModelRow]
  BY Zenon DEF ReadModelRow
<1>6. audit \in [Ops -> Seq(AuditRow)]
  OBVIOUS
<1> QED BY Zenon, <1>1, <1>2, <1>3, <1>4, <1>5, <1>6 DEF TypeOK

LEMMA OutboxTyped ==
  ASSUME TypeOK, NEW new, InsertOutbox(new)
  PROVE  outbox' \in [Events -> OutboxRow]
BY Zenon DEF InsertOutbox, TypeOK, OutboxRow, NewEvent

LEMMA TransitionTyped ==
  ASSUME TypeOK, NEW o \in Ops, NEW to \in Statuses,
         NEW event \in {"created", "approved", "rejected", "cancelled", "step_completed", "step_failed"},
         transitionOperation(o, to, event)
  PROVE  /\ operations' \in [Ops -> OperationRow]
         /\ readModel' \in [Ops -> ReadModelRow]
         /\ audit' \in [Ops -> Seq(AuditRow)]
<1> DEFINE row == Moved(operations[o], to)
<1>1. operations[o] \in OperationRow
  BY Zenon DEF TypeOK
<1>2. row \in OperationRow /\ row.status \in Statuses
  BY <1>1 DEF OperationRow, Moved
<1>3. WriteOperation(o, row, event)
  BY Zenon DEF transitionOperation
<1> HIDE DEF row
<1> QED BY Zenon, <1>2, <1>3, WriteTyped

(* The statuses a submission may start in. *)
StartStatuses == {"queued", "pending_approval", "queued_offline"}

Created(o) == \E status \in StartStatuses : CreateOperation(o, status)

LEMMA ApiShape ==
  ApiNext => \E o \in Ops : Created(o) \/ ApproveOperation(o) \/ RejectOperation(o) \/ CancelOperation(o)
<1>1. \A o : InitialStatus(o) \in StartStatuses BY Zenon DEF InitialStatus, StartStatuses
<1>2. StaleOutcomes \subseteq StartStatuses BY Zenon, StoreAssumption DEF StartStatuses
<1> QED BY Zenon, <1>1, <1>2 DEF ApiNext, Created, SubmitOperation, SubmitIntent

LEMMA TypeStep == TypeOK /\ [Next]_storeVars => TypeOK'
<1> SUFFICES ASSUME TypeOK, [Next]_storeVars PROVE TypeOK'
  BY Zenon
<1> USE StoreAssumption
<1>1. ASSUME NEW o \in Ops, NEW status \in StartStatuses, CreateOperation(o, status) PROVE TypeOK'
  <2> DEFINE row == [operations[o] EXCEPT !.status = status]
  <2>0. operations[o] \in OperationRow /\ status \in Statuses
    BY Zenon DEF TypeOK, StartStatuses, Statuses
  <2>1. row \in OperationRow /\ row.status \in Statuses
    BY Zenon, <2>0 DEF OperationRow
  <2>2. WriteOperation(o, row, "created")
    BY Zenon, <1>1 DEF CreateOperation
  <2> HIDE DEF row
  <2>3. outbox' \in [Events -> OutboxRow]
    BY Zenon, <1>1, OutboxTyped DEF CreateOperation
  <2> QED BY Zenon, <1>1, <2>1, <2>2, <2>3, WriteTyped DEF CreateOperation, TypeOK
<1>2. ASSUME NEW o \in Ops, ApproveOperation(o) PROVE TypeOK'
  <2>1. outbox' \in [Events -> OutboxRow]
    BY Zenon, <1>2, OutboxTyped DEF ApproveOperation
  <2>2. "queued" \in Statuses
    BY Zenon DEF Statuses
  <2> QED BY Zenon, <1>2, <2>1, <2>2, TransitionTyped DEF ApproveOperation, TypeOK
<1>3. ASSUME NEW o \in Ops, RejectOperation(o) \/ CancelOperation(o) PROVE TypeOK'
  <2>1. "cancelled" \in Statuses
    BY Zenon DEF Statuses
  <2> QED BY Zenon, <1>3, <2>1, TransitionTyped DEF RejectOperation, CancelOperation, TypeOK
<1>4. ASSUME NEW w \in Workers, NEW s \in Steps, NEW v \in Versions, AcquireLease(w, s, v)
      PROVE TypeOK'
  <2>1. [owner |-> w, generation |-> generation + 1, ttl |-> LeaseDuration] \in LeaseRow
    BY DEF TypeOK, LeaseRow
  <2>2. steps[s] \in StepRow /\ generation + 1 \in Nat
    BY DEF TypeOK
  <2>3. [steps[s] EXCEPT !.generation = generation + 1] \in StepRow
    BY Zenon, <2>2 DEF StepRow
  <2> QED BY Zenon, <1>4, <2>1, <2>2, <2>3 DEF AcquireLease, TypeOK
<1>5. ASSUME NEW s \in Steps, NEW v \in Versions, LeaseNotAcquired(s, v) PROVE TypeOK'
  BY <1>5 DEF LeaseNotAcquired, TypeOK
<1>6. ASSUME NEW w \in Workers, NEW s \in Steps, NEW g, RenewLease(w, s, g) PROVE TypeOK'
  <2>1. leases[s] \in LeaseRow
    BY Zenon DEF TypeOK
  <2>2. [leases[s] EXCEPT !.ttl = LeaseDuration] \in LeaseRow
    BY <2>1 DEF LeaseRow
  <2> QED BY Zenon, <1>6, <2>2 DEF RenewLease, TypeOK
<1>7. ASSUME NEW s \in Steps, LeaseAges(s) PROVE TypeOK'
  <2>1. leases[s] \in LeaseRow /\ leases[s].ttl > 0
    BY Zenon, <1>7 DEF TypeOK, LeaseAges
  <2>2. leases[s].ttl - 1 \in 0..LeaseDuration
    BY <2>1 DEF LeaseRow
  <2>3. [leases[s] EXCEPT !.ttl = leases[s].ttl - 1] \in LeaseRow
    BY Zenon, <2>1, <2>2 DEF LeaseRow
  <2> QED BY Zenon, <1>7, <2>3 DEF LeaseAges, TypeOK
<1>8. ASSUME NEW w \in Workers, NEW s \in Steps, NEW g, NEW v, NEW c \in Checkpoints,
             SaveStepRetry(w, s, g, v, c)
      PROVE TypeOK'
  <2>1. steps[s] \in StepRow /\ NoLease \in LeaseRow
    BY DEF TypeOK, NoLease, LeaseRow
  <2>2. [status |-> "pending", version |-> steps[s].version, retryCount |-> steps[s].retryCount + 1,
         checkpoint |-> c, generation |-> steps[s].generation] \in StepRow
    BY <2>1 DEF StepRow, StepStatuses
  <2> QED BY Zenon, <1>8, <2>1, <2>2 DEF SaveStepRetry, TypeOK
<1>9. ASSUME NEW w \in Workers, NEW s \in Steps, NEW g, NEW v, NEW c \in Checkpoints,
             NEW r \in {"succeeded", "failed"}, commitStepResult(w, s, g, v, r, c)
      PROVE TypeOK'
  <2> DEFINE o == OpOf[s]
             row == RowAfter(operations[o], TotalSteps(o), r)
             event == IF r = "succeeded" THEN "step_completed" ELSE "step_failed"
  <2>1. o \in Ops /\ operations[o] \in OperationRow /\ Runnable(o)
    BY Zenon, <1>9 DEF TypeOK, commitStepResult, CommitOutcome
  <2>2. StatusAfter(operations[o], TotalSteps(o), r) \in Statuses
    BY Zenon, <2>1 DEF StatusAfter, Runnable, RunnableStates, Statuses
  <2>3. row \in OperationRow /\ row.status \in Statuses
    <3>1. operations[o].completed \in Nat /\ operations[o].failed \in Nat /\ operations[o].version \in Nat
      BY Zenon, <2>1 DEF OperationRow
    <3> HIDE DEF o
    <3> QED BY <2>2, <3>1 DEF RowAfter, OperationRow
  <2>4. WriteOperation(o, row, event) /\ InsertOutbox(ResultEvents(s, r))
    BY Zenon, <1>9 DEF commitStepResult
  <2>5. event \in {"created", "approved", "rejected", "cancelled", "step_completed", "step_failed"}
    BY Zenon
  <2> HIDE DEF row, o, event
  <2>6. /\ operations' \in [Ops -> OperationRow]
        /\ readModel' \in [Ops -> ReadModelRow]
        /\ audit' \in [Ops -> Seq(AuditRow)]
        /\ outbox' \in [Events -> OutboxRow]
    BY <2>1, <2>3, <2>4, <2>5, WriteTyped, OutboxTyped
  <2>7. /\ steps' \in [Steps -> StepRow]
        /\ leases' \in [Steps -> LeaseRow]
        /\ generation' \in Nat
    <3>1. steps[s] \in StepRow /\ NoLease \in LeaseRow
      BY DEF TypeOK, NoLease, LeaseRow
    <3>2. [status |-> r, version |-> steps[s].version + 1, retryCount |-> steps[s].retryCount,
           checkpoint |-> c, generation |-> steps[s].generation] \in StepRow
      BY <3>1 DEF StepRow, StepStatuses
    <3> QED BY Zenon, <1>9, <3>1, <3>2 DEF commitStepResult, TypeOK
  <2> QED BY Zenon, <2>6, <2>7 DEF TypeOK
<1>10. ASSUME NEW e \in Events, MarkPublished(e) \/ markFailedAttempt(e) PROVE TypeOK'
  <2>1. outbox[e] \in OutboxRow
    BY Zenon DEF TypeOK
  <2>2. [outbox[e] EXCEPT !.status = "published"] \in OutboxRow
    BY Zenon, <2>1 DEF OutboxRow
  <2>3. [status  |-> IF outbox[e].attempt + 1 >= MaxAttempts THEN "failed" ELSE "pending",
         attempt |-> outbox[e].attempt + 1] \in OutboxRow
    BY <2>1 DEF OutboxRow
  <2> QED BY ZenonT(60), <1>10, <2>2, <2>3 DEF MarkPublished, markFailedAttempt, TypeOK
<1>11. CASE UNCHANGED storeVars
  BY Zenon, <1>11 DEF storeVars, TypeOK
<1> QED BY <1>1, <1>2, <1>3, <1>4, <1>5, <1>6, <1>7, <1>8, <1>9, <1>10, <1>11, ApiShape
        DEF Next, Created, WorkerNext, RelayNext

(* Every table holds rows of its shape in every reachable state, for all   *)
(* operations, plans and workers.                                          *)
THEOREM TypeCorrect == Spec => []TypeOK
BY TypeInit, TypeStep, PTL DEF Spec

-----------------------------------------------------------------------------
(* Fencing generations. *)

(* The sequence is never behind a generation retained on a step. *)
SequenceAhead == \A s \in Steps : steps[s].generation <= generation

NewGenerationIsLargest ==
  \A s \in Steps : steps'[s].generation # steps[s].generation
    => \A t \in Steps : steps'[s].generation > steps[t].generation

LEMMA GenerationStep ==
  TypeOK /\ SequenceAhead /\ [Next]_storeVars => SequenceAhead' /\ NewGenerationIsLargest
<1> SUFFICES ASSUME TypeOK, SequenceAhead, [Next]_storeVars
             PROVE  SequenceAhead' /\ NewGenerationIsLargest
  BY Zenon
<1> DEFINE Kept == generation' \in Nat /\ generation' >= generation
                   /\ \A s \in Steps : steps'[s].generation = steps[s].generation
<1>0. generation \in Nat /\ \A s \in Steps : steps[s].generation \in Nat
  BY Zenon DEF TypeOK, StepRow
<1>1. ASSUME NEW w \in Workers, NEW s \in Steps, NEW v \in Versions, AcquireLease(w, s, v)
      PROVE SequenceAhead' /\ NewGenerationIsLargest
  <2>1. /\ generation' = generation + 1
        /\ steps'[s].generation = generation + 1
        /\ \A t \in Steps : t # s => steps'[t].generation = steps[t].generation
    BY Zenon, <1>1 DEF AcquireLease, TypeOK, StepRow
  <2> QED BY <1>0, <2>1 DEF SequenceAhead, NewGenerationIsLargest
<1>2. ASSUME NEW s \in Steps, NEW v \in Versions, LeaseNotAcquired(s, v) PROVE Kept
  BY <1>0, <1>2 DEF LeaseNotAcquired
<1>3. ASSUME NEW w \in Workers, NEW s \in Steps, NEW g, NEW v, NEW c,
             SaveStepRetry(w, s, g, v, c) \/ \E r \in {"succeeded", "failed"} : commitStepResult(w, s, g, v, r, c)
      PROVE Kept
  <2>1. /\ generation' = generation
        /\ \E row : row.generation = steps[s].generation /\ steps' = [steps EXCEPT ![s] = row]
    <3>1. CASE SaveStepRetry(w, s, g, v, c) BY Zenon, <3>1 DEF SaveStepRetry
    <3>2. ASSUME NEW r, commitStepResult(w, s, g, v, r, c)
          PROVE /\ generation' = generation
                /\ \E row : row.generation = steps[s].generation /\ steps' = [steps EXCEPT ![s] = row]
      BY Zenon, <3>2 DEF commitStepResult
    <3> QED BY Zenon, <1>3, <3>1, <3>2
  <2> QED BY <1>0, <2>1 DEF TypeOK
<1>4. ASSUME NEW o \in Ops,
             Created(o) \/ ApproveOperation(o) \/ RejectOperation(o) \/ CancelOperation(o)
      PROVE Kept
  <2>1. UNCHANGED <<steps, generation>>
    BY Zenon, <1>4 DEF Created, CreateOperation, ApproveOperation, RejectOperation, CancelOperation
  <2> QED BY <1>0, <2>1
<1>5. ASSUME NEW w \in Workers, NEW s \in Steps, NEW g, RenewLease(w, s, g) \/ LeaseAges(s) PROVE Kept
  BY <1>0, <1>5 DEF RenewLease, LeaseAges
<1>6. ASSUME NEW e \in Events, MarkPublished(e) \/ markFailedAttempt(e) PROVE Kept
  BY <1>0, <1>6 DEF MarkPublished, markFailedAttempt
<1>7. CASE UNCHANGED storeVars
  <2>1. Kept BY <1>0, <1>7 DEF storeVars
  <2> QED BY <1>0, <2>1 DEF SequenceAhead, NewGenerationIsLargest
<1>8. ASSUME Kept PROVE SequenceAhead' /\ NewGenerationIsLargest
  BY <1>0, <1>8 DEF SequenceAhead, NewGenerationIsLargest
<1>9. CASE \E s \in Steps : LeaseAges(s)
  <2>1. PICK s \in Steps : LeaseAges(s) BY Zenon, <1>9
  <2>2. Kept BY <1>0, <2>1 DEF LeaseAges
  <2> QED BY Zenon, <1>8, <2>2
<1> HIDE DEF Kept
<1> QED BY Zenon, <1>1, <1>2, <1>3, <1>4, <1>5, <1>6, <1>7, <1>8, <1>9, ApiShape DEF Next, WorkerNext, RelayNext

(* OP-008, for any number of workers and steps: a granted generation       *)
(* exceeds every generation any step ever held, so a retained generation   *)
(* is never lowered or handed out twice, although lost races draw from the *)
(* sequence too and leases are released in between.                        *)
THEOREM FencingIsMonotone == Spec => FencingMonotone
<1>1. Init => SequenceAhead
  BY DEF Init, SequenceAhead
<1>2. TypeOK /\ SequenceAhead /\ [Next]_storeVars => SequenceAhead'
  BY Zenon, GenerationStep
<1>3. TypeOK /\ SequenceAhead /\ [Next]_storeVars
        => [\A s \in Steps : steps'[s].generation # steps[s].generation
              => \A t \in Steps : steps'[s].generation > steps[t].generation]_storeVars
  BY Zenon, GenerationStep DEF NewGenerationIsLargest
<1> QED BY <1>1, <1>2, <1>3, TypeCorrect, PTL DEF Spec, FencingMonotone

-----------------------------------------------------------------------------
(* Terminal states. *)

LEMMA TerminalStep ==
  TypeOK /\ [Next]_storeVars
    => \A o \in Ops : IsTerminal(operations[o].status) => operations'[o] = operations[o]
<1> SUFFICES ASSUME TypeOK, [Next]_storeVars, NEW o \in Ops, IsTerminal(operations[o].status)
             PROVE  operations'[o] = operations[o]
  BY Zenon
<1> USE DEF IsTerminal, TerminalStates
<1>1. ASSUME NEW p \in Ops, Created(p) \/ ApproveOperation(p) \/ RejectOperation(p)
      PROVE operations'[o] = operations[o]
  BY Zenon, <1>1 DEF Created, CreateOperation, ApproveOperation, RejectOperation, transitionOperation, WriteOperation,
              TypeOK, Absent
<1>2. ASSUME NEW p \in Ops, CancelOperation(p) PROVE operations'[o] = operations[o]
  <2>1. ~CanTransition(operations[o].status, "cancelled")
    BY Zenon DEF CanTransition, validTransitions
  <2> QED BY Zenon, <1>2, <2>1 DEF CancelOperation, transitionOperation, WriteOperation, TypeOK
<1>3. ASSUME NEW w \in Workers, NEW s \in Steps, NEW g, NEW v, NEW c, NEW r,
             commitStepResult(w, s, g, v, r, c)
      PROVE operations'[o] = operations[o]
  <2>1. Runnable(OpOf[s])
    BY Zenon, <1>3 DEF commitStepResult, CommitOutcome
  <2>2. o # OpOf[s]
    BY Zenon, <2>1 DEF Runnable, RunnableStates
  <2> QED BY Zenon, <1>3, <2>2 DEF commitStepResult, WriteOperation, TypeOK
<1>4. ASSUME UNCHANGED operations PROVE operations'[o] = operations[o]
  BY Zenon, <1>4
<1> QED BY <1>1, <1>2, <1>3, <1>4, ApiShape
        DEF Next, WorkerNext, RelayNext, AcquireLease, LeaseNotAcquired, RenewLease, LeaseAges,
            SaveStepRetry, MarkPublished, markFailedAttempt, storeVars

(* OP-003, for every plan and every schedule of API calls and workers: the *)
(* row of a succeeded, failed or cancelled operation never changes again.  *)
THEOREM TerminalStatesAreFinal == Spec => TerminalStatesStick
<1>1. TypeOK /\ [Next]_storeVars
        => [\A o \in Ops : IsTerminal(operations[o].status) => operations'[o] = operations[o]]_storeVars
  BY Zenon, TerminalStep
<1> QED BY <1>1, TypeCorrect, PTL DEF Spec, TerminalStatesStick

-----------------------------------------------------------------------------
(* Result events. *)

(* An insert adds exactly its events to the emitted ones. *)
LEMMA Inserted ==
  ASSUME NEW new, InsertOutbox(new), NEW k \in EventKinds, NEW s \in Steps
  PROVE  Emitted(k, s)' <=> Emitted(k, s) \/ <<k, s>> \in new
<1>1. <<k, s>> \in Events BY Zenon DEF Events
<1>2. NewEvent # NoEvent BY Zenon DEF NewEvent, NoEvent
<1> QED BY Zenon, <1>1, <1>2 DEF InsertOutbox, Emitted

(* The relay emits nothing and withdraws nothing. *)
LEMMA RelayKeepsEvents ==
  ASSUME TypeOK, RelayNext, NEW k \in EventKinds, NEW s \in Steps
  PROVE  Emitted(k, s)' <=> Emitted(k, s)
<1>1. PICK e \in Events : MarkPublished(e) \/ markFailedAttempt(e)
  BY Zenon DEF RelayNext
<1>2. outbox[e].status = "pending"
  BY Zenon, <1>1 DEF MarkPublished, markFailedAttempt, Publishable
<1>3. outbox[e] # NoEvent
  BY <1>2 DEF NoEvent
<1>4. \E row : row.status # "none" /\ outbox' = [outbox EXCEPT ![e] = row]
  <2>1. CASE MarkPublished(e)
    <3>1. outbox' = [outbox EXCEPT ![e] = [outbox[e] EXCEPT !.status = "published"]]
      BY Zenon, <2>1 DEF MarkPublished
    <3>2. [outbox[e] EXCEPT !.status = "published"].status = "published"
      BY Zenon DEF TypeOK, OutboxRow
    <3> QED BY Zenon, <3>1, <3>2
  <2>2. CASE markFailedAttempt(e)
    <3> DEFINE row == [status  |-> IF outbox[e].attempt + 1 >= MaxAttempts THEN "failed" ELSE "pending",
                       attempt |-> outbox[e].attempt + 1]
    <3>1. outbox' = [outbox EXCEPT ![e] = row] BY Zenon, <2>2 DEF markFailedAttempt
    <3>2. row.status # "none" BY Zenon
    <3> QED BY Zenon, <3>1, <3>2
  <2> QED BY Zenon, <1>1, <2>1, <2>2
<1>5. PICK row : row.status # "none" /\ outbox' = [outbox EXCEPT ![e] = row]
  BY Zenon, <1>4
<1>6. row # NoEvent BY <1>5 DEF NoEvent
<1> QED BY Zenon, <1>3, <1>5, <1>6 DEF Emitted, TypeOK, Events

(* The steps that touch neither operations, steps nor the outbox. *)
LeasesOnly ==
  \/ \E s \in Steps : LeaseAges(s)
  \/ \E s \in Steps, v \in Versions : LeaseNotAcquired(s, v)
  \/ \E w \in Workers, s \in Steps, g \in 1..MaxGeneration : RenewLease(w, s, g)

ResultKinds == {"step-completed", "step-failed", "failed-message"}

LEMMA ResultsStep ==
  TypeOK /\ OutboxMatchesResults /\ [Next]_storeVars => OutboxMatchesResults'
<1> SUFFICES ASSUME TypeOK, OutboxMatchesResults, [Next]_storeVars, NEW t \in Steps
             PROVE  /\ Emitted("step-completed", t)' <=> steps'[t].status = "succeeded"
                    /\ Emitted("step-failed", t)' <=> steps'[t].status = "failed"
                    /\ Emitted("failed-message", t)' <=> steps'[t].status = "failed"
                    /\ steps'[t].version = (IF steps'[t].status = "pending" THEN 0 ELSE 1)
  BY Zenon DEF OutboxMatchesResults
<1> DEFINE Good == /\ Emitted("step-completed", t)' <=> steps'[t].status = "succeeded"
                   /\ Emitted("step-failed", t)' <=> steps'[t].status = "failed"
                   /\ Emitted("failed-message", t)' <=> steps'[t].status = "failed"
                   /\ steps'[t].version = (IF steps'[t].status = "pending" THEN 0 ELSE 1)
           SameEvents == \A k \in ResultKinds : Emitted(k, t)' <=> Emitted(k, t)
           SameStep == steps'[t].status = steps[t].status /\ steps'[t].version = steps[t].version
<1> SUFFICES Good BY Zenon
<1>0. ASSUME SameEvents, SameStep PROVE Good
  BY Zenon, <1>0 DEF OutboxMatchesResults, ResultKinds
<1>1. ASSUME UNCHANGED outbox PROVE SameEvents
  BY Zenon, <1>1 DEF Emitted
<1>2. ASSUME UNCHANGED steps PROVE SameStep
  BY Zenon, <1>2
<1>3. ASSUME NEW o \in Ops, Created(o) \/ ApproveOperation(o) PROVE Good
  <2>1. PICK new \in SUBSET ({"step-requested"} \X Steps) : InsertOutbox(new)
    <3>1. {"step-requested"} \X ReadySteps(o) \subseteq {"step-requested"} \X Steps
      BY Zenon DEF ReadySteps, StepsOf
    <3> QED BY Zenon, <1>3, <3>1 DEF Created, CreateOperation, ApproveOperation
  <2>2. SameEvents
    <3> TAKE k \in ResultKinds
    <3>1. k \in EventKinds /\ <<k, t>> \notin new BY Zenon, <2>1 DEF ResultKinds, EventKinds
    <3> QED BY Zenon, <2>1, <3>1, Inserted
  <2>3. UNCHANGED steps BY Zenon, <1>3 DEF Created, CreateOperation, ApproveOperation
  <2> QED BY Zenon, <1>0, <1>2, <2>2, <2>3
<1>4. ASSUME NEW o \in Ops, RejectOperation(o) \/ CancelOperation(o) PROVE Good
  BY Zenon, <1>0, <1>1, <1>2, <1>4 DEF RejectOperation, CancelOperation
<1>5. ASSUME NEW w \in Workers, NEW s \in Steps, NEW v, AcquireLease(w, s, v) PROVE Good
  <2>1. UNCHANGED outbox BY Zenon, <1>5 DEF AcquireLease
  <2>2. SameStep BY Zenon, <1>5 DEF AcquireLease, TypeOK, StepRow
  <2> QED BY Zenon, <1>0, <1>1, <2>1, <2>2
<1>6. CASE LeasesOnly
  BY Zenon, <1>0, <1>1, <1>2, <1>6 DEF LeasesOnly, LeaseNotAcquired, RenewLease, LeaseAges
<1>7. ASSUME NEW w \in Workers, NEW s \in Steps, NEW g, NEW v, NEW c, SaveStepRetry(w, s, g, v, c)
      PROVE Good
  <2>1. UNCHANGED outbox BY Zenon, <1>7 DEF SaveStepRetry
  <2>2. SameStep BY Zenon, <1>7 DEF SaveStepRetry, RetryAccepted, TypeOK
  <2> QED BY Zenon, <1>0, <1>1, <2>1, <2>2
<1>8. ASSUME NEW w \in Workers, NEW s \in Steps, NEW g, NEW v, NEW c, NEW r \in {"succeeded", "failed"},
             commitStepResult(w, s, g, v, r, c)
      PROVE Good
  <2>1. \A k \in ResultKinds : Emitted(k, t)' <=> Emitted(k, t) \/ <<k, t>> \in ResultEvents(s, r)
    <3>1. InsertOutbox(ResultEvents(s, r)) BY Zenon, <1>8 DEF commitStepResult
    <3>2. ResultKinds \subseteq EventKinds BY Zenon DEF ResultKinds, EventKinds
    <3> QED BY Zenon, <3>1, <3>2, Inserted
  <2>2. steps[s].status = "pending" /\ steps[s].version = 0
    BY Zenon, <1>8 DEF commitStepResult, CommitOutcome, OutboxMatchesResults
  <2>3. CASE t = s
    <3>1. steps'[t].status = r /\ steps'[t].version = 1
      <4>1. steps'[t] = [status |-> r, version |-> steps[s].version + 1, retryCount |-> steps[s].retryCount,
                         checkpoint |-> c, generation |-> steps[s].generation]
        BY Zenon, <1>8, <2>3 DEF commitStepResult, TypeOK
      <4> QED BY <2>2, <4>1
    <3>2. \A k \in ResultKinds : ~Emitted(k, t)
      BY Zenon, <2>2, <2>3 DEF OutboxMatchesResults, ResultKinds
    <3> QED BY Zenon, <2>1, <2>3, <3>1, <3>2 DEF ResultKinds, ResultEvents
  <2>4. CASE t # s
    <3>1. SameStep BY Zenon, <1>8, <2>4 DEF commitStepResult, TypeOK
    <3>2. SameEvents BY Zenon, <2>1, <2>4 DEF ResultEvents
    <3> QED BY Zenon, <1>0, <3>1, <3>2
  <2> QED BY Zenon, <2>3, <2>4
<1>9. CASE RelayNext
  <2>1. SameEvents BY Zenon, <1>9, RelayKeepsEvents DEF ResultKinds, EventKinds
  <2>2. UNCHANGED steps BY Zenon, <1>9 DEF RelayNext, MarkPublished, markFailedAttempt
  <2> QED BY Zenon, <1>0, <1>2, <2>1, <2>2
<1>10. CASE UNCHANGED storeVars
  BY Zenon, <1>0, <1>1, <1>2, <1>10 DEF storeVars
<1> HIDE DEF Good
<1>11. CASE ApiNext
  BY Zenon, <1>3, <1>4, <1>11, ApiShape
<1>12. CASE WorkerNext
  BY Zenon, <1>5, <1>6, <1>7, <1>8, <1>12 DEF WorkerNext, LeasesOnly
<1> QED BY Zenon, <1>6, <1>9, <1>10, <1>11, <1>12 DEF Next, LeasesOnly

LEMMA NothingAnnounced == Init => OutboxMatchesResults
<1> SUFFICES ASSUME Init PROVE OutboxMatchesResults BY Zenon
<1>1. \A k \in EventKinds, s \in Steps : ~Emitted(k, s)
  BY Zenon DEF Init, Emitted, Events
<1>2. {"step-completed", "step-failed", "failed-message"} \subseteq EventKinds
  BY Zenon DEF EventKinds
<1>3. \A s \in Steps : steps[s].status = "pending" /\ steps[s].version = 0
  BY Zenon DEF Init
<1> QED BY Zenon, <1>1, <1>2, <1>3 DEF OutboxMatchesResults

(* OP-007, for every number of steps, workers, retries and takeovers: the  *)
(* outbox holds a result event exactly for the steps that have the result, *)
(* and a recorded step has left the version every command carries.         *)
THEOREM ResultsAreAnnounced == Spec => []OutboxMatchesResults
BY NothingAnnounced, ResultsStep, TypeCorrect, PTL DEF Spec

-----------------------------------------------------------------------------
(* What the workers rely on: results and generations stay, and a running   *)
(* lease has a number.                                                     *)

(* The row of a step with a result never changes again. *)
LEMMA ResultStays ==
  ASSUME TypeOK, [Next]_storeVars, NEW s \in Steps, steps[s].status # "pending"
  PROVE  steps'[s] = steps[s]
<1>1. ASSUME NEW w, NEW t \in Steps, NEW v, AcquireLease(w, t, v) PROVE steps'[s] = steps[s]
  <2>1. steps[t].status = "pending" BY Zenon, <1>1 DEF AcquireLease, AcquireOutcome
  <2> QED BY Zenon, <1>1, <2>1 DEF AcquireLease, TypeOK
<1>2. ASSUME NEW w, NEW t \in Steps, NEW g, NEW v, NEW c, SaveStepRetry(w, t, g, v, c)
      PROVE steps'[s] = steps[s]
  <2>1. steps[t].status = "pending" BY Zenon, <1>2 DEF SaveStepRetry, RetryAccepted
  <2> QED BY Zenon, <1>2, <2>1 DEF SaveStepRetry, TypeOK
<1>3. ASSUME NEW w, NEW t \in Steps, NEW g, NEW v, NEW c, NEW r, commitStepResult(w, t, g, v, r, c)
      PROVE steps'[s] = steps[s]
  <2>1. steps[t].status = "pending" BY Zenon, <1>3 DEF commitStepResult, CommitOutcome
  <2> QED BY Zenon, <1>3, <2>1 DEF commitStepResult, TypeOK
<1>4. ASSUME UNCHANGED steps PROVE steps'[s] = steps[s]
  BY Zenon, <1>4
<1>5. CASE ApiNext
  <2>1. UNCHANGED steps
    BY <1>5, ApiShape, Zenon DEF Created, CreateOperation, ApproveOperation, RejectOperation, CancelOperation
  <2> QED BY Zenon, <2>1
<1>6. CASE RelayNext \/ (\E t \in Steps : LeaseAges(t)) \/ UNCHANGED storeVars
  <2>1. UNCHANGED steps BY Zenon, <1>6 DEF RelayNext, MarkPublished, markFailedAttempt, LeaseAges, storeVars
  <2> QED BY Zenon, <2>1
<1>7. CASE WorkerNext
  BY <1>1, <1>2, <1>3, <1>4, <1>7 DEF WorkerNext, LeaseNotAcquired, RenewLease
<1> QED BY Zenon, <1>5, <1>6, <1>7 DEF Next

(* A generation retained on a step is never lowered. *)
LEMMA GenerationsGrow ==
  ASSUME TypeOK, SequenceAhead, [Next]_storeVars, NEW s \in Steps
  PROVE  steps'[s].generation >= steps[s].generation
<1>1. TypeOK' BY Zenon, TypeStep
<1>2. steps[s].generation \in Nat /\ steps'[s].generation \in Nat
  BY Zenon, <1>1 DEF TypeOK, StepRow
<1>3. NewGenerationIsLargest BY Zenon, GenerationStep
<1> QED BY <1>2, <1>3 DEF NewGenerationIsLargest

(* The sequence stays within its bound, and a step with a running lease    *)
(* has been given a generation.                                            *)
LeasesAreNumbered ==
  /\ generation <= MaxGeneration
  /\ \A s \in Steps : leases[s].ttl > 0 => steps[s].generation > 0

(* The sequence stays within its bound and numbers every lease. *)
LEMMA NumberedStep ==
  ASSUME TypeOK, SequenceAhead, LeasesAreNumbered, [Next]_storeVars
  PROVE  LeasesAreNumbered'
<1>t. TypeOK' /\ MaxGeneration \in Nat BY Zenon, TypeStep, StoreAssumption
<1>0. /\ generation \in Nat /\ generation <= MaxGeneration
      /\ \A s \in Steps : steps[s].generation \in Nat /\ steps'[s].generation \in Nat
      /\ \A s \in Steps : steps'[s].generation >= steps[s].generation
  BY Zenon, <1>t, GenerationsGrow DEF TypeOK, StepRow, LeasesAreNumbered
<1>1. ASSUME generation' <= MaxGeneration,
             \A s \in Steps : leases'[s].ttl > 0 => leases[s].ttl > 0
      PROVE  LeasesAreNumbered'
  BY <1>0, <1>1 DEF LeasesAreNumbered
<1>2. ASSUME NEW w \in Workers, NEW s \in Steps, NEW v, AcquireLease(w, s, v) PROVE LeasesAreNumbered'
  <2>1. /\ generation' = generation + 1 /\ generation < MaxGeneration
        /\ steps'[s].generation = generation + 1
        /\ \A x \in Steps : x # s => leases'[x] = leases[x]
    BY Zenon, <1>2 DEF AcquireLease, TypeOK, StepRow
  <2>2. generation' <= MaxGeneration /\ steps'[s].generation > 0 BY <1>0, <1>t, <2>1
  <2> QED BY <1>0, <2>1, <2>2 DEF LeasesAreNumbered
<1>3. ASSUME NEW s \in Steps, NEW v, LeaseNotAcquired(s, v) PROVE LeasesAreNumbered'
  BY <1>t, <1>0, <1>1, <1>3 DEF LeaseNotAcquired
<1>4. ASSUME NEW w \in Workers, NEW s \in Steps, NEW g, RenewLease(w, s, g) PROVE LeasesAreNumbered'
  <2>1. /\ UNCHANGED generation /\ leases[s].ttl > 0
        /\ \A x \in Steps : x # s => leases'[x] = leases[x]
    BY Zenon, <1>4 DEF RenewLease, HoldsLease, TypeOK
  <2> QED BY Zenon, <1>0, <1>1, <2>1
<1>5. ASSUME NEW s \in Steps, LeaseAges(s) PROVE LeasesAreNumbered'
  <2>1. /\ UNCHANGED generation /\ leases[s].ttl > 0
        /\ \A x \in Steps : x # s => leases'[x] = leases[x]
    BY Zenon, <1>5 DEF LeaseAges, TypeOK
  <2> QED BY Zenon, <1>0, <1>1, <2>1
<1>6. ASSUME NEW s \in Steps, UNCHANGED generation, leases' = [leases EXCEPT ![s] = NoLease]
      PROVE LeasesAreNumbered'
  <2>1. leases'[s].ttl = 0 /\ \A x \in Steps : x # s => leases'[x] = leases[x]
    BY Zenon, <1>6 DEF TypeOK, NoLease
  <2> QED BY <1>0, <1>1, <1>6, <2>1
<1>7. ASSUME UNCHANGED <<generation, leases>> PROVE LeasesAreNumbered'
  BY Zenon, <1>0, <1>1, <1>7
<1>8. CASE ApiNext
  <2>1. UNCHANGED <<generation, leases>>
    BY <1>8, ApiShape, Zenon DEF Created, CreateOperation, ApproveOperation, RejectOperation, CancelOperation
  <2> QED BY Zenon, <1>7, <2>1
<1>9. CASE RelayNext \/ UNCHANGED storeVars
  <2>1. UNCHANGED <<generation, leases>>
    BY Zenon, <1>9 DEF RelayNext, MarkPublished, markFailedAttempt, storeVars
  <2> QED BY Zenon, <1>7, <2>1
<1>10. CASE WorkerNext
  BY <1>2, <1>3, <1>4, <1>6, <1>10 DEF WorkerNext, SaveStepRetry, commitStepResult
<1> QED BY Zenon, <1>5, <1>8, <1>9, <1>10 DEF Next

-----------------------------------------------------------------------------
(* The history of an operation: its audit rows form a chain that ends in   *)
(* the present status, and a high-risk operation is dispatched only after  *)
(* its approval is on record.                                              *)


(* What a transaction that writes operation o leaves behind. *)
LEMMA Written ==
  ASSUME TypeOK, NEW o \in Ops, NEW row, NEW event, WriteOperation(o, row, event)
  PROVE  /\ operations'[o] = row
         /\ readModel'[o] = View(row)
         /\ audit'[o] = Append(audit[o], [event |-> event, from |-> operations[o].status, to |-> row.status])
         /\ \A p \in Ops : p # o => /\ operations'[p] = operations[p]
                                    /\ readModel'[p] = readModel[p]
                                    /\ audit'[p] = audit[p]
BY Zenon DEF WriteOperation, TypeOK

(* Every step leaves the operations alone or writes one of them: a new one *)
(* at its version, an existing one at the next version.                    *)
OneWrite ==
  \E o \in Ops, row \in OperationRow : \E event :
    /\ WriteOperation(o, row, event)
    /\ row.status \in Statuses
    /\ \/ /\ operations[o].status = Absent /\ event = "created"
          /\ row.version = operations[o].version
       \/ /\ operations[o].status # Absent
          /\ row.version = operations[o].version + 1

LEMMA TransactionShape ==
  TypeOK /\ [Next]_storeVars => OneWrite \/ UNCHANGED <<operations, readModel, audit>>
<1> SUFFICES ASSUME TypeOK, [Next]_storeVars
             PROVE  OneWrite \/ UNCHANGED <<operations, readModel, audit>>
  BY Zenon
<1>1. ASSUME NEW o \in Ops, NEW status \in StartStatuses, CreateOperation(o, status) PROVE OneWrite
  <2> DEFINE row == [operations[o] EXCEPT !.status = status]
  <2>1. operations[o] \in OperationRow BY Zenon DEF TypeOK
  <2>2. status \in Statuses BY Zenon DEF StartStatuses, Statuses
  <2>3. /\ row \in OperationRow /\ row.status \in Statuses
        /\ row.version = operations[o].version
    BY Zenon, <2>1, <2>2 DEF OperationRow
  <2>4. WriteOperation(o, row, "created") /\ operations[o].status = Absent
    BY Zenon, <1>1 DEF CreateOperation
  <2> HIDE DEF row
  <2> QED BY Zenon, <2>3, <2>4 DEF OneWrite
<1>2. ASSUME NEW o \in Ops, NEW to \in Statuses, NEW event, transitionOperation(o, to, event),
             operations[o].status # Absent
      PROVE OneWrite
  <2> DEFINE row == Moved(operations[o], to)
  <2>1. operations[o] \in OperationRow BY Zenon DEF TypeOK
  <2>2. /\ row \in OperationRow /\ row.status \in Statuses
        /\ row.version = operations[o].version + 1
    BY <2>1 DEF OperationRow, Moved
  <2>3. WriteOperation(o, row, event) BY Zenon, <1>2 DEF transitionOperation
  <2> HIDE DEF row
  <2> QED BY Zenon, <1>2, <2>2, <2>3 DEF OneWrite
<1>3. ASSUME NEW o \in Ops, ApproveOperation(o) \/ RejectOperation(o) PROVE OneWrite
  <2>1. operations[o].status # Absent
    BY Zenon, <1>3 DEF ApproveOperation, RejectOperation, Absent
  <2> QED BY Zenon, <1>2, <1>3, <2>1 DEF ApproveOperation, RejectOperation, Statuses
<1>4. ASSUME NEW o \in Ops, CancelOperation(o) PROVE OneWrite
  <2>1. operations[o].status # Absent
    BY Zenon, <1>4 DEF CancelOperation, CanTransition, validTransitions, Absent
  <2> QED BY Zenon, <1>2, <1>4, <2>1 DEF CancelOperation, Statuses
<1>5. ASSUME NEW w, NEW s \in Steps, NEW g, NEW v, NEW c, NEW r \in {"succeeded", "failed"},
             commitStepResult(w, s, g, v, r, c)
      PROVE OneWrite
  <2> DEFINE o == OpOf[s]
             row == RowAfter(operations[o], TotalSteps(o), r)
             event == IF r = "succeeded" THEN "step_completed" ELSE "step_failed"
  <2>1. o \in Ops BY Zenon, StoreAssumption
  <2>2. operations[o] \in OperationRow BY Zenon, <2>1 DEF TypeOK
  <2>3. operations[o].status \in RunnableStates
    BY Zenon, <1>5 DEF commitStepResult, CommitOutcome, Runnable
  <2>4. StatusAfter(operations[o], TotalSteps(o), r) \in Statuses
    BY Zenon, <2>3 DEF StatusAfter, Statuses, RunnableStates
  <2>5. /\ row \in OperationRow /\ row.status \in Statuses
        /\ row.version = operations[o].version + 1
    BY <2>2, <2>4 DEF OperationRow, RowAfter
  <2>6. WriteOperation(o, row, event) BY Zenon, <1>5 DEF commitStepResult
  <2>7. operations[o].status # Absent BY Zenon, <2>3 DEF RunnableStates, Absent
  <2> HIDE DEF o, row, event
  <2> QED BY Zenon, <2>1, <2>5, <2>6, <2>7 DEF OneWrite
<1>6. CASE ApiNext BY Zenon, <1>1, <1>3, <1>4, <1>6, ApiShape DEF Created
<1>7. CASE WorkerNext
  BY <1>5, <1>7 DEF WorkerNext, AcquireLease, LeaseNotAcquired, RenewLease, SaveStepRetry
<1>8. CASE RelayNext \/ (\E s \in Steps : LeaseAges(s)) \/ UNCHANGED storeVars
  BY Zenon, <1>8 DEF RelayNext, MarkPublished, markFailedAttempt, LeaseAges, storeVars
<1> QED BY Zenon, <1>6, <1>7, <1>8 DEF Next

-----------------------------------------------------------------------------
(* The audit chain. *)

(* A row that does not exist yet has never been updated. *)
AbsentAtZero == \A o \in Ops : operations[o].status = Absent => operations[o].version = 0

Chain(o) ==
  /\ operations[o].status = (IF audit[o] = <<>> THEN Absent ELSE audit[o][Len(audit[o])].to)
  /\ audit[o] # <<>> => /\ audit[o][1].event = "created"
                        /\ Len(audit[o]) = operations[o].version + 1
  /\ \A i \in 1..(Len(audit[o]) - 1) : audit[o][i + 1].from = audit[o][i].to
  /\ readModel[o] = View(operations[o])

LEMMA AuditStep ==
  TypeOK /\ AbsentAtZero /\ AuditExplainsStatus /\ [Next]_storeVars
    => AbsentAtZero' /\ AuditExplainsStatus'
<1> SUFFICES ASSUME TypeOK, AbsentAtZero, \A p \in Ops : Chain(p), [Next]_storeVars, NEW o \in Ops
             PROVE  (operations'[o].status = Absent => operations'[o].version = 0) /\ Chain(o)'
  BY Zenon DEF AbsentAtZero, AuditExplainsStatus, Chain
<1>1. CASE operations'[o] = operations[o] /\ readModel'[o] = readModel[o] /\ audit'[o] = audit[o]
  BY <1>1 DEF AbsentAtZero, Chain
<1>2. ASSUME NEW row \in OperationRow, NEW event, WriteOperation(o, row, event), row.status \in Statuses,
             \/ /\ operations[o].status = Absent /\ event = "created"
                /\ row.version = operations[o].version
             \/ /\ operations[o].status # Absent
                /\ row.version = operations[o].version + 1
      PROVE (operations'[o].status = Absent => operations'[o].version = 0) /\ Chain(o)'
  <2> DEFINE entry == [event |-> event, from |-> operations[o].status, to |-> row.status]
  <2>1. /\ operations'[o] = row /\ readModel'[o] = View(row)
        /\ audit'[o] = Append(audit[o], entry)
    BY <1>2, Written
  <2>2. audit[o] \in Seq(AuditRow) BY Zenon DEF TypeOK
  <2>3. row.status # Absent BY Zenon, <1>2 DEF Statuses, Absent
  <2>4. audit[o] = <<>> <=> operations[o].status = Absent
    <3>1. CASE audit[o] # <<>>
      <4>1. Len(audit[o]) \in 1..Len(audit[o]) BY <2>2, <3>1
      <4>2. audit[o][Len(audit[o])] \in AuditRow BY <2>2, <4>1
      <4>3. audit[o][Len(audit[o])].to \in Statuses BY Zenon, <4>2 DEF AuditRow
      <4> QED BY Zenon, <3>1, <4>3 DEF Chain, Statuses, Absent
    <3>2. CASE audit[o] = <<>> BY Zenon, <3>2 DEF Chain
    <3> QED BY Zenon, <3>1, <3>2
  <2>5. /\ Len(audit'[o]) = Len(audit[o]) + 1
        /\ audit'[o][Len(audit[o]) + 1] = entry
        /\ \A i \in 1..Len(audit[o]) : audit'[o][i] = audit[o][i]
        /\ audit'[o] # <<>>
        /\ Len(audit[o]) \in Nat
    BY <2>1, <2>2
  <2>6. operations'[o].status = audit'[o][Len(audit'[o])].to
    BY <2>1, <2>5
  <2>7. audit'[o][1].event = "created" /\ Len(audit'[o]) = operations'[o].version + 1
    <3>1. CASE operations[o].status = Absent
      <4>1. Len(audit[o]) = 0 BY <2>4, <3>1
      <4>2. audit'[o][1] = entry BY <2>5, <4>1
      <4> QED BY <1>2, <2>1, <2>5, <3>1, <4>1, <4>2 DEF AbsentAtZero
    <3>2. CASE operations[o].status # Absent
      <4>1. 1 \in 1..Len(audit[o]) BY <2>2, <2>4, <3>2
      <4>2. audit[o] # <<>> BY Zenon, <2>4, <3>2
      <4>3. audit[o][1].event = "created" /\ Len(audit[o]) = operations[o].version + 1
        BY Zenon, <4>2 DEF Chain
      <4>4. audit'[o][1] = audit[o][1] BY Zenon, <2>5, <4>1
      <4>5. operations'[o].version = operations[o].version + 1 BY Zenon, <1>2, <2>1, <3>2
      <4> HIDE DEF entry
      <4> QED BY Zenon, <2>5, <4>3, <4>4, <4>5
    <3> QED BY Zenon, <3>1, <3>2
  <2>8. ASSUME NEW i \in 1..(Len(audit'[o]) - 1)
        PROVE  audit'[o][i + 1].from = audit'[o][i].to
    <3>1. CASE i = Len(audit[o])
      <4>1. i \in 1..Len(audit[o]) /\ Len(audit[o]) # 0 BY <2>5, <3>1
      <4>2. audit[o] # <<>> BY <4>1
      <4>3. operations[o].status = audit[o][i].to BY Zenon, <3>1, <4>2 DEF Chain
      <4>4. audit'[o][i] = audit[o][i] /\ audit'[o][i + 1] = entry BY Zenon, <2>5, <3>1, <4>1
      <4>5. entry.from = operations[o].status BY Zenon
      <4> HIDE DEF entry
      <4> QED BY Zenon, <4>3, <4>4, <4>5
    <3>2. CASE i # Len(audit[o])
      <4>1. i \in 1..(Len(audit[o]) - 1) /\ i \in 1..Len(audit[o]) /\ i + 1 \in 1..Len(audit[o])
        BY <2>5, <3>2
      <4>2. audit[o][i + 1].from = audit[o][i].to BY Zenon, <4>1 DEF Chain
      <4>3. audit'[o][i] = audit[o][i] /\ audit'[o][i + 1] = audit[o][i + 1] BY Zenon, <2>5, <4>1
      <4> QED BY Zenon, <4>2, <4>3
    <3> QED BY Zenon, <3>1, <3>2
  <2> HIDE DEF entry
  <2> QED BY Zenon, <2>1, <2>3, <2>5, <2>6, <2>7, <2>8 DEF Chain, View
<1>3. CASE OneWrite
  <2>1. PICK p \in Ops, row \in OperationRow : \E event :
          /\ WriteOperation(p, row, event)
          /\ row.status \in Statuses
          /\ \/ /\ operations[p].status = Absent /\ event = "created"
                /\ row.version = operations[p].version
             \/ /\ operations[p].status # Absent
                /\ row.version = operations[p].version + 1
    BY Zenon, <1>3 DEF OneWrite
  <2>2. CASE p = o BY Zenon, <1>2, <2>1, <2>2
  <2>3. CASE p # o BY Zenon, <1>1, <2>1, <2>3, Written
  <2> QED BY Zenon, <2>2, <2>3
<1>4. CASE UNCHANGED <<operations, readModel, audit>>
  BY Zenon, <1>1, <1>4
<1> QED BY Zenon, <1>3, <1>4, TransactionShape

(* OP-006, for every history of API calls and results: the audit rows of   *)
(* an operation lead from its creation to its present status without a     *)
(* gap, there is one per version, and the read model shows the row.        *)
THEOREM AuditIsAChain == Spec => []AuditExplainsStatus
<1>1. Init => AbsentAtZero /\ AuditExplainsStatus
  BY DEF Init, AbsentAtZero, AuditExplainsStatus, View
<1> QED BY <1>1, AuditStep, TypeCorrect, PTL DEF Spec

-----------------------------------------------------------------------------
(* Approval. *)

(* Audit rows are only ever appended. *)
LEMMA ApprovalStays ==
  ASSUME TypeOK, [Next]_storeVars, NEW o \in Ops, Approved(o)
  PROVE  Approved(o)'
<1>1. PICK i \in DOMAIN audit[o] : audit[o][i].event = "approved"
  BY Zenon DEF Approved
<1>2. audit'[o] = audit[o] \/ \E entry : audit'[o] = Append(audit[o], entry)
  <2>1. CASE OneWrite
    <3>1. PICK p \in Ops, row \in OperationRow : \E event : WriteOperation(p, row, event)
      BY Zenon, <2>1 DEF OneWrite
    <3>2. PICK event : WriteOperation(p, row, event)
      BY Zenon, <3>1
    <3>3. CASE p = o
      <4> DEFINE entry == [event |-> event, from |-> operations[p].status, to |-> row.status]
      <4>1. audit'[p] = Append(audit[p], entry) BY Zenon, <3>2 DEF WriteOperation, TypeOK
      <4> HIDE DEF entry
      <4> QED BY Zenon, <3>3, <4>1
    <3>4. CASE p # o
      BY Zenon, <3>2, <3>4, Written
    <3> QED BY Zenon, <3>3, <3>4
  <2>2. CASE UNCHANGED audit BY Zenon, <2>2
  <2> QED BY Zenon, <2>1, <2>2, TransactionShape
<1>3. audit[o] \in Seq(AuditRow) BY Zenon DEF TypeOK
<1>4. i \in DOMAIN audit'[o] /\ audit'[o][i] = audit[o][i]
  <2>1. CASE audit'[o] = audit[o]
    BY Zenon, <1>1, <2>1
  <2>2. ASSUME NEW entry, audit'[o] = Append(audit[o], entry)
        PROVE i \in DOMAIN audit'[o] /\ audit'[o][i] = audit[o][i]
    <3>1. i \in 1..Len(audit[o]) BY <1>1, <1>3
    <3> QED BY <1>3, <2>2, <3>1
  <2> QED BY Zenon, <1>2, <2>1, <2>2
<1> QED BY Zenon, <1>1, <1>4 DEF Approved

(* A high-risk operation becomes runnable only through its approval. *)
RunnableIsApproved == \A o \in HighRisk : Runnable(o) => Approved(o)

Dispatched(s) == Emitted("step-requested", s) \/ steps[s].generation > 0

(* Where the invariant has to be re-established: a step newly dispatched,  *)
(* an operation newly runnable.                                            *)
LEMMA ApprovalStep ==
  ASSUME "queued" \notin StaleOutcomes
  PROVE  TypeOK /\ ApprovalPrecedesDispatch /\ RunnableIsApproved /\ [Next]_storeVars
           => ApprovalPrecedesDispatch' /\ RunnableIsApproved'
<1> SUFFICES ASSUME TypeOK, ApprovalPrecedesDispatch, RunnableIsApproved, [Next]_storeVars
             PROVE  ApprovalPrecedesDispatch' /\ RunnableIsApproved'
  BY Zenon
<1> DEFINE Legit ==
      /\ \A s \in Steps : OpOf[s] \in HighRisk /\ Dispatched(s)' => Dispatched(s) \/ Approved(OpOf[s])'
      /\ \A o \in HighRisk : Runnable(o)' => Runnable(o) \/ Approved(o)'
<1>0. ASSUME Legit PROVE ApprovalPrecedesDispatch' /\ RunnableIsApproved'
  <2>1. \A o \in Ops : Approved(o) => Approved(o)' BY Zenon, ApprovalStays
  <2>2. HighRisk \subseteq Ops BY Zenon, StoreAssumption
  <2> QED BY Zenon, <1>0, <2>1, <2>2 DEF ApprovalPrecedesDispatch, RunnableIsApproved, Dispatched
<1>1. ASSUME UNCHANGED <<operations, steps>>,
             \A s \in Steps : Emitted("step-requested", s)' <=> Emitted("step-requested", s)
      PROVE Legit
  BY Zenon, <1>1 DEF Dispatched, Runnable
<1>2. "step-requested" \in EventKinds BY Zenon DEF EventKinds
<1>3. ASSUME NEW o \in Ops, NEW status \in StartStatuses, CreateOperation(o, status),
             o \in HighRisk => status # "queued"
      PROVE Legit
  <2> DEFINE row == [operations[o] EXCEPT !.status = status]
  <2>1. row.status = status BY Zenon DEF TypeOK, OperationRow
  <2>2. WriteOperation(o, row, "created") BY Zenon, <1>3 DEF CreateOperation
  <2>3. operations'[o] = row /\ \A p \in Ops : p # o => operations'[p] = operations[p]
    BY Zenon, <2>2, Written
  <2>4. \A p \in HighRisk : Runnable(p)' => Runnable(p)
    <3> TAKE p \in HighRisk
    <3>1. CASE p = o
      <4>1. operations'[p].status \in {"pending_approval", "queued_offline"}
        BY Zenon, <1>3, <2>1, <2>3, <3>1 DEF StartStatuses
      <4> QED BY Zenon, <4>1 DEF Runnable, RunnableStates
    <3>2. CASE p # o
      <4>1. operations'[p] = operations[p] BY Zenon, <2>3, <3>2, StoreAssumption
      <4> QED BY Zenon, <4>1 DEF Runnable
    <3> QED BY Zenon, <3>1, <3>2
  <2>5. ASSUME NEW s \in Steps, OpOf[s] \in HighRisk, Emitted("step-requested", s)'
        PROVE  Emitted("step-requested", s)
    <3> DEFINE new == IF status = "queued" THEN {"step-requested"} \X ReadySteps(o) ELSE {}
    <3>1. InsertOutbox(new) BY Zenon, <1>3 DEF CreateOperation
    <3>2. <<"step-requested", s>> \notin new
      BY Zenon, <1>3, <2>5 DEF ReadySteps, StepsOf
    <3> QED BY Zenon, <1>2, <2>5, <3>1, <3>2, Inserted
  <2>6. UNCHANGED steps BY Zenon, <1>3 DEF CreateOperation
  <2> QED BY Zenon, <2>4, <2>5, <2>6 DEF Dispatched
<1>4. ASSUME NEW o \in Ops, ApproveOperation(o) PROVE Legit
  <2>1. WriteOperation(o, Moved(operations[o], "queued"), "approved")
    BY Zenon, <1>4 DEF ApproveOperation, transitionOperation
  <2> DEFINE entry == [event |-> "approved", from |-> operations[o].status,
                       to |-> Moved(operations[o], "queued").status]
  <2>2. audit'[o] = Append(audit[o], entry) /\ \A p \in Ops : p # o => operations'[p] = operations[p]
    <3> DEFINE row == Moved(operations[o], "queued")
    <3>1. WriteOperation(o, row, "approved") BY Zenon, <2>1
    <3> HIDE DEF row
    <3>2. /\ audit'[o] = Append(audit[o], [event |-> "approved", from |-> operations[o].status,
                                          to |-> row.status])
          /\ \A p \in Ops : p # o => operations'[p] = operations[p]
      BY <3>1, Written
    <3> QED BY Zenon, <3>2 DEF row
  <2>3. audit[o] \in Seq(AuditRow) BY Zenon DEF TypeOK
  <2>4. entry.event = "approved" BY Zenon
  <2>5. Len(audit[o]) + 1 \in DOMAIN audit'[o] /\ audit'[o][Len(audit[o]) + 1] = entry
    BY <2>2, <2>3
  <2> HIDE DEF entry
  <2>6. Approved(o)' BY Zenon, <2>4, <2>5 DEF Approved
  <2>7. \A p \in HighRisk : Runnable(p)' => Runnable(p) \/ Approved(p)'
    BY Zenon, <2>2, <2>6, StoreAssumption DEF Runnable
  <2>8. ASSUME NEW s \in Steps, OpOf[s] # o, Emitted("step-requested", s)'
        PROVE  Emitted("step-requested", s)
    <3>1. InsertOutbox({"step-requested"} \X ReadySteps(o)) BY Zenon, <1>4 DEF ApproveOperation
    <3>2. <<"step-requested", s>> \notin {"step-requested"} \X ReadySteps(o)
      BY Zenon, <2>8 DEF ReadySteps, StepsOf
    <3> QED BY Zenon, <1>2, <2>8, <3>1, <3>2, Inserted
  <2>9. UNCHANGED steps BY Zenon, <1>4 DEF ApproveOperation
  <2> QED BY Zenon, <2>6, <2>7, <2>8, <2>9 DEF Dispatched
<1>5. ASSUME NEW o \in Ops, RejectOperation(o) \/ CancelOperation(o) PROVE Legit
  <2>1. \E event : WriteOperation(o, Moved(operations[o], "cancelled"), event)
    BY Zenon, <1>5 DEF RejectOperation, CancelOperation, transitionOperation
  <2>2. /\ operations'[o] = Moved(operations[o], "cancelled")
        /\ \A p \in Ops : p # o => operations'[p] = operations[p]
    BY Zenon, <2>1, Written
  <2>3. operations'[o].status = "cancelled" BY <2>2 DEF Moved
  <2>4. \A p \in HighRisk : Runnable(p)' => Runnable(p)
    BY Zenon, <2>2, <2>3, StoreAssumption DEF Runnable, RunnableStates
  <2> QED BY Zenon, <1>5, <2>4 DEF RejectOperation, CancelOperation, Dispatched, Emitted
<1>6. ASSUME NEW w \in Workers, NEW s \in Steps, NEW v, AcquireLease(w, s, v) PROVE Legit
  <2>1. Runnable(OpOf[s]) BY Zenon, <1>6 DEF AcquireLease, AcquireOutcome
  <2>2. UNCHANGED <<operations, outbox, audit>> BY Zenon, <1>6 DEF AcquireLease
  <2>3. \A t \in Steps : t # s => steps'[t] = steps[t] BY Zenon, <1>6 DEF AcquireLease, TypeOK
  <2>4. OpOf[s] \in HighRisk => Approved(OpOf[s])' BY Zenon, <2>1, <2>2 DEF RunnableIsApproved, Approved
  <2> QED BY Zenon, <2>2, <2>3, <2>4 DEF Dispatched, Emitted, Runnable
<1>7. ASSUME NEW w, NEW s \in Steps, NEW g, NEW v, NEW c, SaveStepRetry(w, s, g, v, c) PROVE Legit
  <2>1. \A t \in Steps : steps'[t].generation = steps[t].generation
    BY Zenon, <1>7 DEF SaveStepRetry, TypeOK
  <2> QED BY Zenon, <1>7, <2>1 DEF SaveStepRetry, Dispatched, Emitted, Runnable
<1>8. ASSUME NEW w, NEW s \in Steps, NEW g, NEW v, NEW c, NEW r \in {"succeeded", "failed"},
             commitStepResult(w, s, g, v, r, c)
      PROVE Legit
  <2>1. \A t \in Steps : steps'[t].generation = steps[t].generation
    BY Zenon, <1>8 DEF commitStepResult, TypeOK
  <2>2. \A t \in Steps : Emitted("step-requested", t)' <=> Emitted("step-requested", t)
    <3> TAKE t \in Steps
    <3>1. InsertOutbox(ResultEvents(s, r)) BY Zenon, <1>8 DEF commitStepResult
    <3>2. <<"step-requested", t>> \notin ResultEvents(s, r) BY Zenon DEF ResultEvents
    <3> QED BY Zenon, <1>2, <3>1, <3>2, Inserted
  <2>3. Runnable(OpOf[s]) BY Zenon, <1>8 DEF commitStepResult, CommitOutcome
  <2>4. \A p \in Ops : p # OpOf[s] => operations'[p] = operations[p]
    BY Zenon, <1>8 DEF commitStepResult, WriteOperation, TypeOK
  <2> QED BY Zenon, <2>1, <2>2, <2>3, <2>4, StoreAssumption DEF Dispatched, Runnable
<1>9. CASE RelayNext
  <2>1. \A s \in Steps : Emitted("step-requested", s)' <=> Emitted("step-requested", s)
    BY Zenon, <1>2, <1>9, RelayKeepsEvents
  <2>2. UNCHANGED <<operations, steps>> BY Zenon, <1>9 DEF RelayNext, MarkPublished, markFailedAttempt
  <2> HIDE DEF Legit
  <2> QED BY Zenon, <1>0, <1>1, <2>1, <2>2
<1>10. ASSUME LeasesOnly \/ UNCHANGED storeVars PROVE Legit
  <2>1. UNCHANGED <<operations, steps, outbox>>
    BY Zenon, <1>10 DEF LeasesOnly, LeaseAges, LeaseNotAcquired, RenewLease, storeVars
  <2> HIDE DEF Legit
  <2> QED BY Zenon, <1>1, <2>1 DEF Emitted
<1> HIDE DEF Legit
<1>11. CASE ApiNext
  <2>1. ASSUME NEW o \in Ops, SubmitOperation(o) \/ SubmitIntent(o) PROVE Legit
    <3>1. PICK status \in {InitialStatus(o)} \cup StaleOutcomes : CreateOperation(o, status)
      BY Zenon, <2>1 DEF SubmitOperation, SubmitIntent
    <3>2. status \in StartStatuses BY Zenon, StoreAssumption DEF InitialStatus, StartStatuses
    <3>3. o \in HighRisk => status # "queued" BY Zenon DEF InitialStatus
    <3> QED BY Zenon, <1>3, <3>1, <3>2, <3>3
  <2> QED BY Zenon, <1>0, <1>4, <1>5, <1>11, <2>1 DEF ApiNext
<1>12. CASE WorkerNext BY Zenon, <1>0, <1>6, <1>7, <1>8, <1>10, <1>12 DEF WorkerNext, LeasesOnly
<1> QED BY Zenon, <1>0, <1>9, <1>10, <1>11, <1>12 DEF Next, LeasesOnly

(* TENANT-007, for every set of operations, steps and workers, as long as  *)
(* the policy for stale targets does not queue an intent itself: before an *)
(* approval is on record, no command of a high-risk operation is emitted   *)
(* and no lease on one of its steps is granted.                            *)
THEOREM ApprovalComesFirst ==
  ASSUME "queued" \notin StaleOutcomes
  PROVE  Spec => []ApprovalPrecedesDispatch
<1>1. Init => ApprovalPrecedesDispatch /\ RunnableIsApproved
  <2> SUFFICES ASSUME Init PROVE ApprovalPrecedesDispatch /\ RunnableIsApproved BY Zenon
  <2>1. \A s \in Steps : ~Emitted("step-requested", s) /\ steps[s].generation = 0
    BY Zenon DEF Init, Emitted, Events, EventKinds
  <2>2. \A o \in Ops : ~Runnable(o)
    BY Zenon DEF Init, Runnable, RunnableStates, Absent
  <2>3. ApprovalPrecedesDispatch BY <2>1 DEF ApprovalPrecedesDispatch
  <2>4. HighRisk \subseteq Ops BY Zenon, StoreAssumption
  <2>5. RunnableIsApproved BY Zenon, <2>2, <2>4 DEF RunnableIsApproved
  <2> QED BY Zenon, <2>3, <2>5
<1> QED BY <1>1, ApprovalStep, TypeCorrect, PTL DEF Spec
=============================================================================
