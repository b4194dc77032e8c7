----------------------- MODULE OperationVerdictProofs -----------------------
(***************************************************************************)
(* The counters and the verdict of an operation agree with its steps.      *)
(***************************************************************************)
EXTENDS OperationStoreProofs, FiniteSetTheorems

LEMMA StepsOfFinite ==
  ASSUME NEW o
  PROVE  /\ IsFiniteSet(StepsOf(o)) /\ TotalSteps(o) \in Nat
         /\ \A T \in SUBSET StepsOf(o) :
              /\ IsFiniteSet(T) /\ Cardinality(T) \in Nat
              /\ Cardinality(T) = TotalSteps(o) <=> T = StepsOf(o)
              /\ Cardinality(T) <= TotalSteps(o)
<1>1. StepsOf(o) \subseteq Steps BY Zenon DEF StepsOf
<1>2. IsFiniteSet(StepsOf(o)) BY Zenon, <1>1, FS_Subset, StoreAssumption
<1>3. ASSUME NEW T \in SUBSET StepsOf(o)
      PROVE  /\ IsFiniteSet(T) /\ Cardinality(T) \in Nat
             /\ Cardinality(T) = TotalSteps(o) <=> T = StepsOf(o)
             /\ Cardinality(T) <= TotalSteps(o)
  BY Zenon, <1>2, FS_Subset, FS_CardinalityType DEF TotalSteps
<1> QED BY Zenon, <1>2, <1>3, FS_CardinalityType DEF TotalSteps

(* The agreement, for one operation. *)
Agrees(o) ==
  /\ operations[o].completed = Cardinality(WithStatus(o, "succeeded"))
  /\ operations[o].failed = Cardinality(WithStatus(o, "failed"))
  /\ operations[o].status = "succeeded" <=> WithStatus(o, "succeeded") = StepsOf(o)
  /\ operations[o].status = "failed" <=> WithStatus(o, "failed") # {}

(* Neither the counters nor the step results move, and the status moves    *)
(* between values that are no verdict.                                     *)
NoVerdict(o) ==
  /\ \A s \in Steps : steps'[s].status = steps[s].status
  /\ operations'[o].completed = operations[o].completed
  /\ operations'[o].failed = operations[o].failed
  /\ \/ operations'[o].status = operations[o].status
     \/ {operations'[o].status, operations[o].status} \cap {"succeeded", "failed"} = {}

LEMMA NoVerdictAgrees ==
  ASSUME NEW o, Agrees(o), NoVerdict(o)
  PROVE  Agrees(o)'
<1>1. \A r : WithStatus(o, r)' = WithStatus(o, r)
  BY Zenon DEF NoVerdict, WithStatus, StepsOf
<1>2. StepsOf(o)' = StepsOf(o) BY Zenon DEF StepsOf
<1> QED BY Zenon, <1>1, <1>2 DEF Agrees, NoVerdict

(* The committed step joins the steps with its result; the verdict of the  *)
(* CASE expression is the one the enlarged set justifies.                  *)
LEMMA CommitAgrees ==
  ASSUME TypeOK, \A o \in Ops : Agrees(o),
         NEW w, NEW s \in Steps, NEW g, NEW v, NEW c, NEW r \in {"succeeded", "failed"},
         commitStepResult(w, s, g, v, r, c), NEW o \in Ops
  PROVE  Agrees(o)'
<1> DEFINE Won == WithStatus(o, "succeeded")
           Lost == WithStatus(o, "failed")
<1>1. /\ steps[s].status = "pending" /\ steps'[s].status = r
      /\ \A t \in Steps : t # s => steps'[t].status = steps[t].status
  BY Zenon DEF commitStepResult, CommitOutcome, TypeOK
<1>2. StepsOf(o)' = StepsOf(o) BY Zenon DEF StepsOf
<1>3. CASE o # OpOf[s]
  <2>1. operations'[o] = operations[o]
    BY Zenon, <1>3 DEF commitStepResult, WriteOperation, TypeOK
  <2>2. \A q : WithStatus(o, q)' = WithStatus(o, q)
    BY Zenon, <1>1, <1>3 DEF WithStatus, StepsOf
  <2> QED BY Zenon, <1>2, <2>1, <2>2 DEF Agrees
<1>4. CASE o = OpOf[s]
  <2> DEFINE row == operations[o]
  <2>1. operations'[o] = RowAfter(row, TotalSteps(o), r)
    BY Zenon, <1>4 DEF commitStepResult, WriteOperation, TypeOK
  <2>2. row.status \in {"queued", "in_progress"}
    BY Zenon, <1>4 DEF commitStepResult, CommitOutcome, Runnable, RunnableStates
  <2>3. /\ row.completed = Cardinality(Won) /\ row.failed = Cardinality(Lost)
        /\ Won # StepsOf(o) /\ Lost = {}
    BY Zenon, <2>2 DEF Agrees
  <2>4. s \in StepsOf(o) /\ s \notin Won /\ s \notin Lost
    BY Zenon, <1>1, <1>4 DEF StepsOf, WithStatus
  <2>5. Won \in SUBSET StepsOf(o) /\ Lost \in SUBSET StepsOf(o) BY Zenon DEF WithStatus
  <2>6. /\ operations'[o].status = StatusAfter(row, TotalSteps(o), r)
        /\ operations'[o].completed = row.completed + (IF r = "succeeded" THEN 1 ELSE 0)
        /\ operations'[o].failed = row.failed + (IF r = "failed" THEN 1 ELSE 0)
    BY <2>1 DEF RowAfter
  <2>7. CASE r = "succeeded"
    <3>1. WithStatus(o, "succeeded")' = Won \cup {s} /\ WithStatus(o, "failed")' = Lost
      BY Zenon, <1>1, <2>4, <2>7 DEF WithStatus, StepsOf
    <3>2. Cardinality(Won \cup {s}) = Cardinality(Won) + 1
      BY Zenon, <2>4, <2>5, StepsOfFinite, FS_AddElement
    <3>3. /\ Won \cup {s} \in SUBSET StepsOf(o)
          /\ Cardinality(Won) \in Nat /\ TotalSteps(o) \in Nat
          /\ Cardinality(Won \cup {s}) <= TotalSteps(o)
          /\ Cardinality(Won \cup {s}) = TotalSteps(o) <=> Won \cup {s} = StepsOf(o)
      BY Zenon, <2>4, <2>5, StepsOfFinite
    <3>4. Cardinality(Lost) \in Nat BY Zenon, <2>5, StepsOfFinite
    <3> HIDE DEF Won, Lost
    <3>5. operations'[o].status = "succeeded" <=> Won \cup {s} = StepsOf(o)
      BY <2>2, <2>3, <2>6, <2>7, <3>2, <3>3 DEF StatusAfter
    <3>6. operations'[o].status # "failed"
      BY Zenon, <2>2, <2>6, <2>7 DEF StatusAfter
    <3>7. /\ operations'[o].completed = Cardinality(Won \cup {s})
          /\ operations'[o].failed = Cardinality(Lost)
      <4>1. operations'[o].completed = row.completed + 1 /\ operations'[o].failed = row.failed + 0
        BY Zenon, <2>6, <2>7
      <4>2. row.completed = Cardinality(Won) /\ row.failed = Cardinality(Lost)
        BY Zenon, <2>3
      <4> HIDE DEF row
      <4> QED BY <3>2, <3>4, <4>1, <4>2
    <3> QED BY Zenon, <1>2, <2>3, <3>1, <3>5, <3>6, <3>7 DEF Agrees
  <2>8. CASE r = "failed"
    <3>1. WithStatus(o, "succeeded")' = Won /\ WithStatus(o, "failed")' = Lost \cup {s}
      BY Zenon, <1>1, <2>4, <2>8 DEF WithStatus, StepsOf
    <3>2. Cardinality(Lost \cup {s}) = Cardinality(Lost) + 1
      BY Zenon, <2>4, <2>5, StepsOfFinite, FS_AddElement
    <3>3. Cardinality(Won) \in Nat BY Zenon, <2>5, StepsOfFinite
    <3>4. operations'[o].status = "failed" BY Zenon, <2>6, <2>8 DEF StatusAfter
    <3> HIDE DEF Won, Lost
    <3>5. /\ operations'[o].completed = Cardinality(Won)
          /\ operations'[o].failed = Cardinality(Lost \cup {s})
      <4>1. operations'[o].completed = row.completed + 0 /\ operations'[o].failed = row.failed + 1
        BY Zenon, <2>6, <2>8
      <4>2. row.completed = Cardinality(Won) /\ row.failed = Cardinality(Lost)
        BY Zenon, <2>3
      <4> HIDE DEF row
      <4> QED BY <3>2, <3>3, <4>1, <4>2
    <3>6. operations'[o].status # "succeeded" /\ Lost \cup {s} # {} BY Zenon, <3>4
    <3> QED BY Zenon, <1>2, <2>3, <3>1, <3>4, <3>5, <3>6 DEF Agrees
  <2> QED BY Zenon, <2>7, <2>8
<1> QED BY Zenon, <1>3, <1>4

LEMMA OutcomeStep == TypeOK /\ OutcomeMatchesSteps /\ [Next]_storeVars => OutcomeMatchesSteps'
<1> SUFFICES ASSUME TypeOK, \A p \in Ops : Agrees(p), [Next]_storeVars, NEW o \in Ops
             PROVE  Agrees(o)'
  BY Zenon DEF OutcomeMatchesSteps, Agrees
<1>1. ASSUME UNCHANGED operations, \A s \in Steps : steps'[s].status = steps[s].status
      PROVE Agrees(o)'
  BY Zenon, <1>1, NoVerdictAgrees DEF NoVerdict
<1>2. ASSUME NEW p \in Ops, NEW row, UNCHANGED steps, operations' = [operations EXCEPT ![p] = row],
             row.completed = operations[p].completed, row.failed = operations[p].failed,
             {row.status, operations[p].status} \cap {"succeeded", "failed"} = {}
      PROVE Agrees(o)'
  <2>1. operations'[p] = row /\ (o # p => operations'[o] = operations[o])
    BY Zenon, <1>2 DEF TypeOK
  <2>2. NoVerdict(o) BY Zenon, <1>2, <2>1 DEF NoVerdict
  <2> QED BY Zenon, <2>2, NoVerdictAgrees
<1>3. ASSUME NEW p \in Ops, NEW status \in StartStatuses, CreateOperation(p, status) PROVE Agrees(o)'
  <2> DEFINE row == [operations[p] EXCEPT !.status = status]
  <2>1. /\ row.completed = operations[p].completed /\ row.failed = operations[p].failed
        /\ row.status = status
    BY Zenon DEF TypeOK, OperationRow
  <2>2. operations' = [operations EXCEPT ![p] = row] /\ UNCHANGED steps /\ operations[p].status = Absent
    BY Zenon, <1>3 DEF CreateOperation, WriteOperation
  <2>3. {row.status, operations[p].status} \cap {"succeeded", "failed"} = {}
    BY Zenon, <2>1, <2>2 DEF StartStatuses, Absent
  <2> HIDE DEF row
  <2> QED BY Zenon, <1>2, <2>1, <2>2, <2>3
<1>4. ASSUME NEW p \in Ops, ApproveOperation(p) \/ RejectOperation(p) \/ CancelOperation(p)
      PROVE Agrees(o)'
  <2>1. PICK to \in {"queued", "cancelled"} : operations' = [operations EXCEPT ![p] = Moved(operations[p], to)]
    BY Zenon, <1>4 DEF ApproveOperation, RejectOperation, CancelOperation, transitionOperation, WriteOperation
  <2>2. operations[p].status \notin {"succeeded", "failed"}
    BY Zenon, <1>4 DEF ApproveOperation, RejectOperation, CancelOperation, CanTransition, validTransitions
  <2>3. UNCHANGED steps BY Zenon, <1>4 DEF ApproveOperation, RejectOperation, CancelOperation
  <2>4. /\ Moved(operations[p], to).completed = operations[p].completed
        /\ Moved(operations[p], to).failed = operations[p].failed
        /\ Moved(operations[p], to).status = to
    BY Zenon DEF Moved
  <2>5. {Moved(operations[p], to).status, operations[p].status} \cap {"succeeded", "failed"} = {}
    BY Zenon, <2>2, <2>4
  <2> QED BY Zenon, <1>2, <2>1, <2>3, <2>4, <2>5
<1>5. ASSUME NEW w \in Workers, NEW s \in Steps, NEW v, AcquireLease(w, s, v) PROVE Agrees(o)'
  <2>1. \A t \in Steps : steps'[t].status = steps[t].status
    BY Zenon, <1>5 DEF AcquireLease, TypeOK, StepRow
  <2> QED BY Zenon, <1>1, <1>5, <2>1 DEF AcquireLease
<1>6. ASSUME NEW w, NEW s \in Steps, NEW g, NEW v, NEW c, SaveStepRetry(w, s, g, v, c) PROVE Agrees(o)'
  <2>1. \A t \in Steps : steps'[t].status = steps[t].status
    BY Zenon, <1>6 DEF SaveStepRetry, RetryAccepted, TypeOK
  <2> QED BY Zenon, <1>1, <1>6, <2>1 DEF SaveStepRetry
<1>7. CASE LeasesOnly \/ RelayNext \/ UNCHANGED storeVars
  <2>1. UNCHANGED <<operations, steps>>
    BY Zenon, <1>7 DEF LeasesOnly, LeaseAges, LeaseNotAcquired, RenewLease, RelayNext, MarkPublished,
                markFailedAttempt, storeVars
  <2> QED BY Zenon, <1>1, <2>1
<1>8. CASE ApiNext BY Zenon, <1>3, <1>4, <1>8, ApiShape DEF Created
<1>9. CASE WorkerNext BY ZenonT(60), <1>5, <1>6, <1>7, <1>9, CommitAgrees DEF WorkerNext, LeasesOnly
<1> QED BY Zenon, <1>7, <1>8, <1>9 DEF Next, LeasesOnly

(* commitStepResult, for every plan: each step is counted once, and the    *)
(* operation is succeeded exactly when all its steps are and failed        *)
(* exactly when one is.  validate.go's "at least one step" is what keeps   *)
(* an operation from being born complete.                                  *)
THEOREM VerdictIsSound == Spec => []OutcomeMatchesSteps
<1>1. Init => OutcomeMatchesSteps
  <2> SUFFICES ASSUME Init, NEW o \in Ops PROVE Agrees(o)
    BY Zenon DEF OutcomeMatchesSteps, Agrees
  <2>1. \A r \in {"succeeded", "failed"} : WithStatus(o, r) = {}
    BY Zenon DEF Init, WithStatus, StepsOf
  <2>2. StepsOf(o) # {} BY Zenon, StoreAssumption DEF StepsOf
  <2> QED BY Zenon, <2>1, <2>2, FS_EmptySet DEF Init, Agrees, Absent
<1> QED BY <1>1, OutcomeStep, TypeCorrect, PTL DEF Spec
=============================================================================
