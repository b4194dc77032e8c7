--------------------------- MODULE OperationStates ---------------------------
(***************************************************************************)
(* The status vocabulary of operations and steps and the declared table of *)
(* status transitions, shared by platform-api (store/state.go) and by      *)
(* operation-worker (engine/state.go).                                     *)
(***************************************************************************)

(* "absent" is not a status of the code: no row of the operation exists. *)
Absent == "absent"

Statuses == {"pending", "pending_approval", "queued", "queued_offline",
             "in_progress", "paused", "compensating",
             "succeeded", "failed", "cancelled"}

TerminalStates == {"succeeded", "failed", "cancelled"}

IsTerminal(status) == status \in TerminalStates

(* The two statuses in which AcquireLease and commitStepResult accept work. *)
RunnableStates == {"queued", "in_progress"}

(* The step statuses that are ever written; running, skipped and compensated *)
(* are declared and never stored.                                            *)
StepStatuses == {"pending", "succeeded", "failed"}

validTransitions ==
  {<<"pending", "pending_approval">>, <<"pending", "queued">>, <<"pending", "cancelled">>,
   <<"pending_approval", "queued">>, <<"pending_approval", "cancelled">>,
   <<"queued", "in_progress">>, <<"queued", "queued_offline">>, <<"queued", "cancelled">>,
   <<"queued_offline", "in_progress">>, <<"queued_offline", "failed">>,
   <<"in_progress", "succeeded">>, <<"in_progress", "failed">>,
   <<"in_progress", "paused">>, <<"in_progress", "compensating">>,
   <<"paused", "in_progress">>, <<"paused", "compensating">>, <<"paused", "cancelled">>,
   <<"compensating", "failed">>, <<"compensating", "cancelled">>}

CanTransition(from, to) == from # to /\ <<from, to>> \in validTransitions
=============================================================================
