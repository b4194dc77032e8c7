---------------------------- MODULE FencedProvider ----------------------------
(***************************************************************************)
(* What a runtime provider promises about one external resource (RDI-005): *)
(* the resource remembers the generation of its last write, a request with *)
(* a lower one never writes, success is answered only while the request's  *)
(* own write is the last one, and "fenced" only when a newer one exists.   *)
(* The provider part of StepExecution takes exactly these steps.           *)
(***************************************************************************)
EXTENDS Naturals

CONSTANTS
  Requests,     \* requests the provider receives
  Generation    \* [Requests -> Nat], their fencing generations

VARIABLES
  written,      \* generation of the last write, 0 if there is no resource
  answer        \* the answer to each request

fenceVars == <<written, answer>>

Init ==
  /\ written = 0
  /\ answer = [r \in Requests |-> "none"]

Write(r) ==
  /\ answer[r] = "none"
  /\ Generation[r] >= written
  /\ written' = Generation[r]
  /\ UNCHANGED answer

Reply(r, a) ==
  /\ answer[r] = "none"
  /\ answer' = [answer EXCEPT ![r] = a]
  /\ UNCHANGED written

Succeed(r) == written = Generation[r] /\ Reply(r, "succeeded")

Fence(r) == written > Generation[r] /\ Reply(r, "fenced")

Fail(r) == Reply(r, "failed")

(* Somebody else removes the resource, and the fence with it. *)
Lose == written' = 0 /\ UNCHANGED answer

Next == Lose \/ \E r \in Requests : Write(r) \/ Succeed(r) \/ Fence(r) \/ Fail(r)

Spec == Init /\ [][Next]_fenceVars
=============================================================================
