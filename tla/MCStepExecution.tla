--------------------------- MODULE MCStepExecution ---------------------------
(* One operation with one or two steps, one or two workers. *)
EXTENDS StepExecution, TLC

CONSTANTS o1, s1, s2, w1, w2

MCOpOf == [s \in Steps |-> o1]
MCNoDependencies == [s \in Steps |-> {}]
MCWorkerSymmetry == Permutations(Workers)
=============================================================================
