-------------------------- MODULE MCOperationStore ---------------------------
(* One operation with two steps, two interchangeable workers. *)
EXTENDS OperationStore, TLC

CONSTANTS o1, s1, s2, w1, w2

MCOpOf == [s \in Steps |-> o1]
MCNoDependencies == [s \in Steps |-> {}]
MCSymmetry == Permutations(Workers)
=============================================================================
