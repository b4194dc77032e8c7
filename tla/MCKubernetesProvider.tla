------------------------- MODULE MCKubernetesProvider -------------------------
(* A deploy, a delete that names the first object, a newer deploy of the    *)
(* same step that disagrees on the image, and one that may take over the    *)
(* live object as well as bring its tombstone back.                         *)
EXTENDS KubernetesProvider

CONSTANTS first, removal, differing, again, t1, a, b, v1, v2

X(type, step, generation, image, uid) ==
  [stepType |-> type, tenant |-> t1, step |-> step, generation |-> generation,
   image |-> image, replicas |-> 1, expectedUID |-> uid]

MCExecutionOf ==
  [r \in Requests |->
     CASE r = first     -> X("deploy", a, 1, v1, 0)
       [] r = removal   -> X("delete", b, 2, v1, 1)
       [] r = differing -> X("deploy", a, 3, v2, 0)
       [] r = again     -> X("deploy", a, 4, v1, 1)]
=============================================================================
