----------------------------- MODULE MCAdmission -----------------------------
(***************************************************************************)
(* Five scenarios, chosen in the initial state; each lets some of the      *)
(* actors act and keeps the others quiet.                                  *)
(*   reports   one agent process, two nodes, late and lost reports         *)
(*   restarts  two agent processes, two generations, one node              *)
(*   bindings  one agent process, two storage classes, edited bindings     *)
(*   intents   two callers and the projector race on one target            *)
(*   batch     two callers, a batch over two targets and single requests   *)
(***************************************************************************)
EXTENDS IntentAdmission, TLC

CONSTANTS n1, n2, k1, k2, t1, t2, c1, c2, create1, delete1, delete2, b1

VARIABLE scenario

Scenarios == {"reports", "restarts", "bindings", "intents", "batch"}

MCChildKey == [b \in Batches |-> [t \in Targets |-> IF t = t1 THEN delete1 ELSE delete2]]

\* An operator repairs the binding, rejects it, and retires it.
MCBindingInputs ==
  {[class |-> k2, sync |-> "Active", freshness |-> "Fresh"],
   [class |-> k1, sync |-> "Rejected", freshness |-> "Fresh"],
   [class |-> k1, sync |-> "Retired", freshness |-> "Unknown"]}

Agents == scenario \in {"reports", "restarts", "bindings"}

MCSymmetry == Permutations(Nodes) \cup Permutations(Callers)

\* Callers that serve a single request, or a child of a batch, on the way to its
\* operation.
Serving == {c \in Callers : requests'[c].pc \notin {"idle", "children"}}
Single == {c \in Serving : requests'[c].batch = NoBatch}

\* What each scenario allows, over the state after the step.
Allowed ==
  /\ Agents => (row[t1].fresh => row'[t1].fresh)
  /\ scenario \in {"reports", "bindings"} => producer'.run = 1
  /\ scenario = "restarts" => cluster'.nodes \in {{}, Nodes} /\ producer'.sequence <= 3
  /\ scenario = "bindings" =>
       /\ cluster'.nodes \in {{}, Nodes} /\ producer'.sequence <= 3
       /\ cursor' # NoCursor => cursor'.generation = 1
  /\ scenario # "bindings" =>
       /\ cluster'.class # k2
       /\ \/ binding' \in {binding, [binding EXCEPT !.freshness = "Stale"]}
          \/ binding'.class = k1 /\ binding'.judged = {k1}
  /\ ~Agents => /\ cluster' = cluster /\ binding' = binding
                /\ producer'.run = 1 /\ producer'.sequence <= 2
                /\ cursor' # NoCursor => cursor'.generation = 1
  /\ scenario = "intents" =>
       /\ batches' = batches
       /\ \A k \in Keys : operations'[k] # NoOperation => operations'[k].status \notin Ended
       /\ \A c \in Serving : <<requests'[c].key, requests'[c].content.target>>
                              \in {<<create1, t1>>, <<create1, t2>>, <<delete1, t1>>}
  /\ scenario = "batch" =>
       /\ challenges' = {}
       /\ \A c \in Single : <<requests'[c].key, requests'[c].content.target>> = <<delete1, t1>>
       /\ Cardinality(Single) <= 1

MCInit == AdmInit /\ scenario \in Scenarios /\ (Agents => exists = Targets)
MCNext ==
  /\ IF Agents THEN Observation ELSE AdmNext
  /\ Allowed
  /\ UNCHANGED scenario
MCSpec == MCInit /\ [][MCNext]_<<vars, scenario>>
==============================================================================
