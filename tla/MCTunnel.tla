------------------------------ MODULE MCTunnel ------------------------------
(***************************************************************************)
(* Four scenarios, chosen in the initial state; each restricts which       *)
(* agents run, which requests are made and which faults happen.  What has  *)
(* to happen by fairness is never restricted.                              *)
(*   alone     the only agent of a cluster, a fault, and a second request  *)
(*             under the same ID while the first one's answer is due       *)
(*   pair      the only agent of a cluster and two requests at a time      *)
(*   rollover  two agent processes of one cluster replace each other       *)
(*   clusters  the same request ID in two clusters                         *)
(***************************************************************************)
EXTENDS AgentTunnel

CONSTANTS k1, k2, a1, a2, a3, q1, q2, i1

VARIABLE scenario

MCClusterOf == [a \in Agents |-> IF a = a3 THEN k2 ELSE k1]

Running == CASE scenario \in {"alone", "pair"} -> {a1}
             [] scenario = "rollover" -> {a1, a2}
             [] scenario = "clusters" -> {a1, a3}

\* The call of q is made in this step.
Made(q) == request[q].pc = "new" /\ request'[q].pc # "new"

Allowed ==
  /\ Made(q1) => request'[q1].id = i1 /\ request'[q1].target = k1
  /\ Made(q2) => request[q1].pc # "new" /\ request'[q2].target = IF scenario = "clusters" THEN k2 ELSE k1
  /\ Made(q2) /\ scenario # "pair" => request'[q2].id = i1
  /\ Made(q2) /\ scenario = "alone" => request[q1].pc = "done" /\ q1 \in working[a1]
  /\ Made(q1) => scenario # "rollover" /\ (scenario = "clusters" => registry[k2] # None)
  /\ scenario # "alone" => faults' = 0

MCInit ==
  /\ TunnelInit
  /\ scenario \in {"alone", "pair", "rollover", "clusters"}
  /\ \A a \in Agents : agent[a].pc = "absent" <=> a \notin Running
MCNext == TunnelNext /\ Allowed /\ UNCHANGED scenario
MCSpec == MCInit /\ [][MCNext]_<<vars, scenario>> /\ TunnelFairness
==============================================================================
