-------------------------------- MODULE MCGSLB --------------------------------
(***************************************************************************)
(* Instance for TLC.  Service s1 asks for approval, s2 does not; both are  *)
(* members of one protection group.  A behaviour plays one scenario, which *)
(* says which requests come to exist, which replicas of the controller     *)
(* run, which callers use disaster recovery and whether the operation      *)
(* centre is used; what an action does is the same in all of them.         *)
(***************************************************************************)
EXTENDS DRSwitch, TLC

CONSTANTS u1, u2, s1, s2, a1, a2, f1, w2, t1, d1, d2, b1, b2, k1, k2, c1, c2, y1, y2,
          p1, q1, p2, q2, x, y, g1

VARIABLE scenario

MCServiceOf == (a1 :> s1) @@ (f1 :> s1) @@ (t1 :> s1) @@ (d1 :> s1) @@ (b1 :> s1)
            @@ (a2 :> s2) @@ (w2 :> s2) @@ (d2 :> s2) @@ (b2 :> s2)
MCKindOf == [r \in {a1, a2, f1, d1, d2} |-> "failover"] @@ (w2 :> "weight-update")
            @@ (t1 :> "drill") @@ [r \in {b1, b2} |-> "switchback"]
MCKeyOf == [r \in Requests |-> r]
MCTargetPool == [r \in Requests |-> IF r \in {f1, t1} THEN q1 ELSE NoPool]
MCAutoRequest == (s1 :> a1) @@ (s2 :> a2)
MCPoolsOf == (s1 :> {p1, q1}) @@ (s2 :> {p2, q2})
MCActivePool == (s1 :> p1) @@ (s2 :> p2)
MCPriority == [p \in {p1, p2} |-> 1] @@ [p \in {q1, q2} |-> 2]
MCMembers == [p \in {p1, p2} |-> {x}] @@ [p \in {q1, q2} |-> {y}]
MCGroupOf == [k \in Runs |-> g1]
MCRequestFor == (k1 :> ((s1 :> d1) @@ (s2 :> d2))) @@ (k2 :> ((s1 :> b1) @@ (s2 :> b2)))

Scenario(reqs, users, replicas, callers, centre) ==
  [requests |-> reqs, users |-> users, replicas |-> replicas, callers |-> callers, centre |-> centre]

Scenarios == {Scenario({f1}, {u1, u2}, {c1, c2}, {}, FALSE),
              Scenario({f1}, {u1, u2}, {c1}, {}, TRUE),
              Scenario({a1}, {u1}, {c1}, {}, FALSE),
              Scenario({a1, f1}, {}, {c1, c2}, {}, FALSE),
              Scenario({w2, t1}, {}, {c1}, {}, FALSE),
              Scenario({d1, d2, b1}, {}, {}, {y1, y2}, FALSE),
              Scenario({b1}, {u1}, {c1}, {y1}, FALSE)}

InScenario ==
  /\ \A r \in Requests \ scenario.requests : requests'[r] = "absent"
  /\ \A c \in Controllers \ scenario.replicas : job'[c] = job[c] /\ deciding'[c] = deciding[c]
  /\ \A c \in Controllers : deciding'[c] \subseteq {s \in Services : AutoRequest[s] \in scenario.requests}
  /\ \A u \in Users \ scenario.users : session'[u] = session[u]
  /\ \A a \in Callers \ scenario.callers : call'[a] = call[a]
  /\ scenario.callers = {} => members' = members
  /\ ~scenario.centre => operations' = operations \/ requests' # requests
  /\ (scenario.requests \cap (Autos \cup {t1}) = {}) => readModel' = readModel

MCInit == DRInit /\ scenario \in Scenarios

MCNext == DRNext /\ InScenario /\ UNCHANGED scenario

MCSpec == MCInit /\ [][MCNext]_<<vars, drVars, scenario>>
===============================================================================
