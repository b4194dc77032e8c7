------------------------------- MODULE DRSwitch -------------------------------
(***************************************************************************)
(* Disaster recovery on top of controlled traffic changes: apiserver       *)
(* application/dr.  A run of a protection group waits for the data layer   *)
(* and then submits one switch request per traffic member through the      *)
(* entry of GSLBSwitch; what becomes of them is read back from their rows. *)
(***************************************************************************)
EXTENDS GSLBSwitch

CONSTANTS
  Groups,      \* protection groups
  Runs,        \* switch runs: a group and an idempotency key each
  GroupOf,     \* [Runs -> Groups]
  RequestFor,  \* [Runs -> [Services -> DRRequests]]: key <run key>-<service>
  NoRun,
  Callers,     \* calls of InitiateSwitch and ConfirmDataLayer in progress
  DataMember   \* a member of the data layer; traffic members are services

ASSUME DRAssumption ==
  /\ GroupOf \in [Runs -> Groups]
  /\ RequestFor \in [Runs -> [Services -> DRRequests]]
  /\ \A k, l \in Runs, s, t \in Services :
       RequestFor[k][s] = RequestFor[l][t] => k = l /\ s = t
  /\ \A k \in Runs, s \in Services : ServiceOf[RequestFor[k][s]] = s
  /\ NoRun \notin Runs
  /\ DataMember \notin Services

RunStatuses == {"absent", "DataLayerPending", "DataLayerCompleted", "TrafficDispatched",
                "AwaitingApproval", "Failed"}

VARIABLES
  members,  \* dr_group_members
  runs,     \* dr_switch_runs: status and traffic_request_ids
  runOps,   \* the linked operation and its read model row, written together
  call      \* the run a caller works on, where it is, the members it read, the ids it collected

drVars == <<members, runs, runOps, call>>

Idle == [pc |-> "idle", run |-> NoRun, members |-> {}, ids |-> {}]

DRInit ==
  /\ Init
  /\ members = [g \in Groups |-> {}]
  /\ runs = [k \in Runs |-> [status |-> "absent", ids |-> {}]]
  /\ runOps = [k \in Runs |-> "absent"]
  /\ call = [a \in Callers |-> Idle]

-----------------------------------------------------------------------------
TrafficMembers(all) == all \ {DataMember}

\* Where a caller is, for which run, with which members left and which requests submitted.
Calls(a, pc, k, left, ids) ==
  call' = [call EXCEPT ![a] = [pc |-> pc, run |-> k, members |-> left, ids |-> ids]]

Returns(a) == call' = [call EXCEPT ![a] = Idle]

operationStatusForRun(status) == IF status = "Failed" THEN "failed" ELSE "in_progress"

Event(k, subject) == <<"dr", k, subject>>

\* Status, traffic_request_ids and the operation rows change in one transaction with the event;
\* the status the row has by then is not looked at.
UpdateRun(k, status, ids, subject) ==
  /\ Emit({Event(k, subject)})
  /\ runs' = [runs EXCEPT ![k] = [status |-> status, ids |-> ids]]
  /\ runOps' = [runOps EXCEPT ![k] = operationStatusForRun(status)]

AddMember(g, m) ==
  /\ m \notin members[g]
  /\ members' = [members EXCEPT ![g] = @ \cup {m}]
  /\ UNCHANGED <<vars, runs, runOps, call>>

\* InitiateSwitch: a known key answers with its run, an active run of the group is a conflict.
InitiateSwitch(a, k) ==
  /\ call[a].pc = "idle"
  /\ runs[k].status = "absent"
  /\ \A l \in Runs : GroupOf[l] = GroupOf[k] => runs[l].status \in {"absent", "Failed"}
  /\ TrafficMembers(members[GroupOf[k]]) # {}
  /\ Calls(a, "create", k, members[GroupOf[k]], {})
  /\ UNCHANGED <<vars, members, runs, runOps>>

\* Variant: the traffic layer starts at once.
CreateRunAndDispatch(a) ==
  LET k == call[a].run
  IN /\ call[a].pc = "create"
     /\ runs[k].status = "absent"
     /\ UpdateRun(k, "DataLayerPending", {}, "initiated")
     /\ Calls(a, "dispatch", k, TrafficMembers(call[a].members), {})
     /\ UNCHANGED <<requests, operations, opViews, drills, commands, queue, readModel, session, job,
                    deciding, dns, members>>

\* Without data members the traffic layer starts at once.
CreateRun(a) ==
  LET k == call[a].run
      ready == DataMember \notin call[a].members
  IN /\ call[a].pc = "create"
     /\ runs[k].status = "absent"
     /\ UpdateRun(k, IF ready THEN "DataLayerCompleted" ELSE "DataLayerPending", {}, "initiated")
     /\ IF ready THEN Calls(a, "dispatch", k, TrafficMembers(call[a].members), {}) ELSE Returns(a)
     /\ UNCHANGED <<requests, operations, opViews, drills, commands, queue, readModel, session, job,
                    deciding, dns, members>>

\* ConfirmDataLayer reads the run and the members ...
ReadRun(a, k) ==
  /\ call[a].pc = "idle"
  /\ runs[k].status = "DataLayerPending"
  /\ Calls(a, "confirm", k, TrafficMembers(members[GroupOf[k]]), {})
  /\ UNCHANGED <<vars, members, runs, runOps>>

\* Variant: the outbox takes a second confirmation.
ConfirmDataLayerTwice(a) ==
  LET k == call[a].run
  IN /\ call[a].pc = "confirm"
     /\ outbox' = outbox \cup {Event(k, "confirmed")}
     /\ runs' = [runs EXCEPT ![k].status = "DataLayerCompleted"]
     /\ UNCHANGED runOps
     /\ Calls(a, "dispatch", k, call[a].members, {})
     /\ UNCHANGED <<requests, operations, opViews, drills, commands, queue, readModel, session, job,
                    deciding, dns, members>>

\* ... and records the confirmation; the key of the event lets only one caller through.
ConfirmDataLayer(a) ==
  LET k == call[a].run
  IN /\ call[a].pc = "confirm"
     /\ UpdateRun(k, "DataLayerCompleted", runs[k].ids, "confirmed")
     /\ Calls(a, "dispatch", k, call[a].members, {})
     /\ UNCHANGED <<requests, operations, opViews, drills, commands, queue, readModel, session, job,
                    deciding, dns, members>>

\* dispatchTraffic: one intent per member, each a transaction of its own.
DispatchMember(a, s) ==
  LET k == call[a].run
      r == RequestFor[k][s]
  IN /\ call[a].pc = "dispatch" /\ s \in call[a].members
     /\ \/ /\ SubmitIntent(r) \/ (requests[r] # "absent" /\ UNCHANGED tables)
           /\ Calls(a, "dispatch", k, call[a].members \ {s}, call[a].ids \cup {r})
        \/ /\ UNCHANGED tables  \* no pool, no members, no permission, a failed query
           /\ Calls(a, "fail", k, call[a].members, call[a].ids)
     /\ UNCHANGED <<queue, readModel, session, job, deciding, dns, members, runs, runOps>>

FinishDispatch(a) ==
  /\ call[a].pc = "dispatch" /\ call[a].members = {}
  /\ UpdateRun(call[a].run, "AwaitingApproval", call[a].ids, "dispatched")
  /\ Returns(a)
  /\ UNCHANGED <<requests, operations, opViews, drills, commands, queue, readModel, session, job,
                 deciding, dns, members>>

failRun(a) ==
  LET k == call[a].run
  IN /\ call[a].pc = "fail"
     /\ UpdateRun(k, "Failed", runs[k].ids, "status-changed")
     /\ Returns(a)
     /\ UNCHANGED <<requests, operations, opViews, drills, commands, queue, readModel, session, job,
                    deciding, dns, members>>

\* The transaction aborts, the call is cancelled or apiserver dies; nothing resumes the run.
CallEnds(a) ==
  /\ call[a].pc # "idle"
  /\ Returns(a)
  /\ UNCHANGED <<vars, members, runs, runOps>>

DRStep ==
  \/ \E g \in Groups, m \in Services \cup {DataMember} : AddMember(g, m)
  \/ \E a \in Callers :
       \/ \E k \in Runs : InitiateSwitch(a, k) \/ ReadRun(a, k)
       \/ CreateRun(a) \/ ConfirmDataLayer(a) \/ FinishDispatch(a) \/ failRun(a) \/ CallEnds(a)
       \/ \E s \in Services : DispatchMember(a, s)

DRNext == DRStep \/ (Next /\ UNCHANGED drVars)

DRSpec == DRInit /\ [][DRNext]_<<vars, drVars>>

-----------------------------------------------------------------------------
(* Properties *)

\* Every run and every call in progress has its type.
DRTypeOK ==
  /\ members \in [Groups -> SUBSET (Services \cup {DataMember})]
  /\ runs \in [Runs -> [status : RunStatuses, ids : SUBSET DRRequests]]
  /\ runOps \in [Runs -> {"absent", "in_progress", "failed"}]
  /\ call \in [Callers -> [pc : {"idle", "create", "confirm", "dispatch", "fail"},
                           run : Runs \cup {NoRun}, members : SUBSET (Services \cup {DataMember}),
                           ids : SUBSET DRRequests]]

Submissions(k) == {r \in {RequestFor[k][s] : s \in Services} : requests[r] # "absent"}

\* aggregateRuns: what a reader of the group is told.
aggregateRuns(k) ==
  LET states == {requests[r] : r \in runs[k].ids}
  IN IF runs[k].status # "AwaitingApproval" \/ runs[k].ids = {} THEN runs[k].status
     ELSE IF states \cap {"Failed", "Rejected"} # {} THEN "Failed"
     ELSE IF states = {"Succeeded"} THEN "Completed" ELSE runs[k].status

\* No traffic request of a run exists before the data layer is switched: while the run waits for the
\* confirmation nothing was submitted for it, however calls interleave or die (OBS-008).
DataLayerFirst ==
  \A k \in Runs : runs[k].status \in {"absent", "DataLayerPending"} => Submissions(k) = {}

\* A run that waits for its traffic requests has all of them on record, so that a run reported as
\* completed has switched everything it asked for: only one caller ever dispatches a run, also when
\* members join in between and two callers confirm the data layer at once.
RunTracksItsRequests ==
  \A k \in Runs :
    /\ runs[k].status = "AwaitingApproval" => runs[k].ids = Submissions(k)
    /\ aggregateRuns(k) = "Completed" => \A r \in Submissions(k) : requests[r] = "Succeeded"
===============================================================================
