-------------------------- MODULE TargetObservation --------------------------
(***************************************************************************)
(* How the state of a cluster reaches the platform: the observation        *)
(* producer and reporter of cluster-agent, and the projector of            *)
(* platform-api that orders the reports by (generation, sequence) and      *)
(* writes the read model.                                                  *)
(*                                                                         *)
(* A report is one POST.  The agent waits at most 30 seconds for the       *)
(* answer and looks at nothing but success or failure, so a report may     *)
(* still be under way at the platform when the agent makes the next one    *)
(* or is restarted: `calls' holds every report that may still arrive.      *)
(* The projector reads the cursor in one statement and writes everything   *)
(* in a later transaction; the two are separate actions here.              *)
(*                                                                         *)
(* A storage class binding has other writers: the operators, through the   *)
(* binding requests of apiserver, and the import script.  They store the   *)
(* sync_state and the freshness they are given, and may commit while the   *)
(* projector is between reading the bindings and writing them.             *)
(***************************************************************************)
EXTENDS Naturals, FiniteSets

CONSTANTS
  Targets,        \* runtime targets
  Observed,       \* the target whose agent is modelled
  Nodes,          \* node identities of its cluster
  Classes,        \* a storage class: identity and resource version together
  BoundClass,     \* the storage class the binding is made for at first
  BindingInputs,  \* the class, sync_state and freshness operators ask for
  NoClass,        \* no such storage class
  Unchanged,      \* a report without a storage inventory
  NoCursor,       \* no row in runtime_target_observation_cursors
  MaxSequence,    \* bound on the sequence of one agent process
  MaxGeneration,  \* bound on observer generations
  MaxRuns,        \* bound on agent processes
  MaxCalls        \* bound on reports under way at one time

SyncStates == {"Discovered", "Imported", "Active", "Drifted", "Rejected", "Retired"}
Freshness == {"Fresh", "Stale", "Unknown"}

ASSUME ObservationAssumption ==
  /\ Observed \in Targets
  /\ BoundClass \in Classes
  /\ BindingInputs \subseteq [class : Classes, sync : SyncStates, freshness : Freshness]
  /\ NoClass \notin Classes /\ Unchanged \notin Classes \cup {NoClass}
  /\ NoCursor \notin [generation : Nat, sequence : Nat]
  /\ MaxSequence \in Nat /\ MaxCalls \in Nat
  /\ MaxGeneration \in Nat \ {0} /\ MaxRuns \in Nat \ {0}

VARIABLES
  cluster,     \* what is really there: its nodes and its storage class
  producer,    \* the agent process: its number, generation, next sequence, cached inventory
  calls,       \* reports posted and not yet finished with
  cursor,      \* the projector's cursor row
  projection,  \* the read model: nodes without deleted_at, the storage class
  binding,     \* a row of storage_class_bindings, and the class its last verdict was about
  row          \* runtime_targets: projection_version, observation position, freshness

obsVars == <<cluster, producer, calls, cursor, projection, binding, row>>

Observations ==
  [run : 1..MaxRuns, generation : 1..MaxGeneration, sequence : 1..MaxSequence,
   mode : {"Full", "Delta"}, nodes : SUBSET Nodes, removed : SUBSET Nodes,
   storage : BOOLEAN, class : Classes \cup {NoClass, Unchanged}]

\* A binding nobody has judged.  `judged' is history: the class the projector's
\* verdict in this row is about, none once another writer has stored the row.
Unjudged(class, sync, freshness) ==
  [class |-> class, sync |-> sync, freshness |-> freshness, judged |-> {}]

NoBinding == Unjudged(NoClass, "absent", "Unknown")

\* A target as provisionRuntimeTargetTx creates it.
NewRow == [version |-> 0, generation |-> 0, revision |-> 0, fresh |-> FALSE]

ObsInit ==
  /\ cluster = [nodes |-> {}, class |-> BoundClass]
  /\ producer = [run |-> 1, generation |-> 1, sequence |-> 1, nodes |-> {}, class |-> Unchanged]
  /\ calls = {}
  /\ cursor = NoCursor
  /\ projection = [nodes |-> {}, class |-> NoClass]
  /\ binding = Unjudged(BoundClass, "Active", "Stale")
  /\ row = [t \in Targets |-> NewRow]

------------------------------------------------------------------------------
(* The agent. *)

\* Nodes join and leave, the storage class is edited, deleted or recreated.
ClusterChanges(nodes, class) ==
  /\ cluster' = [nodes |-> nodes, class |-> class]
  /\ UNCHANGED <<producer, calls, cursor, projection, binding, row>>

\* What changed since the cached inventory; the storage part is left out of a
\* report when nothing in it changed.
diffStorageInventory(previous, current) == IF current = previous THEN Unchanged ELSE current

\* A report under the next sequence number.  `other': some storage fact other
\* than the class changed.
newObservation(mode, nodes, removed, class, other) ==
  [run |-> producer.run, generation |-> producer.generation, sequence |-> producer.sequence,
   mode |-> mode, nodes |-> nodes, removed |-> removed,
   storage |-> other \/ class # Unchanged, class |-> class]

FullWithStorage(other) == newObservation("Full", cluster.nodes, {}, cluster.class, other)

\* The nodes that are new, and a tombstone for each cached node that is gone.
DeltaFromCacheWithStorage(other) ==
  newObservation("Delta", cluster.nodes \ producer.nodes, producer.nodes \ cluster.nodes,
                 diffStorageInventory(producer.class, cluster.class), other)

\* ReportOnce: a full report while the cached inventory is empty.  The sequence
\* number is used up and the inventory is cached before the report is posted.
ReportOnce(other) ==
  /\ producer.sequence <= MaxSequence
  /\ Cardinality(calls) < MaxCalls
  /\ LET report == IF producer.nodes = {} THEN FullWithStorage(other)
                   ELSE DeltaFromCacheWithStorage(other)
     IN calls' = calls \cup {[report |-> report, admitted |-> FALSE]}
  /\ producer' = [producer EXCEPT !.sequence = @ + 1, !.nodes = cluster.nodes,
                                  !.class = cluster.class]
  /\ UNCHANGED <<cluster, cursor, projection, binding, row>>

\* encode refuses a report of more than 1 MiB: the sequence number is used up.
EncodeFails ==
  /\ producer.sequence <= MaxSequence
  /\ producer' = [producer EXCEPT !.sequence = @ + 1]
  /\ UNCHANGED <<cluster, calls, cursor, projection, binding, row>>

\* Variant: the sequence of a new process is not raised to 1.
NewProducerFromZero(generation) ==
  /\ producer.run < MaxRuns
  /\ generation \in producer.generation..MaxGeneration
  /\ producer' = [run |-> producer.run + 1, generation |-> generation, sequence |-> 0,
                  nodes |-> {}, class |-> Unchanged]
  /\ UNCHANGED <<cluster, calls, cursor, projection, binding, row>>

\* A new agent process: generation as configured, sequence 1, an empty cache.
NewProducer(generation) ==
  /\ producer.run < MaxRuns
  /\ generation \in producer.generation..MaxGeneration
  /\ producer' = [run |-> producer.run + 1, generation |-> generation, sequence |-> 1,
                  nodes |-> {}, class |-> Unchanged]
  /\ UNCHANGED <<cluster, calls, cursor, projection, binding, row>>

\* The report, or the platform's work on it, is lost: the connection breaks, the
\* platform process dies, a statement fails and its transaction rolls back.
CallLost(c) ==
  /\ c \in calls
  /\ calls' = calls \ {c}
  /\ UNCHANGED <<cluster, producer, cursor, projection, binding, row>>

------------------------------------------------------------------------------
(* The operators: what their requests make of the binding. *)

\* What validBindingInput lets through is stored as it was sent.
Stored == {Unjudged(i.class, i.sync, i.freshness) : i \in BindingInputs}

CreateBinding == IF binding = NoBinding THEN Stored ELSE {}

\* Only under the version the row has, which the projector never raises.  A
\* binding that is given another target is gone from this one.
UpdateBinding == IF binding # NoBinding THEN Stored ELSE {}

DeleteBinding == {NoBinding}

\* import-observed-storage-classes.sql binds the class of the read model; a row
\* that is there is left alone, or the whole import fails.
ImportBinding ==
  IF binding = NoBinding /\ projection.class # NoClass
  THEN {Unjudged(projection.class, "Imported", freshness) : freshness \in {"Fresh", "Stale"}}
  ELSE {}

Edits == CreateBinding \cup UpdateBinding \cup DeleteBinding \cup ImportBinding

EditBinding ==
  /\ binding' \in Edits
  /\ UNCHANGED <<cluster, producer, calls, cursor, projection, row>>

------------------------------------------------------------------------------
(* The projector. *)

\* Variant: a gap in the sequence is accepted.
NextInOrderWithGaps(o) ==
  IF cursor = NoCursor THEN o.generation = 1
  ELSE o.generation = cursor.generation /\ o.sequence > cursor.sequence

\* The report is the next one of the generation the cursor stands at; without a
\* cursor only the very first report of generation 1 is.
NextInOrder(o) ==
  IF cursor = NoCursor THEN o.generation = 1 /\ o.sequence = 1
  ELSE o.generation = cursor.generation /\ o.sequence = cursor.sequence + 1

\* Accept up to SaveObservation.  Anything out of order is answered (replayed,
\* sequence_gap, observer_fenced, conflict) and changes nothing in the read model.
Accept(c) ==
  /\ c \in calls
  /\ ~c.admitted
  /\ calls' = IF NextInOrder(c.report)
              THEN (calls \ {c}) \cup {[c EXCEPT !.admitted = TRUE]}
              ELSE calls \ {c}
  /\ UNCHANGED <<cluster, producer, cursor, projection, binding, row>>

\* An empty node list is left out of the JSON and read back as no node list at
\* all: then even a Full report leaves the projected nodes alone.
projectNodes(o) ==
  IF o.nodes = {} /\ o.removed = {} THEN projection.nodes
  ELSE IF o.mode = "Full" THEN o.nodes
  ELSE (projection.nodes \cup o.nodes) \ o.removed

\* The storage facts: upserts and tombstones of the report, the rest is kept.
projectStorageInventory(o) == IF o.class = Unchanged THEN projection.class ELSE o.class

\* Variant: the drift of a binding is judged before the report is applied.
projectStorageBindingDriftEarly(o, stale, now) ==
  LET judges == o.storage /\ binding.sync \notin {"absent", "Retired"} /\ now # NoBinding IN
  CASE ~judges -> now
    [] judges /\ stale -> [now EXCEPT !.freshness = "Stale"]
    [] judges /\ ~stale ->
         [class |-> now.class,
          sync |-> IF projection.class = binding.class THEN "Active" ELSE "Drifted",
          freshness |-> "Fresh", judged |-> {binding.class}]

\* Only a report with a storage inventory judges the bindings, by the facts as
\* they are after the report.  The row is read without a lock and written by its
\* id: `now' is the row as it is by then, and keeps its class.  `stale': the
\* stored fact is older than the target's threshold, then sync_state is kept.
projectStorageBindingDrift(o, stale, now) ==
  LET judges == o.storage /\ binding.sync \notin {"absent", "Retired"} /\ now # NoBinding IN
  CASE ~judges -> now
    [] judges /\ stale -> [now EXCEPT !.freshness = "Stale"]
    [] judges /\ ~stale ->
         [class |-> now.class,
          sync |-> IF projectStorageInventory(o) = binding.class THEN "Active" ELSE "Drifted",
          freshness |-> "Fresh", judged |-> {binding.class}]

\* SaveObservation: one transaction over target row, nodes, storage facts,
\* bindings and cursor.  The cursor is overwritten whatever it holds by now.
\* `now': the binding, edited or not since this transaction read it.
SaveObservation(c, stale, now) ==
  LET o == c.report IN
  /\ c \in calls
  /\ c.admitted
  /\ calls' = calls \ {c}
  /\ row' = [row EXCEPT ![Observed] =
       [version |-> @.version + (IF o.storage THEN 1 ELSE 0),
        generation |-> o.generation, revision |-> o.sequence, fresh |-> TRUE]]
  /\ projection' = [nodes |-> projectNodes(o), class |-> projectStorageInventory(o)]
  /\ binding' = projectStorageBindingDrift(o, stale, now)
  /\ cursor' = [generation |-> o.generation, sequence |-> o.sequence]
  /\ UNCHANGED <<cluster, producer>>

\* POST /v1/observations/reset names the committed generation and a later one.
ApplySourceReset(generation) ==
  /\ cursor # NoCursor
  /\ generation \in (cursor.generation + 1)..MaxGeneration
  /\ cursor' = [generation |-> generation, sequence |-> 0]
  /\ UNCHANGED <<cluster, producer, calls, projection, binding, row>>

\* Nothing was heard of the target for longer than its threshold.
TargetAges(t) ==
  /\ row[t].fresh
  /\ row' = [row EXCEPT ![t].fresh = FALSE]
  /\ UNCHANGED <<cluster, producer, calls, cursor, projection, binding>>

Agent ==
  \/ \E nodes \in SUBSET Nodes, class \in Classes \cup {NoClass} : ClusterChanges(nodes, class)
  \/ \E other \in BOOLEAN : ReportOnce(other)
  \/ EncodeFails
  \/ \E generation \in 1..MaxGeneration : NewProducer(generation)
  \/ \E c \in calls : CallLost(c)

Projector ==
  \/ \E c \in calls : Accept(c)
  \/ \E c \in calls, stale \in BOOLEAN, now \in {binding} \cup Edits : SaveObservation(c, stale, now)
  \/ \E generation \in 1..MaxGeneration : ApplySourceReset(generation)
  \/ \E t \in Targets : TargetAges(t)

ObsNext == Agent \/ EditBinding \/ Projector

ObsSpec == ObsInit /\ [][ObsNext]_obsVars

------------------------------------------------------------------------------
(* Properties. *)

\* Types of the agent's and the projector's state; no more reports are under way
\* than the bound allows.
ObsTypeOK ==
  /\ cluster \in [nodes : SUBSET Nodes, class : Classes \cup {NoClass}]
  /\ producer \in [run : 1..MaxRuns, generation : 1..MaxGeneration,
                   sequence : 1..(MaxSequence + 1), nodes : SUBSET Nodes,
                   class : Classes \cup {NoClass, Unchanged}]
  /\ calls \subseteq [report : Observations, admitted : BOOLEAN]
  /\ Cardinality(calls) <= MaxCalls
  /\ cursor \in [generation : 1..MaxGeneration, sequence : 0..MaxSequence] \cup {NoCursor}
  /\ projection \in [nodes : SUBSET Nodes, class : Classes \cup {NoClass}]
  /\ binding \in [class : Classes, sync : SyncStates, freshness : Freshness,
                  judged : SUBSET Classes] \cup {NoBinding}
  /\ row \in [Targets -> [version : Nat, generation : 0..MaxGeneration,
                          revision : 0..MaxSequence, fresh : BOOLEAN]]

\* While the first agent process runs, a cursor that stands at its latest report
\* means that the read model shows exactly the inventory the agent cached with
\* that report, whatever was lost, delayed or refused before: the deltas never
\* add up to something else, because projector.go applies none of them out of turn.
CursorTellsInventory ==
  (/\ producer.run = 1
   /\ cursor = [generation |-> producer.generation, sequence |-> producer.sequence - 1]
   /\ producer.sequence > 1)
  => /\ projection.nodes = producer.nodes
     /\ producer.class # Unchanged => projection.class = producer.class

\* A verdict of the projector that is still Fresh is right: as long as nobody else
\* writes the binding, it is Active when the read model's storage class is the one
\* it was judged by, and Drifted otherwise, also after late, repeated and overtaken
\* reports, across agent restarts, and when the binding was edited or removed while
\* the projector was at work on it (storage_projector.go writes facts and bindings
\* in one transaction and judges by the facts it has just written).
FreshVerdictIsRight ==
  binding.freshness = "Fresh" =>
    \A k \in binding.judged : binding.sync = IF projection.class = k THEN "Active" ELSE "Drifted"

\* What openspec/specs/runtime-target/spec.md says of the cursor: a lower
\* generation or sequence is dropped, and once a generation is established the
\* older one is fenced.
CursorNeverGoesBack ==
  [][cursor # NoCursor =>
       \/ cursor'.generation > cursor.generation
       \/ cursor'.generation = cursor.generation /\ cursor'.sequence >= cursor.sequence]_obsVars
==============================================================================
