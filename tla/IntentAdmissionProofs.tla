------------------------ MODULE IntentAdmissionProofs ------------------------
(***************************************************************************)
(* Proofs about TargetObservation and IntentAdmission, for any targets,    *)
(* nodes, callers, keys and bounds.                                        *)
(***************************************************************************)
EXTENDS IntentAdmission, FiniteSetTheorems, TLAPS

Bindings ==
  [class : Classes, sync : SyncStates, freshness : Freshness, judged : SUBSET Classes] \cup {NoBinding}

ObsTypes ==
  /\ cluster \in [nodes : SUBSET Nodes, class : Classes \cup {NoClass}]
  /\ producer \in [run : 1..MaxRuns, generation : 1..MaxGeneration,
                   sequence : 1..(MaxSequence + 1), nodes : SUBSET Nodes,
                   class : Classes \cup {NoClass, Unchanged}]
  /\ calls \subseteq [report : Observations, admitted : BOOLEAN]
  /\ cursor \in [generation : 1..MaxGeneration, sequence : 0..MaxSequence] \cup {NoCursor}
  /\ projection \in [nodes : SUBSET Nodes, class : Classes \cup {NoClass}]
  /\ binding \in Bindings
  /\ row \in [Targets -> [version : Nat, generation : 0..MaxGeneration,
                          revision : 0..MaxSequence, fresh : BOOLEAN]]

Bounded == IsFiniteSet(calls) /\ Cardinality(calls) <= MaxCalls

\* A report without a storage inventory says nothing about the class.
Reported == \A c \in calls : ~c.report.storage => c.report.class = Unchanged

\* The revision of the read model: the sequence of the last report applied.
Applied == row[Observed].revision

\* The reports of the first agent process: numbered in order, one per number, and only the
\* next one to be applied is admitted.
Numbering ==
  /\ producer.generation = 1
  /\ Applied < producer.sequence
  /\ \A c \in calls : /\ c.report.generation = 1 /\ c.report.sequence < producer.sequence
                      /\ c.admitted => c.report.sequence = Applied + 1
  /\ \A c, d \in calls : c.report.sequence = d.report.sequence => c = d
  /\ cursor = NoCursor => Applied = 0
  /\ cursor # NoCursor => (cursor.generation = 1 => cursor.sequence = Applied)

Inventories == [nodes : SUBSET Nodes, class : Classes \cup {NoClass, Unchanged}]

\* The report o takes an inventory `from' to the inventory `to'.
Takes(o, from, to) ==
  /\ IF o.mode = "Full" THEN from.nodes = {} /\ o.nodes = to.nodes /\ o.removed = {}
     ELSE o.nodes = to.nodes \ from.nodes /\ o.removed = from.nodes \ to.nodes
  /\ o.class = to.class \/ (o.class = Unchanged /\ to.class = from.class)

\* h is the inventory the agent had cached after each of its reports.
Cached(h) ==
  /\ h[producer.sequence - 1].nodes = producer.nodes
  /\ h[producer.sequence - 1].class = producer.class
  /\ projection.nodes = h[Applied].nodes
  /\ h[Applied].class # Unchanged => projection.class = h[Applied].class
  /\ \A c \in calls : Takes(c.report, h[c.report.sequence - 1], h[c.report.sequence])

InOrder == producer.run = 1 => Numbering /\ \E h \in [0..MaxSequence -> Inventories] : Cached(h)

ObsInv == ObsTypes /\ Bounded /\ Reported /\ InOrder /\ FreshVerdictIsRight

\* Fewer reports under way are still within the bound.
LEMMA FewerCalls ==
  ASSUME IsFiniteSet(calls), Cardinality(calls) <= MaxCalls, NEW c \in calls
  PROVE  IsFiniteSet(calls \ {c}) /\ Cardinality(calls \ {c}) <= MaxCalls
<1>1. IsFiniteSet(calls \ {c}) /\ Cardinality(calls \ {c}) = Cardinality(calls) - 1
  BY Zenon, FS_RemoveElement
<1>2. Cardinality(calls) \in Nat BY Zenon, FS_CardinalityType
<1> QED BY SMT, <1>1, <1>2, ObservationAssumption

LEMMA ReplacedCall ==
  ASSUME IsFiniteSet(calls), Cardinality(calls) <= MaxCalls, NEW c \in calls, NEW d
  PROVE  IsFiniteSet((calls \ {c}) \cup {d}) /\ Cardinality((calls \ {c}) \cup {d}) <= MaxCalls
<1> DEFINE rest == calls \ {c}
<1>1. IsFiniteSet(rest) /\ Cardinality(rest) = Cardinality(calls) - 1
  BY Zenon, FS_RemoveElement
<1> HIDE DEF rest
<1>2. IsFiniteSet(rest \cup {d})
      /\ (Cardinality(rest \cup {d}) = Cardinality(rest) \/ Cardinality(rest \cup {d}) = Cardinality(rest) + 1)
  BY Zenon, <1>1, FS_AddElement
<1>3. Cardinality(calls) \in Nat BY Zenon, FS_CardinalityType
<1>4. Cardinality(rest \cup {d}) <= MaxCalls BY SMT, <1>1, <1>2, <1>3, ObservationAssumption
<1> QED BY Zenon, <1>2, <1>4 DEF rest

--------------------------------------------------------------------------------
(* Observation. *)

\* What a step of the agent leaves of its record.
LEMMA NumberUsed ==
  ASSUME ObsTypes, NEW x \in SUBSET Nodes, NEW y \in Classes \cup {NoClass, Unchanged},
         producer.sequence <= MaxSequence,
         producer' = [producer EXCEPT !.sequence = @ + 1, !.nodes = x, !.class = y]
  PROVE  /\ producer' \in [run : 1..MaxRuns, generation : 1..MaxGeneration, sequence : 1..(MaxSequence + 1),
                           nodes : SUBSET Nodes, class : Classes \cup {NoClass, Unchanged}]
         /\ producer'.run = producer.run /\ producer'.generation = producer.generation
         /\ producer'.sequence = producer.sequence + 1 /\ producer'.nodes = x /\ producer'.class = y
         /\ producer.sequence \in Nat
<1>1. /\ producer.sequence \in Nat /\ producer.sequence + 1 \in 1..(MaxSequence + 1)
  BY SMT, ObservationAssumption DEF ObsTypes
<1>2. PICK n \in 1..(MaxSequence + 1) : n = producer.sequence + 1 BY Zenon, <1>1
<1>3. producer' = [producer EXCEPT !.sequence = n, !.nodes = x, !.class = y] BY Zenon, <1>2
<1>4. producer \in [run : 1..MaxRuns, generation : 1..MaxGeneration, sequence : 1..(MaxSequence + 1),
                    nodes : SUBSET Nodes, class : Classes \cup {NoClass, Unchanged}]
  BY Zenon DEF ObsTypes
<1>5. producer' \in [run : 1..MaxRuns, generation : 1..MaxGeneration, sequence : 1..(MaxSequence + 1),
                     nodes : SUBSET Nodes, class : Classes \cup {NoClass, Unchanged}]
  BY Zenon, <1>3, <1>4
<1>6. /\ producer'.run = producer.run /\ producer'.generation = producer.generation
      /\ producer'.sequence = n /\ producer'.nodes = x /\ producer'.class = y
  BY Zenon, <1>3, <1>4
<1> QED BY Zenon, <1>1, <1>2, <1>5, <1>6

LEMMA NumberSkipped ==
  ASSUME ObsTypes, EncodeFails
  PROVE  /\ producer' \in [run : 1..MaxRuns, generation : 1..MaxGeneration, sequence : 1..(MaxSequence + 1),
                           nodes : SUBSET Nodes, class : Classes \cup {NoClass, Unchanged}]
         /\ producer'.run = producer.run /\ producer'.generation = producer.generation
         /\ producer'.sequence = producer.sequence + 1
         /\ producer'.nodes = producer.nodes /\ producer'.class = producer.class
         /\ producer.sequence \in Nat /\ producer.sequence \in 1..MaxSequence
BY SMT, ObservationAssumption DEF ObsTypes, EncodeFails

\* The report ReportOnce makes.
Report(other) ==
  IF producer.nodes = {} THEN FullWithStorage(other) ELSE DeltaFromCacheWithStorage(other)

LEMMA ReportMade ==
  ASSUME ObsTypes, NEW other \in BOOLEAN, producer.sequence <= MaxSequence
  PROVE  /\ Report(other) \in Observations
         /\ Report(other).generation = producer.generation /\ Report(other).sequence = producer.sequence
         /\ ~Report(other).storage => Report(other).class = Unchanged
         /\ Takes(Report(other), [nodes |-> producer.nodes, class |-> producer.class],
                                 [nodes |-> cluster.nodes, class |-> cluster.class])
<1>1. /\ producer.run \in 1..MaxRuns /\ producer.generation \in 1..MaxGeneration
      /\ producer.sequence \in 1..MaxSequence /\ producer.nodes \in SUBSET Nodes
      /\ cluster.nodes \in SUBSET Nodes /\ cluster.class \in Classes \cup {NoClass}
      /\ producer.class \in Classes \cup {NoClass, Unchanged}
  BY SMT, ObservationAssumption DEF ObsTypes
<1>2. CASE producer.nodes = {}
  <2>1. Report(other) = [run |-> producer.run, generation |-> producer.generation, sequence |-> producer.sequence,
                         mode |-> "Full", nodes |-> cluster.nodes, removed |-> {},
                         storage |-> other \/ cluster.class # Unchanged, class |-> cluster.class]
    BY Zenon, <1>2 DEF Report, FullWithStorage, newObservation
  <2>2. PICK p \in BOOLEAN : p = (other \/ cluster.class # Unchanged) BY Zenon
  <2>3. ~p => cluster.class = Unchanged BY Zenon, <2>2
  <2>4. Report(other) = [run |-> producer.run, generation |-> producer.generation, sequence |-> producer.sequence,
                         mode |-> "Full", nodes |-> cluster.nodes, removed |-> {},
                         storage |-> p, class |-> cluster.class]
    BY Zenon, <2>1, <2>2
  <2> QED BY SMT, <1>1, <1>2, <2>3, <2>4 DEF Observations, Takes
<1>3. CASE producer.nodes # {}
  <2> DEFINE class == diffStorageInventory(producer.class, cluster.class)
  <2>0. class \in Classes \cup {NoClass, Unchanged}
        /\ (class = cluster.class \/ (class = Unchanged /\ cluster.class = producer.class))
    BY Zenon, <1>1 DEF diffStorageInventory
  <2>1. Report(other) = [run |-> producer.run, generation |-> producer.generation, sequence |-> producer.sequence,
                         mode |-> "Delta", nodes |-> cluster.nodes \ producer.nodes,
                         removed |-> producer.nodes \ cluster.nodes,
                         storage |-> other \/ class # Unchanged, class |-> class]
    BY Zenon, <1>3 DEF Report, DeltaFromCacheWithStorage, newObservation
  <2> HIDE DEF class
  <2>2. PICK p \in BOOLEAN : p = (other \/ class # Unchanged) BY Zenon
  <2>3. ~p => class = Unchanged BY Zenon, <2>2
  <2>4. Report(other) = [run |-> producer.run, generation |-> producer.generation, sequence |-> producer.sequence,
                         mode |-> "Delta", nodes |-> cluster.nodes \ producer.nodes,
                         removed |-> producer.nodes \ cluster.nodes, storage |-> p, class |-> class]
    BY Zenon, <2>1, <2>2
  <2> QED BY SMT, <1>1, <2>0, <2>3, <2>4 DEF Observations, Takes
<1> QED BY Zenon, <1>2, <1>3

LEMMA ClusterChangesKeeps ==
  ASSUME ObsInv, NEW nodes \in SUBSET Nodes, NEW class \in Classes \cup {NoClass}, ClusterChanges(nodes, class)
  PROVE  ObsInv'
<1>1. cluster' \in [nodes : SUBSET Nodes, class : Classes \cup {NoClass}]
  BY Zenon DEF ClusterChanges
<1>2. UNCHANGED <<producer, calls, cursor, projection, binding, row>>
  BY Zenon DEF ClusterChanges
<1> QED BY ZenonT(40), <1>1, <1>2 DEF ObsInv, ObsTypes, Bounded, Reported, InOrder, Numbering, Applied, Cached,
           FreshVerdictIsRight

\* g is h with the inventory <<x, y>> under the next number.
Continues(g, h, x, y) ==
  /\ g[producer.sequence].nodes = x /\ g[producer.sequence].class = y
  /\ g[producer.sequence - 1].nodes = producer.nodes /\ g[producer.sequence - 1].class = producer.class
  /\ g[Applied] = h[Applied]
  /\ \A c \in calls : /\ g[c.report.sequence - 1] = h[c.report.sequence - 1]
                      /\ g[c.report.sequence] = h[c.report.sequence]

\* One more report is under way, with the number and the inventory after it.
LEMMA HistoryGrows ==
  ASSUME ObsTypes, NEW h \in [0..MaxSequence -> Inventories], Cached(h), Numbering,
         producer.sequence <= MaxSequence, NEW x \in SUBSET Nodes, NEW y \in Classes \cup {NoClass, Unchanged}
  PROVE  \E g \in [0..MaxSequence -> Inventories] : Continues(g, h, x, y)
<1> DEFINE new == [nodes |-> x, class |-> y]
           g == [h EXCEPT ![producer.sequence] = new]
<1>1. new \in Inventories /\ new.nodes = x /\ new.class = y
  BY Zenon DEF Inventories
<1>2. producer.sequence \in 1..MaxSequence /\ Applied \in 0..MaxSequence
  BY SMT, ObservationAssumption DEF ObsTypes, Applied
<1>3. /\ producer.sequence \in 0..MaxSequence /\ producer.sequence - 1 \in 0..MaxSequence
      /\ producer.sequence - 1 # producer.sequence /\ Applied # producer.sequence
  BY SMT, <1>2, ObservationAssumption DEF Numbering
<1>4. ASSUME NEW c \in calls
      PROVE  /\ c.report.sequence \in 0..MaxSequence /\ c.report.sequence - 1 \in 0..MaxSequence
             /\ c.report.sequence # producer.sequence /\ c.report.sequence - 1 # producer.sequence
  <2>1. c.report.sequence \in 1..MaxSequence BY Zenon DEF ObsTypes, Observations
  <2>2. c.report.sequence < producer.sequence BY Zenon DEF Numbering
  <2> QED BY SMT, <1>2, <2>1, <2>2, ObservationAssumption
<1> HIDE DEF new
<1>5. g \in [0..MaxSequence -> Inventories] /\ g[producer.sequence] = new
      /\ \A i \in 0..MaxSequence : i # producer.sequence => g[i] = h[i]
  BY Zenon, <1>1, <1>3
<1> HIDE DEF g
<1>6. Continues(g, h, x, y)
  BY Zenon, <1>1, <1>2, <1>3, <1>4, <1>5 DEF Cached, Continues
<1> QED BY Zenon, <1>5, <1>6

LEMMA ReportOnceKeeps ==
  ASSUME ObsInv, NEW other \in BOOLEAN, ReportOnce(other)
  PROVE  ObsInv'
<1> DEFINE new == [report |-> Report(other), admitted |-> FALSE]
<1>0. ObsTypes /\ Bounded /\ Reported /\ InOrder /\ FreshVerdictIsRight
  BY Zenon DEF ObsInv
<1>a. /\ producer.sequence <= MaxSequence /\ Cardinality(calls) < MaxCalls
      /\ calls' = calls \cup {new}
      /\ producer' = [producer EXCEPT !.sequence = @ + 1, !.nodes = cluster.nodes, !.class = cluster.class]
      /\ UNCHANGED <<cluster, cursor, projection, binding, row>>
  BY Zenon DEF ReportOnce, Report
<1>b. cluster.nodes \in SUBSET Nodes /\ cluster.class \in Classes \cup {NoClass, Unchanged}
  BY SMT, <1>0 DEF ObsTypes
<1>c. /\ producer' \in [run : 1..MaxRuns, generation : 1..MaxGeneration, sequence : 1..(MaxSequence + 1),
                           nodes : SUBSET Nodes, class : Classes \cup {NoClass, Unchanged}]
      /\ producer'.run = producer.run /\ producer'.generation = producer.generation
      /\ producer'.sequence = producer.sequence + 1
      /\ producer'.nodes = cluster.nodes /\ producer'.class = cluster.class /\ producer.sequence \in Nat
  BY Zenon, <1>0, <1>a, <1>b, NumberUsed
<1>d. /\ Report(other) \in Observations
      /\ Report(other).generation = producer.generation /\ Report(other).sequence = producer.sequence
      /\ ~Report(other).storage => Report(other).class = Unchanged
      /\ Takes(Report(other), [nodes |-> producer.nodes, class |-> producer.class],
                              [nodes |-> cluster.nodes, class |-> cluster.class])
  BY Zenon, <1>0, <1>a, ReportMade
<1>e. new \in [report : Observations, admitted : BOOLEAN] /\ new.report = Report(other) /\ new.admitted = FALSE
  BY Zenon, <1>d
<1> HIDE DEF new
<1>1. ObsTypes'
  BY Zenon, <1>0, <1>a, <1>c, <1>e DEF ObsTypes
<1>2. Bounded'
  <2>1. IsFiniteSet(calls \cup {new}) /\ Cardinality(calls \cup {new}) \in Nat /\ Cardinality(calls) \in Nat
        /\ (Cardinality(calls \cup {new}) = Cardinality(calls) \/ Cardinality(calls \cup {new}) = Cardinality(calls) + 1)
    BY Zenon, <1>0, FS_AddElement, FS_CardinalityType DEF Bounded
  <2>2. Cardinality(calls \cup {new}) <= MaxCalls
    BY SMT, <1>a, <2>1, ObservationAssumption
  <2> QED BY Zenon, <1>a, <2>1, <2>2 DEF Bounded
<1>3. Reported'
  BY Zenon, <1>0, <1>a, <1>d, <1>e DEF Reported
<1>4. FreshVerdictIsRight'
  BY Zenon, <1>0, <1>a DEF FreshVerdictIsRight
<1>5. ASSUME producer'.run = 1 PROVE Numbering' /\ \E g \in [0..MaxSequence -> Inventories] : Cached(g)'
  <2>0. PICK h \in [0..MaxSequence -> Inventories] : Numbering /\ Cached(h)
    BY Zenon, <1>0, <1>c, <1>5 DEF InOrder
  <2>1. Applied' = Applied /\ cursor' = cursor BY Zenon, <1>a DEF Applied
  <2>2. Applied < producer.sequence + 1 /\ \A c \in calls : c.report.sequence < producer.sequence + 1
    <3>1. Applied \in Nat /\ \A c \in calls : c.report.sequence \in Nat
      BY SMT, <1>0, ObservationAssumption DEF ObsTypes, Observations, Applied
    <3> QED BY SMT, <1>c, <2>0, <3>1 DEF Numbering
  <2>3. \A c \in calls : c.report.sequence # producer.sequence
    <3>1. \A c \in calls : c.report.sequence \in Nat
      BY SMT, <1>0 DEF ObsTypes, Observations
    <3> QED BY SMT, <1>c, <2>0, <3>1 DEF Numbering
  <2>4. producer.sequence < producer.sequence + 1 BY SMT, <1>c
  <2>5. Numbering'
    <3>1. producer'.generation = 1 /\ Applied' < producer'.sequence
      BY Zenon, <1>c, <2>0, <2>1, <2>2 DEF Numbering
    <3>2. ASSUME NEW c \in calls'
          PROVE  /\ c.report.generation = 1 /\ c.report.sequence < producer'.sequence
                 /\ c.admitted => c.report.sequence = Applied' + 1
      <4>1. CASE c \in calls BY Zenon, <1>c, <2>0, <2>1, <2>2, <4>1 DEF Numbering
      <4>2. CASE c = new BY Zenon, <1>c, <1>d, <1>e, <2>0, <2>4, <4>2 DEF Numbering
      <4> QED BY Zenon, <1>a, <4>1, <4>2
    <3>3. \A c, d \in calls' : c.report.sequence = d.report.sequence => c = d
      <4>1. \A c, d \in calls : c.report.sequence = d.report.sequence => c = d BY Zenon, <2>0 DEF Numbering
      <4>2. \A c \in calls : c.report.sequence # new.report.sequence BY Zenon, <1>d, <1>e, <2>3
      <4>3. \A c \in calls' : c \in calls \/ c = new BY Zenon, <1>a
      <4> QED BY Zenon, <4>1, <4>2, <4>3
    <3>4. /\ cursor' = NoCursor => Applied' = 0
          /\ cursor' # NoCursor => (cursor'.generation = 1 => cursor'.sequence = Applied')
      BY Zenon, <2>0, <2>1 DEF Numbering
    <3> QED BY Zenon, <3>1, <3>2, <3>3, <3>4 DEF Numbering
  <2>a. ObsTypes /\ Cached(h) /\ Numbering /\ producer.sequence <= MaxSequence BY Zenon, <1>0, <1>a, <2>0
  <2>b. PICK g \in [0..MaxSequence -> Inventories] : Continues(g, h, cluster.nodes, cluster.class)
    BY Zenon, <1>b, <2>a, HistoryGrows
  <2>6. /\ g[producer.sequence].nodes = cluster.nodes /\ g[producer.sequence].class = cluster.class
        /\ g[producer.sequence - 1].nodes = producer.nodes /\ g[producer.sequence - 1].class = producer.class
        /\ g[Applied] = h[Applied]
        /\ \A c \in calls : /\ g[c.report.sequence - 1] = h[c.report.sequence - 1]
                            /\ g[c.report.sequence] = h[c.report.sequence]
    BY Zenon, <2>b DEF Continues
  <2>7. producer'.sequence - 1 = producer.sequence BY SMT, <1>c
  <2>8. Takes(Report(other), g[producer.sequence - 1], g[producer.sequence])
    BY Zenon, <1>d, <2>6 DEF Takes
  <2>9. Cached(g)'
    <3>1. \A c \in calls' : Takes(c.report, g[c.report.sequence - 1], g[c.report.sequence])
      BY ZenonT(40), <1>a, <1>d, <1>e, <2>0, <2>6, <2>8 DEF Cached
    <3> QED BY Zenon, <1>a, <1>c, <2>0, <2>1, <2>6, <2>7, <3>1 DEF Cached
  <2> QED BY Zenon, <2>5, <2>9
<1> QED BY Zenon, <1>1, <1>2, <1>3, <1>4, <1>5 DEF ObsInv, InOrder

LEMMA EncodeFailsKeeps ==
  ASSUME ObsInv, EncodeFails
  PROVE  ObsInv'
<1>0. ObsTypes /\ Bounded /\ Reported /\ InOrder /\ FreshVerdictIsRight
  BY Zenon DEF ObsInv
<1>a. producer.sequence <= MaxSequence /\ UNCHANGED <<cluster, calls, cursor, projection, binding, row>>
  BY Zenon DEF EncodeFails
<1>b. producer.nodes \in SUBSET Nodes /\ producer.class \in Classes \cup {NoClass, Unchanged}
  BY SMT, <1>0 DEF ObsTypes
<1>c. /\ producer' \in [run : 1..MaxRuns, generation : 1..MaxGeneration, sequence : 1..(MaxSequence + 1),
                           nodes : SUBSET Nodes, class : Classes \cup {NoClass, Unchanged}]
      /\ producer'.run = producer.run /\ producer'.generation = producer.generation
      /\ producer'.sequence = producer.sequence + 1
      /\ producer'.nodes = producer.nodes /\ producer'.class = producer.class /\ producer.sequence \in Nat
  BY Zenon, <1>0, NumberSkipped
<1>1. ObsTypes'
  BY Zenon, <1>0, <1>a, <1>c DEF ObsTypes
<1>2. Bounded' /\ Reported' /\ FreshVerdictIsRight'
  BY Zenon, <1>0, <1>a DEF Bounded, Reported, FreshVerdictIsRight
<1>5. ASSUME producer'.run = 1 PROVE Numbering' /\ \E g \in [0..MaxSequence -> Inventories] : Cached(g)'
  <2>0. PICK h \in [0..MaxSequence -> Inventories] : Numbering /\ Cached(h)
    BY Zenon, <1>0, <1>c, <1>5 DEF InOrder
  <2>1. Applied' = Applied BY Zenon, <1>a DEF Applied
  <2>2. Applied < producer.sequence + 1 /\ \A c \in calls : c.report.sequence < producer.sequence + 1
    <3>1. Applied \in Nat /\ \A c \in calls : c.report.sequence \in Nat
      BY SMT, <1>0, ObservationAssumption DEF ObsTypes, Observations, Applied
    <3> QED BY SMT, <1>c, <2>0, <3>1 DEF Numbering
  <2>5. Numbering'
    BY Zenon, <1>a, <1>c, <2>0, <2>1, <2>2 DEF Numbering
  <2>a. ObsTypes /\ Cached(h) /\ Numbering /\ producer.sequence <= MaxSequence BY Zenon, <1>0, <1>a, <2>0
  <2>b. PICK g \in [0..MaxSequence -> Inventories] : Continues(g, h, producer.nodes, producer.class)
    BY Zenon, <1>b, <2>a, HistoryGrows
  <2>6. /\ g[producer.sequence].nodes = producer.nodes /\ g[producer.sequence].class = producer.class
        /\ g[producer.sequence - 1].nodes = producer.nodes /\ g[producer.sequence - 1].class = producer.class
        /\ g[Applied] = h[Applied]
        /\ \A c \in calls : /\ g[c.report.sequence - 1] = h[c.report.sequence - 1]
                            /\ g[c.report.sequence] = h[c.report.sequence]
    BY Zenon, <2>b DEF Continues
  <2>7. producer'.sequence - 1 = producer.sequence BY SMT, <1>c
  <2>8. Cached(g)'
    BY Zenon, <1>a, <1>c, <2>0, <2>1, <2>6, <2>7 DEF Cached
  <2> QED BY Zenon, <2>5, <2>8
<1> QED BY Zenon, <1>1, <1>2, <1>5 DEF ObsInv, InOrder

LEMMA NewProducerKeeps ==
  ASSUME ObsInv, NEW generation \in 1..MaxGeneration, NewProducer(generation)
  PROVE  ObsInv'
<1>0. ObsTypes /\ Bounded /\ Reported /\ FreshVerdictIsRight
  BY Zenon DEF ObsInv
<1>a. UNCHANGED <<cluster, calls, cursor, projection, binding, row>>
  BY Zenon DEF NewProducer
<1>b. /\ producer' \in [run : 1..MaxRuns, generation : 1..MaxGeneration, sequence : 1..(MaxSequence + 1),
                        nodes : SUBSET Nodes, class : Classes \cup {NoClass, Unchanged}]
      /\ producer'.run # 1
  BY SMT, <1>0, ObservationAssumption DEF ObsTypes, NewProducer
<1> QED BY Zenon, <1>0, <1>a, <1>b DEF ObsInv, ObsTypes, Bounded, Reported, InOrder, FreshVerdictIsRight

LEMMA CallLostKeeps ==
  ASSUME ObsInv, NEW c \in calls, CallLost(c)
  PROVE  ObsInv'
<1>0. ObsTypes /\ Bounded /\ Reported /\ InOrder /\ FreshVerdictIsRight
  BY Zenon DEF ObsInv
<1>a. calls' = calls \ {c} /\ UNCHANGED <<cluster, producer, cursor, projection, binding, row>>
  BY Zenon DEF CallLost
<1>1. ObsTypes' /\ Reported' /\ FreshVerdictIsRight'
  BY Zenon, <1>0, <1>a DEF ObsTypes, Reported, FreshVerdictIsRight
<1>2. Bounded'
  BY Zenon, <1>0, <1>a, FewerCalls DEF Bounded
<1>3. Applied' = Applied BY Zenon, <1>a DEF Applied
<1>4. InOrder'
  BY Zenon, <1>0, <1>a, <1>3 DEF InOrder, Numbering, Cached
<1> QED BY Zenon, <1>1, <1>2, <1>4 DEF ObsInv

LEMMA AcceptKeeps ==
  ASSUME ObsInv, NEW c \in calls, Accept(c)
  PROVE  ObsInv'
<1>0. ObsTypes /\ Bounded /\ Reported /\ InOrder /\ FreshVerdictIsRight
  BY Zenon DEF ObsInv
<1>a. UNCHANGED <<cluster, producer, cursor, projection, binding, row>>
  BY Zenon DEF Accept
<1>b. Applied' = Applied BY Zenon, <1>a DEF Applied
<1>1. CASE ~NextInOrder(c.report)
  <2>1. calls' = calls \ {c} BY Zenon, <1>1 DEF Accept
  <2>2. ObsTypes' /\ Reported' /\ FreshVerdictIsRight'
    BY Zenon, <1>0, <1>a, <2>1 DEF ObsTypes, Reported, FreshVerdictIsRight
  <2>3. Bounded'
    BY Zenon, <1>0, <2>1, FewerCalls DEF Bounded
  <2>4. InOrder'
    BY Zenon, <1>0, <1>a, <1>b, <2>1 DEF InOrder, Numbering, Cached
  <2> QED BY Zenon, <2>2, <2>3, <2>4 DEF ObsInv
<1>2. CASE NextInOrder(c.report)
  <2> DEFINE new == [c EXCEPT !.admitted = TRUE]
  <2>1. calls' = (calls \ {c}) \cup {new} BY Zenon, <1>2 DEF Accept
  <2>2. new \in [report : Observations, admitted : BOOLEAN] /\ new.report = c.report
    BY ZenonT(40), <1>0 DEF ObsTypes
  <2> HIDE DEF new
  <2>3. ObsTypes' /\ Reported' /\ FreshVerdictIsRight'
    BY Zenon, <1>0, <1>a, <2>1, <2>2 DEF ObsTypes, Reported, FreshVerdictIsRight
  <2>4. Bounded'
    BY Zenon, <1>0, <2>1, ReplacedCall DEF Bounded
  <2>5. ASSUME producer'.run = 1 PROVE Numbering' /\ \E g \in [0..MaxSequence -> Inventories] : Cached(g)'
    <3>0. PICK h \in [0..MaxSequence -> Inventories] : Numbering /\ Cached(h)
      BY Zenon, <1>0, <1>a, <2>5 DEF InOrder
    <3>1. c.report.sequence = Applied + 1
      <4>1. CASE cursor = NoCursor
        <5>1. c.report.sequence = 1 /\ Applied = 0 BY Zenon, <1>2, <3>0, <4>1 DEF NextInOrder, Numbering
        <5> QED BY SMT, <5>1
      <4>2. CASE cursor # NoCursor
        BY Zenon, <1>2, <3>0, <4>2 DEF NextInOrder, Numbering
      <4> QED BY Zenon, <4>1, <4>2
    <3>2. Numbering'
      <4>1. ASSUME NEW d \in calls'
            PROVE  /\ d.report.generation = 1 /\ d.report.sequence < producer'.sequence
                   /\ d.admitted => d.report.sequence = Applied' + 1
        <5>1. CASE d \in calls BY Zenon, <1>a, <1>b, <3>0, <5>1 DEF Numbering
        <5>2. CASE d = new BY Zenon, <1>a, <1>b, <2>2, <3>0, <3>1, <5>2 DEF Numbering
        <5> QED BY Zenon, <2>1, <5>1, <5>2
      <4>2. \A d, e \in calls' : d.report.sequence = e.report.sequence => d = e
        <5>1. \A d, e \in calls : d.report.sequence = e.report.sequence => d = e BY Zenon, <3>0 DEF Numbering
        <5>2. \A d \in calls' : (d \in calls /\ d # c) \/ d = new BY Zenon, <2>1
        <5>3. \A d \in calls : d # c => d.report.sequence # new.report.sequence BY Zenon, <2>2, <5>1
        <5> QED BY Zenon, <5>1, <5>2, <5>3
      <4>3. /\ producer'.generation = 1 /\ Applied' < producer'.sequence
            /\ cursor' = NoCursor => Applied' = 0
            /\ cursor' # NoCursor => (cursor'.generation = 1 => cursor'.sequence = Applied')
        BY Zenon, <1>a, <1>b, <3>0 DEF Numbering
      <4> QED BY Zenon, <4>1, <4>2, <4>3 DEF Numbering
    <3>3. Cached(h)'
      BY Zenon, <1>a, <1>b, <2>1, <2>2, <3>0 DEF Cached
    <3> QED BY Zenon, <3>2, <3>3
  <2> QED BY Zenon, <2>3, <2>4, <2>5 DEF ObsInv, InOrder
<1> QED BY Zenon, <1>1, <1>2

\* Applying the report that takes one inventory to another.
LEMMA Projected ==
  ASSUME ObsTypes, NEW o \in Observations, NEW from \in Inventories, NEW to \in Inventories, Takes(o, from, to),
         projection.nodes = from.nodes, from.class # Unchanged => projection.class = from.class
  PROVE  projectNodes(o) = to.nodes /\ (to.class # Unchanged => projectStorageInventory(o) = to.class)
<1>1. /\ o.mode \in {"Full", "Delta"} /\ o.nodes \subseteq Nodes /\ o.removed \subseteq Nodes
      /\ from.nodes \subseteq Nodes /\ to.nodes \subseteq Nodes
  BY SMT DEF Observations, Inventories
<1>2. projectNodes(o) = to.nodes
  <2>1. CASE o.mode = "Full"
    <3>1. from.nodes = {} /\ o.nodes = to.nodes BY Zenon, <2>1 DEF Takes
    <3> QED BY Zenon, <2>1, <3>1 DEF projectNodes
  <2>2. CASE o.mode # "Full"
    <3>1. o.nodes = to.nodes \ from.nodes /\ o.removed = from.nodes \ to.nodes BY Zenon, <2>2 DEF Takes
    <3>2. (from.nodes \cup o.nodes) \ o.removed = to.nodes BY Zenon, <3>1
    <3>3. o.nodes = {} /\ o.removed = {} => from.nodes = to.nodes BY Zenon, <3>1
    <3> QED BY Zenon, <2>2, <3>2, <3>3 DEF projectNodes
  <2> QED BY Zenon, <2>1, <2>2
<1>3. to.class # Unchanged => projectStorageInventory(o) = to.class
  BY Zenon DEF Takes, projectStorageInventory
<1> QED BY Zenon, <1>2, <1>3

\* The report judges the binding that was read, if that is still there.
Judges(o, now) == o.storage /\ binding.sync \notin {"absent", "Retired"} /\ now # NoBinding

LEMMA DriftCases ==
  ASSUME NEW o, NEW stale \in BOOLEAN, NEW now
  PROVE  /\ ~Judges(o, now) => projectStorageBindingDrift(o, stale, now) = now
         /\ Judges(o, now) /\ stale =>
              projectStorageBindingDrift(o, stale, now) = [now EXCEPT !.freshness = "Stale"]
         /\ Judges(o, now) /\ ~stale =>
              projectStorageBindingDrift(o, stale, now) =
                [class |-> now.class,
                 sync |-> IF projectStorageInventory(o) = binding.class THEN "Active" ELSE "Drifted",
                 freshness |-> "Fresh", judged |-> {binding.class}]
BY Zenon DEF Judges, projectStorageBindingDrift

LEMMA NobodyBound == NoBinding.class = NoClass /\ NoBinding.sync = "absent" /\ NoBinding.judged = {}
BY Zenon DEF NoBinding, Unjudged

\* What an operator or the import stores is a binding without a verdict.
LEMMA EditsAreBindings ==
  ASSUME ObsTypes, NEW b \in Edits
  PROVE  b \in Bindings /\ b.judged = {}
<1>1. ASSUME NEW class \in Classes, NEW sync \in SyncStates, NEW freshness \in Freshness
      PROVE  Unjudged(class, sync, freshness) \in Bindings /\ Unjudged(class, sync, freshness).judged = {}
  BY Zenon DEF Unjudged, Bindings
<1>2. CASE b \in Stored
  <2>1. PICK i \in BindingInputs : b = Unjudged(i.class, i.sync, i.freshness) BY Zenon, <1>2 DEF Stored
  <2>2. i.class \in Classes /\ i.sync \in SyncStates /\ i.freshness \in Freshness
    BY Zenon, ObservationAssumption
  <2> QED BY Zenon, <1>1, <2>1, <2>2
<1>3. CASE b = NoBinding
  BY Zenon, <1>3, NobodyBound DEF Bindings
<1>4. CASE b \in ImportBinding
  <2>1. PICK freshness \in {"Fresh", "Stale"} : b = Unjudged(projection.class, "Imported", freshness)
    BY Zenon, <1>4 DEF ImportBinding
  <2>2. projection.class \in Classes BY Zenon, <1>4 DEF ImportBinding, ObsTypes
  <2>3. "Imported" \in SyncStates /\ freshness \in Freshness BY Zenon DEF SyncStates, Freshness
  <2> QED BY Zenon, <1>1, <2>1, <2>2, <2>3
<1> QED BY Zenon, <1>2, <1>3, <1>4 DEF Edits, CreateBinding, UpdateBinding, DeleteBinding

LEMMA JudgedIsBinding ==
  ASSUME ObsTypes, NEW o, NEW stale \in BOOLEAN, NEW now \in Bindings
  PROVE  projectStorageBindingDrift(o, stale, now) \in Bindings
<1>0. PICK d : d = projectStorageBindingDrift(o, stale, now) BY Zenon
<1>1. CASE ~Judges(o, now)
  <2>1. d = now BY Zenon, <1>0, <1>1, DriftCases
  <2> QED BY Zenon, <1>0, <2>1
<1>2. CASE Judges(o, now)
  <2>1. now \in [class : Classes, sync : SyncStates, freshness : Freshness, judged : SUBSET Classes]
    BY Zenon, <1>2 DEF Judges, Bindings
  <2>2. binding.class \in Classes
    <3>1. binding # NoBinding BY Zenon, <1>2, NobodyBound DEF Judges
    <3> QED BY Zenon, <3>1 DEF ObsTypes, Bindings
  <2>3. "Stale" \in Freshness /\ "Fresh" \in Freshness /\ "Active" \in SyncStates /\ "Drifted" \in SyncStates
    BY Zenon DEF Freshness, SyncStates
  <2>4. [now EXCEPT !.freshness = "Stale"] \in Bindings BY ZenonT(30), <2>1, <2>3 DEF Bindings
  <2>5. ASSUME NEW sync \in SyncStates
        PROVE  [class |-> now.class, sync |-> sync, freshness |-> "Fresh", judged |-> {binding.class}] \in Bindings
    BY Zenon, <2>1, <2>2, <2>3 DEF Bindings
  <2>6. CASE stale
    <3>1. d = [now EXCEPT !.freshness = "Stale"] BY Zenon, <1>0, <1>2, <2>6, DriftCases
    <3> QED BY Zenon, <1>0, <2>4, <3>1
  <2>7. CASE ~stale
    <3>1. PICK sync \in SyncStates :
            sync = IF projectStorageInventory(o) = binding.class THEN "Active" ELSE "Drifted"
      BY Zenon, <2>3
    <3>2. d = [class |-> now.class, sync |-> sync, freshness |-> "Fresh", judged |-> {binding.class}]
      BY Zenon, <1>0, <1>2, <2>7, <3>1, DriftCases
    <3> QED BY Zenon, <1>0, <2>5, <3>2
  <2> QED BY Zenon, <2>6, <2>7
<1> QED BY Zenon, <1>1, <1>2

LEMMA EditBindingKeeps ==
  ASSUME ObsInv, EditBinding
  PROVE  ObsInv'
<1>0. ObsTypes /\ Bounded /\ Reported /\ InOrder /\ FreshVerdictIsRight
  BY Zenon DEF ObsInv
<1>a. binding' \in Edits /\ UNCHANGED <<cluster, producer, calls, cursor, projection, row>>
  BY Zenon DEF EditBinding
<1>b. binding' \in Bindings /\ binding'.judged = {} BY Zenon, <1>0, <1>a, EditsAreBindings
<1>c. Applied' = Applied BY Zenon, <1>a DEF Applied
<1>1. ObsTypes' /\ Bounded' /\ Reported' /\ FreshVerdictIsRight'
  BY Zenon, <1>0, <1>a, <1>b DEF ObsTypes, Bounded, Reported, FreshVerdictIsRight
<1>2. InOrder'
  BY Zenon, <1>0, <1>a, <1>c DEF InOrder, Numbering, Cached
<1> QED BY Zenon, <1>1, <1>2 DEF ObsInv

LEMMA SaveObservationKeeps ==
  ASSUME ObsInv, NEW c \in calls, NEW stale \in BOOLEAN, NEW now \in {binding} \cup Edits,
         SaveObservation(c, stale, now)
  PROVE  ObsInv'
<1> DEFINE o == c.report
<1>0. ObsTypes /\ Bounded /\ Reported /\ InOrder /\ FreshVerdictIsRight
  BY Zenon DEF ObsInv
<1>a. /\ c.admitted /\ calls' = calls \ {c}
      /\ row' = [row EXCEPT ![Observed] =
           [version |-> row[Observed].version + (IF o.storage THEN 1 ELSE 0),
            generation |-> o.generation, revision |-> o.sequence, fresh |-> TRUE]]
      /\ projection' = [nodes |-> projectNodes(o), class |-> projectStorageInventory(o)]
      /\ binding' = projectStorageBindingDrift(o, stale, now)
      /\ cursor' = [generation |-> o.generation, sequence |-> o.sequence]
      /\ UNCHANGED <<cluster, producer>>
  BY Zenon DEF SaveObservation
<1>b. o \in Observations BY Zenon, <1>0 DEF ObsTypes
<1>c. /\ o.generation \in 1..MaxGeneration /\ o.sequence \in 1..MaxSequence
      /\ o.nodes \subseteq Nodes /\ o.removed \subseteq Nodes /\ o.class \in Classes \cup {NoClass, Unchanged}
  BY Zenon, <1>b DEF Observations
<1>d. o.generation \in 0..MaxGeneration /\ o.sequence \in 0..MaxSequence /\ o.sequence \in Nat
  BY SMT, <1>c, ObservationAssumption
<1>e. ~o.storage => o.class = Unchanged BY Zenon, <1>0 DEF Reported
<1>f. now \in Bindings /\ (now = binding \/ now.judged = {})
  BY Zenon, <1>0, EditsAreBindings DEF ObsTypes
<1> HIDE DEF o
<1>1. ObsTypes'
  <2>1. projection' \in [nodes : SUBSET Nodes, class : Classes \cup {NoClass}]
    <3>1. projection.nodes \subseteq Nodes /\ projection.class \in Classes \cup {NoClass}
      BY Zenon, <1>0 DEF ObsTypes
    <3>2. projectNodes(o) \in SUBSET Nodes BY Zenon, <1>c, <3>1 DEF projectNodes
    <3>3. projectStorageInventory(o) \in Classes \cup {NoClass}
      BY Zenon, <1>c, <3>1 DEF projectStorageInventory
    <3> QED BY Zenon, <1>a, <3>2, <3>3
  <2>2. binding' \in Bindings BY Zenon, <1>0, <1>a, <1>f, JudgedIsBinding DEF ObsTypes
  <2>3. row' \in [Targets -> [version : Nat, generation : 0..MaxGeneration,
                              revision : 0..MaxSequence, fresh : BOOLEAN]]
    <3>1. row[Observed].version \in Nat BY Zenon, <1>0, ObservationAssumption DEF ObsTypes
    <3>2. PICK v \in Nat : v = row[Observed].version + (IF o.storage THEN 1 ELSE 0) BY SMT, <3>1
    <3>3. [version |-> v, generation |-> o.generation, revision |-> o.sequence, fresh |-> TRUE]
            \in [version : Nat, generation : 0..MaxGeneration, revision : 0..MaxSequence, fresh : BOOLEAN]
      BY Zenon, <1>d
    <3> QED BY Zenon, <1>0, <1>a, <3>2, <3>3 DEF ObsTypes
  <2>4. cursor' \in [generation : 1..MaxGeneration, sequence : 0..MaxSequence] \cup {NoCursor}
    BY Zenon, <1>a, <1>c, <1>d
  <2> QED BY Zenon, <1>0, <1>a, <2>1, <2>2, <2>3, <2>4 DEF ObsTypes
<1>2. Bounded'
  BY Zenon, <1>0, <1>a, FewerCalls DEF Bounded
<1>3. Reported'
  BY Zenon, <1>0, <1>a DEF Reported
<1>4. FreshVerdictIsRight'
  <2>1. projection'.class = projectStorageInventory(o) BY Zenon, <1>a
  <2>2. CASE ~Judges(o, now) /\ now # binding
    <3>1. binding' = now BY Zenon, <1>a, <2>2, DriftCases
    <3> QED BY Zenon, <1>f, <2>2, <3>1 DEF FreshVerdictIsRight
  <2>3. CASE ~o.storage /\ now = binding
    <3>1. binding' = binding BY Zenon, <1>a, <2>3, DriftCases DEF Judges
    <3>2. projection'.class = projection.class BY Zenon, <1>e, <2>1, <2>3 DEF projectStorageInventory
    <3> QED BY Zenon, <1>0, <3>1, <3>2 DEF FreshVerdictIsRight
  <2>4. CASE o.storage /\ ~Judges(o, now) /\ now = binding
    <3>1. binding' = binding BY Zenon, <1>a, <2>4, DriftCases
    <3>2. binding.sync \in {"absent", "Retired"} BY SMT, <2>4 DEF Judges, NoBinding, Unjudged
    <3>3. binding.sync # "Active" /\ binding.sync # "Drifted" BY Zenon, <3>2
    <3>4. binding.freshness = "Fresh" => \A k \in binding.judged : FALSE
      BY Zenon, <1>0, <3>3 DEF FreshVerdictIsRight
    <3> QED BY Zenon, <3>1, <3>4 DEF FreshVerdictIsRight
  <2>5. CASE Judges(o, now) /\ stale
    <3>1. binding'.freshness = "Stale"
      <4>1. binding' = [now EXCEPT !.freshness = "Stale"] BY Zenon, <1>a, <2>5, DriftCases
      <4>2. now \in [class : Classes, sync : SyncStates, freshness : Freshness, judged : SUBSET Classes]
        BY Zenon, <1>f, <2>5 DEF Judges, Bindings
      <4> QED BY Zenon, <4>1, <4>2
    <3> QED BY Zenon, <3>1 DEF FreshVerdictIsRight
  <2>6. CASE Judges(o, now) /\ ~stale
    <3>1. PICK sync : sync = IF projectStorageInventory(o) = binding.class THEN "Active" ELSE "Drifted"
      BY Zenon
    <3>2. binding' = [class |-> now.class, sync |-> sync, freshness |-> "Fresh", judged |-> {binding.class}]
      BY Zenon, <1>a, <2>6, <3>1, DriftCases
    <3>3. binding'.judged = {binding.class} /\ binding'.sync = sync BY Zenon, <3>2
    <3> QED BY Zenon, <2>1, <3>1, <3>3 DEF FreshVerdictIsRight
  <2> QED BY Zenon, <2>2, <2>3, <2>4, <2>5, <2>6 DEF Judges
<1>5. ASSUME producer'.run = 1 PROVE Numbering' /\ \E g \in [0..MaxSequence -> Inventories] : Cached(g)'
  <2>0. PICK h \in [0..MaxSequence -> Inventories] : Numbering /\ Cached(h)
    BY Zenon, <1>0, <1>a, <1>5 DEF InOrder
  <2>1. o.generation = 1 /\ o.sequence < producer.sequence /\ o.sequence = Applied + 1
    BY Zenon, <1>a, <2>0 DEF Numbering, o
  <2>2. Applied' = o.sequence
    BY Zenon, <1>0, <1>a, ObservationAssumption DEF ObsTypes, Applied
  <2>3. \A d \in calls' : ~d.admitted
    <3>1. \A d \in calls : d.admitted => d.report.sequence = o.sequence BY Zenon, <2>0, <2>1 DEF Numbering
    <3> QED BY Zenon, <1>a, <2>0, <3>1 DEF Numbering, o
  <2>4. cursor' # NoCursor /\ cursor'.generation = 1 /\ cursor'.sequence = o.sequence
    <3>1. cursor' \in [generation : Nat, sequence : Nat]
      <4>1. o.generation \in Nat BY SMT, <1>c, ObservationAssumption
      <4> QED BY Zenon, <1>a, <1>d, <4>1
    <3> QED BY Zenon, <1>a, <2>1, <3>1, ObservationAssumption
  <2>5. Numbering'
    BY Zenon, <1>a, <2>0, <2>1, <2>2, <2>3, <2>4 DEF Numbering
  <2>6. Applied \in 0..MaxSequence /\ o.sequence - 1 = Applied
    BY SMT, <1>0, <1>d, <2>1, ObservationAssumption DEF ObsTypes, Applied
  <2>7. Takes(o, h[Applied], h[o.sequence])
    BY Zenon, <2>0, <2>6 DEF Cached, o
  <2>8. /\ h[Applied] \in Inventories /\ h[o.sequence] \in Inventories
        /\ projection.nodes = h[Applied].nodes /\ (h[Applied].class # Unchanged => projection.class = h[Applied].class)
    BY Zenon, <1>d, <2>0, <2>6 DEF Cached
  <2>9. projectNodes(o) = h[o.sequence].nodes
        /\ (h[o.sequence].class # Unchanged => projectStorageInventory(o) = h[o.sequence].class)
    BY Zenon, <1>0, <1>b, <2>7, <2>8, Projected
  <2>10. projection'.nodes = projectNodes(o) /\ projection'.class = projectStorageInventory(o)
    BY Zenon, <1>a
  <2>11. Cached(h)'
    BY Zenon, <1>a, <2>0, <2>2, <2>9, <2>10 DEF Cached
  <2> QED BY Zenon, <2>5, <2>11
<1> QED BY Zenon, <1>1, <1>2, <1>3, <1>4, <1>5 DEF ObsInv, InOrder

LEMMA ApplySourceResetKeeps ==
  ASSUME ObsInv, NEW generation \in 1..MaxGeneration, ApplySourceReset(generation)
  PROVE  ObsInv'
<1>0. ObsTypes /\ Bounded /\ Reported /\ InOrder /\ FreshVerdictIsRight
  BY Zenon DEF ObsInv
<1>a. /\ cursor # NoCursor /\ generation \in (cursor.generation + 1)..MaxGeneration
      /\ cursor' = [generation |-> generation, sequence |-> 0]
      /\ UNCHANGED <<cluster, producer, calls, projection, binding, row>>
  BY Zenon DEF ApplySourceReset
<1>b. cursor' \in [generation : 1..MaxGeneration, sequence : 0..MaxSequence] /\ cursor' # NoCursor
      /\ cursor'.generation # 1
  <2>1. cursor.generation \in 1..MaxGeneration BY Zenon, <1>0, <1>a DEF ObsTypes
  <2>2. generation # 1 /\ generation \in Nat /\ 0 \in 0..MaxSequence /\ 0 \in Nat
    BY SMT, <1>a, <2>1, ObservationAssumption
  <2>3. cursor' \in [generation : Nat, sequence : Nat] BY Zenon, <1>a, <2>2
  <2> QED BY Zenon, <1>a, <2>2, <2>3, ObservationAssumption
<1>c. Applied' = Applied BY Zenon, <1>a DEF Applied
<1>1. ObsTypes' /\ Bounded' /\ Reported' /\ FreshVerdictIsRight'
  BY Zenon, <1>0, <1>a, <1>b DEF ObsTypes, Bounded, Reported, FreshVerdictIsRight
<1>2. InOrder'
  BY Zenon, <1>0, <1>a, <1>b, <1>c DEF InOrder, Numbering, Cached
<1> QED BY Zenon, <1>1, <1>2 DEF ObsInv

LEMMA TargetAgesKeeps ==
  ASSUME ObsInv, NEW t \in Targets, TargetAges(t)
  PROVE  ObsInv'
<1>0. ObsTypes /\ Bounded /\ Reported /\ InOrder /\ FreshVerdictIsRight
  BY Zenon DEF ObsInv
<1>a. row' = [row EXCEPT ![t].fresh = FALSE]
      /\ UNCHANGED <<cluster, producer, calls, cursor, projection, binding>>
  BY Zenon DEF TargetAges
<1>b. /\ row' \in [Targets -> [version : Nat, generation : 0..MaxGeneration,
                               revision : 0..MaxSequence, fresh : BOOLEAN]]
      /\ row'[Observed].revision = row[Observed].revision
  <2>1. row \in [Targets -> [version : Nat, generation : 0..MaxGeneration, revision : 0..MaxSequence, fresh : BOOLEAN]]
    BY Zenon, <1>0 DEF ObsTypes
  <2>2. PICK old \in [version : Nat, generation : 0..MaxGeneration, revision : 0..MaxSequence, fresh : BOOLEAN] :
          old = row[t]
    BY Zenon, <2>1
  <2>3. PICK new : new = [old EXCEPT !.fresh = FALSE] BY Zenon
  <2>4. new \in [version : Nat, generation : 0..MaxGeneration, revision : 0..MaxSequence, fresh : BOOLEAN]
        /\ new.revision = old.revision
    BY Zenon, <2>3
  <2>5. row' = [row EXCEPT ![t] = new] BY Zenon, <1>a, <2>2, <2>3
  <2> QED BY Zenon, <2>1, <2>2, <2>4, <2>5, ObservationAssumption
<1>c. Applied' = Applied BY Zenon, <1>b DEF Applied
<1>1. ObsTypes' /\ Bounded' /\ Reported' /\ FreshVerdictIsRight'
  BY Zenon, <1>0, <1>a, <1>b DEF ObsTypes, Bounded, Reported, FreshVerdictIsRight
<1>2. InOrder'
  BY Zenon, <1>0, <1>a, <1>c DEF InOrder, Numbering, Cached
<1> QED BY Zenon, <1>1, <1>2 DEF ObsInv

LEMMA ObsInitially ==
  ASSUME ObsInit
  PROVE  ObsInv
<1>1. ObsTypes
  <2>1. binding \in Bindings BY Zenon, ObservationAssumption DEF ObsInit, Bindings, Unjudged, SyncStates, Freshness
  <2> QED BY SMTT(30), <2>1, ObservationAssumption DEF ObsInit, ObsTypes, NewRow
<1>2. Bounded
  <2>1. IsFiniteSet({}) /\ Cardinality({}) = 0 BY Zenon, FS_EmptySet
  <2>2. 0 <= MaxCalls BY SMT, ObservationAssumption
  <2> QED BY Zenon, <2>1, <2>2 DEF ObsInit, Bounded
<1>3. Reported /\ FreshVerdictIsRight
  BY Zenon DEF ObsInit, Reported, FreshVerdictIsRight, Unjudged
<1>4. Applied = 0
  BY SMT, ObservationAssumption DEF ObsInit, Applied, NewRow
<1>5. Numbering
  BY SMT, <1>4 DEF ObsInit, Numbering
<1>6. Cached([i \in 0..MaxSequence |-> [nodes |-> {}, class |-> Unchanged]])
  BY SMT, <1>4, ObservationAssumption DEF ObsInit, Cached
<1>7. [i \in 0..MaxSequence |-> [nodes |-> {}, class |-> Unchanged]] \in [0..MaxSequence -> Inventories]
  BY SMT DEF Inventories
<1> QED BY Zenon, <1>1, <1>2, <1>3, <1>5, <1>6, <1>7 DEF ObsInv, InOrder

LEMMA ObsSteps ==
  ASSUME ObsInv, [ObsNext]_obsVars
  PROVE  ObsInv'
<1>1. CASE Agent
  BY Zenon, <1>1, ClusterChangesKeeps, ReportOnceKeeps, EncodeFailsKeeps, NewProducerKeeps, CallLostKeeps DEF Agent
<1>2. CASE Projector
  BY Zenon, <1>2, AcceptKeeps, SaveObservationKeeps, ApplySourceResetKeeps, TargetAgesKeeps DEF Projector
<1>3. CASE EditBinding
  BY Zenon, <1>3, EditBindingKeeps
<1>4. CASE UNCHANGED obsVars
  <2>0. ObsTypes /\ Bounded /\ Reported /\ InOrder /\ FreshVerdictIsRight BY Zenon DEF ObsInv
  <2>1. UNCHANGED <<cluster, producer, calls, cursor, projection, binding, row>> BY Zenon, <1>4 DEF obsVars
  <2>2. Applied' = Applied BY Zenon, <2>1 DEF Applied
  <2>3. ObsTypes' /\ Bounded' /\ Reported' /\ FreshVerdictIsRight'
    BY Zenon, <2>0, <2>1 DEF ObsTypes, Bounded, Reported, FreshVerdictIsRight
  <2>4. InOrder' BY Zenon, <2>0, <2>1, <2>2 DEF InOrder, Numbering, Cached
  <2> QED BY Zenon, <2>3, <2>4 DEF ObsInv
<1> QED BY Zenon, <1>1, <1>2, <1>3, <1>4 DEF ObsNext

LEMMA ObsInvariance == ObsSpec => []ObsInv
BY ObsInitially, ObsSteps, PTL DEF ObsSpec

LEMMA ObsInvImplies ==
  ASSUME ObsInv
  PROVE  ObsTypeOK /\ CursorTellsInventory /\ FreshVerdictIsRight
<1>0. ObsTypes /\ Bounded /\ Reported /\ InOrder /\ FreshVerdictIsRight
  BY Zenon DEF ObsInv
<1>1. ObsTypeOK BY Zenon, <1>0 DEF ObsTypes, Bounded, ObsTypeOK, Bindings
<1>2. CursorTellsInventory
  <2> SUFFICES ASSUME producer.run = 1,
                      cursor = [generation |-> producer.generation, sequence |-> producer.sequence - 1]
               PROVE  /\ projection.nodes = producer.nodes
                      /\ producer.class # Unchanged => projection.class = producer.class
    BY Zenon DEF CursorTellsInventory
  <2>1. PICK h \in [0..MaxSequence -> Inventories] : Numbering /\ Cached(h)
    BY Zenon, <1>0 DEF InOrder
  <2>2. cursor # NoCursor
    <3>1. producer.generation \in Nat /\ producer.sequence - 1 \in Nat
      BY SMT, <1>0, ObservationAssumption DEF ObsTypes
    <3>2. cursor \in [generation : Nat, sequence : Nat] BY Zenon, <3>1
    <3> QED BY Zenon, <3>2, ObservationAssumption
  <2>3. Applied = producer.sequence - 1
    BY Zenon, <2>1, <2>2 DEF Numbering
  <2> QED BY Zenon, <2>1, <2>3 DEF Cached
<1> QED BY Zenon, <1>0, <1>1, <1>2

\* The read model is the agent's: while the first agent process runs and the cursor stands at its
\* latest report, the read model shows the inventory cached with it, whatever reports were lost,
\* late or refused (projector.go).
THEOREM ReadModelFollowsAgent == ObsSpec => []CursorTellsInventory
BY ObsInvariance, ObsInvImplies, PTL

\* Whoever edits the binding and whenever: a verdict of the projector that is still Fresh and has
\* not been overwritten calls the binding Active exactly when the read model's class is the one it
\* was judged by (storage_projector.go, storage_desired_store.go).
THEOREM BindingsAreJudgedRight == ObsSpec => []FreshVerdictIsRight
BY ObsInvariance, ObsInvImplies, PTL

\* The agent and the projector stay within their types and bounds.
THEOREM ObservationTyped == ObsSpec => []ObsTypeOK
BY ObsInvariance, ObsInvImplies, PTL

--------------------------------------------------------------------------------
(* Admission. *)

Operation == [id : Callers, content : Contents, status : Statuses]

\* The records of a caller's request: on its way to an operation, between the targets of a
\* batch, with an operation to attach.
Submitting ==
  [pc : {"lookup", "admit", "begin", "locked", "inserted"}, key : Keys, content : Contents,
   confirmed : SUBSET Claims, status : Statuses, batch : Batches \cup {NoBatch}, todo : SUBSET Contents]
Preparing == [pc : {"children"}, batch : Batches, todo : SUBSET Contents]
Attaching ==
  [pc : {"children", "attach"}, batch : Batches, key : Keys, content : Contents, todo : SUBSET Contents]

Stages == {Idle} \cup Submitting \cup Preparing \cup Attaching

\* What is so of a caller c that has come as far as r says.
\* Its key is its own from the insert on, and not committed.
Inserting(c, r) ==
  r.pc = "inserted" => /\ operations[r.key] = NoOperation
                       /\ \A d \in Callers \ {c} : requests[d].pc = "inserted" => requests[d].key # r.key
\* From the lock on, the target is at the version that was seen.
Locking(r) ==
  r.pc \in {"locked", "inserted"} /\ r.key \notin CreateKeys =>
    r.content.target \in exists /\ row[r.content.target].version = r.content.expected
\* A batch has one handler, until it is refreshed.
Handling(c, r) ==
  r.pc # "idle" /\ r.batch # NoBatch =>
    /\ batches[r.batch] = "pending"
    /\ \A d \in Callers \ {c} : requests[d].pc # "idle" => requests[d].batch # r.batch
    /\ r.pc # "children" => r.key = ChildKey[r.batch][r.content.target]
\* What is attached is an operation on the batch's target.
Attached(r) ==
  r.pc = "attach" => operations[r.key] # NoOperation /\ operations[r.key].content = r.content

Sound(c, r) == Inserting(c, r) /\ Locking(r) /\ Handling(c, r) /\ Attached(r)

AllSound == \A c \in Callers : Sound(c, requests[c])

AdmInv ==
  /\ ObsInv /\ \A t \in Targets : row[t].version <= MaxVersion
  /\ AdmTypeOK /\ requests \in [Callers -> Stages]
  /\ AllSound /\ OneAnswerPerKey /\ BatchOutcomeIsFinal

LEMMA StageTypes ==
  ASSUME NEW r \in Stages
  PROVE  /\ r.pc \in {"lookup", "admit", "begin", "locked", "inserted"} => r \in Submitting
         /\ r.pc = "attach" => r \in Attaching
         /\ r.pc = "children" => r \in Preparing \cup Attaching
         /\ r.pc = "idle" => r = Idle
<1>1. ASSUME r \in Submitting PROVE r.pc \in {"lookup", "admit", "begin", "locked", "inserted"}
  BY Zenon, <1>1 DEF Submitting
<1>2. ASSUME r \in Preparing PROVE r.pc = "children"
  BY Zenon, <1>2 DEF Preparing
<1>3. ASSUME r \in Attaching PROVE r.pc \in {"children", "attach"}
  BY Zenon, <1>3 DEF Attaching
<1>4. ASSUME r = Idle PROVE r.pc = "idle"
  BY Zenon, <1>4 DEF Idle
<1> QED BY Zenon, <1>1, <1>2, <1>3, <1>4 DEF Stages

\* No operation is replaced by another.
OperationsStay ==
  \A k \in Keys : operations[k] # NoOperation =>
    /\ operations'[k] # NoOperation
    /\ operations'[k].id = operations[k].id /\ operations'[k].content = operations[k].content

\* One caller goes on and leaves to the others what they rely on.
LEMMA Progress ==
  ASSUME requests \in [Callers -> Stages], AllSound, OperationsStay, row' = row, exists \subseteq exists',
         NEW c \in Callers, NEW X \in Stages, requests' = [requests EXCEPT ![c] = X], Sound(c, X)',
         \A d \in Callers \ {c} :
           /\ requests[d].pc = "inserted" => operations'[requests[d].key] = operations[requests[d].key]
           /\ requests[d].pc # "idle" /\ requests[d].batch # NoBatch =>
                batches'[requests[d].batch] = batches[requests[d].batch]
  PROVE  requests' \in [Callers -> Stages] /\ AllSound'
<1>1. /\ requests' \in [Callers -> Stages] /\ requests'[c] = X
      /\ \A d \in Callers \ {c} : requests'[d] = requests[d]
  BY Zenon
<1>2. ASSUME NEW d \in Callers, d # c PROVE Sound(d, requests[d])'
  <2>0. PICK r \in Stages : r = requests[d] /\ r = requests'[d] BY Zenon, <1>1, <1>2
  <2>1. Sound(d, r) BY Zenon, <2>0 DEF AllSound
  <2>2. \A e \in Callers \ {d} : e = c \/ requests'[e] = requests[e] BY Zenon, <1>1
  <2>3. Inserting(d, r)'
    <3> SUFFICES ASSUME r.pc = "inserted"
                 PROVE  /\ operations'[r.key] = NoOperation
                        /\ \A e \in Callers \ {d} : requests'[e].pc = "inserted" => requests'[e].key # r.key
      BY Zenon DEF Inserting
    <3>1. /\ operations[r.key] = NoOperation
          /\ \A e \in Callers \ {d} : requests[e].pc = "inserted" => requests[e].key # r.key
      BY Zenon, <2>1 DEF Sound, Inserting
    <3>2. operations'[r.key] = operations[r.key]
      <4>1. requests[d].pc = "inserted" BY Zenon, <2>0
      <4>2. operations'[requests[d].key] = operations[requests[d].key] BY Zenon, <1>2, <4>1
      <4> QED BY Zenon, <2>0, <4>2
    <3>3. X.pc = "inserted" => X.key # r.key BY Zenon, <1>2, <2>0 DEF Sound, Inserting
    <3> QED BY Zenon, <1>1, <2>2, <3>1, <3>2, <3>3
  <2>4. Locking(r)'
    BY Zenon, <2>1 DEF Sound, Locking
  <2>5. Handling(d, r)'
    <3> SUFFICES ASSUME r.pc # "idle", r.batch # NoBatch
                 PROVE  /\ batches'[r.batch] = "pending"
                        /\ \A e \in Callers \ {d} : requests'[e].pc # "idle" => requests'[e].batch # r.batch
                        /\ r.pc # "children" => r.key = ChildKey[r.batch][r.content.target]
      BY Zenon DEF Handling
    <3>1. /\ batches[r.batch] = "pending"
          /\ \A e \in Callers \ {d} : requests[e].pc # "idle" => requests[e].batch # r.batch
          /\ r.pc # "children" => r.key = ChildKey[r.batch][r.content.target]
      BY Zenon, <2>1 DEF Sound, Handling
    <3>2. batches'[r.batch] = batches[r.batch] BY Zenon, <1>2, <2>0
    <3>3. X.pc # "idle" => X.batch # r.batch
      <4> SUFFICES ASSUME X.pc # "idle", X.batch # NoBatch PROVE X.batch # r.batch BY Zenon
      <4>1. \A e \in Callers \ {c} : requests'[e].pc # "idle" => requests'[e].batch # X.batch
        BY Zenon DEF Sound, Handling
      <4>2. requests'[d].pc # "idle" /\ requests'[d].batch = r.batch BY Zenon, <2>0
      <4> QED BY Zenon, <1>2, <4>1, <4>2
    <3> QED BY Zenon, <1>1, <2>2, <3>1, <3>2, <3>3
  <2>6. Attached(r)'
    <3> SUFFICES ASSUME r.pc = "attach" PROVE operations'[r.key] # NoOperation /\ operations'[r.key].content = r.content
      BY Zenon DEF Attached
    <3>1. r.key \in Keys BY Zenon, StageTypes DEF Attaching
    <3>2. operations[r.key] # NoOperation /\ operations[r.key].content = r.content
      BY Zenon, <2>1 DEF Sound, Attached
    <3> QED BY Zenon, <3>1, <3>2 DEF OperationsStay
  <2>7. Sound(d, r)' BY Zenon, <2>3, <2>4, <2>5, <2>6 DEF Sound
  <2> QED BY ZenonT(40), <2>0, <2>7 DEF Sound, Inserting, Locking, Handling, Attached
<1>3. Sound(c, requests[c])'
  BY Zenon, <1>1 DEF Sound, Inserting, Locking, Handling, Attached
<1> QED BY Zenon, <1>1, <1>2, <1>3 DEF AllSound

\* Observation does not move.
LEMMA ObservationRests ==
  ASSUME AdmInv, UNCHANGED obsVars
  PROVE  ObsInv' /\ (\A t \in Targets : row'[t].version <= MaxVersion) /\ row' = row
<1>1. ObsInv' BY Zenon, ObsSteps DEF AdmInv
<1> QED BY Zenon, <1>1 DEF AdmInv, obsVars

\* A caller goes on and writes nothing but its answer and its challenge.
LEMMA Moves ==
  ASSUME AdmInv, UNCHANGED obsVars, UNCHANGED <<exists, operations, batches, children>>,
         NEW c \in Callers, NEW X \in Stages, requests' = [requests EXCEPT ![c] = X], Sound(c, X),
         challenges' \subseteq Claims, answers' \subseteq [key : Keys, content : Contents, operation : Callers],
         OneAnswerPerKey'
  PROVE  AdmInv'
<1>0. /\ AdmTypeOK /\ requests \in [Callers -> Stages] /\ AllSound /\ BatchOutcomeIsFinal
      /\ exists' = exists /\ operations' = operations /\ batches' = batches /\ children' = children
  BY Zenon DEF AdmInv
<1>1. ObsInv' /\ (\A t \in Targets : row'[t].version <= MaxVersion) /\ row' = row
  BY Zenon, ObservationRests
<1>2. \A d \in Callers \ {c} : requests'[d] = requests[d] BY Zenon, <1>0
<1>3. Sound(c, X)'
  <2>1. Inserting(c, X)' BY Zenon, <1>0, <1>2 DEF Sound, Inserting
  <2>2. Locking(X)' BY Zenon, <1>0, <1>1 DEF Sound, Locking
  <2>3. Handling(c, X)' BY Zenon, <1>0, <1>2 DEF Sound, Handling
  <2>4. Attached(X)' BY Zenon, <1>0 DEF Sound, Attached
  <2> QED BY Zenon, <2>1, <2>2, <2>3, <2>4 DEF Sound
<1>4. OperationsStay BY Zenon, <1>0 DEF OperationsStay
<1>5. requests' \in [Callers -> Stages] /\ AllSound'
  BY Zenon, <1>0, <1>1, <1>3, <1>4, Progress
<1>6. AdmTypeOK' BY Zenon, <1>0 DEF AdmTypeOK
<1>7. BatchOutcomeIsFinal' BY Zenon, <1>0 DEF BatchOutcomeIsFinal
<1> QED BY Zenon, <1>1, <1>5, <1>6, <1>7 DEF AdmInv

\* A request goes on under its key, for its content and its batch.
LEMMA GoesOn ==
  ASSUME AdmInv, NEW c \in Callers, NEW r \in Submitting, r = requests[c], NEW X \in Submitting,
         X.key = r.key, X.content = r.content, X.batch = r.batch, Inserting(c, X), Locking(X)
  PROVE  Sound(c, X)
<1>1. Sound(c, r) BY Zenon DEF AdmInv, AllSound
<1>2. /\ r.pc # "idle" /\ X.pc # "idle" /\ X.pc # "attach" /\ r.pc # "children"
  BY Zenon DEF Submitting
<1>3. Handling(c, r) BY Zenon, <1>1 DEF Sound
<1>4. Handling(c, X) BY Zenon, <1>2, <1>3 DEF Handling
<1>5. Attached(X) BY Zenon, <1>2 DEF Attached
<1> QED BY Zenon, <1>4, <1>5 DEF Sound

AttachRecord(p, batch, key, content, todo) ==
  [pc |-> p, batch |-> batch, key |-> key, content |-> content, todo |-> todo]

LEMMA AttachingStage ==
  ASSUME NEW p \in {"children", "attach"}, NEW batch \in Batches, NEW key \in Keys,
         NEW content \in Contents, NEW todo \in SUBSET Contents,
         NEW Y, Y = AttachRecord(p, batch, key, content, todo)
  PROVE  Y \in Attaching /\ Y.pc = p /\ Y.batch = batch /\ Y.key = key /\ Y.content = content
<1>2. Y \in Attaching BY Zenon DEF Attaching, AttachRecord
<1>3. Y.pc = p /\ Y.batch = batch /\ Y.key = key /\ Y.content = content BY Zenon DEF AttachRecord
<1> QED BY Zenon, <1>2, <1>3

\* The caller is answered, with the operation that exists under its key or with none.
LEMMA Answering ==
  ASSUME AdmInv, UNCHANGED obsVars, UNCHANGED <<exists, operations, batches, children>>,
         NEW c \in Callers, NEW r \in Submitting, r = requests[c],
         NEW op \in Callers \cup {NoOperation}, Answers(c, op), challenges' \subseteq Claims,
         op # NoOperation => /\ operations[r.key] # NoOperation /\ operations[r.key].id = op
                             /\ operations[r.key].content = r.content
  PROVE  AdmInv'
<1> DEFINE X == IF r.batch = NoBatch THEN Idle
                ELSE [pc |-> IF op = NoOperation THEN "children" ELSE "attach",
                      batch |-> r.batch, key |-> r.key, content |-> r.content, todo |-> r.todo]
<1>0. AdmTypeOK /\ OneAnswerPerKey /\ Sound(c, r) BY Zenon DEF AdmInv, AllSound
<1>1. /\ answers' = IF op = NoOperation THEN answers
                    ELSE answers \cup {[key |-> r.key, content |-> r.content, operation |-> op]}
      /\ requests' = [requests EXCEPT ![c] = X]
  BY Zenon DEF Answers
<1>2. /\ r.key \in Keys /\ r.content \in Contents /\ r.batch \in Batches \cup {NoBatch} /\ r.todo \in SUBSET Contents
      /\ r.pc # "idle" /\ r.pc # "children"
  BY Zenon DEF Submitting
<1>3. answers' \subseteq [key : Keys, content : Contents, operation : Callers]
  <2>1. answers \subseteq [key : Keys, content : Contents, operation : Callers] BY Zenon, <1>0 DEF AdmTypeOK
  <2>2. op # NoOperation =>
          [key |-> r.key, content |-> r.content, operation |-> op] \in [key : Keys, content : Contents, operation : Callers]
    BY Zenon, <1>2
  <2> QED BY Zenon, <1>1, <2>1, <2>2
<1>4. OneAnswerPerKey'
  <2> SUFFICES ASSUME NEW a \in answers'
               PROVE  /\ operations[a.key] # NoOperation /\ operations[a.key].id = a.operation
                      /\ operations[a.key].content = a.content
    BY Zenon DEF OneAnswerPerKey
  <2>1. CASE a \in answers BY Zenon, <1>0, <2>1 DEF OneAnswerPerKey
  <2>2. CASE op # NoOperation /\ a = [key |-> r.key, content |-> r.content, operation |-> op]
    BY Zenon, <2>2
  <2> QED BY Zenon, <1>1, <2>1, <2>2
<1>5. CASE r.batch = NoBatch
  <2>1. X = Idle BY Zenon, <1>5
  <2>2. Idle \in Stages /\ Sound(c, Idle)
    BY Zenon DEF Stages, Idle, Sound, Inserting, Locking, Handling, Attached
  <2> QED BY Zenon, <1>1, <1>3, <1>4, <2>1, <2>2, Moves
<1>6. CASE r.batch # NoBatch
  <2>0. PICK p \in {"children", "attach"} : p = IF op = NoOperation THEN "children" ELSE "attach" BY Zenon
  <2>1. X = [pc |-> p, batch |-> r.batch, key |-> r.key, content |-> r.content, todo |-> r.todo]
    BY Zenon, <1>6, <2>0
  <2> HIDE DEF X
  <2>a. r.batch \in Batches BY Zenon, <1>2, <1>6
  <2>b. PICK Y : Y = AttachRecord(p, r.batch, r.key, r.content, r.todo) BY Zenon
  <2>c. r.key \in Keys /\ r.content \in Contents /\ r.todo \in SUBSET Contents BY Zenon, <1>2
  <2>2. Y \in Attaching /\ Y.pc = p /\ Y.batch = r.batch /\ Y.key = r.key /\ Y.content = r.content
    BY SMT, <2>a, <2>b, <2>c, AttachingStage
  <2>3. Y \in Stages BY Zenon, <2>2 DEF Stages
  <2>4. Handling(c, r) BY Zenon, <1>0 DEF Sound
  <2>5. Handling(c, Y) BY Zenon, <1>2, <1>6, <2>2, <2>4 DEF Handling
  <2>6. Attached(Y) BY Zenon, <2>0, <2>2 DEF Attached
  <2>7. Inserting(c, Y) /\ Locking(Y) BY Zenon, <2>2 DEF Inserting, Locking
  <2>8. Sound(c, Y) BY Zenon, <2>5, <2>6, <2>7 DEF Sound
  <2>9. requests' = [requests EXCEPT ![c] = Y] BY Zenon, <1>1, <2>1, <2>b DEF AttachRecord
  <2> QED BY Zenon, <1>3, <1>4, <2>3, <2>8, <2>9, Moves
<1> QED BY Zenon, <1>5, <1>6

LEMMA RefusedKeeps ==
  ASSUME AdmInv, UNCHANGED obsVars, NEW c \in Callers, NEW r \in Submitting, r = requests[c], Refused(c)
  PROVE  AdmInv'
<1>1. Answers(c, NoOperation) /\ challenges' = challenges /\ UNCHANGED <<exists, operations, batches, children>>
  BY Zenon DEF Refused
<1>2. challenges' \subseteq Claims BY Zenon, <1>1 DEF AdmInv, AdmTypeOK
<1>3. NoOperation \in Callers \cup {NoOperation} BY Zenon
<1> QED BY Zenon, <1>1, <1>2, <1>3, Answering

LEMMA ReplayKeeps ==
  ASSUME AdmInv, UNCHANGED obsVars, NEW c \in Callers, NEW r \in Submitting, r = requests[c], Replay(c)
  PROVE  AdmInv'
<1> DEFINE op == IF operations[r.key].content = r.content THEN operations[r.key].id ELSE NoOperation
<1>1. /\ operations[r.key] # NoOperation /\ Answers(c, op) /\ challenges' = challenges
      /\ UNCHANGED <<exists, operations, batches, children>>
  BY Zenon DEF Replay
<1>2. challenges' \subseteq Claims BY Zenon, <1>1 DEF AdmInv, AdmTypeOK
<1>3. r.key \in Keys BY Zenon DEF Submitting
<1>4. operations[r.key] \in Operation BY Zenon, <1>1, <1>3 DEF AdmInv, AdmTypeOK, Operation
<1>5. PICK p \in Callers \cup {NoOperation} : p = op BY Zenon, <1>4 DEF Operation
<1>6. p # NoOperation => operations[r.key].id = p /\ operations[r.key].content = r.content BY Zenon, <1>5
<1>7. Answers(c, p) BY Zenon, <1>1, <1>5
<1> QED BY Zenon, <1>1, <1>2, <1>6, <1>7, Answering

LEMMA StageOf ==
  ASSUME AdmInv, NEW c \in Callers
  PROVE  /\ requests[c] \in Stages
         /\ requests[c].pc \in {"lookup", "admit", "begin", "locked", "inserted"} => requests[c] \in Submitting
<1>1. requests[c] \in Stages BY Zenon DEF AdmInv
<1>2. PICK r \in Stages : r = requests[c] BY Zenon, <1>1
<1>3. r.pc \in {"lookup", "admit", "begin", "locked", "inserted"} => r \in Submitting BY Zenon, StageTypes
<1> QED BY Zenon, <1>2, <1>3

\* A caller goes on and writes nothing at all.
LEMMA SilentMove ==
  ASSUME AdmInv, UNCHANGED obsVars, NEW c \in Callers, NEW X \in Stages, Goes(c, X), UNCHANGED <<answers, challenges>>,
         Sound(c, X)
  PROVE  AdmInv'
<1>1. /\ requests' = [requests EXCEPT ![c] = X] /\ UNCHANGED <<exists, operations, batches, children>>
      /\ answers' = answers /\ challenges' = challenges
  BY Zenon DEF Goes
<1>2. AdmTypeOK /\ OneAnswerPerKey BY Zenon DEF AdmInv
<1>3. challenges' \subseteq Claims /\ answers' \subseteq [key : Keys, content : Contents, operation : Callers]
  BY Zenon, <1>1, <1>2 DEF AdmTypeOK
<1>4. OneAnswerPerKey' BY Zenon, <1>1, <1>2 DEF OneAnswerPerKey
<1> QED BY Zenon, <1>1, <1>3, <1>4, Moves

LEMMA ReceiveKeeps ==
  ASSUME AdmInv, UNCHANGED obsVars, NEW c \in Callers, NEW key \in Keys, NEW t \in Targets,
         NEW confirmed \in SUBSET challenges, NEW expected \in 0..row[t].version,
         Receive(c, key, [target |-> t, expected |-> expected], confirmed)
  PROVE  AdmInv'
<1>1. row[t].version \in Nat /\ row[t].version <= MaxVersion BY Zenon DEF AdmInv, ObsInv, ObsTypes
<1>2. expected \in 0..MaxVersion BY SMT, <1>1, AdmissionAssumption
<1>3. PICK content \in Contents : content = [target |-> t, expected |-> expected] BY Zenon, <1>2 DEF Contents
<1>4. PICK X : X = [pc |-> "lookup", key |-> key, content |-> content, confirmed |-> confirmed,
                    status |-> "queued", batch |-> NoBatch, todo |-> {}]
  BY Zenon
<1>5. confirmed \in SUBSET Claims BY Zenon DEF AdmInv, AdmTypeOK
<1>6. X \in Submitting BY SMT, <1>4, <1>5 DEF Submitting, Statuses
<1>7. X.pc = "lookup" /\ X.batch = NoBatch BY Zenon, <1>4
<1>8. X \in Stages BY Zenon, <1>6 DEF Stages
<1>9. Sound(c, X) BY Zenon, <1>7 DEF Sound, Inserting, Locking, Handling, Attached
<1>10. Goes(c, X) /\ UNCHANGED <<answers, challenges>> BY Zenon, <1>3, <1>4 DEF Receive
<1> QED BY Zenon, <1>8, <1>9, <1>10, SilentMove

LEMMA NextStage ==
  ASSUME NEW r \in Submitting, NEW p \in {"lookup", "admit", "begin", "locked", "inserted"},
         NEW X, X = [r EXCEPT !.pc = p]
  PROVE  X \in Submitting /\ X.pc = p /\ X.key = r.key /\ X.content = r.content /\ X.batch = r.batch
<1>2. X \in Submitting BY Zenon DEF Submitting
<1>3. X.pc = p /\ X.key = r.key /\ X.content = r.content /\ X.batch = r.batch BY Zenon DEF Submitting
<1> QED BY Zenon, <1>2, <1>3

LEMMA LookupKeeps ==
  ASSUME AdmInv, UNCHANGED obsVars, NEW c \in Callers, Lookup(c)
  PROVE  AdmInv'
<1>1. PICK r \in Submitting : r = requests[c] BY Zenon, StageOf DEF Lookup
<1>2. CASE Replay(c) BY Zenon, <1>1, <1>2, ReplayKeeps
<1>3. CASE Goes(c, [r EXCEPT !.pc = "admit"]) /\ UNCHANGED <<answers, challenges>>
  <2>0. PICK X : X = [r EXCEPT !.pc = "admit"] BY Zenon
  <2>1. X \in Submitting /\ X.pc = "admit" /\ X.key = r.key /\ X.content = r.content /\ X.batch = r.batch
    BY SMT, <2>0, NextStage
  <2>2. Inserting(c, X) /\ Locking(X) BY Zenon, <2>1 DEF Inserting, Locking
  <2>3. Sound(c, X) BY Zenon, <1>1, <2>1, <2>2, GoesOn
  <2>4. X \in Stages /\ Goes(c, X) BY Zenon, <1>3, <2>0, <2>1 DEF Stages
  <2> QED BY Zenon, <1>3, <2>3, <2>4, SilentMove
<1> QED BY Zenon, <1>1, <1>2, <1>3 DEF Lookup

LEMMA StatusTypes ==
  ASSUME NEW key \in Keys
  PROVE  InitialStatus(key) \in Statuses /\ PolicyStatus \in Statuses
<1>1. InitialStatus(key) \in Statuses BY Zenon DEF InitialStatus, Statuses
<1>2. PolicyStatus \in {"pending_approval", "queued_offline", "queued"} BY SMT DEF PolicyStatus
<1> QED BY Zenon, <1>1, <1>2 DEF Statuses

LEMMA AdmittedKeeps ==
  ASSUME AdmInv, UNCHANGED obsVars, NEW c \in Callers, NEW r \in Submitting, r = requests[c],
         NEW status \in Statuses, Goes(c, [r EXCEPT !.pc = "begin", !.status = status]),
         UNCHANGED <<answers, challenges>>
  PROVE  AdmInv'
<1>1. PICK X : X = [r EXCEPT !.pc = "begin", !.status = status] BY Zenon
<1>2. X \in Submitting BY Zenon, <1>1 DEF Submitting
<1>3. X.pc = "begin" /\ X.key = r.key /\ X.content = r.content /\ X.batch = r.batch
  BY Zenon, <1>1 DEF Submitting
<1>4. Inserting(c, X) /\ Locking(X) BY Zenon, <1>3 DEF Inserting, Locking
<1>5. Sound(c, X) BY Zenon, <1>2, <1>3, <1>4, GoesOn
<1>6. X \in Stages /\ Goes(c, X) BY Zenon, <1>1, <1>2 DEF Stages
<1> QED BY Zenon, <1>5, <1>6, SilentMove

LEMMA IssueKeeps ==
  ASSUME AdmInv, UNCHANGED obsVars, NEW c \in Callers, NEW r \in Submitting, r = requests[c],
         Issue(c, staleChallengeClaims(r.content))
  PROVE  AdmInv'
<1>1. /\ challenges' = challenges \cup {staleChallengeClaims(r.content)} /\ Answers(c, NoOperation)
      /\ UNCHANGED <<exists, operations, batches, children>>
  BY Zenon DEF Issue
<1>2. r.content \in Contents /\ r.content.target \in Targets BY Zenon DEF Submitting, Contents
<1>3. /\ row[r.content.target].version \in Nat /\ row[r.content.target].version <= MaxVersion
      /\ row[r.content.target].generation \in 0..MaxGeneration /\ row[r.content.target].revision \in 0..MaxSequence
  BY ZenonT(40), <1>2 DEF AdmInv, ObsInv, ObsTypes
<1>4. row[r.content.target].version \in 0..MaxVersion BY SMT, <1>3, AdmissionAssumption
<1>5. staleChallengeClaims(r.content) \in Claims BY Zenon, <1>2, <1>3, <1>4 DEF staleChallengeClaims, Claims
<1>6. challenges' \subseteq Claims BY Zenon, <1>1, <1>5 DEF AdmInv, AdmTypeOK
<1>7. NoOperation \in Callers \cup {NoOperation} BY Zenon
<1> QED BY Zenon, <1>1, <1>6, <1>7, Answering

LEMMA AdmitKeeps ==
  ASSUME AdmInv, UNCHANGED obsVars, NEW c \in Callers, Admit(c)
  PROVE  AdmInv'
<1>1. PICK r \in Submitting : r = requests[c] BY Zenon, StageOf DEF Admit
<1>2. r.key \in Keys BY Zenon DEF Submitting
<1>3. ASSUME NEW status \in {InitialStatus(r.key), PolicyStatus},
             Goes(c, [r EXCEPT !.pc = "begin", !.status = status]), UNCHANGED <<answers, challenges>>
      PROVE  AdmInv'
  <2>1. status \in Statuses BY Zenon, <1>2, StatusTypes
  <2> QED BY Zenon, <1>1, <1>3, <2>1, AdmittedKeeps
<1>4. CASE Refused(c) BY Zenon, <1>1, <1>4, RefusedKeeps
<1>5. CASE Issue(c, staleChallengeClaims(r.content)) BY Zenon, <1>1, <1>5, IssueKeeps
<1>6. \/ Goes(c, [r EXCEPT !.pc = "begin", !.status = InitialStatus(r.key)]) /\ UNCHANGED <<answers, challenges>>
      \/ Goes(c, [r EXCEPT !.pc = "begin", !.status = PolicyStatus]) /\ UNCHANGED <<answers, challenges>>
      \/ Refused(c) \/ Issue(c, staleChallengeClaims(r.content))
  BY Zenon, <1>1 DEF Admit, admitStaleTarget, Admitted
<1> QED BY Zenon, <1>3, <1>4, <1>5, <1>6

LEMMA BeginSubmitKeeps ==
  ASSUME AdmInv, UNCHANGED obsVars, NEW c \in Callers, BeginSubmit(c)
  PROVE  AdmInv'
<1>1. PICK r \in Submitting : r = requests[c] BY Zenon, StageOf DEF BeginSubmit
<1>2. CASE Replay(c) BY Zenon, <1>1, <1>2, ReplayKeeps
<1>3. CASE Refused(c) BY Zenon, <1>1, <1>3, RefusedKeeps
<1>4. CASE /\ r.key \in CreateKeys \/ (r.content.target \in exists /\ row[r.content.target].version = r.content.expected)
           /\ Goes(c, [r EXCEPT !.pc = "locked"]) /\ UNCHANGED <<answers, challenges>>
  <2>0. PICK X : X = [r EXCEPT !.pc = "locked"] BY Zenon
  <2>1. X \in Submitting /\ X.pc = "locked" /\ X.key = r.key /\ X.content = r.content /\ X.batch = r.batch
    BY SMT, <2>0, NextStage
  <2>2. Inserting(c, X) /\ Locking(X) BY Zenon, <1>4, <2>1 DEF Inserting, Locking
  <2>3. Sound(c, X) BY Zenon, <1>1, <2>1, <2>2, GoesOn
  <2>4. X \in Stages /\ Goes(c, X) BY Zenon, <1>4, <2>0, <2>1 DEF Stages
  <2> QED BY Zenon, <1>4, <2>3, <2>4, SilentMove
<1> QED BY Zenon, <1>1, <1>2, <1>3, <1>4 DEF BeginSubmit

LEMMA InsertOperationKeeps ==
  ASSUME AdmInv, UNCHANGED obsVars, NEW c \in Callers, InsertOperation(c)
  PROVE  AdmInv'
<1>1. PICK r \in Submitting : r = requests[c] BY Zenon, StageOf DEF InsertOperation
<1>0. r.pc = "locked" /\ \A d \in Callers \ {c} : requests[d].pc = "inserted" => requests[d].key # r.key
  BY Zenon, <1>1 DEF InsertOperation
<1>2. CASE Replay(c) BY Zenon, <1>1, <1>2, ReplayKeeps
<1>4. CASE /\ operations[r.key] = NoOperation
           /\ Goes(c, [r EXCEPT !.pc = "inserted"]) /\ UNCHANGED <<answers, challenges>>
  <2>0. PICK X : X = [r EXCEPT !.pc = "inserted"] BY Zenon
  <2>1. X \in Submitting /\ X.pc = "inserted" /\ X.key = r.key /\ X.content = r.content /\ X.batch = r.batch
    BY SMT, <2>0, NextStage
  <2>2. Inserting(c, X) BY Zenon, <1>0, <1>4, <2>1 DEF Inserting
  <2>a. Locking(r) BY Zenon, <1>1 DEF AdmInv, AllSound, Sound
  <2>b. Locking(X) BY Zenon, <1>0, <2>1, <2>a DEF Locking
  <2>3. Sound(c, X) BY Zenon, <1>1, <2>1, <2>2, <2>b, GoesOn
  <2>4. X \in Stages /\ Goes(c, X) BY Zenon, <1>4, <2>0, <2>1 DEF Stages
  <2> QED BY Zenon, <1>4, <2>3, <2>4, SilentMove
<1> QED BY Zenon, <1>1, <1>2, <1>4 DEF InsertOperation

LEMMA AbandonKeeps ==
  ASSUME AdmInv, UNCHANGED obsVars, NEW c \in Callers, Abandon(c)
  PROVE  AdmInv'
<1>1. Goes(c, Idle) /\ UNCHANGED <<answers, challenges>> BY Zenon DEF Abandon
<1>2. Idle \in Stages /\ Sound(c, Idle)
  BY Zenon DEF Stages, Idle, Sound, Inserting, Locking, Handling, Attached
<1> QED BY Zenon, <1>1, <1>2, SilentMove

LEMMA CommitSubmitKeeps ==
  ASSUME AdmInv, UNCHANGED obsVars, NEW c \in Callers, CommitSubmit(c)
  PROVE  AdmInv'
<1>0. /\ AdmTypeOK /\ requests \in [Callers -> Stages] /\ AllSound /\ OneAnswerPerKey /\ BatchOutcomeIsFinal
  BY Zenon DEF AdmInv
<1>1. PICK r \in Submitting : r = requests[c] /\ r.pc = "inserted" BY Zenon, StageOf DEF CommitSubmit
<1>2. /\ r.key \in Keys /\ r.content \in Contents /\ r.status \in Statuses /\ r.content.target \in Targets
      /\ r.batch \in Batches \cup {NoBatch} /\ r.todo \in SUBSET Contents
  BY Zenon DEF Submitting, Contents
<1>3. PICK new \in Operation : /\ new = [id |-> c, content |-> r.content, status |-> r.status]
                               /\ new.id = c /\ new.content = r.content
  <2>1. PICK new : new = [id |-> c, content |-> r.content, status |-> r.status] BY Zenon
  <2>2. new \in Operation BY Zenon, <1>2, <2>1 DEF Operation
  <2>3. new.id = c /\ new.content = r.content BY Zenon, <2>1
  <2> QED BY Zenon, <2>1, <2>2, <2>3
<1>4. /\ operations' = [operations EXCEPT ![r.key] = new]
      /\ exists' = IF r.key \in CreateKeys THEN exists \cup {r.content.target} ELSE exists
      /\ Answers(c, c) /\ UNCHANGED <<challenges, batches, children>>
  BY Zenon, <1>1, <1>3 DEF CommitSubmit
<1>5. /\ new # NoOperation /\ c # NoOperation
  BY Zenon, <1>3, AdmissionAssumption DEF Operation
<1>6. /\ Sound(c, r) /\ operations[r.key] = NoOperation
      /\ \A d \in Callers \ {c} : requests[d].pc = "inserted" => requests[d].key # r.key
  BY Zenon, <1>0, <1>1 DEF AllSound, Sound, Inserting
<1>7. operations \in [Keys -> Operation \cup {NoOperation}] BY Zenon, <1>0 DEF AdmTypeOK, Operation
<1>8. /\ operations'[r.key] = new /\ operations' \in [Keys -> Operation \cup {NoOperation}]
      /\ \A k \in Keys : k # r.key => operations'[k] = operations[k]
  BY Zenon, <1>2, <1>4, <1>7
<1>9. exists \subseteq exists' /\ exists' \subseteq Targets BY Zenon, <1>0, <1>2, <1>4 DEF AdmTypeOK
<1>10. ObsInv' /\ (\A t \in Targets : row'[t].version <= MaxVersion) /\ row' = row
  BY Zenon, ObservationRests
<1>11. OperationsStay BY Zenon, <1>6, <1>8 DEF OperationsStay
<1>12. PICK a : /\ a = [key |-> r.key, content |-> r.content, operation |-> c] /\ answers' = answers \cup {a}
                /\ a.key = r.key /\ a.content = r.content /\ a.operation = c
                /\ a \in [key : Keys, content : Contents, operation : Callers]
  <2>1. answers' = answers \cup {[key |-> r.key, content |-> r.content, operation |-> c]}
    BY Zenon, <1>1, <1>4, <1>5 DEF Answers
  <2>2. [key |-> r.key, content |-> r.content, operation |-> c] \in [key : Keys, content : Contents, operation : Callers]
    BY Zenon, <1>2
  <2> QED BY Zenon, <2>1, <2>2
<1>13. AdmTypeOK'
  <2>1. answers' \subseteq [key : Keys, content : Contents, operation : Callers]
    BY Zenon, <1>0, <1>12 DEF AdmTypeOK
  <2> QED BY Zenon, <1>0, <1>4, <1>8, <1>9, <2>1 DEF AdmTypeOK, Operation
<1>14. OneAnswerPerKey'
  <2> SUFFICES ASSUME NEW x \in answers'
               PROVE  /\ operations'[x.key] # NoOperation /\ operations'[x.key].id = x.operation
                      /\ operations'[x.key].content = x.content
    BY Zenon DEF OneAnswerPerKey
  <2>1. CASE x \in answers
    <3>1. x.key \in Keys BY Zenon, <1>0, <2>1 DEF AdmTypeOK
    <3>2. /\ operations[x.key] # NoOperation /\ operations[x.key].id = x.operation
          /\ operations[x.key].content = x.content
      BY Zenon, <1>0, <2>1 DEF OneAnswerPerKey
    <3> QED BY Zenon, <1>11, <3>1, <3>2 DEF OperationsStay
  <2>2. CASE x = a
    <3>1. x.key = r.key /\ x.content = r.content /\ x.operation = c BY Zenon, <1>12, <2>2
    <3> QED BY Zenon, <1>3, <1>5, <1>8, <3>1
  <2> QED BY Zenon, <1>12, <2>1, <2>2
<1>15. BatchOutcomeIsFinal'
  <2> SUFFICES ASSUME NEW x \in children
               PROVE  /\ x.key = ChildKey[x.batch][x.target]
                      /\ operations'[x.key] # NoOperation
                      /\ operations'[x.key].content.target = x.target
                      /\ batches[x.batch] \in {"partial_succeeded", "failed", "cancelled", "succeeded"} =>
                           operations'[x.key].status \in Ended
    BY Zenon, <1>4 DEF BatchOutcomeIsFinal
  <2>1. /\ x.key = ChildKey[x.batch][x.target]
        /\ operations[x.key] # NoOperation
        /\ operations[x.key].content.target = x.target
        /\ batches[x.batch] \in {"partial_succeeded", "failed", "cancelled", "succeeded"} =>
             operations[x.key].status \in Ended
    BY Zenon, <1>0 DEF BatchOutcomeIsFinal
  <2>2. x.key \in Keys /\ x.key # r.key BY Zenon, <1>0, <1>6, <2>1 DEF AdmTypeOK, Children
  <2>3. operations'[x.key] = operations[x.key] BY Zenon, <1>8, <2>2
  <2> QED BY Zenon, <2>1, <2>3
<1>16. PICK X \in Stages : requests' = [requests EXCEPT ![c] = X] /\ Sound(c, X)'
  <2>1. CASE r.batch = NoBatch
    <3>1. requests' = [requests EXCEPT ![c] = Idle] BY Zenon, <1>1, <1>4, <2>1 DEF Answers
    <3>2. Idle \in Stages BY Zenon DEF Stages
    <3>3. Idle.pc = "idle" BY Zenon DEF Idle
    <3>4. Sound(c, Idle)' BY Zenon, <3>3 DEF Sound, Inserting, Locking, Handling, Attached
    <3> QED BY Zenon, <3>1, <3>2, <3>4
  <2>2. CASE r.batch # NoBatch
    <3>1. requests' = [requests EXCEPT ![c] = [pc |-> "attach", batch |-> r.batch, key |-> r.key,
                                               content |-> r.content, todo |-> r.todo]]
      BY Zenon, <1>1, <1>4, <1>5, <2>2 DEF Answers
    <3>2. r.batch \in Batches BY Zenon, <1>2, <2>2
    <3>3. PICK p \in {"children", "attach"} : p = "attach" BY Zenon
    <3>a. PICK Y : Y = AttachRecord(p, r.batch, r.key, r.content, r.todo) BY Zenon
    <3>b. r.key \in Keys /\ r.content \in Contents /\ r.todo \in SUBSET Contents BY Zenon, <1>2
    <3>4. Y \in Attaching /\ Y.pc = p /\ Y.batch = r.batch /\ Y.key = r.key /\ Y.content = r.content
      BY SMT, <3>2, <3>a, <3>b, AttachingStage
    <3>5. requests' = [requests EXCEPT ![c] = Y] BY Zenon, <3>1, <3>3, <3>a DEF AttachRecord
    <3>6. \A d \in Callers \ {c} : requests'[d] = requests[d] BY Zenon, <1>0, <3>5
    <3>7. /\ batches[r.batch] = "pending"
          /\ \A d \in Callers \ {c} : requests[d].pc # "idle" => requests[d].batch # r.batch
          /\ r.key = ChildKey[r.batch][r.content.target]
      BY Zenon, <1>1, <1>6, <2>2 DEF Sound, Handling
    <3>8. Handling(c, Y)' BY Zenon, <1>4, <3>4, <3>6, <3>7 DEF Handling
    <3>9. Attached(Y)' BY Zenon, <1>3, <1>5, <1>8, <3>4 DEF Attached
    <3>10. Inserting(c, Y)' /\ Locking(Y)' BY Zenon, <3>3, <3>4 DEF Inserting, Locking
    <3>11. Sound(c, Y)' BY Zenon, <3>8, <3>9, <3>10 DEF Sound
    <3> QED BY Zenon, <3>4, <3>5, <3>11 DEF Stages
  <2> QED BY Zenon, <2>1, <2>2
<1>17. \A d \in Callers \ {c} :
         /\ requests[d].pc = "inserted" => operations'[requests[d].key] = operations[requests[d].key]
         /\ requests[d].pc # "idle" /\ requests[d].batch # NoBatch =>
              batches'[requests[d].batch] = batches[requests[d].batch]
  <2>1. ASSUME NEW d \in Callers \ {c}, requests[d].pc = "inserted"
        PROVE  operations'[requests[d].key] = operations[requests[d].key]
    <3>1. requests[d] \in Submitting BY Zenon, <2>1, StageOf
    <3>2. requests[d].key \in Keys /\ requests[d].key # r.key BY Zenon, <1>6, <2>1, <3>1 DEF Submitting
    <3> QED BY Zenon, <1>8, <3>2
  <2> QED BY Zenon, <1>4, <2>1
<1>18. requests' \in [Callers -> Stages] /\ AllSound'
  BY ZenonT(40), <1>0, <1>9, <1>10, <1>11, <1>16, <1>17, Progress
<1> QED BY Zenon, <1>10, <1>13, <1>14, <1>15, <1>18 DEF AdmInv

\* No caller goes on; operations at most end, the target rows that are locked stay.
LEMMA NobodyMoves ==
  ASSUME requests \in [Callers -> Stages], AllSound, OperationsStay,
         \A k \in Keys : operations[k] = NoOperation => operations'[k] = NoOperation,
         UNCHANGED <<requests, exists, batches>>,
         \A d \in Callers, t \in Targets : SharesRow(d, t) => row'[t] = row[t]
  PROVE  AllSound'
<1> SUFFICES ASSUME NEW d \in Callers PROVE Sound(d, requests[d])' BY Zenon DEF AllSound
<1>0. PICK r \in Stages : r = requests[d] /\ r = requests'[d] BY Zenon
<1>1. Sound(d, r) BY Zenon, <1>0 DEF AllSound
<1>2. r.pc \in {"locked", "inserted"} => r.key \in Keys /\ r.content.target \in Targets
  BY Zenon, StageTypes DEF Submitting, Contents
<1>3. Inserting(d, r)' BY Zenon, <1>1, <1>2 DEF Sound, Inserting
<1>4. Locking(r)'
  <2> SUFFICES ASSUME r.pc \in {"locked", "inserted"}, r.key \notin CreateKeys
               PROVE  r.content.target \in exists /\ row'[r.content.target].version = r.content.expected
    BY Zenon DEF Locking
  <2>1. r.content.target \in exists /\ row[r.content.target].version = r.content.expected
    BY Zenon, <1>1 DEF Sound, Locking
  <2>2. SharesRow(d, r.content.target) BY Zenon, <1>0 DEF SharesRow, InTransaction
  <2> QED BY Zenon, <1>2, <2>1, <2>2
<1>5. Handling(d, r)' BY Zenon, <1>1 DEF Sound, Handling
<1>6. Attached(r)'
  <2> SUFFICES ASSUME r.pc = "attach" PROVE operations'[r.key] # NoOperation /\ operations'[r.key].content = r.content
    BY Zenon DEF Attached
  <2>1. r.key \in Keys BY Zenon, StageTypes DEF Attaching
  <2>2. operations[r.key] # NoOperation /\ operations[r.key].content = r.content
    BY Zenon, <1>1 DEF Sound, Attached
  <2> QED BY Zenon, <2>1, <2>2 DEF OperationsStay
<1>7. Sound(d, r)' BY Zenon, <1>3, <1>4, <1>5, <1>6 DEF Sound
<1> QED BY Zenon, <1>0, <1>7 DEF Sound, Inserting, Locking, Handling, Attached

LEMMA OperationEndsKeeps ==
  ASSUME AdmInv, UNCHANGED obsVars, NEW key \in Keys, NEW verdict \in Ended, OperationEnds(key, verdict)
  PROVE  AdmInv'
<1>0. /\ AdmTypeOK /\ requests \in [Callers -> Stages] /\ AllSound /\ OneAnswerPerKey /\ BatchOutcomeIsFinal
  BY Zenon DEF AdmInv
<1>1. operations[key] # NoOperation /\ UNCHANGED <<exists, challenges, requests, answers, batches, children>>
  BY Zenon DEF OperationEnds
<1>2. operations \in [Keys -> Operation \cup {NoOperation}] BY Zenon, <1>0 DEF AdmTypeOK, Operation
<1>3. PICK old \in Operation : old = operations[key] BY Zenon, <1>1, <1>2
<1>4. PICK new : new = [old EXCEPT !.status = verdict] BY Zenon
<1>5. verdict \in Statuses BY Zenon DEF Ended, Statuses
<1>6. new \in Operation /\ new.id = old.id /\ new.content = old.content /\ new.status = verdict
  BY Zenon, <1>4, <1>5 DEF Operation
<1>7. operations' = [operations EXCEPT ![key] = new] BY Zenon, <1>3, <1>4 DEF OperationEnds
<1>8. new # NoOperation BY Zenon, <1>6, AdmissionAssumption DEF Operation
<1>9. /\ operations' \in [Keys -> Operation \cup {NoOperation}] /\ operations'[key] = new
      /\ \A k \in Keys : k # key => operations'[k] = operations[k]
  BY Zenon, <1>2, <1>6, <1>7
<1>10. OperationsStay BY Zenon, <1>3, <1>6, <1>8, <1>9 DEF OperationsStay
<1>11. \A k \in Keys : operations[k] = NoOperation => operations'[k] = NoOperation BY Zenon, <1>1, <1>9
<1>12. ObsInv' /\ (\A t \in Targets : row'[t].version <= MaxVersion) /\ row' = row
  BY Zenon, ObservationRests
<1>13. AllSound'
  BY Zenon, <1>0, <1>1, <1>10, <1>11, <1>12, NobodyMoves
<1>14. AdmTypeOK' /\ requests' \in [Callers -> Stages] BY Zenon, <1>0, <1>1, <1>9 DEF AdmTypeOK, Operation
<1>15. OneAnswerPerKey'
  <2> SUFFICES ASSUME NEW x \in answers
               PROVE  /\ operations'[x.key] # NoOperation /\ operations'[x.key].id = x.operation
                      /\ operations'[x.key].content = x.content
    BY Zenon, <1>1 DEF OneAnswerPerKey
  <2>1. x.key \in Keys BY Zenon, <1>0 DEF AdmTypeOK
  <2>2. /\ operations[x.key] # NoOperation /\ operations[x.key].id = x.operation
        /\ operations[x.key].content = x.content
    BY Zenon, <1>0 DEF OneAnswerPerKey
  <2> QED BY Zenon, <1>10, <2>1, <2>2 DEF OperationsStay
<1>16. BatchOutcomeIsFinal'
  <2> SUFFICES ASSUME NEW x \in children
               PROVE  /\ x.key = ChildKey[x.batch][x.target]
                      /\ operations'[x.key] # NoOperation
                      /\ operations'[x.key].content.target = x.target
                      /\ batches[x.batch] \in {"partial_succeeded", "failed", "cancelled", "succeeded"} =>
                           operations'[x.key].status \in Ended
    BY Zenon, <1>1 DEF BatchOutcomeIsFinal
  <2>1. /\ x.key = ChildKey[x.batch][x.target]
        /\ operations[x.key] # NoOperation
        /\ operations[x.key].content.target = x.target
        /\ batches[x.batch] \in {"partial_succeeded", "failed", "cancelled", "succeeded"} =>
             operations[x.key].status \in Ended
    BY Zenon, <1>0 DEF BatchOutcomeIsFinal
  <2>2. x.key \in Keys BY Zenon, <1>0 DEF AdmTypeOK, Children
  <2>3. operations'[x.key] # NoOperation /\ operations'[x.key].content = operations[x.key].content
    BY Zenon, <1>10, <2>1, <2>2 DEF OperationsStay
  <2>4. x.key = key => operations'[x.key].status \in Ended BY Zenon, <1>6, <1>9
  <2>5. x.key # key => operations'[x.key] = operations[x.key] BY Zenon, <1>9, <2>2
  <2> QED BY Zenon, <2>1, <2>3, <2>4, <2>5
<1> QED BY Zenon, <1>12, <1>13, <1>14, <1>15, <1>16 DEF AdmInv

\* A child of a batch is prepared or planned next.
LEMMA PreparingStage ==
  ASSUME NEW batch \in Batches, NEW todo \in SUBSET Contents, NEW X, X = [pc |-> "children", batch |-> batch, todo |-> todo]
  PROVE  X \in Stages /\ X.pc = "children" /\ X.batch = batch
<1>1. X \in Preparing BY Zenon DEF Preparing
<1>2. X.pc = "children" /\ X.batch = batch BY Zenon
<1> QED BY Zenon, <1>1, <1>2 DEF Stages

LEMMA NextChildKeeps ==
  ASSUME AdmInv, UNCHANGED obsVars, NEW c \in Callers, NEW content \in Contents, NextChild(c, content)
  PROVE  AdmInv'
<1>1. PICK r \in Preparing \cup Attaching : r = requests[c] /\ r.pc = "children"
  <2>1. PICK r \in Stages : r = requests[c] /\ r.pc = "children" BY Zenon, StageOf DEF NextChild
  <2> QED BY Zenon, <2>1, StageTypes
<1>2. r.batch \in Batches /\ r.todo \in SUBSET Contents
  <2>1. CASE r \in Preparing BY Zenon, <2>1 DEF Preparing
  <2>2. CASE r \in Attaching BY Zenon, <2>2 DEF Attaching
  <2> QED BY Zenon, <2>1, <2>2
<1>3. r.batch # NoBatch BY Zenon, <1>2, AdmissionAssumption
<1>4. /\ batches[r.batch] = "pending"
      /\ \A d \in Callers \ {c} : requests[d].pc # "idle" => requests[d].batch # r.batch
  <2>1. Handling(c, r) BY Zenon, <1>1 DEF AdmInv, AllSound, Sound
  <2> QED BY Zenon, <1>1, <1>3, <2>1 DEF Handling
<1>5. PICK todo \in SUBSET Contents : todo = r.todo \ {content} BY Zenon, <1>2
<1>6. UNCHANGED <<answers, challenges>> BY Zenon DEF NextChild
<1>7. CASE Goes(c, [pc |-> "children", batch |-> r.batch, todo |-> r.todo \ {content}])
  <2>1. PICK X : X = [pc |-> "children", batch |-> r.batch, todo |-> todo] BY Zenon
  <2>2. X \in Stages /\ X.pc = "children" /\ X.batch = r.batch BY Zenon, <1>2, <2>1, PreparingStage
  <2>3. Handling(c, X) BY Zenon, <1>4, <2>2 DEF Handling
  <2>4. Sound(c, X) BY Zenon, <2>2, <2>3 DEF Sound, Inserting, Locking, Attached
  <2>5. Goes(c, X) BY Zenon, <1>5, <1>7, <2>1
  <2> QED BY Zenon, <1>6, <2>2, <2>4, <2>5, SilentMove
<1>8. ASSUME NEW key, key = ChildKey[r.batch][content.target],
             Goes(c, [pc |-> "begin", key |-> key, content |-> content, confirmed |-> {},
                      status |-> InitialStatus(key), batch |-> r.batch, todo |-> r.todo \ {content}])
      PROVE  AdmInv'
  <2>1. key \in Keys
    <3>1. content.target \in Targets BY Zenon DEF Contents
    <3>2. ChildKey[r.batch] \in [Targets -> Keys \ CreateKeys] BY Zenon, <1>2, AdmissionAssumption
    <3> QED BY Zenon, <1>8, <3>1, <3>2
  <2>2. PICK status \in Statuses : status = InitialStatus(key) BY Zenon, <2>1, StatusTypes
  <2>3. PICK X : X = [pc |-> "begin", key |-> key, content |-> content, confirmed |-> {},
                      status |-> status, batch |-> r.batch, todo |-> todo]
    BY Zenon
  <2>4. X \in Submitting BY SMT, <1>2, <2>1, <2>2, <2>3 DEF Submitting
  <2>5. X.pc = "begin" /\ X.batch = r.batch /\ X.key = key /\ X.content = content BY Zenon, <2>3
  <2>6. Handling(c, X) BY Zenon, <1>4, <1>8, <2>5 DEF Handling
  <2>7. Sound(c, X) BY Zenon, <2>5, <2>6 DEF Sound, Inserting, Locking, Attached
  <2>8. Goes(c, X) /\ X \in Stages BY Zenon, <1>5, <1>8, <2>2, <2>3, <2>4 DEF Stages
  <2> QED BY Zenon, <1>6, <2>7, <2>8, SilentMove
<1> QED BY Zenon, <1>1, <1>7, <1>8 DEF NextChild

\* A batch's handler goes on; operations, targets and answers stay.
LEMMA BatchMoves ==
  ASSUME AdmInv, UNCHANGED obsVars, UNCHANGED <<exists, operations, challenges, answers>>,
         NEW c \in Callers, NEW X \in Stages, requests' = [requests EXCEPT ![c] = X], Sound(c, X)',
         batches' \in [Batches -> {NoBatch, "pending", "running", "partial_succeeded", "failed",
                                   "cancelled", "succeeded"}],
         children' \subseteq Children,
         \A d \in Callers \ {c} : requests[d].pc # "idle" /\ requests[d].batch # NoBatch =>
           batches'[requests[d].batch] = batches[requests[d].batch],
         BatchOutcomeIsFinal'
  PROVE  AdmInv'
<1>0. /\ AdmTypeOK /\ requests \in [Callers -> Stages] /\ AllSound /\ OneAnswerPerKey
      /\ exists' = exists /\ operations' = operations /\ challenges' = challenges /\ answers' = answers
  BY Zenon DEF AdmInv
<1>1. ObsInv' /\ (\A t \in Targets : row'[t].version <= MaxVersion) /\ row' = row
  BY Zenon, ObservationRests
<1>2. OperationsStay BY Zenon, <1>0 DEF OperationsStay
<1>3. \A d \in Callers \ {c} :
        /\ requests[d].pc = "inserted" => operations'[requests[d].key] = operations[requests[d].key]
        /\ requests[d].pc # "idle" /\ requests[d].batch # NoBatch =>
             batches'[requests[d].batch] = batches[requests[d].batch]
  BY Zenon, <1>0
<1>4. exists \subseteq exists' BY Zenon, <1>0
<1>5. requests' \in [Callers -> Stages] /\ AllSound'
  BY Zenon, <1>0, <1>1, <1>2, <1>3, <1>4, Progress
<1>6. AdmTypeOK' BY Zenon, <1>0 DEF AdmTypeOK
<1>7. OneAnswerPerKey' BY Zenon, <1>0 DEF OneAnswerPerKey
<1> QED BY Zenon, <1>1, <1>5, <1>6, <1>7 DEF AdmInv

LEMMA BatchOf ==
  ASSUME AdmInv, NEW d \in Callers, requests[d].pc # "idle", requests[d].batch # NoBatch
  PROVE  requests[d].batch \in Batches
<1>1. PICK r \in Stages : r = requests[d] BY Zenon, StageOf
<1>2. r.pc # "idle" /\ r.batch # NoBatch BY Zenon, <1>1
<1>3. CASE r = Idle BY Zenon, <1>2, <1>3 DEF Idle
<1>4. CASE r \in Submitting BY Zenon, <1>1, <1>2, <1>4 DEF Submitting
<1>5. CASE r \in Preparing BY Zenon, <1>1, <1>5 DEF Preparing
<1>6. CASE r \in Attaching BY Zenon, <1>1, <1>6 DEF Attaching
<1> QED BY Zenon, <1>1, <1>3, <1>4, <1>5, <1>6 DEF Stages

LEMMA CreateOperationBatchKeeps ==
  ASSUME AdmInv, UNCHANGED obsVars, NEW c \in Callers, NEW b \in Batches, NEW targets \in SUBSET Targets,
         CreateOperationBatch(c, b, targets)
  PROVE  AdmInv'
<1>0. /\ AdmTypeOK /\ requests \in [Callers -> Stages] /\ AllSound /\ OneAnswerPerKey /\ BatchOutcomeIsFinal
      /\ \A t \in Targets : row[t].version \in Nat /\ row[t].version <= MaxVersion
  BY Zenon DEF AdmInv, ObsInv, ObsTypes
<1>1. UNCHANGED <<exists, operations, challenges, answers, children>> BY Zenon DEF CreateOperationBatch
<1>2. CASE batches[b] # NoBatch /\ UNCHANGED <<batches, requests>>
  <2>1. ObsInv' /\ (\A t \in Targets : row'[t].version <= MaxVersion) /\ row' = row
    BY Zenon, ObservationRests
  <2>2. OperationsStay /\ \A k \in Keys : operations[k] = NoOperation => operations'[k] = NoOperation
    BY Zenon, <1>1 DEF OperationsStay
  <2>3. UNCHANGED <<requests, exists, batches>> BY Zenon, <1>1, <1>2
  <2>4. \A d \in Callers, t \in Targets : SharesRow(d, t) => row'[t] = row[t] BY Zenon, <2>1
  <2>5. AllSound' BY Zenon, <1>0, <2>2, <2>3, <2>4, NobodyMoves
  <2>6. AdmTypeOK' /\ requests' \in [Callers -> Stages] BY Zenon, <1>0, <1>1, <2>3 DEF AdmTypeOK
  <2>7. OneAnswerPerKey' BY Zenon, <1>0, <1>1 DEF OneAnswerPerKey
  <2>8. BatchOutcomeIsFinal' BY Zenon, <1>0, <1>1, <2>3 DEF BatchOutcomeIsFinal
  <2> QED BY Zenon, <2>1, <2>5, <2>6, <2>7, <2>8 DEF AdmInv
<1>3. ASSUME batches[b] = NoBatch, batches' = [batches EXCEPT ![b] = "pending"],
             requests' = [requests EXCEPT ![c] =
               [pc |-> "children", batch |-> b,
                todo |-> {[target |-> t, expected |-> row[t].version] : t \in targets}]]
      PROVE  AdmInv'
  <2>1. PICK todo : todo = {[target |-> t, expected |-> row[t].version] : t \in targets} BY Zenon
  <2>2. todo \in SUBSET Contents
    <3> SUFFICES ASSUME NEW t \in targets PROVE [target |-> t, expected |-> row[t].version] \in Contents
      BY Zenon, <2>1
    <3>1. row[t].version \in 0..MaxVersion BY SMT, <1>0, AdmissionAssumption
    <3> QED BY Zenon, <3>1 DEF Contents
  <2>3. PICK X : X = [pc |-> "children", batch |-> b, todo |-> todo] BY Zenon
  <2>4. X \in Stages /\ X.pc = "children" /\ X.batch = b BY Zenon, <2>2, <2>3, PreparingStage
  <2>5. requests' = [requests EXCEPT ![c] = X] BY Zenon, <1>3, <2>1, <2>3
  <2>6. batches \in [Batches -> {NoBatch, "pending", "running", "partial_succeeded", "failed",
                                 "cancelled", "succeeded"}]
    BY Zenon, <1>0 DEF AdmTypeOK
  <2>7. batches' \in [Batches -> {NoBatch, "pending", "running", "partial_succeeded", "failed",
                                  "cancelled", "succeeded"}]
    BY Zenon, <1>3, <2>6
  <2>8. batches'[b] = "pending" /\ \A x \in Batches : x # b => batches'[x] = batches[x] BY Zenon, <1>3, <2>6
  <2>9. \A d \in Callers \ {c} : requests[d].pc # "idle" => requests[d].batch # b
    <3> SUFFICES ASSUME NEW d \in Callers \ {c}, requests[d].pc # "idle", requests[d].batch = b PROVE FALSE
      BY Zenon
    <3>1. Handling(d, requests[d]) BY Zenon, <1>0 DEF AllSound, Sound
    <3>2. b # NoBatch /\ NoBatch # "pending" BY Zenon, AdmissionAssumption
    <3>3. batches[b] = "pending" BY Zenon, <3>1, <3>2 DEF Handling
    <3> QED BY Zenon, <1>3, <3>2, <3>3
  <2>10. \A d \in Callers \ {c} : requests'[d] = requests[d] BY Zenon, <1>0, <2>5
  <2>11. Handling(c, X)' BY Zenon, <2>4, <2>8, <2>9, <2>10 DEF Handling
  <2>12. Sound(c, X)' BY Zenon, <2>4, <2>11 DEF Sound, Inserting, Locking, Attached
  <2>13. \A d \in Callers \ {c} : requests[d].pc # "idle" /\ requests[d].batch # NoBatch =>
           batches'[requests[d].batch] = batches[requests[d].batch]
    <3> SUFFICES ASSUME NEW d \in Callers \ {c}, requests[d].pc # "idle", requests[d].batch # NoBatch
                 PROVE  batches'[requests[d].batch] = batches[requests[d].batch]
      BY Zenon
    <3>1. requests[d].batch \in Batches BY Zenon, BatchOf
    <3> QED BY Zenon, <2>8, <2>9, <3>1
  <2>14. children' = children /\ children' \subseteq Children BY Zenon, <1>0, <1>1 DEF AdmTypeOK
  <2>15. BatchOutcomeIsFinal'
    <3> SUFFICES ASSUME NEW x \in children
                 PROVE  /\ x.key = ChildKey[x.batch][x.target]
                        /\ operations[x.key] # NoOperation
                        /\ operations[x.key].content.target = x.target
                        /\ batches'[x.batch] \in {"partial_succeeded", "failed", "cancelled", "succeeded"} =>
                             operations[x.key].status \in Ended
      BY Zenon, <1>1 DEF BatchOutcomeIsFinal
    <3>1. /\ x.key = ChildKey[x.batch][x.target]
          /\ operations[x.key] # NoOperation
          /\ operations[x.key].content.target = x.target
          /\ batches[x.batch] \in {"partial_succeeded", "failed", "cancelled", "succeeded"} =>
               operations[x.key].status \in Ended
      BY Zenon, <1>0 DEF BatchOutcomeIsFinal
    <3>2. x.batch \in Batches BY Zenon, <1>0 DEF AdmTypeOK, Children
    <3>3. x.batch = b => batches'[x.batch] \notin {"partial_succeeded", "failed", "cancelled", "succeeded"}
      BY Zenon, <2>8
    <3>4. x.batch # b => batches'[x.batch] = batches[x.batch] BY Zenon, <2>8, <3>2
    <3> QED BY Zenon, <3>1, <3>3, <3>4
  <2> QED BY Zenon, <1>1, <2>4, <2>5, <2>7, <2>12, <2>13, <2>14, <2>15, BatchMoves
<1> QED BY Zenon, <1>2, <1>3 DEF CreateOperationBatch

LEMMA AttachOperationBatchChildKeeps ==
  ASSUME AdmInv, UNCHANGED obsVars, NEW c \in Callers, AttachOperationBatchChild(c)
  PROVE  AdmInv'
<1>0. /\ AdmTypeOK /\ requests \in [Callers -> Stages] /\ AllSound /\ OneAnswerPerKey /\ BatchOutcomeIsFinal
  BY Zenon DEF AdmInv
<1>1. PICK r \in Attaching : r = requests[c] /\ r.pc = "attach"
  <2>1. PICK r \in Stages : r = requests[c] /\ r.pc = "attach" BY Zenon, StageOf DEF AttachOperationBatchChild
  <2> QED BY Zenon, <2>1, StageTypes
<1>2. r.batch \in Batches /\ r.todo \in SUBSET Contents /\ r.key \in Keys /\ r.content.target \in Targets
  BY Zenon, <1>1 DEF Attaching, Contents
<1>3. PICK child : child = [batch |-> r.batch, target |-> r.content.target, key |-> r.key] BY Zenon
<1>4. child \in Children BY Zenon, <1>2, <1>3 DEF Children
<1>5. child.batch = r.batch /\ child.target = r.content.target /\ child.key = r.key BY Zenon, <1>3
<1>6. /\ children' \in {children, children \cup {child}}
      /\ requests' = [requests EXCEPT ![c] = [pc |-> "children", batch |-> r.batch, todo |-> r.todo]]
      /\ UNCHANGED <<exists, operations, challenges, answers, batches>>
  BY Zenon, <1>1, <1>3 DEF AttachOperationBatchChild
<1>7. PICK X : X = [pc |-> "children", batch |-> r.batch, todo |-> r.todo] BY Zenon
<1>8. X \in Stages /\ X.pc = "children" /\ X.batch = r.batch BY SMT, <1>2, <1>7, PreparingStage
<1>9. requests' = [requests EXCEPT ![c] = X] BY Zenon, <1>6, <1>7
<1>10. \A d \in Callers \ {c} : requests'[d] = requests[d] BY Zenon, <1>0, <1>9
<1>11. r.batch # NoBatch BY Zenon, <1>2, AdmissionAssumption
<1>12. Handling(c, r) /\ Attached(r) BY Zenon, <1>0, <1>1 DEF AllSound, Sound
<1>13. /\ batches[r.batch] = "pending"
       /\ \A d \in Callers \ {c} : requests[d].pc # "idle" => requests[d].batch # r.batch
       /\ r.key = ChildKey[r.batch][r.content.target]
  BY Zenon, <1>1, <1>11, <1>12 DEF Handling
<1>14. operations[r.key] # NoOperation /\ operations[r.key].content = r.content BY Zenon, <1>1, <1>12 DEF Attached
<1>15. Handling(c, X)' BY Zenon, <1>6, <1>8, <1>10, <1>13 DEF Handling
<1>16. Sound(c, X)' BY Zenon, <1>8, <1>15 DEF Sound, Inserting, Locking, Attached
<1>17. /\ batches' \in [Batches -> {NoBatch, "pending", "running", "partial_succeeded", "failed",
                                    "cancelled", "succeeded"}]
       /\ batches' = batches /\ operations' = operations
  BY Zenon, <1>0, <1>6 DEF AdmTypeOK
<1>18. children' \subseteq Children BY Zenon, <1>0, <1>4, <1>6 DEF AdmTypeOK
<1>19. BatchOutcomeIsFinal'
  <2> SUFFICES ASSUME NEW x \in children'
               PROVE  /\ x.key = ChildKey[x.batch][x.target]
                      /\ operations[x.key] # NoOperation
                      /\ operations[x.key].content.target = x.target
                      /\ batches[x.batch] \in {"partial_succeeded", "failed", "cancelled", "succeeded"} =>
                           operations[x.key].status \in Ended
    BY Zenon, <1>17 DEF BatchOutcomeIsFinal
  <2>1. CASE x \in children BY Zenon, <1>0, <2>1 DEF BatchOutcomeIsFinal
  <2>2. CASE x = child
    <3>1. x.batch = r.batch /\ x.target = r.content.target /\ x.key = r.key BY Zenon, <1>5, <2>2
    <3>2. batches[x.batch] \notin {"partial_succeeded", "failed", "cancelled", "succeeded"} BY Zenon, <1>13, <3>1
    <3> QED BY Zenon, <1>13, <1>14, <3>1, <3>2
  <2> QED BY Zenon, <1>6, <2>1, <2>2
<1>20. \A d \in Callers \ {c} : requests[d].pc # "idle" /\ requests[d].batch # NoBatch =>
         batches'[requests[d].batch] = batches[requests[d].batch]
  BY Zenon, <1>17
<1>21. UNCHANGED <<exists, operations, challenges, answers>> BY Zenon, <1>6
<1> QED BY ZenonT(30), <1>8, <1>9, <1>16, <1>17, <1>18, <1>19, <1>20, <1>21, BatchMoves

\* An outcome is shown only when no attached operation is under way.
LEMMA BatchStatusTells ==
  ASSUME NEW b
  PROVE  /\ BatchStatus(b) \in {"running", "partial_succeeded", "failed", "cancelled", "succeeded", "pending"}
         /\ BatchStatus(b) \in {"partial_succeeded", "failed", "cancelled", "succeeded"} =>
              \A x \in children : x.batch = b => operations[x.key].status \in Ended
<1>1. PICK statuses : statuses = {operations[x.key].status : x \in {y \in children : y.batch = b}} BY Zenon
<1>2. BatchStatus(b) = IF statuses \ Ended # {} THEN "running"
                       ELSE IF {"failed", "succeeded"} \subseteq statuses THEN "partial_succeeded"
                       ELSE IF "failed" \in statuses THEN "failed"
                       ELSE IF statuses = {"cancelled"} THEN "cancelled"
                       ELSE IF statuses = {"succeeded"} THEN "succeeded"
                       ELSE "pending"
  BY Zenon, <1>1 DEF BatchStatus
<1>3. statuses \ Ended # {} => BatchStatus(b) = "running" BY Zenon, <1>2
<1>4. statuses \ Ended = {} => \A x \in children : x.batch = b => operations[x.key].status \in Ended
  BY Zenon, <1>1
<1>5. BatchStatus(b) \in {"running", "partial_succeeded", "failed", "cancelled", "succeeded", "pending"}
  BY Zenon, <1>2
<1>6. BatchStatus(b) # "running" => \A x \in children : x.batch = b => operations[x.key].status \in Ended
  BY Zenon, <1>3, <1>4
<1>7. BatchStatus(b) \in {"partial_succeeded", "failed", "cancelled", "succeeded"} => BatchStatus(b) # "running"
  BY Zenon
<1> QED BY Zenon, <1>5, <1>6, <1>7

LEMMA RefreshOperationBatchStatusKeeps ==
  ASSUME AdmInv, UNCHANGED obsVars, NEW c \in Callers, RefreshOperationBatchStatus(c)
  PROVE  AdmInv'
<1>0. /\ AdmTypeOK /\ requests \in [Callers -> Stages] /\ AllSound /\ OneAnswerPerKey /\ BatchOutcomeIsFinal
  BY Zenon DEF AdmInv
<1>1. PICK r \in Stages : r = requests[c] /\ r.pc = "children" BY Zenon, StageOf DEF RefreshOperationBatchStatus
<1>2. r.batch \in Batches
  <2>1. r \in Preparing \cup Attaching BY Zenon, <1>1, StageTypes
  <2>2. CASE r \in Preparing BY Zenon, <2>2 DEF Preparing
  <2>3. CASE r \in Attaching BY Zenon, <2>3 DEF Attaching
  <2> QED BY Zenon, <2>1, <2>2, <2>3
<1>3. r.batch # NoBatch BY Zenon, <1>2, AdmissionAssumption
<1>4. \A d \in Callers \ {c} : requests[d].pc # "idle" => requests[d].batch # r.batch
  <2>1. Handling(c, r) BY Zenon, <1>0, <1>1 DEF AllSound, Sound
  <2> QED BY Zenon, <1>1, <1>3, <2>1 DEF Handling
<1>5. PICK s : s = BatchStatus(r.batch) BY Zenon
<1>6. /\ s \in {"running", "partial_succeeded", "failed", "cancelled", "succeeded", "pending"}
      /\ s \in {"partial_succeeded", "failed", "cancelled", "succeeded"} =>
           \A x \in children : x.batch = r.batch => operations[x.key].status \in Ended
  BY Zenon, <1>5, BatchStatusTells
<1>7. /\ batches' = [batches EXCEPT ![r.batch] = s] /\ requests' = [requests EXCEPT ![c] = Idle]
      /\ UNCHANGED <<exists, operations, challenges, answers, children>>
  BY Zenon, <1>1, <1>5 DEF RefreshOperationBatchStatus
<1>8. batches \in [Batches -> {NoBatch, "pending", "running", "partial_succeeded", "failed",
                               "cancelled", "succeeded"}]
  BY Zenon, <1>0 DEF AdmTypeOK
<1>9. s \in {NoBatch, "pending", "running", "partial_succeeded", "failed", "cancelled", "succeeded"}
  BY Zenon, <1>6
<1>10. /\ batches' \in [Batches -> {NoBatch, "pending", "running", "partial_succeeded", "failed",
                                    "cancelled", "succeeded"}]
       /\ batches'[r.batch] = s /\ \A x \in Batches : x # r.batch => batches'[x] = batches[x]
  BY Zenon, <1>2, <1>7, <1>8, <1>9
<1>11. Idle \in Stages BY Zenon DEF Stages
<1>12. Sound(c, Idle)'
  <2>1. Idle.pc = "idle" BY Zenon DEF Idle
  <2> QED BY Zenon, <2>1 DEF Sound, Inserting, Locking, Handling, Attached
<1>13. \A d \in Callers \ {c} : requests[d].pc # "idle" /\ requests[d].batch # NoBatch =>
         batches'[requests[d].batch] = batches[requests[d].batch]
  <2> SUFFICES ASSUME NEW d \in Callers \ {c}, requests[d].pc # "idle", requests[d].batch # NoBatch
               PROVE  batches'[requests[d].batch] = batches[requests[d].batch]
    BY Zenon
  <2>1. requests[d].batch \in Batches BY Zenon, BatchOf
  <2> QED BY Zenon, <1>4, <1>10, <2>1
<1>14. children' \subseteq Children BY Zenon, <1>0, <1>7 DEF AdmTypeOK
<1>15. BatchOutcomeIsFinal'
  <2> SUFFICES ASSUME NEW x \in children
               PROVE  /\ x.key = ChildKey[x.batch][x.target]
                      /\ operations[x.key] # NoOperation
                      /\ operations[x.key].content.target = x.target
                      /\ batches'[x.batch] \in {"partial_succeeded", "failed", "cancelled", "succeeded"} =>
                           operations[x.key].status \in Ended
    BY Zenon, <1>7 DEF BatchOutcomeIsFinal
  <2>1. /\ x.key = ChildKey[x.batch][x.target]
        /\ operations[x.key] # NoOperation
        /\ operations[x.key].content.target = x.target
        /\ batches[x.batch] \in {"partial_succeeded", "failed", "cancelled", "succeeded"} =>
             operations[x.key].status \in Ended
    BY Zenon, <1>0 DEF BatchOutcomeIsFinal
  <2>2. x.batch \in Batches BY Zenon, <1>0 DEF AdmTypeOK, Children
  <2>3. x.batch = r.batch => batches'[x.batch] = s BY Zenon, <1>10
  <2>4. x.batch # r.batch => batches'[x.batch] = batches[x.batch] BY Zenon, <1>10, <2>2
  <2>5. CASE x.batch = r.batch BY Zenon, <1>6, <2>1, <2>3, <2>5
  <2>6. CASE x.batch # r.batch BY Zenon, <2>1, <2>4, <2>6
  <2> QED BY Zenon, <2>5, <2>6
<1>16. UNCHANGED <<exists, operations, challenges, answers>> BY Zenon, <1>7
<1> QED BY ZenonT(40), <1>7, <1>10, <1>11, <1>12, <1>13, <1>14, <1>15, <1>16, BatchMoves

LEMMA ObservationKeeps ==
  ASSUME AdmInv, Observation
  PROVE  AdmInv'
<1>0. /\ AdmTypeOK /\ requests \in [Callers -> Stages] /\ AllSound /\ OneAnswerPerKey /\ BatchOutcomeIsFinal /\ ObsInv
  BY Zenon DEF AdmInv
<1>1. /\ ObsNext /\ \A c \in Callers, t \in Targets : SharesRow(c, t) => row'[t] = row[t]
      /\ \A t \in Targets : row'[t].version <= MaxVersion
  BY Zenon DEF Observation
<1>2. UNCHANGED <<exists, operations, challenges, requests, answers, batches, children>>
  BY Zenon DEF Observation, admVars
<1>3. ObsInv' BY Zenon, <1>0, <1>1, ObsSteps
<1>4. OperationsStay /\ \A k \in Keys : operations[k] = NoOperation => operations'[k] = NoOperation
  BY Zenon, <1>2 DEF OperationsStay
<1>5. UNCHANGED <<requests, exists, batches>> BY Zenon, <1>2
<1>6. AllSound' BY Zenon, <1>0, <1>1, <1>4, <1>5, NobodyMoves
<1>7. AdmTypeOK' /\ requests' \in [Callers -> Stages] BY Zenon, <1>0, <1>2 DEF AdmTypeOK
<1>8. OneAnswerPerKey' BY Zenon, <1>0, <1>2 DEF OneAnswerPerKey
<1>9. BatchOutcomeIsFinal' BY Zenon, <1>0, <1>2 DEF BatchOutcomeIsFinal
<1> QED BY Zenon, <1>1, <1>3, <1>6, <1>7, <1>8, <1>9 DEF AdmInv

LEMMA NothingMoves ==
  ASSUME AdmInv, UNCHANGED vars
  PROVE  AdmInv'
<1>0. /\ AdmTypeOK /\ requests \in [Callers -> Stages] /\ AllSound /\ OneAnswerPerKey /\ BatchOutcomeIsFinal
  BY Zenon DEF AdmInv
<1>1. UNCHANGED obsVars BY Zenon DEF vars
<1>2. UNCHANGED <<exists, operations, challenges, requests, answers, batches, children>> BY Zenon DEF vars, admVars
<1>3. ObsInv' /\ (\A t \in Targets : row'[t].version <= MaxVersion) /\ row' = row
  BY Zenon, <1>1, ObservationRests
<1>4. OperationsStay /\ \A k \in Keys : operations[k] = NoOperation => operations'[k] = NoOperation
  BY Zenon, <1>2 DEF OperationsStay
<1>5. UNCHANGED <<requests, exists, batches>> BY Zenon, <1>2
<1>6. \A d \in Callers, t \in Targets : SharesRow(d, t) => row'[t] = row[t] BY Zenon, <1>3
<1>7. AllSound' BY Zenon, <1>0, <1>4, <1>5, <1>6, NobodyMoves
<1>8. AdmTypeOK' /\ requests' \in [Callers -> Stages] BY Zenon, <1>0, <1>2 DEF AdmTypeOK
<1>9. OneAnswerPerKey' BY Zenon, <1>0, <1>2 DEF OneAnswerPerKey
<1>10. BatchOutcomeIsFinal' BY Zenon, <1>0, <1>2 DEF BatchOutcomeIsFinal
<1> QED BY Zenon, <1>3, <1>7, <1>8, <1>9, <1>10 DEF AdmInv

LEMMA AdmInitially ==
  ASSUME AdmInit
  PROVE  AdmInv
<1>1. /\ ObsInit /\ exists \subseteq Targets /\ operations = [k \in Keys |-> NoOperation] /\ challenges = {}
      /\ requests = [c \in Callers |-> Idle] /\ answers = {} /\ batches = [b \in Batches |-> NoBatch] /\ children = {}
  BY Zenon DEF AdmInit
<1>2. ObsInv BY Zenon, <1>1, ObsInitially
<1>3. \A t \in Targets : row[t].version <= MaxVersion
  <2>1. \A t \in Targets : row[t].version = 0 BY Zenon, <1>1 DEF ObsInit, NewRow
  <2>2. 0 <= MaxVersion BY SMT, AdmissionAssumption
  <2> QED BY Zenon, <2>1, <2>2
<1>4. AdmTypeOK
  <2>1. operations \in [Keys -> [id : Callers, content : Contents, status : Statuses] \cup {NoOperation}]
    BY Zenon, <1>1
  <2>2. batches \in [Batches -> {NoBatch, "pending", "running", "partial_succeeded", "failed",
                                 "cancelled", "succeeded"}]
    BY Zenon, <1>1
  <2> QED BY Zenon, <1>1, <2>1, <2>2 DEF AdmTypeOK
<1>5. requests \in [Callers -> Stages]
  <2>1. Idle \in Stages BY Zenon DEF Stages
  <2> QED BY Zenon, <1>1, <2>1
<1>6. AllSound
  <2> SUFFICES ASSUME NEW c \in Callers PROVE Sound(c, requests[c]) BY Zenon DEF AllSound
  <2>1. requests[c].pc = "idle" BY Zenon, <1>1 DEF Idle
  <2> QED BY Zenon, <2>1 DEF Sound, Inserting, Locking, Handling, Attached
<1>7. OneAnswerPerKey /\ BatchOutcomeIsFinal BY Zenon, <1>1 DEF OneAnswerPerKey, BatchOutcomeIsFinal
<1> QED BY ZenonT(40), <1>2, <1>3, <1>4, <1>5, <1>6, <1>7 DEF AdmInv

LEMMA AdmSteps ==
  ASSUME AdmInv, [AdmNext]_vars
  PROVE  AdmInv'
<1>1. CASE Observation BY Zenon, <1>1, ObservationKeeps
<1>2. CASE Submission /\ UNCHANGED obsVars
  <2>0. UNCHANGED obsVars BY Zenon, <1>2
  <2>1. ASSUME NEW c \in Callers, NEW key \in Keys, NEW t \in Targets, NEW confirmed \in SUBSET challenges,
               NEW expected \in 0..row[t].version, Receive(c, key, [target |-> t, expected |-> expected], confirmed)
        PROVE  AdmInv'
    BY Zenon, <2>0, <2>1, ReceiveKeeps
  <2>2. ASSUME NEW c \in Callers,
               Lookup(c) \/ Admit(c) \/ BeginSubmit(c) \/ InsertOperation(c) \/ CommitSubmit(c) \/ Abandon(c)
        PROVE  AdmInv'
    BY ZenonT(40), <2>0, <2>2, LookupKeeps, AdmitKeeps, BeginSubmitKeeps, InsertOperationKeeps, CommitSubmitKeeps, AbandonKeeps
  <2>3. ASSUME NEW key \in Keys, NEW verdict \in Ended, OperationEnds(key, verdict) PROVE AdmInv'
    BY Zenon, <2>0, <2>3, OperationEndsKeeps
  <2>4. Submission BY Zenon, <1>2
  <2> QED BY Zenon, <2>1, <2>2, <2>3, <2>4 DEF Submission
<1>3. CASE Batch /\ UNCHANGED obsVars
  <2>0. UNCHANGED obsVars BY Zenon, <1>3
  <2>1. ASSUME NEW c \in Callers, NEW b \in Batches, NEW targets \in SUBSET Targets, CreateOperationBatch(c, b, targets)
        PROVE  AdmInv'
    BY Zenon, <2>0, <2>1, CreateOperationBatchKeeps
  <2>2. ASSUME NEW c \in Callers, NEW content \in Contents, NextChild(c, content) PROVE AdmInv'
    BY Zenon, <2>0, <2>2, NextChildKeeps
  <2>3. ASSUME NEW c \in Callers, AttachOperationBatchChild(c) \/ RefreshOperationBatchStatus(c) PROVE AdmInv'
    BY Zenon, <2>0, <2>3, AttachOperationBatchChildKeeps, RefreshOperationBatchStatusKeeps
  <2>4. Batch BY Zenon, <1>3
  <2> QED BY Zenon, <2>1, <2>2, <2>3, <2>4 DEF Batch
<1>4. CASE UNCHANGED vars BY Zenon, <1>4, NothingMoves
<1> QED BY Zenon, <1>1, <1>2, <1>3, <1>4 DEF AdmNext

LEMMA AdmInvariance == AdmSpec => []AdmInv
BY AdmInitially, AdmSteps, PTL DEF AdmSpec

\* The tables of the admission stay within their types (operations.go, operation_batches.go).
THEOREM AdmissionTyped == AdmSpec => []AdmTypeOK
<1>1. AdmInv => AdmTypeOK BY Zenon DEF AdmInv
<1> QED BY <1>1, AdmInvariance, PTL

\* However many replicas take a request in, everybody who is told an operation under a key is told
\* the one that exists, made for what they sent (operations.go:826).
THEOREM RepliesAgree == AdmSpec => []OneAnswerPerKey
<1>1. AdmInv => OneAnswerPerKey BY Zenon DEF AdmInv
<1> QED BY <1>1, AdmInvariance, PTL

\* A batch shows an outcome only once all its attached operations have ended, and these are
\* operations on its own targets (operation_batches.go, RefreshOperationBatchStatus).
THEOREM BatchesTellTheEnd == AdmSpec => []BatchOutcomeIsFinal
<1>1. AdmInv => BatchOutcomeIsFinal BY Zenon DEF AdmInv
<1> QED BY <1>1, AdmInvariance, PTL

\* Only the commit of a submission brings an operation into being.
LEMMA OnlyCommits ==
  ASSUME AdmInv, [AdmNext]_vars, NEW k \in Keys, operations[k] = NoOperation, operations'[k] # NoOperation
  PROVE  UNCHANGED obsVars /\ \E c \in Callers : CommitSubmit(c)
<1>0. operations' # operations BY Zenon
<1>1. ~Observation BY Zenon, <1>0 DEF Observation, admVars
<1>2. vars' # vars BY Zenon, <1>0 DEF vars, admVars
<1>3. ASSUME Batch PROVE FALSE
  BY Zenon, <1>0, <1>3 DEF Batch, CreateOperationBatch, NextChild, Goes, AttachOperationBatchChild, RefreshOperationBatchStatus
<1>4. Submission /\ UNCHANGED obsVars BY Zenon, <1>1, <1>2, <1>3 DEF AdmNext
<1>5. ASSUME NEW c \in Callers, NEW key, NEW content, NEW confirmed, Receive(c, key, content, confirmed) PROVE FALSE
  BY Zenon, <1>0, <1>5 DEF Receive, Goes
<1>6. ASSUME NEW c \in Callers, Lookup(c) PROVE FALSE BY Zenon, <1>0, <1>6 DEF Lookup, Replay, Goes
<1>7. ASSUME NEW c \in Callers, Admit(c) PROVE FALSE
  BY Zenon, <1>0, <1>7 DEF Admit, Goes, Refused, admitStaleTarget, Admitted, Issue
<1>8. ASSUME NEW c \in Callers, BeginSubmit(c) PROVE FALSE BY Zenon, <1>0, <1>8 DEF BeginSubmit, Replay, Refused, Goes
<1>9. ASSUME NEW c \in Callers, InsertOperation(c) PROVE FALSE BY Zenon, <1>0, <1>9 DEF InsertOperation, Replay, Goes
<1>10. ASSUME NEW c \in Callers, Abandon(c) PROVE FALSE BY Zenon, <1>0, <1>10 DEF Abandon, Goes
<1>11. ASSUME NEW key \in Keys, NEW verdict \in Ended, OperationEnds(key, verdict) PROVE FALSE
  <2>1. operations[key] # NoOperation /\ operations' = [operations EXCEPT ![key].status = verdict]
    BY Zenon, <1>11 DEF OperationEnds
  <2>2. operations \in [Keys -> Operation \cup {NoOperation}] BY Zenon DEF AdmInv, AdmTypeOK, Operation
  <2>3. k # key BY Zenon, <2>1
  <2>4. operations'[k] = operations[k] BY Zenon, <2>1, <2>2, <2>3
  <2> QED BY Zenon, <2>4
<1> QED BY ZenonT(40), <1>4, <1>5, <1>6, <1>7, <1>8, <1>9, <1>10, <1>11 DEF Submission

\* An operation on an existing target comes into being only while the target is at the version
\* its caller saw (operations.go:744, FOR SHARE).
THEOREM AcceptedAtVersion == AdmSpec => AcceptedAtSeenVersion
<1>1. ASSUME AdmInv, [AdmNext]_vars
      PROVE  [\A k \in Keys \ CreateKeys :
                operations[k] = NoOperation /\ operations'[k] # NoOperation =>
                  LET content == operations'[k].content IN
                  /\ content.target \in exists
                  /\ row'[content.target].version = content.expected]_vars
  <2> SUFFICES ASSUME NEW k \in Keys \ CreateKeys, operations[k] = NoOperation, operations'[k] # NoOperation
               PROVE  /\ operations'[k].content.target \in exists
                      /\ row'[operations'[k].content.target].version = operations'[k].content.expected
    BY Zenon
  <2>1. UNCHANGED obsVars BY Zenon, <1>1, OnlyCommits
  <2>2. PICK c \in Callers : CommitSubmit(c) BY Zenon, <1>1, OnlyCommits
  <2>3. PICK r \in Submitting : r = requests[c] /\ r.pc = "inserted" BY Zenon, <1>1, <2>2, StageOf DEF CommitSubmit
  <2>4. PICK new : new = [id |-> c, content |-> r.content, status |-> r.status] /\ new.content = r.content
    <3>1. PICK new : new = [id |-> c, content |-> r.content, status |-> r.status] BY Zenon
    <3>2. new.content = r.content BY Zenon, <3>1
    <3> QED BY Zenon, <3>1, <3>2
  <2>5. operations' = [operations EXCEPT ![r.key] = new] BY Zenon, <2>2, <2>3, <2>4 DEF CommitSubmit
  <2>6. operations \in [Keys -> Operation \cup {NoOperation}] BY Zenon, <1>1 DEF AdmInv, AdmTypeOK, Operation
  <2>7. k = r.key BY Zenon, <2>5, <2>6
  <2>8. operations'[k] = new BY Zenon, <2>5, <2>6, <2>7
  <2>9. operations'[k].content = r.content BY Zenon, <2>4, <2>8
  <2>10. Locking(r) BY Zenon, <1>1, <2>3 DEF AdmInv, AllSound, Sound
  <2>11. r.content.target \in exists /\ row[r.content.target].version = r.content.expected
    BY Zenon, <2>3, <2>7, <2>10 DEF Locking
  <2>12. row' = row BY Zenon, <2>1 DEF obsVars
  <2> QED BY Zenon, <2>9, <2>11, <2>12
<1> QED BY <1>1, AdmInvariance, PTL DEF AdmSpec, AcceptedAtSeenVersion

\* Seen from the read model the admission is not there: what the locks of SubmitIntent delay is
\* still a behaviour of agent and projector, so all that holds of these holds here too.
LEMMA AdmissionLeavesObservation == AdmSpec => ObsSpec
<1>1. AdmInit => ObsInit BY Zenon DEF AdmInit
<1>2. [AdmNext]_vars => [ObsNext]_obsVars BY Zenon DEF AdmNext, Observation, vars
<1> QED BY <1>1, <1>2, PTL DEF AdmSpec, ObsSpec

================================================================================
