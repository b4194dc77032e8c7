--------------------------- MODULE AgentTunnelProofs ---------------------------
(***************************************************************************)
(* Proofs about AgentTunnel, for any clusters, agents, requests and bounds: *)
(* its types, that served connections are the ones requests go to, that a  *)
(* caller gets no other cluster's and no other ID's answer, and that an    *)
(* answer finds room in its channel.                                       *)
(***************************************************************************)
EXTENDS AgentTunnel, TLAPS

\* A connection that has not been accepted has left no trace.
Fresh ==
  \A c \in Conns : /\ c > dials => handler[c] = "idle"
                   /\ handler[c] = "idle" => c \notin alive \cup closed /\ down[c] = <<>> /\ up[c] = <<>>

\* A sequence stays one when a frame is added or taken.
LEMMA Sequences ==
  ASSUME NEW S, NEW s \in Seq(S), NEW x \in S
  PROVE  /\ Append(s, x) \in Seq(S)
         /\ s # <<>> => Tail(s) \in Seq(S) /\ Head(s) \in S
BY SMT

\* What SendMessage does to the frames under way.
LEMMA SendMessageTyped ==
  ASSUME down \in [Conns -> Seq(Frames)], NEW c, alive \subseteq Conns, NEW f \in Frames, SendMessage(c, f)
  PROVE  down' \in [Conns -> Seq(Frames)]
BY Zenon, Sequences DEF SendMessage

LEMMA HangUpTyped ==
  ASSUME down \in [Conns -> Seq(Frames)], up \in [Conns -> Seq(Requests)], NEW c, HangUp(c)
  PROVE  /\ down' \in [Conns -> Seq(Frames)] /\ up' \in [Conns -> Seq(Requests)]
         /\ alive' = alive \ {c}
BY DEF HangUp

Record == [pc : {"new", "noted", "waiting", "leaving", "done"},
           id : IDs \cup {None}, target : Clusters \cup {None},
           conn : Conns \cup {None}, answer : Requests \cup {None}]

\* Only the step of the goroutine changes.
LEMMA StepEffect ==
  ASSUME request \in [Requests -> Record], NEW q \in Requests,
         NEW pc \in {"new", "noted", "waiting", "leaving", "done"}, Step(q, pc)
  PROVE  /\ request' \in [Requests -> Record]
         /\ request'[q].pc = pc
         /\ \A p \in Requests : /\ request'[p].id = request[p].id
                                /\ request'[p].target = request[p].target
                                /\ request'[p].conn = request[p].conn
                                /\ request'[p].answer = request[p].answer
                                /\ p # q => request'[p] = request[p]
BY DEF Step, Record

LEMMA AnsweredEffect ==
  ASSUME request \in [Requests -> Record], NEW q \in Requests,
         NEW answer \in Requests \cup {None}, Answered(q, answer)
  PROVE  /\ request' \in [Requests -> Record]
         /\ request'[q].pc = "leaving" /\ request'[q].answer = answer
         /\ \A p \in Requests : /\ request'[p].id = request[p].id
                                /\ request'[p].target = request[p].target
                                /\ request'[p].conn = request[p].conn
                                /\ p # q => request'[p] = request[p]
BY ZenonT(60) DEF Answered, Record

ServerTypes ==
  /\ registry \in [Clusters -> Conns \cup {None}]
  /\ handler \in [Conns -> Open \cup {"idle", "starting", "leaving", "done"}]
  /\ serves \in [Conns -> Clusters \cup {None}]
  /\ \A c \in Conns : /\ (handler[c] = "idle") <=> (serves[c] = None)
                      /\ (handler[c] = "delivering") <=> (delivery[c] # NoDelivery)
  /\ delivery \in [Conns -> [answer : Requests, to : Requests] \cup {NoDelivery}]
  /\ closed \subseteq Conns /\ alive \subseteq Conns \ closed

FrameTypes == down \in [Conns -> Seq(Frames)] /\ up \in [Conns -> Seq(Requests)]

RequestTypes ==
  /\ pending \in [Conns -> [IDs -> Requests \cup {None}]]
  /\ channel \in [Requests -> Requests \cup {None}]
  /\ request \in [Requests -> Record]
  /\ \A q \in Requests : request[q].pc \in {"noted", "waiting", "leaving"} =>
                           request[q].id \in IDs /\ request[q].conn \in Conns

AgentTypes ==
  /\ agent \in [Agents -> [pc : {"absent", "backoff", "joining", "serving"}, conn : Conns \cup {None}]]
  /\ \A a \in Agents : (agent[a].conn # None) <=> (agent[a].pc \in {"joining", "serving"})
  /\ working \in [Agents -> SUBSET Requests]
  /\ dials \in 0..MaxDials /\ faults \in 0..MaxFaults

LEMMA Types == TunnelTypeOK <=> ServerTypes /\ FrameTypes /\ RequestTypes /\ AgentTypes
BY Zenon DEF TunnelTypeOK, ServerTypes, FrameTypes, RequestTypes, AgentTypes, Record

\* A request that is in the table of a connection is one of its callers, under its ID, and a
\* caller's connection is one to the cluster it asked for.
Entries ==
  /\ \A c \in Conns, i \in IDs : pending[c][i] # None =>
       /\ request[pending[c][i]].pc \in {"noted", "waiting", "leaving"}
       /\ request[pending[c][i]].conn = c /\ request[pending[c][i]].id = i
  /\ \A q \in Requests : request[q].conn # None =>
       serves[request[q].conn] = request[q].target /\ handler[request[q].conn] # "idle"

\* The call of q was made, for cluster k.
Made(q, k) == request[q].pc # "new" /\ request[q].id \in IDs /\ request[q].target = k

\* Requests and answers travel on connections of the cluster they are for.
Carried ==
  \A c \in Conns :
    /\ \A j \in 1..Len(down[c]) : down[c][j] # Greeting => Made(down[c][j], serves[c])
    /\ \A j \in 1..Len(up[c]) : Made(up[c][j], serves[c])

\* An agent has connections, and works on requests, of its own cluster.
Joined ==
  \A a \in Agents :
    /\ agent[a].conn # None => handler[agent[a].conn] # "idle" /\ serves[agent[a].conn] = ClusterOf[a]
    /\ \A q \in working[a] : Made(q, ClusterOf[a])

\* The answer to p is one the caller of q may get.
Fits(p, q) ==
  /\ request[p].pc # "new" /\ request[q].pc # "new"
  /\ request[p].id = request[q].id /\ request[p].target = request[q].target

\* From the table to the caller an answer stays with a request it fits.
Fitting ==
  /\ \A c \in Conns : handler[c] = "delivering" => Fits(delivery[c].answer, delivery[c].to)
  /\ \A q \in Requests : channel[q] # None => Fits(channel[q], q)
  /\ \A q \in Requests : request[q].answer # None => Fits(request[q].answer, q)

Inv ==
  /\ ServerTypes /\ FrameTypes /\ RequestTypes /\ AgentTypes
  /\ Fresh /\ LiveConnectionsRoutable
  /\ Entries /\ Carried /\ Joined /\ Fitting

\* Connections are numbers, and None is not one.
LEMMA Numbered == None \notin Conns
BY SMT, TunnelAssumption DEF Conns

Live == {"noted", "waiting", "leaving"}

\* Steps that change nothing of a call that was made.
KeepsCalls ==
  \A r \in Requests : request[r].pc # "new" =>
    request'[r].pc # "new" /\ request'[r].id = request[r].id /\ request'[r].target = request[r].target

\* Steps that change nothing of a connection that was accepted.
KeepsConnections ==
  \A d \in Conns : handler[d] # "idle" => handler'[d] # "idle" /\ serves'[d] = serves[d]

\* Steps that put nothing on the way.
Drains ==
  \A d \in Conns : \/ down'[d] = <<>> /\ up'[d] = <<>>
                   \/ serves'[d] = serves[d] /\ down'[d] = down[d] /\ up'[d] = up[d]

LEMMA EntryOf ==
  ASSUME Entries, RequestTypes, NEW c \in Conns, NEW i \in IDs, pending[c][i] # None
  PROVE  /\ pending[c][i] \in Requests /\ request[pending[c][i]].pc \in Live
         /\ request[pending[c][i]].conn = c /\ request[pending[c][i]].id = i
BY SMT DEF Entries, RequestTypes, Live

\* Where no call is forgotten and no connection is, the tables of pending requests stay right.
LEMMA EntriesStay ==
  ASSUME Entries, RequestTypes, KeepsConnections, pending' = pending,
         \A r \in Requests : /\ request'[r].id = request[r].id /\ request'[r].conn = request[r].conn
                             /\ request'[r].target = request[r].target
                             /\ request[r].pc \in Live => request'[r].pc \in Live
  PROVE  Entries'
<1>1. ASSUME NEW c \in Conns, NEW i \in IDs, pending'[c][i] # None
      PROVE  /\ request'[pending'[c][i]].pc \in {"noted", "waiting", "leaving"}
             /\ request'[pending'[c][i]].conn = c /\ request'[pending'[c][i]].id = i
  <2>0. pending[c] \in [IDs -> Requests \cup {None}] BY Zenon DEF RequestTypes
  <2>1. PICK r \in Requests : r = pending[c][i] /\ r = pending'[c][i] BY Zenon, <1>1, <2>0
  <2>4. pending[c][i] # None BY Zenon, <1>1
  <2>2. request[r].pc \in Live /\ request[r].conn = c /\ request[r].id = i
    <3>1. /\ request[pending[c][i]].pc \in Live
          /\ request[pending[c][i]].conn = c /\ request[pending[c][i]].id = i
      BY Zenon, <2>4, EntryOf
    <3> QED BY Zenon, <2>1, <3>1
  <2>3. request'[r].pc \in {"noted", "waiting", "leaving"} BY Zenon, <2>2 DEF Live
  <2> QED BY Zenon, <2>1, <2>2, <2>3
<1>2. ASSUME NEW q \in Requests, request'[q].conn # None
      PROVE  serves'[request'[q].conn] = request'[q].target /\ handler'[request'[q].conn] # "idle"
  <2>1. request[q].conn \in Conns BY Zenon, <1>2 DEF RequestTypes, Record
  <2>2. serves[request[q].conn] = request[q].target /\ handler[request[q].conn] # "idle"
    BY Zenon, <1>2 DEF Entries
  <2> QED BY Zenon, <2>1, <2>2 DEF KeepsConnections
<1> QED BY Zenon, <1>1, <1>2 DEF Entries

\* What is under way is a frame, and the answers are those to requests.
LEMMA UnderWay ==
  ASSUME FrameTypes
  PROVE  \A c \in Conns : /\ \A j \in 1..Len(down[c]) : down[c][j] # Greeting => down[c][j] \in Requests
                          /\ \A j \in 1..Len(up[c]) : up[c][j] \in Requests
BY SMT DEF FrameTypes, Frames

LEMMA Nothing == \A j : j \notin 1..Len(<<>>)
BY SMT

LEMMA CarriedStays ==
  ASSUME FrameTypes, Carried, Drains, KeepsCalls
  PROVE  Carried'
<1>1. \A r \in Requests : \A k : Made(r, k) => request'[r].pc # "new" /\ request'[r].id \in IDs /\ request'[r].target = k
  BY Zenon DEF Made, KeepsCalls
<1>2. \A c \in Conns : \A j \in 1..Len(down'[c]) : down'[c][j] # Greeting => Made(down[c][j], serves[c])'
  <2> SUFFICES ASSUME NEW c \in Conns, NEW j \in 1..Len(down'[c]), down'[c][j] # Greeting
               PROVE  Made(down[c][j], serves[c])'
    BY Zenon
  <2>1. serves'[c] = serves[c] /\ down'[c] = down[c] BY Zenon, Nothing DEF Drains
  <2>2. down[c][j] \in Requests /\ Made(down[c][j], serves[c]) BY Zenon, <2>1, UnderWay DEF Carried
  <2> QED BY Zenon, <1>1, <2>1, <2>2 DEF Made
<1>3. \A c \in Conns : \A j \in 1..Len(up'[c]) : Made(up[c][j], serves[c])'
  <2> SUFFICES ASSUME NEW c \in Conns, NEW j \in 1..Len(up'[c])
               PROVE  Made(up[c][j], serves[c])'
    BY Zenon
  <2>1. serves'[c] = serves[c] /\ up'[c] = up[c] BY Zenon, Nothing DEF Drains
  <2>2. up[c][j] \in Requests /\ Made(up[c][j], serves[c]) BY Zenon, <2>1, UnderWay DEF Carried
  <2> QED BY Zenon, <1>1, <2>1, <2>2 DEF Made
<1> QED BY Zenon, <1>2, <1>3 DEF Carried

LEMMA HangUpEffect ==
  ASSUME FrameTypes, NEW c, HangUp(c), serves' = serves
  PROVE  FrameTypes' /\ Drains /\ alive' = alive \ {c}
<1>1. FrameTypes' /\ alive' = alive \ {c} BY Zenon, HangUpTyped DEF FrameTypes
<1>2. \A d \in Conns : d # c => down'[d] = down[d] /\ up'[d] = up[d] BY Zenon DEF HangUp
<1>3. \A d \in Conns : d = c => down'[d] = <<>> /\ up'[d] = <<>> BY Zenon DEF HangUp
<1> QED BY Zenon, <1>1, <1>2, <1>3 DEF Drains

\* An agent that at most gives things up stays with what is its cluster's.
LEMMA JoinedStays ==
  ASSUME AgentTypes, Joined, KeepsConnections, KeepsCalls,
         \A b \in Agents : agent'[b].conn \in {agent[b].conn, None} /\ working'[b] \subseteq working[b]
  PROVE  Joined'
<1>1. ASSUME NEW b \in Agents, agent'[b].conn # None
      PROVE  handler'[agent'[b].conn] # "idle" /\ serves'[agent'[b].conn] = ClusterOf[b]
  <2>1. agent'[b].conn = agent[b].conn /\ agent[b].conn \in Conns BY Zenon, <1>1 DEF AgentTypes
  <2>2. handler[agent[b].conn] # "idle" /\ serves[agent[b].conn] = ClusterOf[b] BY Zenon, <1>1, <2>1 DEF Joined
  <2> QED BY Zenon, <2>1, <2>2 DEF KeepsConnections
<1>2. ASSUME NEW b \in Agents, NEW q \in working'[b] PROVE Made(q, ClusterOf[b])'
  <2>1. q \in Requests /\ Made(q, ClusterOf[b]) BY Zenon, <1>2 DEF AgentTypes, Joined
  <2> QED BY Zenon, <2>1 DEF Made, KeepsCalls
<1> QED BY Zenon, <1>1, <1>2 DEF Joined

LEMMA FitsStays ==
  ASSUME KeepsCalls
  PROVE  \A p, q \in Requests : Fits(p, q) =>
           /\ request'[p].pc # "new" /\ request'[q].pc # "new"
           /\ request'[p].id = request'[q].id /\ request'[p].target = request'[q].target
BY Zenon DEF Fits, KeepsCalls

\* What is delivered and answered stays so, also for a caller that takes what is in its channel.
LEMMA FittingStays ==
  ASSUME ServerTypes, RequestTypes, Fitting, KeepsCalls, channel' = channel,
         \A d \in Conns : handler'[d] = "delivering" => handler[d] = "delivering" /\ delivery'[d] = delivery[d],
         \A r \in Requests : request'[r].answer \in {request[r].answer, channel[r], None}
  PROVE  Fitting'
<1>1. ASSUME NEW d \in Conns, handler'[d] = "delivering" PROVE Fits(delivery[d].answer, delivery[d].to)'
  <2>1. delivery[d] \in [answer : Requests, to : Requests] BY Zenon, <1>1 DEF ServerTypes
  <2>2. PICK p \in Requests, q \in Requests : p = delivery[d].answer /\ q = delivery[d].to BY Zenon, <2>1
  <2>3. p = delivery'[d].answer /\ q = delivery'[d].to BY Zenon, <1>1, <2>2
  <2>4. Fits(p, q) BY Zenon, <1>1, <2>2 DEF Fitting
  <2> QED BY Zenon, <2>3, <2>4, FitsStays DEF Fits
<1>2. ASSUME NEW q \in Requests, channel'[q] # None PROVE Fits(channel[q], q)'
  <2>1. PICK p \in Requests : p = channel[q] /\ p = channel'[q] BY Zenon, <1>2 DEF RequestTypes
  <2>2. Fits(p, q) BY Zenon, <1>2, <2>1 DEF Fitting
  <2>3. /\ request'[p].pc # "new" /\ request'[q].pc # "new"
        /\ request'[p].id = request'[q].id /\ request'[p].target = request'[q].target
    BY Zenon, <2>2, FitsStays
  <2>4. Fits(p, q)' BY Zenon, <2>3 DEF Fits
  <2> QED BY Zenon, <2>1, <2>4 DEF Fits
<1>3. ASSUME NEW q \in Requests, request'[q].answer # None PROVE Fits(request[q].answer, q)'
  <2>1. request'[q].answer = request[q].answer \/ request'[q].answer = channel[q] BY Zenon, <1>3
  <2>5. request[q].answer \in Requests \cup {None} /\ channel[q] \in Requests \cup {None}
    BY Zenon DEF RequestTypes, Record
  <2>2. PICK p \in Requests : p = request'[q].answer
    <3>1. request'[q].answer \in Requests \cup {None} BY Zenon, <2>1, <2>5
    <3> QED BY Zenon, <1>3, <3>1
  <2>3. Fits(p, q)
    <3>1. p # None BY Zenon, <1>3, <2>2
    <3>2. CASE p = request[q].answer BY Zenon, <3>1, <3>2 DEF Fitting
    <3>3. CASE p = channel[q] BY Zenon, <3>1, <3>3 DEF Fitting
    <3> QED BY Zenon, <2>1, <2>2, <3>2, <3>3
  <2>6. /\ request'[p].pc # "new" /\ request'[q].pc # "new"
        /\ request'[p].id = request'[q].id /\ request'[p].target = request'[q].target
    BY Zenon, <2>3, FitsStays
  <2>4. Fits(p, q)' BY Zenon, <2>6 DEF Fits
  <2> QED BY Zenon, <2>2, <2>4 DEF Fits
<1> QED BY Zenon, <1>1, <1>2, <1>3 DEF Fitting

LEMMA RoutableStays ==
  ASSUME ServerTypes, LiveConnectionsRoutable, registry' = registry, serves' = serves, closed \subseteq closed',
         \A d \in Conns : /\ handler'[d] \in Open => handler[d] \in Open
                          /\ handler[d] \in Open \cup {"leaving"} => handler'[d] \in Open \cup {"leaving"}
  PROVE  LiveConnectionsRoutable'
<1>1. ASSUME NEW d \in Conns, handler'[d] \in Open, d \notin closed' PROVE registry'[serves'[d]] = d
  BY Zenon, <1>1 DEF LiveConnectionsRoutable
<1>2. ASSUME NEW k \in Clusters, registry'[k] # None
      PROVE  serves'[registry'[k]] = k /\ handler'[registry'[k]] \in Open \cup {"leaving"}
  <2>1. PICK d \in Conns : d = registry[k] /\ d = registry'[k] BY Zenon, <1>2 DEF ServerTypes
  <2>2. serves[d] = k /\ handler[d] \in Open \cup {"leaving"} BY Zenon, <1>2, <2>1 DEF LiveConnectionsRoutable
  <2> QED BY Zenon, <2>1, <2>2
<1> QED BY Zenon, <1>1, <1>2 DEF LiveConnectionsRoutable

LEMMA FreshStays ==
  ASSUME Fresh, dials' = dials,
         \A d \in Conns : handler[d] = "idle" =>
           /\ handler'[d] = "idle" /\ (d \in alive' \cup closed' => d \in alive \cup closed)
           /\ down'[d] \in {down[d], <<>>} /\ up'[d] \in {up[d], <<>>},
         \A d \in Conns : handler'[d] = "idle" => handler[d] = "idle"
  PROVE  Fresh'
<1> SUFFICES ASSUME NEW d \in Conns
             PROVE  /\ d > dials' => handler'[d] = "idle"
                    /\ handler'[d] = "idle" => d \notin alive' \cup closed' /\ down'[d] = <<>> /\ up'[d] = <<>>
  BY Zenon DEF Fresh
<1>1. d > dials => handler[d] = "idle" BY Zenon DEF Fresh
<1>2. handler[d] = "idle" => d \notin alive \cup closed /\ down[d] = <<>> /\ up[d] = <<>> BY Zenon DEF Fresh
<1> QED BY Zenon, <1>1, <1>2

\* The agent takes the next frame from the socket.
LEMMA FrameTaken ==
  ASSUME FrameTypes, Carried, NEW c \in Conns, down[c] # <<>>, down' = [down EXCEPT ![c] = Tail(down[c])],
         up' = up, serves' = serves, request' = request
  PROVE  FrameTypes' /\ Carried'
<1>1. down[c] \in Seq(Frames) BY Zenon DEF FrameTypes
<1>2. /\ Tail(down[c]) \in Seq(Frames)
      /\ \A j \in 1..Len(Tail(down[c])) : Tail(down[c])[j] = down[c][j + 1] /\ j + 1 \in 1..Len(down[c])
  BY SMT, <1>1
<1>3. FrameTypes' BY Zenon, <1>2 DEF FrameTypes
<1>4. ASSUME NEW d \in Conns, NEW j \in 1..Len(down'[d]), down'[d][j] # Greeting PROVE Made(down[d][j], serves[d])'
  <2>0. Made(down'[d][j], serves[d]) => Made(down[d][j], serves[d])' BY Zenon DEF Made
  <2>1. CASE d = c
    <3>1. down'[d] = Tail(down[c]) BY Zenon, <2>1 DEF FrameTypes
    <3> QED BY Zenon, <1>2, <1>4, <2>0, <2>1, <3>1 DEF Carried
  <2>2. CASE d # c
    <3>1. down'[d] = down[d] BY Zenon, <2>2 DEF FrameTypes
    <3> QED BY Zenon, <1>4, <2>0, <3>1 DEF Carried
  <2> QED BY Zenon, <2>1, <2>2
<1>5. \A d \in Conns : \A j \in 1..Len(up'[d]) : Made(up[d][j], serves[d])'
  BY Zenon DEF Carried, Made
<1> QED BY Zenon, <1>3, <1>4, <1>5 DEF Carried

\* The replaced connection is closed in the step that puts c in its place.
LEMMA RegisterKeeps ==
  ASSUME Inv, NEW c \in Conns, Register(c)
  PROVE  Inv'
<1> USE TunnelAssumption
<1>0. ServerTypes /\ FrameTypes /\ RequestTypes /\ AgentTypes
      /\ Fresh /\ LiveConnectionsRoutable /\ Entries /\ Carried /\ Joined /\ Fitting
  BY Zenon DEF Inv
<1>u. /\ serves' = serves /\ delivery' = delivery /\ pending' = pending /\ channel' = channel /\ request' = request
      /\ agent' = agent /\ working' = working /\ dials' = dials /\ faults' = faults
  BY Zenon DEF Register, serverVars, requestVars, agentVars
<1>s. KeepsCalls
  BY Zenon, <1>u DEF KeepsCalls
<1>h. KeepsConnections
  BY Zenon, <1>0, <1>u DEF Register, ServerTypes, KeepsConnections
<1>d. FrameTypes' /\ Drains /\ alive' = alive \ {registry[serves[c]]}
  <2>1. HangUp(registry[serves[c]]) BY Zenon DEF Register, RegisterConnection
  <2> QED BY Zenon, <1>0, <1>u, <2>1, HangUpEffect
<1>1. RequestTypes' /\ AgentTypes'
  BY Zenon, <1>0, <1>u DEF RequestTypes, AgentTypes
<1>2. ServerTypes'
  BY <1>0, <1>u DEF Register, RegisterConnection, HangUp, Open, ServerTypes, NoDelivery
<1>3. FrameTypes'
  BY Zenon, <1>d
<1>4. Fresh'
  <2> DEFINE existing == registry[serves[c]]
  <2>1. existing \in Conns => handler[existing] # "idle"
    <3>1. serves[c] \in Clusters BY Zenon, <1>0 DEF Register, ServerTypes
    <3> QED BY Zenon, <1>0, <3>1, Numbered DEF LiveConnectionsRoutable, Open
  <2>2. /\ handler[c] = "starting" /\ handler' = [handler EXCEPT ![c] = "greeting"]
        /\ closed' = closed \cup ({existing} \ {None}) /\ alive' = alive \ {existing}
        /\ down' = [d \in Conns |-> IF d = existing THEN <<>> ELSE down[d]]
        /\ up' = [d \in Conns |-> IF d = existing THEN <<>> ELSE up[d]]
    BY Zenon DEF Register, RegisterConnection, HangUp
  <2> HIDE DEF existing
  <2>3. ASSUME NEW d \in Conns
        PROVE  /\ d > dials => handler'[d] = "idle"
               /\ handler'[d] = "idle" => d \notin alive' \cup closed' /\ down'[d] = <<>> /\ up'[d] = <<>>
    <3>1. CASE d = c
      <4>1. ~(d > dials) BY Zenon, <1>0, <2>2, <3>1 DEF Fresh
      <4>2. handler'[d] = "greeting" BY Zenon, <1>0, <2>2, <3>1 DEF ServerTypes
      <4> QED BY Zenon, <4>1, <4>2
    <3>2. CASE d # c
      <4>1. handler'[d] = handler[d] BY Zenon, <1>0, <2>2, <3>2 DEF ServerTypes
      <4>2. handler[d] = "idle" => d # existing BY Zenon, <2>1
      <4>3. d > dials => handler[d] = "idle" BY Zenon, <1>0 DEF Fresh
      <4>4. handler[d] = "idle" => d \notin alive \cup closed /\ down[d] = <<>> /\ up[d] = <<>>
        BY Zenon, <1>0 DEF Fresh
      <4>5. handler[d] = "idle" => d \notin alive' \cup closed' BY Zenon, <2>2, <4>2, <4>4
      <4>6. handler[d] = "idle" => down'[d] = <<>> /\ up'[d] = <<>>
        <5>1. d # existing => down'[d] = down[d] /\ up'[d] = up[d] BY Zenon, <2>2
        <5> QED BY Zenon, <4>2, <4>4, <5>1
      <4> QED BY Zenon, <4>1, <4>3, <4>5, <4>6
    <3> QED BY Zenon, <3>1, <3>2
  <2> QED BY Zenon, <1>u, <2>3 DEF Fresh
<1>5. LiveConnectionsRoutable'
  <2>1. registry[serves[c]] # c
    <3>1. serves[c] \in Clusters /\ handler[c] = "starting" BY Zenon, <1>0 DEF Register, ServerTypes
    <3> QED BY Zenon, <1>0, <3>1, Numbered DEF LiveConnectionsRoutable, Open
  <2>2. /\ registry' = [registry EXCEPT ![serves[c]] = c] /\ serves' = serves
        /\ closed' = closed \cup ({registry[serves[c]]} \ {None})
        /\ handler' = [handler EXCEPT ![c] = "greeting"] /\ serves[c] \in Clusters
    BY Zenon, <1>0, <1>u DEF Register, RegisterConnection, ServerTypes
  <2>3. ASSUME NEW d \in Conns, handler'[d] \in Open, d \notin closed' PROVE registry'[serves'[d]] = d
    <3>1. CASE d = c BY Zenon, <1>0, <2>2, <3>1 DEF ServerTypes
    <3>2. CASE d # c
      <4>1. handler[d] \in Open /\ d \notin closed BY Zenon, <1>0, <2>2, <2>3, <3>2 DEF ServerTypes
      <4>2. registry[serves[d]] = d /\ d # None BY Zenon, <1>0, <4>1, Numbered DEF LiveConnectionsRoutable
      <4>3. serves[d] # serves[c] BY Zenon, <2>2, <2>3, <4>2
      <4>4. serves[d] \in Clusters BY Zenon, <1>0, <4>1 DEF ServerTypes, Open
      <4>5. registry'[serves[d]] = registry[serves[d]] BY Zenon, <1>0, <2>2, <4>3, <4>4 DEF ServerTypes
      <4> QED BY Zenon, <2>2, <4>2, <4>5
    <3> QED BY Zenon, <3>1, <3>2
  <2>4. ASSUME NEW k \in Clusters, registry'[k] # None
        PROVE  serves'[registry'[k]] = k /\ handler'[registry'[k]] \in Open \cup {"leaving"}
    BY <1>0, <2>1, <2>2, <2>4 DEF ServerTypes, LiveConnectionsRoutable, Open
  <2> QED BY Zenon, <2>3, <2>4 DEF LiveConnectionsRoutable
<1>6. Entries'
  BY Zenon, <1>0, <1>u, <1>h, EntriesStay
<1>7. Carried'
  BY Zenon, <1>0, <1>s, <1>d, CarriedStays
<1>8. Joined'
  BY Zenon, <1>0, <1>u, <1>s, <1>h, JoinedStays
<1>9. Fitting'
  <2>1. \A d \in Conns : handler'[d] = "delivering" => handler[d] = "delivering" /\ delivery'[d] = delivery[d]
    BY Zenon, <1>0, <1>u DEF Register, ServerTypes
  <2> QED BY Zenon, <1>0, <1>u, <1>s, <2>1, FittingStays
<1> QED BY Zenon, <1>1, <1>2, <1>3, <1>4, <1>5, <1>6, <1>7, <1>8, <1>9 DEF Inv

LEMMA GreetKeeps ==
  ASSUME Inv, NEW c \in Conns, Greet(c)
  PROVE  Inv'
<1> USE TunnelAssumption
<1>0. ServerTypes /\ FrameTypes /\ RequestTypes /\ AgentTypes
      /\ Fresh /\ LiveConnectionsRoutable /\ Entries /\ Carried /\ Joined /\ Fitting
  BY Zenon DEF Inv
<1>u. /\ registry' = registry /\ serves' = serves /\ delivery' = delivery /\ closed' = closed /\ alive' = alive
      /\ up' = up /\ pending' = pending /\ channel' = channel /\ request' = request /\ agent' = agent
      /\ working' = working /\ dials' = dials /\ faults' = faults
  BY Zenon DEF Greet, serverVars, requestVars, agentVars
<1>s. KeepsCalls
  BY Zenon, <1>u DEF KeepsCalls
<1>h. KeepsConnections
  BY Zenon, <1>0, <1>u DEF Greet, ServerTypes, KeepsConnections
<1>1. RequestTypes' /\ AgentTypes'
  BY Zenon, <1>0, <1>u DEF RequestTypes, AgentTypes
<1>2. ServerTypes'
  BY Zenon, <1>0, <1>u DEF Greet, SendMessage, Open, ServerTypes, NoDelivery
<1>3. FrameTypes'
  <2>1. SendMessage(c, Greeting) /\ Greeting \in Frames /\ alive \subseteq Conns
    BY Zenon, <1>0 DEF Greet, Frames, ServerTypes
  <2>2. down' \in [Conns -> Seq(Frames)] BY Zenon, <1>0, <2>1, SendMessageTyped DEF FrameTypes
  <2> QED BY Zenon, <1>0, <1>u, <2>2 DEF FrameTypes
<1>4. Fresh'
  BY Zenon, <1>0, <1>u DEF Greet, SendMessage, Fresh, ServerTypes, FrameTypes, AgentTypes
<1>5. LiveConnectionsRoutable'
  <2>1. \A d \in Conns : /\ handler'[d] \in Open => handler[d] \in Open
                         /\ handler[d] \in Open \cup {"leaving"} => handler'[d] \in Open \cup {"leaving"}
    BY Zenon, <1>0, <1>u DEF Greet, ServerTypes, Open
  <2> QED BY Zenon, <1>0, <1>u, <2>1, RoutableStays
<1>6. Entries'
  BY Zenon, <1>0, <1>u, <1>h, EntriesStay
<1>7. Carried'
  <2>1. CASE down' = down
    <3>1. Drains BY Zenon, <1>u, <2>1 DEF Drains
    <3> QED BY Zenon, <1>0, <1>s, <3>1, CarriedStays
  <2>2. CASE down' = [down EXCEPT ![c] = Append(down[c], Greeting)]
    <3>1. /\ \A r : Made(r, serves[c]) => request'[r].pc # "new" /\ request'[r].id \in IDs /\ request'[r].target = serves'[c]
          /\ \A d \in Conns : d # c => down'[d] = down[d]
          /\ down'[c] = Append(down[c], Greeting) /\ down[c] \in Seq(Frames)
      BY Zenon, <1>0, <1>u, <2>2 DEF Made, FrameTypes
    <3>2. \A j \in 1..Len(down'[c]) : down'[c][j] = Greeting \/ (j \in 1..Len(down[c]) /\ down'[c][j] = down[c][j])
      BY SMT, <3>1
    <3>3. ASSUME NEW d \in Conns, NEW j \in 1..Len(down'[d]), down'[d][j] # Greeting
          PROVE  Made(down'[d][j], serves[d])
      <4>1. CASE d = c BY Zenon, <1>0, <3>2, <3>3, <4>1 DEF Carried
      <4>2. CASE d # c
        <5>1. down'[d] = down[d] BY Zenon, <3>1, <4>2
        <5> QED BY Zenon, <1>0, <3>3, <5>1 DEF Carried
      <4> QED BY Zenon, <4>1, <4>2
    <3>4. \A d \in Conns : \A j \in 1..Len(up'[d]) : Made(up'[d][j], serves[d])
      BY Zenon, <1>0, <1>u DEF Carried
    <3>5. \A d \in Conns : \A j \in 1..Len(down'[d]) : down'[d][j] # Greeting => Made(down[d][j], serves[d])'
      BY Zenon, <1>u, <3>3 DEF Made
    <3>6. \A d \in Conns : \A j \in 1..Len(up'[d]) : Made(up[d][j], serves[d])'
      BY ZenonT(40), <1>u, <3>4 DEF Made
    <3> QED BY Zenon, <3>5, <3>6 DEF Carried
  <2> QED BY Zenon, <2>1, <2>2 DEF Greet, SendMessage
<1>8. Joined'
  BY Zenon, <1>0, <1>u, <1>s, <1>h, JoinedStays
<1>9. Fitting'
  <2>1. \A d \in Conns : handler'[d] = "delivering" => handler[d] = "delivering" /\ delivery'[d] = delivery[d]
    BY Zenon, <1>0, <1>u DEF Greet, ServerTypes
  <2> QED BY Zenon, <1>0, <1>u, <1>s, <2>1, FittingStays
<1> QED BY Zenon, <1>1, <1>2, <1>3, <1>4, <1>5, <1>6, <1>7, <1>8, <1>9 DEF Inv

\* An answer is handed to the request that the table of its connection names.
LEMMA ReadMessageKeeps ==
  ASSUME Inv, NEW c \in Conns, ReadMessage(c)
  PROVE  Inv'
<1> USE TunnelAssumption
<1>0. ServerTypes /\ FrameTypes /\ RequestTypes /\ AgentTypes
      /\ Fresh /\ LiveConnectionsRoutable /\ Entries /\ Carried /\ Joined /\ Fitting
  BY Zenon DEF Inv
<1>u. /\ registry' = registry /\ serves' = serves /\ closed' = closed /\ alive' = alive /\ down' = down
      /\ pending' = pending /\ channel' = channel /\ request' = request /\ agent' = agent /\ working' = working
      /\ dials' = dials /\ faults' = faults
  BY Zenon DEF ReadMessage, serverVars, requestVars, agentVars
<1> DEFINE p == Head(up[c])
           to == pending[c][request[p].id]
<1>a. /\ up[c] \in Seq(Requests) /\ up[c] # <<>> /\ up' = [up EXCEPT ![c] = Tail(up[c])]
      /\ handler[c] = "reading" /\ c \notin closed
  BY Zenon, <1>0, <1>u DEF ReadMessage, FrameTypes
<1>b. p \in Requests /\ p = up[c][1] /\ Len(up[c]) >= 1
  BY <1>a
<1>c. Made(p, serves[c])
  <2>1. 1 \in 1..Len(up[c]) BY SMT, <1>a, <1>b
  <2> QED BY Zenon, <1>0, <1>b, <2>1 DEF Carried
<1>d. to \in Requests \cup {None}
  <2>1. pending[c] \in [IDs -> Requests \cup {None}] /\ request[p].id \in IDs BY Zenon, <1>0, <1>c DEF RequestTypes, Made
  <2> QED BY Zenon, <2>1
<1>e. \/ to = None /\ handler' = handler /\ delivery' = delivery
      \/ /\ to \in Requests
         /\ delivery' = [delivery EXCEPT ![c] = [answer |-> p, to |-> to]]
         /\ handler' = [handler EXCEPT ![c] = "delivering"]
  BY Zenon, <1>0, <1>u, <1>d DEF ReadMessage, Lookup
<1>s. KeepsCalls
  BY Zenon, <1>u DEF KeepsCalls
<1>h. KeepsConnections
  BY ZenonT(40), <1>0, <1>u, <1>e DEF ServerTypes, KeepsConnections
<1>1. RequestTypes' /\ AgentTypes'
  BY Zenon, <1>0, <1>u DEF RequestTypes, AgentTypes
<1>2. ServerTypes'
  BY SMTT(30), <1>0, <1>u, <1>a, <1>b, <1>e DEF ServerTypes, NoDelivery, Open
<1>3. FrameTypes'
  <2>1. Tail(up[c]) \in Seq(Requests) BY Zenon, <1>a, <1>b, Sequences
  <2> QED BY Zenon, <1>0, <1>u, <1>a, <2>1 DEF FrameTypes
<1>4. Fresh'
  <2>1. \A d \in Conns : handler'[d] = "idle" <=> handler[d] = "idle"
    BY Zenon, <1>0, <1>a, <1>e DEF ServerTypes
  <2>2. \A d \in Conns : handler[d] = "idle" => up'[d] = up[d]
    BY Zenon, <1>0, <1>a DEF FrameTypes
  <2> QED BY Zenon, <1>0, <1>u, <2>1, <2>2, FreshStays
<1>5. LiveConnectionsRoutable'
  <2>1. \A d \in Conns : /\ handler'[d] \in Open => handler[d] \in Open
                         /\ handler[d] \in Open \cup {"leaving"} => handler'[d] \in Open \cup {"leaving"}
    BY Zenon, <1>0, <1>a, <1>e DEF ServerTypes, Open
  <2> QED BY Zenon, <1>0, <1>u, <2>1, RoutableStays
<1>6. Entries'
  BY Zenon, <1>0, <1>u, <1>h, EntriesStay
<1>7. Carried'
  <2>1. \A j \in 1..Len(Tail(up[c])) : Tail(up[c])[j] = up[c][j + 1] /\ j + 1 \in 1..Len(up[c])
    BY <1>a
  <2>2. down' = down /\ serves' = serves /\ request' = request
    BY Zenon, <1>u
  <2>3. \A d \in Conns : \A j \in 1..Len(up'[d]) : Made(up'[d][j], serves[d])
    BY Zenon, <1>0, <1>u, <1>a, <2>1 DEF Carried, FrameTypes
  <2>4. \A d \in Conns : \A j \in 1..Len(down'[d]) : down'[d][j] # Greeting => Made(down[d][j], serves[d])'
    BY ZenonT(40), <1>0, <2>2 DEF Carried, Made
  <2>5. \A d \in Conns : \A j \in 1..Len(up'[d]) : Made(up[d][j], serves[d])'
    BY Zenon, <2>2, <2>3 DEF Made
  <2> QED BY Zenon, <2>4, <2>5 DEF Carried
<1>8. Joined'
  BY Zenon, <1>0, <1>u, <1>s, <1>h, JoinedStays
<1>9. Fitting'
  <2>1. channel' = channel /\ request' = request
    BY Zenon, <1>u
  <2>2. CASE to = None
    <3>1. \A d \in Conns : handler'[d] = "delivering" => handler[d] = "delivering" /\ delivery'[d] = delivery[d]
      <4>1. to \notin Requests BY Zenon, <2>2
      <4> HIDE DEF to
      <4> QED BY Zenon, <1>e, <4>1
    <3> QED BY Zenon, <1>0, <1>s, <1>u, <3>1, FittingStays
  <2>3. CASE to # None
    <3>1. /\ to \in Requests /\ request[p].id \in IDs
          /\ request[to].pc \in {"noted", "waiting", "leaving"}
          /\ request[to].conn = c /\ request[to].id = request[p].id
      <4>1. request[p].id \in IDs BY Zenon, <1>c DEF Made
      <4>2. \A i \in IDs : pending[c][i] # None =>
              /\ request[pending[c][i]].pc \in {"noted", "waiting", "leaving"}
              /\ request[pending[c][i]].conn = c /\ request[pending[c][i]].id = i
        BY Zenon, <1>0 DEF Entries
      <4>3. PICK i \in IDs : i = request[p].id BY Zenon, <4>1
      <4> HIDE DEF p
      <4> QED BY Zenon, <1>d, <2>3, <4>2, <4>3
    <3>a. Fits(p, to)
      <4> HIDE DEF p, to
      <4>0. \A q \in Requests : request[q].conn # None => serves[request[q].conn] = request[q].target
        BY Zenon, <1>0 DEF Entries
      <4>1. serves[c] = request[to].target BY Zenon, <3>1, <4>0, Numbered
      <4> QED BY Zenon, <1>c, <3>1, <4>1 DEF Made, Fits
    <3>2. \A d \in Conns : handler'[d] = "delivering" => Fits(delivery'[d].answer, delivery'[d].to)
      <4> HIDE DEF p, to
      <4>1. ASSUME NEW d \in Conns, handler'[d] = "delivering" PROVE Fits(delivery'[d].answer, delivery'[d].to)
        <5>1. CASE d = c
          <6>1. delivery'[d] = [answer |-> p, to |-> to] BY Zenon, <1>0, <1>e, <2>3, <5>1 DEF ServerTypes
          <6>2. delivery'[d].answer = p /\ delivery'[d].to = to BY SMT, <6>1
          <6> QED BY Zenon, <3>a, <6>2
        <5>2. CASE d # c BY Zenon, <1>0, <1>e, <2>3, <4>1, <5>2 DEF ServerTypes, Fitting
        <5> QED BY Zenon, <5>1, <5>2
      <4> QED BY Zenon, <4>1
    <3>3. \A d \in Conns : handler'[d] = "delivering" => Fits(delivery[d].answer, delivery[d].to)'
      BY Zenon, <2>1, <3>2 DEF Fits
    <3>4. (\A q \in Requests : channel[q] # None => Fits(channel[q], q))'
          /\ (\A q \in Requests : request[q].answer # None => Fits(request[q].answer, q))'
      BY Zenon, <1>0, <2>1 DEF Fitting, Fits
    <3> QED BY Zenon, <3>3, <3>4 DEF Fitting
  <2> QED BY Zenon, <2>2, <2>3
<1> QED BY Zenon, <1>1, <1>2, <1>3, <1>4, <1>5, <1>6, <1>7, <1>8, <1>9 DEF Inv

LEMMA DeliverResponseKeeps ==
  ASSUME Inv, NEW c \in Conns, DeliverResponse(c)
  PROVE  Inv'
<1> USE TunnelAssumption
<1>0. ServerTypes /\ FrameTypes /\ RequestTypes /\ AgentTypes
      /\ Fresh /\ LiveConnectionsRoutable /\ Entries /\ Carried /\ Joined /\ Fitting
  BY Zenon DEF Inv
<1>u. /\ registry' = registry /\ serves' = serves /\ closed' = closed /\ alive' = alive /\ down' = down
      /\ up' = up /\ pending' = pending /\ request' = request /\ agent' = agent /\ working' = working
      /\ dials' = dials /\ faults' = faults
  BY Zenon DEF DeliverResponse, serverVars, requestVars, agentVars
<1>s. KeepsCalls
  BY Zenon, <1>u DEF KeepsCalls
<1>h. KeepsConnections
  BY Zenon, <1>0, <1>u DEF DeliverResponse, ServerTypes, KeepsConnections
<1>d. Drains
  BY Zenon, <1>u DEF Drains
<1>1. FrameTypes' /\ AgentTypes'
  BY Zenon, <1>0, <1>u DEF FrameTypes, AgentTypes
<1>9. Carried'
  BY Zenon, <1>0, <1>s, <1>d, CarriedStays
<1>2. ServerTypes'
  BY ZenonT(40), <1>0, <1>u DEF DeliverResponse, Open, ServerTypes, NoDelivery
<1>3. RequestTypes'
  <2>1. delivery[c].answer \in Requests /\ channel' = [channel EXCEPT ![delivery[c].to] = delivery[c].answer]
    BY Zenon, <1>0 DEF DeliverResponse, ServerTypes
  <2> QED BY Zenon, <1>0, <1>u, <2>1 DEF RequestTypes
<1>4. Fresh'
  BY ZenonT(40), <1>0, <1>u DEF DeliverResponse, Fresh, ServerTypes, FrameTypes, AgentTypes
<1>5. LiveConnectionsRoutable'
  <2>1. \A d \in Conns : /\ handler'[d] \in Open => handler[d] \in Open
                         /\ handler[d] \in Open \cup {"leaving"} => handler'[d] \in Open \cup {"leaving"}
    BY Zenon, <1>0, <1>u DEF DeliverResponse, ServerTypes, Open
  <2> QED BY Zenon, <1>0, <1>u, <2>1, RoutableStays
<1>6. Entries'
  BY Zenon, <1>0, <1>u, <1>h, EntriesStay
<1>7. Joined'
  BY Zenon, <1>0, <1>u, <1>s, <1>h, JoinedStays
<1>8. Fitting'
  <2>0. delivery[c] \in [answer : Requests, to : Requests] BY Zenon, <1>0 DEF DeliverResponse, ServerTypes
  <2>1. PICK p \in Requests, q \in Requests : p = delivery[c].answer /\ q = delivery[c].to
    BY Zenon, <2>0
  <2>2. Fits(p, q) BY Zenon, <1>0, <2>1 DEF DeliverResponse, Fitting
  <2>3. /\ channel' = [channel EXCEPT ![q] = p]
        /\ handler' = [handler EXCEPT ![c] = "reading"] /\ delivery' = [delivery EXCEPT ![c] = NoDelivery]
    BY Zenon, <2>1 DEF DeliverResponse
  <2>4. ASSUME NEW d \in Conns, handler'[d] = "delivering" PROVE Fits(delivery[d].answer, delivery[d].to)'
    <3>1. d # c BY Zenon, <1>0, <2>3, <2>4 DEF ServerTypes
    <3>2. handler[d] = "delivering" /\ delivery'[d] = delivery[d] BY Zenon, <1>0, <2>3, <2>4, <3>1 DEF ServerTypes
    <3>3. Fits(delivery[d].answer, delivery[d].to) BY Zenon, <1>0, <3>2 DEF Fitting
    <3> QED BY Zenon, <1>u, <3>2, <3>3 DEF Fits
  <2>5. ASSUME NEW r \in Requests, channel'[r] # None PROVE Fits(channel[r], r)'
    <3>1. CASE r = q
      <4>1. channel'[r] = p BY Zenon, <1>0, <2>3, <3>1 DEF RequestTypes
      <4> QED BY Zenon, <1>u, <2>2, <3>1, <4>1 DEF Fits
    <3>2. CASE r # q
      <4>1. channel'[r] = channel[r] BY Zenon, <1>0, <2>3, <3>2 DEF RequestTypes
      <4> QED BY ZenonT(40), <1>0, <1>u, <2>5, <4>1 DEF Fitting, Fits
    <3> QED BY Zenon, <3>1, <3>2
  <2>6. (\A r \in Requests : request[r].answer # None => Fits(request[r].answer, r))'
    BY Zenon, <1>0, <1>u DEF Fitting, Fits
  <2> QED BY Zenon, <2>4, <2>5, <2>6 DEF Fitting
<1> QED BY Zenon, <1>1, <1>2, <1>3, <1>4, <1>5, <1>6, <1>7, <1>8, <1>9 DEF Inv

LEMMA ReadErrorKeeps ==
  ASSUME Inv, NEW c \in Conns, ReadError(c)
  PROVE  Inv'
<1> USE TunnelAssumption
<1>0. ServerTypes /\ FrameTypes /\ RequestTypes /\ AgentTypes
      /\ Fresh /\ LiveConnectionsRoutable /\ Entries /\ Carried /\ Joined /\ Fitting
  BY Zenon DEF Inv
<1>u. /\ registry' = registry /\ serves' = serves /\ delivery' = delivery /\ closed' = closed /\ alive' = alive
      /\ down' = down /\ up' = up /\ pending' = pending /\ channel' = channel /\ request' = request
      /\ agent' = agent /\ working' = working /\ dials' = dials /\ faults' = faults
  BY Zenon DEF ReadError, serverVars, requestVars, agentVars
<1>s. KeepsCalls
  BY Zenon, <1>u DEF KeepsCalls
<1>h. KeepsConnections
  BY Zenon, <1>0, <1>u DEF ReadError, ServerTypes, KeepsConnections
<1>d. Drains
  BY Zenon, <1>u DEF Drains
<1>1. FrameTypes' /\ RequestTypes' /\ AgentTypes'
  BY Zenon, <1>0, <1>u DEF FrameTypes, RequestTypes, AgentTypes
<1>8. Carried'
  BY Zenon, <1>0, <1>s, <1>d, CarriedStays
<1>2. ServerTypes'
  BY Zenon, <1>0, <1>u DEF ReadError, Open, ServerTypes, NoDelivery
<1>3. Fresh'
  BY Zenon, <1>0, <1>u DEF ReadError, Fresh, ServerTypes, FrameTypes, AgentTypes
<1>4. LiveConnectionsRoutable'
  <2>1. \A d \in Conns : /\ handler'[d] \in Open => handler[d] \in Open
                         /\ handler[d] \in Open \cup {"leaving"} => handler'[d] \in Open \cup {"leaving"}
    BY Zenon, <1>0, <1>u DEF ReadError, ServerTypes, Open
  <2> QED BY Zenon, <1>0, <1>u, <2>1, RoutableStays
<1>5. Entries'
  BY Zenon, <1>0, <1>u, <1>h, EntriesStay
<1>6. Joined'
  BY Zenon, <1>0, <1>u, <1>s, <1>h, JoinedStays
<1>7. Fitting'
  <2>1. \A d \in Conns : handler'[d] = "delivering" => handler[d] = "delivering" /\ delivery'[d] = delivery[d]
    BY Zenon, <1>0, <1>u DEF ReadError, ServerTypes
  <2> QED BY Zenon, <1>0, <1>u, <1>s, <2>1, FittingStays
<1> QED BY Zenon, <1>1, <1>2, <1>3, <1>4, <1>5, <1>6, <1>7, <1>8 DEF Inv

\* The goroutine of a replaced connection leaves the registry alone.
LEMMA UnregisterKeeps ==
  ASSUME Inv, NEW c \in Conns, Unregister(c)
  PROVE  Inv'
<1> USE TunnelAssumption
<1>0. ServerTypes /\ FrameTypes /\ RequestTypes /\ AgentTypes
      /\ Fresh /\ LiveConnectionsRoutable /\ Entries /\ Carried /\ Joined /\ Fitting
  BY Zenon DEF Inv
<1>u. /\ serves' = serves /\ delivery' = delivery /\ pending' = pending /\ channel' = channel /\ request' = request
      /\ agent' = agent /\ working' = working /\ dials' = dials /\ faults' = faults
  BY Zenon DEF Unregister, serverVars, requestVars, agentVars
<1>a. /\ alive' = alive \ {c} /\ serves' = serves /\ delivery' = delivery
      /\ handler[c] = "leaving" /\ handler' = [handler EXCEPT ![c] = "done"] /\ serves[c] \in Clusters
  BY Zenon, <1>0, <1>u DEF Unregister, HangUp, ServerTypes
<1>b. \/ /\ registry[serves[c]] = c
         /\ registry' = [registry EXCEPT ![serves[c]] = None] /\ closed' = closed \cup {c}
      \/ registry[serves[c]] # c /\ registry' = registry /\ closed' = closed
  BY Zenon, <1>0, <1>u DEF Unregister, RemoveConnection
<1>s. KeepsCalls
  BY Zenon, <1>u DEF KeepsCalls
<1>h. KeepsConnections
  BY Zenon, <1>0, <1>u DEF Unregister, ServerTypes, KeepsConnections
<1>d. FrameTypes' /\ Drains /\ alive' = alive \ {c}
  <2>1. HangUp(c) BY Zenon DEF Unregister
  <2> QED BY Zenon, <1>0, <1>u, <2>1, HangUpEffect
<1>1. RequestTypes' /\ AgentTypes'
  BY Zenon, <1>0, <1>u DEF RequestTypes, AgentTypes
<1>2. ServerTypes'
  BY Zenon, <1>0, <1>u, <1>a, <1>b DEF ServerTypes
<1>3. FrameTypes'
  BY Zenon, <1>d
<1>4. Fresh'
  <2>1. \A d \in Conns : handler'[d] = "idle" <=> handler[d] = "idle"
    BY Zenon, <1>0, <1>a DEF ServerTypes
  <2>2. \A d \in Conns : handler[d] = "idle" => (d \in alive' \cup closed' => d \in alive \cup closed)
    BY ZenonT(40), <1>a, <1>b
  <2>3. \A d \in Conns : down'[d] \in {down[d], <<>>} /\ up'[d] \in {up[d], <<>>}
    BY Zenon, <1>d DEF Drains
  <2> QED BY Zenon, <1>0, <1>u, <2>1, <2>2, <2>3, FreshStays
<1>5. LiveConnectionsRoutable'
  <2>1. ASSUME NEW d \in Conns, handler'[d] \in Open, d \notin closed' PROVE registry'[serves'[d]] = d
    BY <1>0, <1>a, <1>b, <2>1 DEF ServerTypes, LiveConnectionsRoutable, Open
  <2>2. ASSUME NEW k \in Clusters, registry'[k] # None
        PROVE  serves'[registry'[k]] = k /\ handler'[registry'[k]] \in Open \cup {"leaving"}
    BY <1>0, <1>a, <1>b, <2>2 DEF ServerTypes, LiveConnectionsRoutable, Open
  <2> QED BY Zenon, <2>1, <2>2 DEF LiveConnectionsRoutable
<1>6. Entries'
  BY Zenon, <1>0, <1>u, <1>h, EntriesStay
<1>7. Carried'
  BY Zenon, <1>0, <1>s, <1>d, CarriedStays
<1>8. Joined'
  BY Zenon, <1>0, <1>u, <1>s, <1>h, JoinedStays
<1>9. Fitting'
  <2>1. \A d \in Conns : handler'[d] = "delivering" => handler[d] = "delivering" /\ delivery'[d] = delivery[d]
    BY Zenon, <1>0, <1>u DEF Unregister, ServerTypes
  <2> QED BY Zenon, <1>0, <1>u, <1>s, <2>1, FittingStays
<1> QED BY Zenon, <1>1, <1>2, <1>3, <1>4, <1>5, <1>6, <1>7, <1>8, <1>9 DEF Inv

LEMMA CloseExpiredKeeps ==
  ASSUME Inv, NEW c \in Conns, CloseExpired(c)
  PROVE  Inv'
<1> USE TunnelAssumption
<1>0. ServerTypes /\ FrameTypes /\ RequestTypes /\ AgentTypes
      /\ Fresh /\ LiveConnectionsRoutable /\ Entries /\ Carried /\ Joined /\ Fitting
  BY Zenon DEF Inv
<1>u. /\ registry' = registry /\ handler' = handler /\ serves' = serves /\ delivery' = delivery /\ pending' = pending
      /\ channel' = channel /\ request' = request /\ agent' = agent /\ working' = working /\ dials' = dials
  BY Zenon DEF CloseExpired, serverVars, requestVars, agentVars
<1>s. KeepsCalls
  BY Zenon, <1>u DEF KeepsCalls
<1>h. KeepsConnections
  BY Zenon, <1>0, <1>u DEF ServerTypes, KeepsConnections
<1>d. FrameTypes' /\ Drains /\ alive' = alive \ {c}
  <2>1. HangUp(c) BY Zenon DEF CloseExpired
  <2> QED BY Zenon, <1>0, <1>u, <2>1, HangUpEffect
<1>1. RequestTypes'
  BY Zenon, <1>0, <1>u DEF RequestTypes
<1>8. Entries'
  BY Zenon, <1>0, <1>u, <1>h, EntriesStay
<1>9. Joined'
  BY Zenon, <1>0, <1>u, <1>s, <1>h, JoinedStays
<1>10. Fitting'
  <2>1. \A d \in Conns : handler'[d] = "delivering" => handler[d] = "delivering" /\ delivery'[d] = delivery[d]
    BY Zenon, <1>0, <1>u DEF ServerTypes
  <2> QED BY Zenon, <1>0, <1>u, <1>s, <2>1, FittingStays
<1>2. ServerTypes'
  BY Zenon, <1>0, <1>u DEF CloseExpired, HangUp, Open, ServerTypes, NoDelivery
<1>3. FrameTypes'
  BY Zenon, <1>d
<1>4. AgentTypes'
  <2>1. faults' \in 0..MaxFaults BY SMT, <1>0 DEF CloseExpired, AgentTypes
  <2> QED BY Zenon, <1>0, <1>u, <2>1 DEF AgentTypes
<1>5. Fresh'
  BY Zenon, <1>0, <1>u DEF CloseExpired, HangUp, Fresh, ServerTypes, FrameTypes, AgentTypes
<1>6. LiveConnectionsRoutable'
  BY Zenon, <1>0, <1>u DEF CloseExpired, HangUp, Open, LiveConnectionsRoutable, ServerTypes
<1>7. Carried'
  BY Zenon, <1>0, <1>s, <1>d, CarriedStays
<1> QED BY Zenon, <1>1, <1>2, <1>3, <1>4, <1>5, <1>6, <1>7, <1>8, <1>9, <1>10 DEF Inv

\* The request goes down a connection of the cluster it is for.
LEMMA SendRequestKeeps ==
  ASSUME Inv, NEW q \in Requests, SendRequest(q)
  PROVE  Inv'
<1> USE TunnelAssumption
<1>0. ServerTypes /\ FrameTypes /\ RequestTypes /\ AgentTypes
      /\ Fresh /\ LiveConnectionsRoutable /\ Entries /\ Carried /\ Joined /\ Fitting
  BY Zenon DEF Inv
<1>u. /\ registry' = registry /\ handler' = handler /\ serves' = serves /\ delivery' = delivery /\ closed' = closed
      /\ alive' = alive /\ up' = up /\ pending' = pending /\ channel' = channel /\ agent' = agent
      /\ working' = working /\ dials' = dials /\ faults' = faults
  BY Zenon DEF SendRequest, serverVars, requestVars, agentVars
<1>a. /\ request' \in [Requests -> Record] /\ request'[q].pc # "new"
      /\ \A r \in Requests : /\ request'[r].id = request[r].id
                             /\ request'[r].target = request[r].target
                             /\ request'[r].conn = request[r].conn
                             /\ r # q => request'[r] = request[r]
      /\ request'[q].pc \in {"waiting", "leaving"} /\ request[q].pc = "noted"
      /\ \A r \in Requests : request'[r].answer = request[r].answer
  <2>1. \E pc \in {"waiting", "leaving"} : Step(q, pc) BY Zenon DEF SendRequest
  <2>2. request[q].pc = "noted" /\ request \in [Requests -> Record] BY Zenon, <1>0 DEF SendRequest, RequestTypes
  <2> QED BY ZenonT(40), <2>1, <2>2, StepEffect
<1>s. KeepsCalls
  BY Zenon, <1>0, <1>a DEF KeepsCalls
<1>h. KeepsConnections
  BY Zenon, <1>0, <1>u DEF ServerTypes, KeepsConnections
<1>1. ServerTypes' /\ AgentTypes' /\ LiveConnectionsRoutable'
  BY Zenon, <1>0, <1>u DEF ServerTypes, AgentTypes, LiveConnectionsRoutable
<1>2. FrameTypes'
  <2>1. SendMessage(request[q].conn, q) /\ q \in Frames /\ alive \subseteq Conns
    BY Zenon, <1>0 DEF SendRequest, Frames, ServerTypes
  <2>2. down' \in [Conns -> Seq(Frames)] BY Zenon, <1>0, <2>1, SendMessageTyped DEF FrameTypes
  <2> QED BY Zenon, <1>0, <1>u, <2>2 DEF FrameTypes
<1>3. RequestTypes'
  BY Zenon, <1>0, <1>u, <1>a DEF RequestTypes
<1>4. Fresh'
  <2>1. request[q].conn \in Conns => handler[request[q].conn] # "idle"
    <3>1. request[q].conn # None => handler[request[q].conn] # "idle" BY Zenon, <1>0 DEF Entries
    <3> QED BY Zenon, <3>1, Numbered
  <2>2. \A d \in Conns : handler[d] = "idle" => down'[d] = down[d]
    BY Zenon, <1>0, <2>1 DEF SendRequest, SendMessage, FrameTypes
  <2> QED BY Zenon, <1>0, <1>u, <2>2, FreshStays
<1>5. Entries'
  <2>1. \A r \in Requests : request[r].pc \in Live => request'[r].pc \in Live
    BY Zenon, <1>a DEF Live
  <2> QED BY Zenon, <1>0, <1>u, <1>h, <1>a, <2>1, EntriesStay
<1>6. Carried'
  <2> DEFINE c == request[q].conn
  <2>1. Made(q, serves[c]) /\ c \in Conns
    <3>1. c \in Conns /\ request[q].id \in IDs /\ c # None BY Zenon, <1>0, <1>a, Numbered DEF RequestTypes
    <3> QED BY Zenon, <1>0, <1>a, <3>1 DEF Entries, Made
  <2>2. /\ serves' = serves /\ up' = up
        /\ down' = down \/ down' = [down EXCEPT ![c] = Append(down[c], q)]
    BY Zenon, <1>0, <1>u DEF SendRequest, SendMessage
  <2>3. ASSUME NEW d \in Conns, NEW j \in 1..Len(down'[d]), down'[d][j] # Greeting
        PROVE  Made(down'[d][j], serves[d]) /\ down'[d][j] \in Requests
    <3>1. down[d] \in Seq(Frames) /\ down[c] \in Seq(Frames) BY Zenon, <1>0, <1>u, <2>1 DEF FrameTypes
    <3>2. CASE down'[d] = down[d]
      BY Zenon, <1>0, <2>3, <3>2, UnderWay DEF Carried
    <3>3. CASE d = c /\ down'[d] = Append(down[c], q)
      <4>1. down'[d][j] = q \/ (j \in 1..Len(down[d]) /\ down'[d][j] = down[d][j])
        BY SMT, <2>3, <3>1, <3>3
      <4> HIDE DEF c
      <4> QED BY Zenon, <1>0, <2>1, <2>3, <3>3, <4>1, UnderWay DEF Carried
    <3> QED BY Zenon, <1>0, <1>u, <2>1, <2>2, <3>2, <3>3 DEF FrameTypes
  <2>4. \A d \in Conns : \A j \in 1..Len(up[d]) : Made(up[d][j], serves[d]) /\ up[d][j] \in Requests
    BY Zenon, <1>0, UnderWay DEF Carried
  <2>5. \A d \in Conns : \A j \in 1..Len(down'[d]) : down'[d][j] # Greeting => Made(down[d][j], serves[d])'
    BY Zenon, <1>s, <2>2, <2>3 DEF Made, KeepsCalls
  <2>6. \A d \in Conns : \A j \in 1..Len(up'[d]) : Made(up[d][j], serves[d])'
    BY ZenonT(40), <1>s, <2>2, <2>4 DEF Made, KeepsCalls
  <2> QED BY Zenon, <2>5, <2>6 DEF Carried
<1>7. Joined'
  BY Zenon, <1>0, <1>u, <1>s, <1>h, JoinedStays
<1>8. Fitting'
  <2>1. \A r \in Requests : request'[r].answer \in {request[r].answer, channel[r], None}
    BY Zenon, <1>a
  <2> QED BY Zenon, <1>0, <1>u, <1>s, <2>1, FittingStays
<1> QED BY Zenon, <1>1, <1>2, <1>3, <1>4, <1>5, <1>6, <1>7, <1>8 DEF Inv

\* The caller takes what is in its channel, or an error.
LEMMA AwaitKeeps ==
  ASSUME Inv, NEW q \in Requests, Await(q)
  PROVE  Inv'
<1> USE TunnelAssumption
<1>0. ServerTypes /\ FrameTypes /\ RequestTypes /\ AgentTypes
      /\ Fresh /\ LiveConnectionsRoutable /\ Entries /\ Carried /\ Joined /\ Fitting
  BY Zenon DEF Inv
<1>u. /\ registry' = registry /\ handler' = handler /\ serves' = serves /\ delivery' = delivery /\ closed' = closed
      /\ alive' = alive /\ down' = down /\ up' = up /\ pending' = pending /\ channel' = channel
      /\ agent' = agent /\ working' = working /\ dials' = dials /\ faults' = faults
  BY Zenon DEF Await, serverVars, requestVars, agentVars
<1> PICK answer \in {channel[q], None} : Answered(q, answer)
  BY Zenon, <1>0, <1>u DEF Await, TakeResponse, SeeClosed, TimeOut
<1>x. answer \in Requests \cup {None} /\ request[q].pc = "waiting"
  BY Zenon, <1>0, <1>u DEF RequestTypes, Await
<1>a. /\ request' \in [Requests -> Record] /\ request'[q].pc # "new"
      /\ \A r \in Requests : /\ request'[r].id = request[r].id
                             /\ request'[r].target = request[r].target
                             /\ request'[r].conn = request[r].conn
                             /\ r # q => request'[r] = request[r]
      /\ request'[q].pc = "leaving" /\ request'[q].answer = answer
  BY Zenon, <1>0, <1>u, <1>x, AnsweredEffect DEF RequestTypes
<1>s. KeepsCalls
  BY Zenon, <1>0, <1>a DEF KeepsCalls
<1>d. Drains
  BY Zenon, <1>u DEF Drains
<1>h. KeepsConnections
  BY Zenon, <1>0, <1>u DEF ServerTypes, KeepsConnections
<1>1. ServerTypes' /\ FrameTypes' /\ AgentTypes' /\ Fresh' /\ LiveConnectionsRoutable'
  BY Zenon, <1>0, <1>u DEF ServerTypes, FrameTypes, AgentTypes, Fresh, LiveConnectionsRoutable
<1>2. RequestTypes'
  BY Zenon, <1>0, <1>u, <1>x, <1>a DEF RequestTypes
<1>3. Entries'
  <2>1. \A r \in Requests : request[r].pc \in Live => request'[r].pc \in Live
    BY Zenon, <1>a DEF Live
  <2> QED BY Zenon, <1>0, <1>u, <1>h, <1>x, <1>a, <2>1, EntriesStay
<1>4. Carried'
  BY Zenon, <1>0, <1>s, <1>d, CarriedStays
<1>5. Joined'
  BY Zenon, <1>0, <1>u, <1>s, <1>h, JoinedStays
<1>6. Fitting'
  <2>1. \A r \in Requests : request'[r].answer \in {request[r].answer, channel[r], None}
    BY Zenon, <1>a
  <2> QED BY Zenon, <1>0, <1>u, <1>s, <2>1, FittingStays
<1> QED BY Zenon, <1>1, <1>2, <1>3, <1>4, <1>5, <1>6 DEF Inv

\* Leaving takes out the only entry of a caller.
LEMMA LeaveKeeps ==
  ASSUME Inv, NEW q \in Requests, Leave(q)
  PROVE  Inv'
<1> USE TunnelAssumption
<1>0. ServerTypes /\ FrameTypes /\ RequestTypes /\ AgentTypes
      /\ Fresh /\ LiveConnectionsRoutable /\ Entries /\ Carried /\ Joined /\ Fitting
  BY Zenon DEF Inv
<1>u. /\ registry' = registry /\ handler' = handler /\ serves' = serves /\ delivery' = delivery /\ closed' = closed
      /\ alive' = alive /\ down' = down /\ up' = up /\ channel' = channel /\ agent' = agent
      /\ working' = working /\ dials' = dials /\ faults' = faults
  BY Zenon DEF Leave, serverVars, requestVars, agentVars
<1>a. /\ request' \in [Requests -> Record] /\ request'[q].pc # "new"
      /\ \A r \in Requests : /\ request'[r].id = request[r].id
                             /\ request'[r].target = request[r].target
                             /\ request'[r].conn = request[r].conn
                             /\ r # q => request'[r] = request[r]
      /\ request'[q].pc = "done" /\ request[q].pc = "leaving"
      /\ \A r \in Requests : request'[r].answer = request[r].answer
  <2>1. Step(q, "done") BY Zenon DEF Leave
  <2>2. request[q].pc = "leaving" /\ request \in [Requests -> Record] BY Zenon, <1>0 DEF Leave, RequestTypes
  <2> QED BY ZenonT(40), <2>1, <2>2, StepEffect
<1>s. KeepsCalls
  BY Zenon, <1>0, <1>a DEF KeepsCalls
<1>d. Drains
  BY Zenon, <1>u DEF Drains
<1>h. KeepsConnections
  BY Zenon, <1>0, <1>u DEF ServerTypes, KeepsConnections
<1>b. /\ request[q].conn \in Conns /\ request[q].id \in IDs
      /\ pending' = [pending EXCEPT ![request[q].conn] = [pending[request[q].conn] EXCEPT ![request[q].id] = None]]
  BY Zenon, <1>0, <1>u, <1>a DEF Leave, RequestTypes
<1>c. \A c \in Conns, i \in IDs :
         pending'[c][i] = IF c = request[q].conn /\ i = request[q].id THEN None ELSE pending[c][i]
  BY Zenon, <1>0, <1>u, <1>b DEF RequestTypes
<1>1. ServerTypes' /\ FrameTypes' /\ AgentTypes' /\ Fresh' /\ LiveConnectionsRoutable'
  BY Zenon, <1>0, <1>u DEF ServerTypes, FrameTypes, AgentTypes, Fresh, LiveConnectionsRoutable
<1>2. RequestTypes'
  <2>1. pending' \in [Conns -> [IDs -> Requests \cup {None}]]
    BY Zenon, <1>0, <1>u, <1>b DEF RequestTypes
  <2> QED BY Zenon, <1>0, <1>u, <1>a, <2>1 DEF RequestTypes
<1>3. Entries'
  <2>1. ASSUME NEW c \in Conns, NEW i \in IDs, pending'[c][i] # None
        PROVE  /\ request'[pending'[c][i]].pc \in {"noted", "waiting", "leaving"}
               /\ request'[pending'[c][i]].conn = c /\ request'[pending'[c][i]].id = i
    <3>1. pending'[c][i] = pending[c][i] /\ pending[c][i] \in Requests
      <4>1. pending'[c][i] = pending[c][i] BY Zenon, <1>c, <2>1
      <4>2. pending[c] \in [IDs -> Requests \cup {None}] BY Zenon, <1>0 DEF RequestTypes
      <4> QED BY Zenon, <2>1, <4>1, <4>2
    <3>3. pending[c][i] # None BY Zenon, <2>1, <3>1
    <3>0. /\ request[pending[c][i]].pc \in {"noted", "waiting", "leaving"}
          /\ request[pending[c][i]].conn = c /\ request[pending[c][i]].id = i
      BY Zenon, <1>0, <3>3, EntryOf DEF Live
    <3>2. pending[c][i] # q
      <4>1. SUFFICES ASSUME pending[c][i] = q PROVE FALSE BY Zenon
      <4>2. request[q].conn = c /\ request[q].id = i BY Zenon, <3>0, <4>1
      <4> QED BY Zenon, <1>c, <2>1, <4>2
    <3>4. PICK r \in Requests : r = pending[c][i] /\ r = pending'[c][i] /\ r # q BY Zenon, <3>1, <3>2
    <3>5. request[r].pc \in {"noted", "waiting", "leaving"} /\ request[r].conn = c /\ request[r].id = i
      BY Zenon, <3>0, <3>4
    <3>6. request'[r] = request[r] BY Zenon, <1>a, <3>4
    <3> QED BY Zenon, <3>4, <3>5, <3>6
  <2>2. \A r \in Requests : request'[r].conn # None =>
           serves'[request'[r].conn] = request'[r].target /\ handler'[request'[r].conn] # "idle"
    <3>1. \A r \in Requests : request'[r].conn = request[r].conn /\ request'[r].target = request[r].target
      BY Zenon, <1>a
    <3>2. \A r \in Requests : request[r].conn # None =>
             serves[request[r].conn] = request[r].target /\ handler[request[r].conn] # "idle"
      BY Zenon, <1>0 DEF Entries
    <3> QED BY Zenon, <1>u, <3>1, <3>2
  <2> QED BY Zenon, <2>1, <2>2 DEF Entries
<1>4. Carried'
  BY Zenon, <1>0, <1>s, <1>d, CarriedStays
<1>5. Joined'
  BY Zenon, <1>0, <1>u, <1>s, <1>h, JoinedStays
<1>6. Fitting'
  <2>1. \A r \in Requests : request'[r].answer \in {request[r].answer, channel[r], None}
    BY Zenon, <1>a
  <2> QED BY Zenon, <1>0, <1>u, <1>s, <2>1, FittingStays
<1> QED BY Zenon, <1>1, <1>2, <1>3, <1>4, <1>5, <1>6 DEF Inv

\* A new connection is one nothing refers to.
LEMMA ConnectKeeps ==
  ASSUME Inv, NEW a \in Agents, Connect(a)
  PROVE  Inv'
<1> USE TunnelAssumption
<1>0. ServerTypes /\ FrameTypes /\ RequestTypes /\ AgentTypes
      /\ Fresh /\ LiveConnectionsRoutable /\ Entries /\ Carried /\ Joined /\ Fitting
  BY Zenon DEF Inv
<1>u. /\ registry' = registry /\ delivery' = delivery /\ closed' = closed /\ down' = down /\ up' = up
      /\ pending' = pending /\ channel' = channel /\ request' = request /\ working' = working /\ faults' = faults
  BY Zenon DEF Connect, serverVars, requestVars, agentVars
<1> DEFINE c == dials + 1
<1>a. /\ c \in Conns /\ handler[c] = "idle" /\ serves[c] = None /\ c \notin alive \cup closed
      /\ down[c] = <<>> /\ up[c] = <<>> /\ delivery[c] = NoDelivery
  BY <1>0, <1>u DEF Connect, AgentTypes, Fresh, ServerTypes, Conns
<1>b. /\ dials' = c /\ handler' = [handler EXCEPT ![c] = "starting"]
      /\ serves' = [serves EXCEPT ![c] = ClusterOf[a]] /\ alive' = alive \cup {c}
      /\ agent' = [agent EXCEPT ![a] = [pc |-> "joining", conn |-> c]]
      /\ ClusterOf[a] \in Clusters
      /\ registry' = registry /\ closed' = closed /\ delivery' = delivery /\ down' = down /\ up' = up
      /\ request' = request /\ working' = working /\ faults' = faults
  BY Zenon, <1>0, <1>u DEF Connect, At
<1>s. KeepsCalls
  BY Zenon, <1>u DEF KeepsCalls
<1>h. KeepsConnections
  BY Zenon, <1>0, <1>a, <1>b DEF ServerTypes, KeepsConnections
<1>d. Drains
  BY Zenon, <1>0, <1>a, <1>b DEF ServerTypes, Drains
<1>1. FrameTypes' /\ RequestTypes'
  BY Zenon, <1>0, <1>u DEF FrameTypes, RequestTypes
<1>2. ServerTypes'
  BY Zenon, <1>0, <1>u, <1>a, <1>b DEF ServerTypes
<1>3. AgentTypes'
  <2>1. dials' \in 0..MaxDials
    BY <1>0, <1>u, <1>a, <1>b DEF AgentTypes, Conns
  <2> HIDE DEF c
  <2>2. /\ agent' \in [Agents -> [pc : {"absent", "backoff", "joining", "serving"}, conn : Conns \cup {None}]]
        /\ agent'[a].pc = "joining" /\ agent'[a].conn = c
        /\ \A b \in Agents : b # a => agent'[b] = agent[b]
    BY Zenon, <1>0, <1>a, <1>b DEF AgentTypes
  <2>3. \A b \in Agents : (agent'[b].conn # None) <=> (agent'[b].pc \in {"joining", "serving"})
    BY ZenonT(40), <1>0, <1>a, <2>2, Numbered DEF AgentTypes
  <2> QED BY Zenon, <1>0, <1>b, <2>1, <2>2, <2>3 DEF AgentTypes
<1>4. Fresh'
  <2> SUFFICES ASSUME NEW d \in Conns
               PROVE  /\ d > dials' => handler'[d] = "idle"
                      /\ handler'[d] = "idle" => d \notin alive' \cup closed' /\ down'[d] = <<>> /\ up'[d] = <<>>
    BY Zenon DEF Fresh
  <2>1. CASE d = c
    BY <1>0, <1>u, <1>b, <2>1 DEF AgentTypes, ServerTypes
  <2>2. CASE d # c
    BY <1>0, <1>u, <1>b, <2>2 DEF AgentTypes, ServerTypes, Fresh, Conns
  <2> QED BY Zenon, <2>1, <2>2
<1>5. LiveConnectionsRoutable'
  <2> HIDE DEF c
  <2>1. \A d \in Conns : d # c => handler'[d] = handler[d] /\ serves'[d] = serves[d]
    BY Zenon, <1>0, <1>b DEF ServerTypes
  <2>2. handler'[c] = "starting" /\ "starting" \notin Open BY Zenon, <1>0, <1>a, <1>b DEF ServerTypes, Open
  <2>3. ASSUME NEW d \in Conns, handler'[d] \in Open, d \notin closed' PROVE registry'[serves'[d]] = d
    <3>1. d # c BY Zenon, <2>2, <2>3
    <3> QED BY Zenon, <1>0, <1>b, <2>1, <2>3, <3>1 DEF LiveConnectionsRoutable
  <2>4. ASSUME NEW k \in Clusters, registry'[k] # None
        PROVE  serves'[registry'[k]] = k /\ handler'[registry'[k]] \in Open \cup {"leaving"}
    <3>1. registry[k] \in Conns /\ registry'[k] = registry[k] BY Zenon, <1>0, <1>b, <2>4 DEF ServerTypes
    <3>2. serves[registry[k]] = k /\ handler[registry[k]] \in Open \cup {"leaving"}
      BY Zenon, <1>0, <2>4, <3>1 DEF LiveConnectionsRoutable
    <3>3. registry[k] # c BY Zenon, <1>a, <3>2 DEF Open
    <3> QED BY Zenon, <2>1, <3>1, <3>2, <3>3
  <2> QED BY Zenon, <2>3, <2>4 DEF LiveConnectionsRoutable
<1>6. Entries'
  BY Zenon, <1>0, <1>u, <1>h, EntriesStay
<1>7. Carried'
  BY Zenon, <1>0, <1>s, <1>d, CarriedStays
<1>8. Joined'
  <2>1. ASSUME NEW b \in Agents, agent'[b].conn # None
        PROVE  handler'[agent'[b].conn] # "idle" /\ serves'[agent'[b].conn] = ClusterOf[b]
    <3>1. CASE b = a
      BY Zenon, <1>0, <1>u, <1>a, <1>b, <3>1 DEF ServerTypes, AgentTypes
    <3>2. CASE b # a
      <4>1. agent'[b] = agent[b] BY Zenon, <1>0, <1>b, <3>2 DEF AgentTypes
      <4>2. agent[b].conn \in Conns /\ handler[agent[b].conn] # "idle" /\ serves[agent[b].conn] = ClusterOf[b]
        BY Zenon, <1>0, <2>1, <4>1 DEF AgentTypes, Joined
      <4> QED BY Zenon, <1>h, <4>1, <4>2 DEF KeepsConnections
    <3> QED BY Zenon, <3>1, <3>2
  <2>2. \A b \in Agents : \A q \in working'[b] : Made(q, ClusterOf[b])'
    BY ZenonT(40), <1>0, <1>u, <1>b DEF Joined, Made
  <2> QED BY Zenon, <2>1, <2>2 DEF Joined
<1>9. Fitting'
  <2>1. \A d \in Conns : handler'[d] = "delivering" => handler[d] = "delivering" /\ delivery'[d] = delivery[d]
    BY Zenon, <1>0, <1>a, <1>b DEF ServerTypes
  <2> QED BY Zenon, <1>0, <1>u, <1>s, <2>1, FittingStays
<1> QED BY Zenon, <1>1, <1>2, <1>3, <1>4, <1>5, <1>6, <1>7, <1>8, <1>9 DEF Inv

\* The agent keeps a connection that is greeted and hangs up on one that is not.
LEMMA ReadGreetingKeeps ==
  ASSUME Inv, NEW a \in Agents, ReadGreeting(a)
  PROVE  Inv'
<1> USE TunnelAssumption
<1>0. ServerTypes /\ FrameTypes /\ RequestTypes /\ AgentTypes
      /\ Fresh /\ LiveConnectionsRoutable /\ Entries /\ Carried /\ Joined /\ Fitting
  BY Zenon DEF Inv
<1>u. /\ registry' = registry /\ handler' = handler /\ serves' = serves /\ delivery' = delivery /\ closed' = closed
      /\ pending' = pending /\ channel' = channel /\ request' = request /\ working' = working /\ dials' = dials
      /\ faults' = faults
  BY Zenon DEF ReadGreeting, serverVars, requestVars, agentVars
<1> DEFINE c == agent[a].conn
<1>a. c \in Conns /\ agent[a].pc = "joining" /\ down[c] \in Seq(Frames) /\ down[c] # <<>>
  BY Zenon, <1>0, <1>u DEF ReadGreeting, AgentTypes, FrameTypes
<1>b. \/ /\ agent' = [agent EXCEPT ![a] = [pc |-> "serving", conn |-> c]]
         /\ down' = [down EXCEPT ![c] = Tail(down[c])] /\ alive' = alive /\ up' = up
      \/ /\ agent' = [agent EXCEPT ![a] = [pc |-> "backoff", conn |-> None]]
         /\ HangUp(c)
  BY Zenon, <1>0, <1>u DEF ReadGreeting, At
<1>c. /\ Tail(down[c]) \in Seq(Frames)
      /\ \A j \in 1..Len(Tail(down[c])) : Tail(down[c])[j] = down[c][j + 1] /\ j + 1 \in 1..Len(down[c])
  BY <1>a
<1>d. /\ registry' = registry /\ handler' = handler /\ serves' = serves /\ delivery' = delivery /\ closed' = closed
      /\ request' = request /\ working' = working /\ dials' = dials /\ faults' = faults
  BY Zenon, <1>0, <1>u DEF ReadGreeting
<1>s. KeepsCalls
  BY Zenon, <1>u DEF KeepsCalls
<1>h. KeepsConnections
  BY Zenon, <1>0, <1>u DEF ServerTypes, KeepsConnections
<1>1. RequestTypes' /\ LiveConnectionsRoutable'
  BY Zenon, <1>0, <1>u DEF RequestTypes, LiveConnectionsRoutable
<1>8. Entries'
  BY Zenon, <1>0, <1>u, <1>h, EntriesStay
<1>9. Fitting'
  <2>1. \A d \in Conns : handler'[d] = "delivering" => handler[d] = "delivering" /\ delivery'[d] = delivery[d]
    BY Zenon, <1>0, <1>u DEF ServerTypes
  <2> QED BY Zenon, <1>0, <1>u, <1>s, <2>1, FittingStays
<1>2. ServerTypes'
  BY Zenon, <1>0, <1>u, <1>b, <1>d DEF ServerTypes, HangUp
<1>3. FrameTypes'
  <2>1. CASE HangUp(c)
    BY Zenon, <1>0, <2>1, HangUpTyped DEF FrameTypes
  <2>2. CASE down' = [down EXCEPT ![c] = Tail(down[c])] /\ up' = up
    BY Zenon, <1>0, <1>a, <1>d, <2>2, FrameTaken
  <2> QED BY Zenon, <1>b, <2>1, <2>2
<1>4. AgentTypes'
  <2>0. PICK new \in {[pc |-> "serving", conn |-> c], [pc |-> "backoff", conn |-> None]} :
          agent' = [agent EXCEPT ![a] = new]
    BY Zenon, <1>b
  <2>1. /\ new \in [pc : {"absent", "backoff", "joining", "serving"}, conn : Conns \cup {None}]
        /\ (new.conn # None) <=> (new.pc \in {"joining", "serving"})
    BY SMT, <1>a, <2>0, Numbered
  <2> HIDE DEF c
  <2>2. /\ agent' \in [Agents -> [pc : {"absent", "backoff", "joining", "serving"}, conn : Conns \cup {None}]]
        /\ agent'[a] = new /\ \A b \in Agents : b # a => agent'[b] = agent[b]
    BY Zenon, <1>0, <2>0, <2>1 DEF AgentTypes
  <2>3. \A b \in Agents : (agent'[b].conn # None) <=> (agent'[b].pc \in {"joining", "serving"})
    BY Zenon, <1>0, <2>1, <2>2 DEF AgentTypes
  <2> QED BY Zenon, <1>0, <1>d, <2>2, <2>3 DEF AgentTypes
<1>5. Fresh'
  <2>1. handler[c] # "idle" BY Zenon, <1>0, <1>a, Numbered DEF Joined
  <2> HIDE DEF c
  <2>2. /\ alive' \subseteq alive
        /\ \A d \in Conns : handler[d] = "idle" => down'[d] = down[d] /\ up'[d] = up[d]
    <3>1. CASE HangUp(c) BY Zenon, <2>1, <3>1 DEF HangUp
    <3>2. CASE down' = [down EXCEPT ![c] = Tail(down[c])] /\ alive' = alive /\ up' = up
      BY Zenon, <1>0, <2>1, <3>2 DEF FrameTypes
    <3> QED BY Zenon, <1>b, <3>1, <3>2
  <2> QED BY Zenon, <1>0, <1>u, <2>2, FreshStays
<1>6. Carried'
  <2>1. CASE HangUp(c)
    BY Zenon, <1>0, <1>u, <1>s, <2>1, HangUpEffect, CarriedStays
  <2>2. CASE down' = [down EXCEPT ![c] = Tail(down[c])] /\ up' = up
    BY Zenon, <1>0, <1>a, <1>d, <2>2, FrameTaken
  <2> QED BY Zenon, <1>b, <2>1, <2>2
<1>7. Joined'
  <2> HIDE DEF c
  <2>1. agent[a].conn = c BY Zenon DEF c
  <2>3. PICK new \in {[pc |-> "serving", conn |-> c], [pc |-> "backoff", conn |-> None]} :
          agent' = [agent EXCEPT ![a] = new]
    BY Zenon, <1>b
  <2>4. new.conn \in {c, None} BY SMT, <2>3
  <2>5. \A b \in Agents : agent'[b] = IF b = a THEN new ELSE agent[b] BY Zenon, <1>0, <2>3 DEF AgentTypes
  <2>2. \A b \in Agents : agent'[b].conn \in {agent[b].conn, None} /\ working'[b] \subseteq working[b]
    BY Zenon, <1>d, <2>1, <2>4, <2>5
  <2> QED BY Zenon, <1>0, <1>s, <1>h, <2>2, JoinedStays
<1> QED BY Zenon, <1>1, <1>2, <1>3, <1>4, <1>5, <1>6, <1>7, <1>8, <1>9 DEF Inv

\* The agent works on what its connection brings it.
LEMMA ReadRequestKeeps ==
  ASSUME Inv, NEW a \in Agents, ReadRequest(a)
  PROVE  Inv'
<1> USE TunnelAssumption
<1>0. ServerTypes /\ FrameTypes /\ RequestTypes /\ AgentTypes
      /\ Fresh /\ LiveConnectionsRoutable /\ Entries /\ Carried /\ Joined /\ Fitting
  BY Zenon DEF Inv
<1>u. /\ registry' = registry /\ handler' = handler /\ serves' = serves /\ delivery' = delivery /\ closed' = closed
      /\ alive' = alive /\ up' = up /\ pending' = pending /\ channel' = channel /\ request' = request
      /\ agent' = agent /\ dials' = dials /\ faults' = faults
  BY Zenon DEF ReadRequest, serverVars, requestVars, agentVars
<1> DEFINE c == agent[a].conn
           f == Head(down[c])
<1>a. c \in Conns /\ down[c] \in Seq(Frames) /\ down[c] # <<>>
  BY Zenon, <1>0, <1>u DEF ReadRequest, AgentTypes, FrameTypes
<1>b. /\ Tail(down[c]) \in Seq(Frames) /\ f \in Frames /\ f = down[c][1] /\ 1 \in 1..Len(down[c])
      /\ \A j \in 1..Len(Tail(down[c])) : Tail(down[c])[j] = down[c][j + 1] /\ j + 1 \in 1..Len(down[c])
  BY <1>a
<1>c. /\ down' = [down EXCEPT ![c] = Tail(down[c])]
      /\ working' = [working EXCEPT ![a] = working[a] \cup ({f} \ {Greeting})]
      /\ serves' = serves /\ request' = request /\ up' = up /\ agent' = agent /\ handler' = handler
  BY Zenon, <1>0, <1>u DEF ReadRequest
<1>s. KeepsCalls
  BY Zenon, <1>u DEF KeepsCalls
<1>h. KeepsConnections
  BY Zenon, <1>0, <1>u DEF ServerTypes, KeepsConnections
<1>1. ServerTypes' /\ RequestTypes' /\ LiveConnectionsRoutable'
  BY Zenon, <1>0, <1>u DEF ServerTypes, RequestTypes, LiveConnectionsRoutable
<1>7. Entries'
  BY Zenon, <1>0, <1>u, <1>h, EntriesStay
<1>8. Fitting'
  <2>1. \A d \in Conns : handler'[d] = "delivering" => handler[d] = "delivering" /\ delivery'[d] = delivery[d]
    BY Zenon, <1>0, <1>u DEF ServerTypes
  <2> QED BY Zenon, <1>0, <1>u, <1>s, <2>1, FittingStays
<1>2. FrameTypes'
  BY Zenon, <1>0, <1>u, <1>b, <1>c DEF FrameTypes
<1>3. AgentTypes'
  BY Zenon, <1>0, <1>u, <1>b, <1>c DEF AgentTypes, Frames
<1>4. Fresh'
  BY Zenon, <1>0, <1>u, <1>a, <1>c DEF Fresh, FrameTypes
<1>5. Carried'
  BY Zenon, <1>0, <1>a, <1>c, FrameTaken
<1>6. Joined'
  <2>1. f # Greeting => Made(f, ClusterOf[a])
    <3>1. c # None BY Zenon, <1>a, Numbered
    <3>2. serves[c] = ClusterOf[a] BY Zenon, <1>0, <3>1 DEF Joined
    <3> HIDE DEF c
    <3>3. \A j \in 1..Len(down[c]) : down[c][j] # Greeting => Made(down[c][j], serves[c])
      BY Zenon, <1>0, <1>a DEF Carried
    <3>4. down[c][1] # Greeting => Made(down[c][1], ClusterOf[a]) BY Zenon, <1>b, <3>2, <3>3
    <3> HIDE DEF f
    <3> QED BY Zenon, <1>b, <3>4
  <2>2. \A b \in Agents : \A q \in working'[b] : Made(q, ClusterOf[b])
    BY Zenon, <1>0, <1>u, <1>c, <2>1 DEF Joined, AgentTypes
  <2>3. \A b \in Agents : \A q \in working'[b] : Made(q, ClusterOf[b])'
    BY Zenon, <1>c, <2>2 DEF Made
  <2>4. \A b \in Agents : agent'[b].conn # None => handler'[agent'[b].conn] # "idle" /\ serves'[agent'[b].conn] = ClusterOf[b]
    BY Zenon, <1>0, <1>c DEF Joined
  <2> QED BY Zenon, <2>3, <2>4 DEF Joined
<1> QED BY Zenon, <1>1, <1>2, <1>3, <1>4, <1>5, <1>6, <1>7, <1>8 DEF Inv

\* An answer goes up a connection of the cluster that gave it.
LEMMA SendResponseKeeps ==
  ASSUME Inv, NEW a \in Agents, NEW q \in Requests, SendResponse(a, q)
  PROVE  Inv'
<1> USE TunnelAssumption
<1>0. ServerTypes /\ FrameTypes /\ RequestTypes /\ AgentTypes
      /\ Fresh /\ LiveConnectionsRoutable /\ Entries /\ Carried /\ Joined /\ Fitting
  BY Zenon DEF Inv
<1>u. /\ registry' = registry /\ handler' = handler /\ serves' = serves /\ delivery' = delivery /\ closed' = closed
      /\ alive' = alive /\ down' = down /\ pending' = pending /\ channel' = channel /\ request' = request
      /\ agent' = agent /\ dials' = dials /\ faults' = faults
  BY Zenon DEF SendResponse, serverVars, requestVars, agentVars
<1> DEFINE c == agent[a].conn
<1>a. /\ q \in working[a] /\ working' = [working EXCEPT ![a] = working[a] \ {q}]
      /\ \/ up' = up
         \/ c \in alive /\ up' = [up EXCEPT ![c] = Append(up[c], q)]
      /\ serves' = serves /\ request' = request /\ down' = down /\ agent' = agent /\ handler' = handler
      /\ alive' = alive /\ closed' = closed
  BY Zenon, <1>0, <1>u DEF SendResponse
<1>b. c \in alive => c \in Conns /\ Made(q, serves[c])
  <2>1. ASSUME c \in alive PROVE c \in Conns /\ c # None BY Zenon, <1>0, <2>1, Numbered DEF ServerTypes
  <2> QED BY Zenon, <1>0, <1>a, <2>1 DEF Joined
<1>s. KeepsCalls
  BY Zenon, <1>u DEF KeepsCalls
<1>h. KeepsConnections
  BY Zenon, <1>0, <1>u DEF ServerTypes, KeepsConnections
<1>1. ServerTypes' /\ RequestTypes' /\ LiveConnectionsRoutable'
  BY Zenon, <1>0, <1>u DEF ServerTypes, RequestTypes, LiveConnectionsRoutable
<1>7. Entries'
  BY Zenon, <1>0, <1>u, <1>h, EntriesStay
<1>8. Fitting'
  <2>1. \A d \in Conns : handler'[d] = "delivering" => handler[d] = "delivering" /\ delivery'[d] = delivery[d]
    BY Zenon, <1>0, <1>u DEF ServerTypes
  <2> QED BY Zenon, <1>0, <1>u, <1>s, <2>1, FittingStays
<1>2. FrameTypes'
  <2>1. CASE up' = up BY Zenon, <1>0, <1>u, <2>1 DEF FrameTypes
  <2>2. CASE c \in alive /\ up' = [up EXCEPT ![c] = Append(up[c], q)]
    <3>1. up[c] \in Seq(Requests) BY Zenon, <1>0, <1>b, <2>2 DEF FrameTypes
    <3>2. Append(up[c], q) \in Seq(Requests) BY Zenon, <3>1, Sequences
    <3> QED BY Zenon, <1>0, <1>u, <2>2, <3>2 DEF FrameTypes
  <2> QED BY Zenon, <1>a, <2>1, <2>2
<1>3. AgentTypes'
  BY Zenon, <1>0, <1>u, <1>a DEF AgentTypes
<1>4. Fresh'
  BY Zenon, <1>0, <1>u, <1>a DEF Fresh, FrameTypes
<1>5. Carried'
  <2>1. ASSUME NEW d \in Conns, NEW j \in 1..Len(up'[d]) PROVE Made(up'[d][j], serves[d])
    <3>1. up[d] \in Seq(Requests) BY Zenon, <1>0, <1>u DEF FrameTypes
    <3>2. CASE up'[d] = up[d]
      BY Zenon, <1>0, <1>u, <2>1, <3>1, <3>2 DEF Carried
    <3>3. CASE d = c /\ c \in alive /\ up'[d] = Append(up[d], q)
      <4>1. up'[d][j] = q \/ (j \in 1..Len(up[d]) /\ up'[d][j] = up[d][j]) BY SMT, <2>1, <3>1, <3>3
      <4>2. Made(q, serves[d]) BY Zenon, <1>b, <3>3
      <4> HIDE DEF c
      <4> QED BY Zenon, <1>0, <4>1, <4>2 DEF Carried
    <3> QED BY Zenon, <1>0, <1>u, <1>a, <3>2, <3>3 DEF FrameTypes
  <2>2. \A d \in Conns : \A j \in 1..Len(down'[d]) : down'[d][j] # Greeting => Made(down'[d][j], serves[d])
    BY Zenon, <1>0, <1>u DEF Carried
  <2>3. \A d \in Conns : \A j \in 1..Len(down'[d]) : down'[d][j] # Greeting => Made(down[d][j], serves[d])'
    BY ZenonT(40), <1>u, <2>2 DEF Made
  <2>4. \A d \in Conns : \A j \in 1..Len(up'[d]) : Made(up[d][j], serves[d])'
    BY Zenon, <1>u, <2>1 DEF Made
  <2> QED BY Zenon, <2>3, <2>4 DEF Carried
<1>6. Joined'
  <2>1. \A b \in Agents : agent'[b].conn \in {agent[b].conn, None} /\ working'[b] \subseteq working[b]
    BY Zenon, <1>0, <1>a DEF AgentTypes
  <2> QED BY Zenon, <1>0, <1>s, <1>h, <2>1, JoinedStays
<1> QED BY Zenon, <1>1, <1>2, <1>3, <1>4, <1>5, <1>6, <1>7, <1>8 DEF Inv

LEMMA DisconnectKeeps ==
  ASSUME Inv, NEW a \in Agents, Disconnect(a)
  PROVE  Inv'
<1> USE TunnelAssumption
<1>0. ServerTypes /\ FrameTypes /\ RequestTypes /\ AgentTypes
      /\ Fresh /\ LiveConnectionsRoutable /\ Entries /\ Carried /\ Joined /\ Fitting
  BY Zenon DEF Inv
<1>u. /\ registry' = registry /\ handler' = handler /\ serves' = serves /\ delivery' = delivery /\ closed' = closed
      /\ alive' = alive /\ down' = down /\ up' = up /\ pending' = pending /\ channel' = channel
      /\ request' = request /\ working' = working /\ dials' = dials /\ faults' = faults
  BY Zenon DEF Disconnect, serverVars, requestVars, agentVars
<1>s. KeepsCalls
  BY Zenon, <1>u DEF KeepsCalls
<1>h. KeepsConnections
  BY Zenon, <1>0, <1>u DEF ServerTypes, KeepsConnections
<1>d. Drains
  BY Zenon, <1>u DEF Drains
<1>g. \A b \in Agents : agent'[b].conn \in {agent[b].conn, None} /\ working'[b] \subseteq working[b]
  BY Zenon, <1>0, <1>u DEF Disconnect, At, AgentTypes
<1>1. ServerTypes' /\ FrameTypes' /\ RequestTypes' /\ Fresh' /\ LiveConnectionsRoutable'
  BY Zenon, <1>0, <1>u DEF ServerTypes, FrameTypes, RequestTypes, Fresh, LiveConnectionsRoutable
<1>4. Entries'
  BY Zenon, <1>0, <1>u, <1>h, EntriesStay
<1>5. Carried'
  BY Zenon, <1>0, <1>s, <1>d, CarriedStays
<1>6. Fitting'
  <2>1. \A d \in Conns : handler'[d] = "delivering" => handler[d] = "delivering" /\ delivery'[d] = delivery[d]
    BY Zenon, <1>0, <1>u DEF ServerTypes
  <2> QED BY Zenon, <1>0, <1>u, <1>s, <2>1, FittingStays
<1>2. AgentTypes'
  BY Zenon, <1>0, <1>u DEF Disconnect, At, AgentTypes
<1>3. Joined'
  BY Zenon, <1>0, <1>s, <1>h, <1>g, JoinedStays
<1> QED BY Zenon, <1>1, <1>2, <1>3, <1>4, <1>5, <1>6 DEF Inv

LEMMA BreakKeeps ==
  ASSUME Inv, NEW c \in Conns, Break(c)
  PROVE  Inv'
<1> USE TunnelAssumption
<1>0. ServerTypes /\ FrameTypes /\ RequestTypes /\ AgentTypes
      /\ Fresh /\ LiveConnectionsRoutable /\ Entries /\ Carried /\ Joined /\ Fitting
  BY Zenon DEF Inv
<1>u. /\ registry' = registry /\ handler' = handler /\ serves' = serves /\ delivery' = delivery /\ closed' = closed
      /\ pending' = pending /\ channel' = channel /\ request' = request /\ agent' = agent /\ working' = working
      /\ dials' = dials
  BY Zenon DEF Break, serverVars, requestVars, agentVars
<1>s. KeepsCalls
  BY Zenon, <1>u DEF KeepsCalls
<1>h. KeepsConnections
  BY Zenon, <1>0, <1>u DEF ServerTypes, KeepsConnections
<1>d. FrameTypes' /\ Drains /\ alive' = alive \ {c}
  <2>1. HangUp(c) BY Zenon DEF Break
  <2> QED BY Zenon, <1>0, <1>u, <2>1, HangUpEffect
<1>1. RequestTypes' /\ LiveConnectionsRoutable'
  BY Zenon, <1>0, <1>u DEF RequestTypes, LiveConnectionsRoutable
<1>7. Entries'
  BY Zenon, <1>0, <1>u, <1>h, EntriesStay
<1>8. Joined'
  BY Zenon, <1>0, <1>u, <1>s, <1>h, JoinedStays
<1>9. Fitting'
  <2>1. \A d \in Conns : handler'[d] = "delivering" => handler[d] = "delivering" /\ delivery'[d] = delivery[d]
    BY Zenon, <1>0, <1>u DEF ServerTypes
  <2> QED BY Zenon, <1>0, <1>u, <1>s, <2>1, FittingStays
<1>2. ServerTypes'
  BY Zenon, <1>0, <1>u DEF Break, HangUp, Open, ServerTypes, NoDelivery
<1>3. FrameTypes'
  BY Zenon, <1>d
<1>4. AgentTypes'
  <2>1. faults' \in 0..MaxFaults BY SMT, <1>0 DEF Break, AgentTypes
  <2> QED BY Zenon, <1>0, <1>u, <2>1 DEF AgentTypes
<1>5. Fresh'
  BY Zenon, <1>0, <1>u DEF Break, HangUp, Fresh, ServerTypes, FrameTypes, AgentTypes
<1>6. Carried'
  BY Zenon, <1>0, <1>s, <1>d, CarriedStays
<1> QED BY Zenon, <1>1, <1>2, <1>3, <1>4, <1>5, <1>6, <1>7, <1>8, <1>9 DEF Inv

LEMMA RestartKeeps ==
  ASSUME Inv, NEW a \in Agents, Restart(a)
  PROVE  Inv'
<1> USE TunnelAssumption
<1>0. ServerTypes /\ FrameTypes /\ RequestTypes /\ AgentTypes
      /\ Fresh /\ LiveConnectionsRoutable /\ Entries /\ Carried /\ Joined /\ Fitting
  BY Zenon DEF Inv
<1>u. /\ registry' = registry /\ handler' = handler /\ serves' = serves /\ delivery' = delivery /\ closed' = closed
      /\ pending' = pending /\ channel' = channel /\ request' = request /\ dials' = dials
  BY Zenon DEF Restart, serverVars, requestVars, agentVars
<1>s. KeepsCalls
  BY Zenon, <1>u DEF KeepsCalls
<1>h. KeepsConnections
  BY Zenon, <1>0, <1>u DEF ServerTypes, KeepsConnections
<1>d. FrameTypes' /\ Drains /\ alive' = alive \ {agent[a].conn}
  <2>1. HangUp(agent[a].conn) BY Zenon DEF Restart
  <2> QED BY Zenon, <1>0, <1>u, <2>1, HangUpEffect
<1>g. \A b \in Agents : agent'[b].conn \in {agent[b].conn, None} /\ working'[b] \subseteq working[b]
  BY Zenon, <1>0, <1>u DEF Restart, At, AgentTypes
<1>1. RequestTypes' /\ LiveConnectionsRoutable'
  BY Zenon, <1>0, <1>u DEF RequestTypes, LiveConnectionsRoutable
<1>8. Entries'
  BY Zenon, <1>0, <1>u, <1>h, EntriesStay
<1>9. Fitting'
  <2>1. \A d \in Conns : handler'[d] = "delivering" => handler[d] = "delivering" /\ delivery'[d] = delivery[d]
    BY Zenon, <1>0, <1>u DEF ServerTypes
  <2> QED BY Zenon, <1>0, <1>u, <1>s, <2>1, FittingStays
<1>2. ServerTypes'
  BY Zenon, <1>0, <1>u DEF Restart, At, HangUp, Open, ServerTypes, NoDelivery
<1>3. FrameTypes'
  BY Zenon, <1>d
<1>4. AgentTypes'
  <2>1. faults' \in 0..MaxFaults BY SMT, <1>0 DEF Restart, AgentTypes
  <2>2. /\ agent' \in [Agents -> [pc : {"absent", "backoff", "joining", "serving"}, conn : Conns \cup {None}]]
        /\ agent'[a].pc = "backoff" /\ agent'[a].conn = None
        /\ \A b \in Agents : b # a => agent'[b] = agent[b]
        /\ working' \in [Agents -> SUBSET Requests]
    BY Zenon, <1>0 DEF Restart, At, AgentTypes
  <2>3. \A b \in Agents : (agent'[b].conn # None) <=> (agent'[b].pc \in {"joining", "serving"})
    BY Zenon, <1>0, <2>2 DEF AgentTypes
  <2> QED BY Zenon, <1>0, <1>u, <2>1, <2>2, <2>3 DEF AgentTypes
<1>5. Fresh'
  BY Zenon, <1>0, <1>u DEF Restart, At, HangUp, Fresh, ServerTypes, FrameTypes, AgentTypes
<1>6. Carried'
  BY Zenon, <1>0, <1>s, <1>d, CarriedStays
<1>7. Joined'
  BY Zenon, <1>0, <1>s, <1>h, <1>g, JoinedStays
<1> QED BY Zenon, <1>1, <1>2, <1>3, <1>4, <1>5, <1>6, <1>7, <1>8, <1>9 DEF Inv

\* A new call is put in the table of a connection to its cluster, where its ID is free.
LEMMA ProxyRequestKeeps ==
  ASSUME Inv, NEW q \in Requests, NEW i \in IDs, NEW k \in Clusters, ProxyRequest(q, i, k)
  PROVE  Inv'
<1> USE TunnelAssumption
<1>0. ServerTypes /\ FrameTypes /\ RequestTypes /\ AgentTypes
      /\ Fresh /\ LiveConnectionsRoutable /\ Entries /\ Carried /\ Joined /\ Fitting
  BY Zenon DEF Inv
<1>u. /\ registry' = registry /\ handler' = handler /\ serves' = serves /\ delivery' = delivery /\ closed' = closed
      /\ alive' = alive /\ down' = down /\ up' = up /\ channel' = channel /\ agent' = agent
      /\ working' = working /\ dials' = dials /\ faults' = faults
  BY Zenon DEF ProxyRequest, serverVars, requestVars, agentVars
<1> DEFINE c == registry[k]
           free == c # None /\ pending[c][i] = None
<1>a. /\ c \in Conns \cup {None} /\ (c # None => serves[c] = k /\ handler[c] # "idle")
      /\ request[q].pc = "new"
  <2>1. c \in Conns \cup {None} /\ request[q].pc = "new" BY Zenon, <1>0 DEF ProxyRequest, ServerTypes
  <2>2. c # None => serves[c] = k /\ handler[c] \in Open \cup {"leaving"} BY Zenon, <1>0 DEF LiveConnectionsRoutable
  <2> QED BY Zenon, <2>1, <2>2 DEF Open
<1>b. /\ request' = [request EXCEPT ![q] = [pc |-> IF free THEN "noted" ELSE "done", id |-> i, target |-> k,
                                           conn |-> c, answer |-> None]]
      /\ \/ free /\ pending' = [pending EXCEPT ![c] = [pending[c] EXCEPT ![i] = q]]
         \/ ~free /\ pending' = pending
  BY Zenon, <1>0, <1>u DEF ProxyRequest
<1>c. /\ request' \in [Requests -> Record]
      /\ request'[q].pc = (IF free THEN "noted" ELSE "done") /\ request'[q].id = i /\ request'[q].target = k
      /\ request'[q].conn = c /\ request'[q].answer = None
      /\ \A r \in Requests : r # q => request'[r] = request[r]
  BY Zenon, <1>0, <1>a, <1>b DEF RequestTypes, Record
<1>d. \A d \in Conns, j \in IDs :
         pending'[d][j] = IF free /\ d = c /\ j = i THEN q ELSE pending[d][j]
  <2> SUFFICES ASSUME NEW d \in Conns, NEW j \in IDs
               PROVE  pending'[d][j] = IF free /\ d = c /\ j = i THEN q ELSE pending[d][j]
    BY Zenon
  <2>1. pending \in [Conns -> [IDs -> Requests \cup {None}]] /\ pending[d] \in [IDs -> Requests \cup {None}]
    BY Zenon, <1>0 DEF RequestTypes
  <2>2. CASE ~free BY Zenon, <1>b, <2>2
  <2>3. CASE free /\ d # c BY Zenon, <1>b, <2>1, <2>3
  <2>4. CASE free /\ d = c
    <3>1. pending'[d] = [pending[d] EXCEPT ![i] = q] BY Zenon, <1>b, <2>1, <2>4
    <3> QED BY Zenon, <2>1, <2>4, <3>1
  <2> QED BY Zenon, <2>2, <2>3, <2>4
<1>e. /\ serves' = serves /\ handler' = handler /\ up' = up /\ down' = down /\ channel' = channel
      /\ delivery' = delivery /\ agent' = agent /\ working' = working
  BY Zenon, <1>0, <1>u DEF ProxyRequest
<1>s. KeepsCalls
  BY Zenon, <1>a, <1>c DEF KeepsCalls
<1>k. Drains
  BY Zenon, <1>u DEF Drains
<1>h. KeepsConnections
  BY Zenon, <1>0, <1>u DEF ServerTypes, KeepsConnections
<1>1. ServerTypes' /\ FrameTypes' /\ AgentTypes' /\ Fresh' /\ LiveConnectionsRoutable'
  BY Zenon, <1>0, <1>u DEF ServerTypes, FrameTypes, AgentTypes, Fresh, LiveConnectionsRoutable
<1>2. RequestTypes'
  <2>1. pending' \in [Conns -> [IDs -> Requests \cup {None}]]
    <3>1. pending \in [Conns -> [IDs -> Requests \cup {None}]] BY Zenon, <1>0 DEF RequestTypes
    <3>2. c \in Conns => [pending[c] EXCEPT ![i] = q] \in [IDs -> Requests \cup {None}] BY Zenon, <3>1
    <3> QED BY Zenon, <1>a, <1>b, <3>1, <3>2
  <2>2. \A r \in Requests : request'[r].pc \in {"noted", "waiting", "leaving"} =>
           request'[r].id \in IDs /\ request'[r].conn \in Conns
    BY Zenon, <1>0, <1>u, <1>a, <1>c DEF RequestTypes
  <2> QED BY Zenon, <1>0, <1>u, <1>c, <1>e, <2>1, <2>2 DEF RequestTypes
<1>3. Entries'
  <2>1. ASSUME NEW d \in Conns, NEW j \in IDs, pending'[d][j] # None
        PROVE  /\ request'[pending'[d][j]].pc \in {"noted", "waiting", "leaving"}
               /\ request'[pending'[d][j]].conn = d /\ request'[pending'[d][j]].id = j
    <3>1. CASE free /\ d = c /\ j = i
      <4>1. pending'[d][j] = q BY Zenon, <1>d, <3>1
      <4>2. request'[q].pc = "noted" /\ request'[q].conn = d /\ request'[q].id = j BY Zenon, <1>c, <3>1
      <4> QED BY Zenon, <4>1, <4>2
    <3>2. CASE ~(free /\ d = c /\ j = i)
      <4>1. pending'[d][j] = pending[d][j] /\ pending[d][j] \in Requests
        <5>3. ~(free /\ d = c /\ j = i) BY Zenon, <3>2
        <5>4. pending'[d][j] = IF free /\ d = c /\ j = i THEN q ELSE pending[d][j] BY Zenon, <1>d
        <5> HIDE DEF free, c
        <5>1. pending'[d][j] = pending[d][j] BY Zenon, <5>3, <5>4
        <5>2. pending[d] \in [IDs -> Requests \cup {None}] BY Zenon, <1>0 DEF RequestTypes
        <5> QED BY Zenon, <2>1, <5>1, <5>2
      <4>0. /\ request[pending[d][j]].pc \in {"noted", "waiting", "leaving"}
            /\ request[pending[d][j]].conn = d /\ request[pending[d][j]].id = j
        <5>1. pending[d][j] # None BY Zenon, <2>1, <4>1
        <5> QED BY Zenon, <1>0, <5>1, EntryOf DEF Live
      <4>2. pending[d][j] # q
        BY Zenon, <1>a, <4>0
      <4> QED BY Zenon, <1>c, <4>0, <4>1, <4>2
    <3> QED BY Zenon, <3>1, <3>2
  <2>2. \A r \in Requests : request'[r].conn # None =>
           serves'[request'[r].conn] = request'[r].target /\ handler'[request'[r].conn] # "idle"
    <3>0. SUFFICES ASSUME NEW r \in Requests, request'[r].conn # None
                   PROVE  serves'[request'[r].conn] = request'[r].target /\ handler'[request'[r].conn] # "idle"
      BY Zenon
    <3>1. CASE r = q
      <4>1. request'[r].conn = c /\ request'[r].target = k BY Zenon, <1>c, <3>1
      <4>2. c # None BY Zenon, <3>0, <4>1
      <4>3. serves[c] = k /\ handler[c] # "idle" BY Zenon, <1>a, <4>2
      <4>5. serves'[c] = k /\ handler'[c] # "idle" BY Zenon, <1>e, <4>3
      <4>6. serves'[request'[r].conn] = serves'[c] /\ handler'[request'[r].conn] = handler'[c] BY Zenon, <4>1
      <4> QED BY Zenon, <4>1, <4>5, <4>6
    <3>2. CASE r # q
      <4>1. request'[r] = request[r] BY Zenon, <1>c, <3>2
      <4>2. serves[request[r].conn] = request[r].target /\ handler[request[r].conn] # "idle"
        BY Zenon, <1>0, <3>0, <4>1 DEF Entries
      <4> QED BY Zenon, <1>e, <4>1, <4>2
    <3> QED BY Zenon, <3>1, <3>2
  <2> QED BY Zenon, <2>1, <2>2 DEF Entries
<1>4. Carried'
  BY Zenon, <1>0, <1>s, <1>k, CarriedStays
<1>5. Joined'
  BY Zenon, <1>0, <1>u, <1>s, <1>h, JoinedStays
<1>6. Fitting'
  <2>1. \A r \in Requests : request'[r].answer \in {request[r].answer, channel[r], None}
    BY Zenon, <1>c
  <2> QED BY Zenon, <1>0, <1>u, <1>s, <2>1, FittingStays
<1> QED BY Zenon, <1>1, <1>2, <1>3, <1>4, <1>5, <1>6 DEF Inv

--------------------------------------------------------------------------------
LEMMA Initially ==
  ASSUME TunnelInit
  PROVE  Inv
<1>1. ServerTypes
  BY Zenon DEF TunnelInit, ServerTypes, NoDelivery
<1>2. FrameTypes
  BY SMT DEF TunnelInit, FrameTypes
<1>3. RequestTypes
  <2>1. NewRequest \in Record
    BY SMT DEF NewRequest, Record
  <2>2. request \in [Requests -> Record] /\ \A q \in Requests : request[q].pc = "new"
    BY SMT, <2>1 DEF TunnelInit, NewRequest
  <2>3. pending \in [Conns -> [IDs -> Requests \cup {None}]] /\ channel \in [Requests -> Requests \cup {None}]
    BY Zenon DEF TunnelInit
  <2> QED BY SMT, <2>2, <2>3 DEF RequestTypes
<1>4. AgentTypes
  <2>1. dials \in 0..MaxDials /\ faults \in 0..MaxFaults
    BY SMT, TunnelAssumption DEF TunnelInit
  <2>2. agent \in [Agents -> [pc : {"absent", "backoff", "joining", "serving"}, conn : Conns \cup {None}]]
    BY SMT DEF TunnelInit
  <2>3. \A a \in Agents : agent[a].conn = None /\ agent[a].pc \notin {"joining", "serving"}
    BY SMT DEF TunnelInit
  <2>4. working \in [Agents -> SUBSET Requests]
    BY SMT DEF TunnelInit
  <2> QED BY Zenon, <2>1, <2>2, <2>3, <2>4 DEF AgentTypes
<1>5. Fresh
  BY SMT DEF TunnelInit, Fresh
<1>6. LiveConnectionsRoutable
  BY Zenon DEF TunnelInit, LiveConnectionsRoutable, Open
<1>7. Entries
  BY Zenon DEF TunnelInit, Entries, NewRequest
<1>8. Carried
  BY SMT DEF TunnelInit, Carried
<1>9. Joined
  BY SMT DEF TunnelInit, Joined
<1>10. Fitting
  BY Zenon DEF TunnelInit, Fitting, NewRequest
<1> QED BY Zenon, <1>1, <1>2, <1>3, <1>4, <1>5, <1>6, <1>7, <1>8, <1>9, <1>10 DEF Inv

LEMMA Stutters ==
  ASSUME Inv, UNCHANGED vars
  PROVE  Inv'
<1>0. ServerTypes /\ FrameTypes /\ RequestTypes /\ AgentTypes
      /\ Fresh /\ LiveConnectionsRoutable /\ Entries /\ Carried /\ Joined /\ Fitting
  BY Zenon DEF Inv
<1>u. /\ registry' = registry /\ handler' = handler /\ serves' = serves /\ delivery' = delivery /\ closed' = closed
      /\ alive' = alive /\ down' = down /\ up' = up /\ pending' = pending /\ channel' = channel
      /\ request' = request /\ agent' = agent /\ working' = working /\ dials' = dials /\ faults' = faults
  BY Zenon DEF vars, serverVars, requestVars, agentVars
<1>1. ServerTypes' /\ FrameTypes' /\ RequestTypes' /\ AgentTypes'
  BY Zenon, <1>0, <1>u DEF ServerTypes, FrameTypes, RequestTypes, AgentTypes
<1>2. Fresh' /\ LiveConnectionsRoutable'
  BY Zenon, <1>0, <1>u DEF Fresh, LiveConnectionsRoutable
<1>3. Entries'
  BY Zenon, <1>0, <1>u DEF Entries
<1>s. KeepsCalls /\ KeepsConnections /\ Drains
  BY Zenon, <1>u DEF KeepsCalls, KeepsConnections, Drains
<1>4. Carried' /\ Joined'
  BY Zenon, <1>0, <1>u, <1>s, CarriedStays, JoinedStays
<1>5. Fitting'
  BY Zenon, <1>0, <1>u, <1>s, FittingStays
<1> QED BY Zenon, <1>1, <1>2, <1>3, <1>4, <1>5 DEF Inv

LEMMA Steps ==
  ASSUME Inv, [TunnelNext]_vars
  PROVE  Inv'
<1>1. ASSUME NEW c \in Conns, handleAgent(c) \/ CloseExpired(c) \/ Break(c)
      PROVE  Inv'
  BY Zenon, <1>1, RegisterKeeps, GreetKeeps, ReadMessageKeeps, DeliverResponseKeeps, ReadErrorKeeps, UnregisterKeeps,
     CloseExpiredKeeps, BreakKeeps DEF handleAgent
<1>2. ASSUME NEW q \in Requests, Proxying(q) \/ \E i \in IDs, k \in Clusters : ProxyRequest(q, i, k)
      PROVE  Inv'
  BY Zenon, <1>2, SendRequestKeeps, AwaitKeeps, LeaveKeeps, ProxyRequestKeeps DEF Proxying
<1>3. ASSUME NEW a \in Agents,
             connectAndServe(a) \/ Restart(a) \/ \E q \in Requests : SendResponse(a, q)
      PROVE  Inv'
  BY Zenon, <1>3, ConnectKeeps, ReadGreetingKeeps, ReadRequestKeeps, DisconnectKeeps, RestartKeeps, SendResponseKeeps
     DEF connectAndServe
<1>4. CASE UNCHANGED vars BY Zenon, <1>4, Stutters
<1> QED BY Zenon, <1>1, <1>2, <1>3, <1>4 DEF TunnelNext

LEMMA Invariance == TunnelSpec => []Inv
BY Initially, Steps, PTL DEF TunnelSpec

\* The tunnel stays within its types, for any clusters, agents, requests and bounds: a goroutine
\* that has an answer to hand over has recorded it, and one that waits has its ID and connection.
THEOREM TunnelTypeCorrect == TunnelSpec => []TunnelTypeOK
<1>1. Inv => TunnelTypeOK BY Zenon, Types DEF Inv
<1> QED BY <1>1, Invariance, PTL

\* Requests to a cluster go to the connection that is being served, however registrations,
\* replacements and late ends of handleAgent goroutines interleave (server.go, Register and
\* Unregister).
THEOREM ServedConnectionsRoutable == TunnelSpec => []LiveConnectionsRoutable
<1>1. Inv => LiveConnectionsRoutable BY Zenon DEF Inv
<1> QED BY <1>1, Invariance, PTL

\* What SendRequest returns is an answer of the cluster that was asked, to a request under the
\* caller's own ID.
THEOREM AnswersAreTheirOwn == TunnelSpec => []AnswersOwnRequest
<1>1. Inv => AnswersOwnRequest BY Zenon DEF Inv, Fitting, Fits, AnswersOwnRequest
<1> QED BY <1>1, Invariance, PTL

--------------------------------------------------------------------------------
(* A request is one token: its frame under way, the agent's work on it, its answer under way, the
   answer in the hands of handleAgent and the answer in a channel follow one another, and the token
   is never in two places.  An answer to an ID nobody shares therefore finds its channel empty. *)

Has(s, q) == \E j \in 1..Len(s) : s[j] = q

\* The token of q is at this connection, agent or channel.
Holds(kind, x, q) ==
  \/ kind = "down" /\ x \in Conns /\ Has(down[x], q)
  \/ kind = "up" /\ x \in Conns /\ Has(up[x], q)
  \/ kind = "work" /\ x \in Agents /\ q \in working[x]
  \/ kind = "delivery" /\ x \in Conns /\ handler[x] = "delivering" /\ delivery[x].answer = q
  \/ kind = "channel" /\ x \in Requests /\ channel[x] = q

\* The same after a step.
Held(kind, x, q) ==
  \/ kind = "down" /\ x \in Conns /\ Has(down'[x], q)
  \/ kind = "up" /\ x \in Conns /\ Has(up'[x], q)
  \/ kind = "work" /\ x \in Agents /\ q \in working'[x]
  \/ kind = "delivery" /\ x \in Conns /\ handler'[x] = "delivering" /\ delivery'[x].answer = q
  \/ kind = "channel" /\ x \in Requests /\ channel'[x] = q

\* A step that takes the token of q nowhere but there.
Gains(q, kind, x) == \A other, y : Held(other, y, q) => Holds(other, y, q) \/ (other = kind /\ y = x)

InOnePlace(q) ==
  \A kind, x, other, y : Holds(kind, x, q) /\ Holds(other, y, q) => kind = other /\ x = y

Unsent == {"new", "noted"}

\* A request that has not been sent has no token.
Unborn(q) == request[q].pc \in Unsent => \A kind, x : ~Holds(kind, x, q)

\* A request is at most once among these frames; the greeting may be repeated.
Distinct(s) == \A i, j \in 1..Len(s) : s[i] = s[j] /\ s[i] # Greeting => i = j

Once ==
  /\ \A q \in Requests : InOnePlace(q) /\ Unborn(q)
  /\ \A c \in Conns : Distinct(down[c]) /\ Distinct(up[c])

\* Adding a frame, taking the first one, losing all.
LEMMA FrameAdded ==
  ASSUME NEW S, NEW s \in Seq(S), NEW x \in S
  PROVE  /\ \A y : Has(Append(s, x), y) => Has(s, y) \/ y = x
         /\ Distinct(s) /\ (x = Greeting \/ ~Has(s, x)) => Distinct(Append(s, x))
<1>1. /\ Len(Append(s, x)) = Len(s) + 1 /\ Len(s) \in Nat
      /\ \A j \in 1..Len(s) : Append(s, x)[j] = s[j]
      /\ Append(s, x)[Len(s) + 1] = x
  BY SMT
<1>2. \A y : Has(Append(s, x), y) => Has(s, y) \/ y = x BY SMT, <1>1 DEF Has
<1>3. ASSUME Distinct(s), x = Greeting \/ ~Has(s, x) PROVE Distinct(Append(s, x))
  BY SMT, <1>1, <1>3 DEF Has, Distinct
<1> QED BY Zenon, <1>2, <1>3

LEMMA FrameRemoved ==
  ASSUME NEW S, NEW s \in Seq(S), s # <<>>
  PROVE  /\ \A y : Has(Tail(s), y) => Has(s, y)
         /\ Has(s, Head(s))
         /\ Distinct(s) => Distinct(Tail(s)) /\ (Head(s) # Greeting => ~Has(Tail(s), Head(s)))
<1>1. /\ Len(s) \in Nat /\ Len(s) # 0 /\ Len(Tail(s)) = Len(s) - 1 /\ Head(s) = s[1]
      /\ \A j \in 1..Len(Tail(s)) : Tail(s)[j] = s[j + 1]
  BY SMT
<1>2. \A y : Has(Tail(s), y) => Has(s, y) BY SMT, <1>1 DEF Has
<1>3. Has(s, Head(s)) BY SMT, <1>1 DEF Has
<1>4. ASSUME Distinct(s) PROVE Distinct(Tail(s)) BY SMT, <1>1, <1>4 DEF Distinct
<1>5. ASSUME Distinct(s), Head(s) # Greeting PROVE ~Has(Tail(s), Head(s)) BY SMT, <1>1, <1>5 DEF Distinct, Has
<1> QED BY Zenon, <1>2, <1>3, <1>4, <1>5

LEMMA NoFrames == (\A y : ~Has(<<>>, y)) /\ Distinct(<<>>)
BY Zenon, Nothing DEF Has, Distinct

\* What SendMessage puts on the wire.
LEMMA SendMessagePlaces ==
  ASSUME FrameTypes, NEW c \in Conns, NEW f \in Frames, SendMessage(c, f)
  PROVE  /\ \A d \in Conns : \A y : Has(down'[d], y) => Has(down[d], y) \/ (d = c /\ y = f)
         /\ \A d \in Conns : Distinct(down[d]) /\ (f = Greeting \/ ~Has(down[d], f)) => Distinct(down'[d])
<1>1. CASE down' = down BY Zenon, <1>1
<1>2. CASE down' = [down EXCEPT ![c] = Append(down[c], f)]
  <2>1. down[c] \in Seq(Frames) BY Zenon DEF FrameTypes
  <2>2. down'[c] = Append(down[c], f) /\ \A d \in Conns : d # c => down'[d] = down[d] BY Zenon, <1>2 DEF FrameTypes
  <2>3. \A y : Has(down'[c], y) => Has(down[c], y) \/ y = f BY ZenonT(40), <2>1, <2>2, FrameAdded
  <2>5. Distinct(down[c]) /\ (f = Greeting \/ ~Has(down[c], f)) => Distinct(Append(down[c], f)) BY Zenon, <2>1, FrameAdded
  <2>4. Distinct(down[c]) /\ (f = Greeting \/ ~Has(down[c], f)) => Distinct(down'[c]) BY Zenon, <2>2, <2>5
  <2> QED BY Zenon, <2>2, <2>3, <2>4
<1> QED BY Zenon, <1>1, <1>2 DEF SendMessage

LEMMA HangUpPlaces ==
  ASSUME NEW c, HangUp(c)
  PROVE  /\ \A d \in Conns : \A y : (Has(down'[d], y) => Has(down[d], y)) /\ (Has(up'[d], y) => Has(up[d], y))
         /\ \A d \in Conns : (Distinct(down[d]) => Distinct(down'[d])) /\ (Distinct(up[d]) => Distinct(up'[d]))
<1>1. \A d \in Conns : \/ down'[d] = <<>> /\ up'[d] = <<>>
                       \/ down'[d] = down[d] /\ up'[d] = up[d]
  BY Zenon DEF HangUp
<1> QED BY Zenon, <1>1, NoFrames

LEMMA AfterStep ==
  ASSUME NEW q
  PROVE  /\ (\A kind, x, other, y : Held(kind, x, q) /\ Held(other, y, q) => kind = other /\ x = y) => InOnePlace(q)'
         /\ (request'[q].pc \in Unsent => \A kind, x : ~Held(kind, x, q)) => Unborn(q)'
<1>1. ASSUME \A kind, x, other, y : Held(kind, x, q) /\ Held(other, y, q) => kind = other /\ x = y
      PROVE  InOnePlace(q)'
  <2> SUFFICES ASSUME NEW kind, NEW x, NEW other, NEW y, Holds(kind, x, q)', Holds(other, y, q)'
               PROVE  kind = other /\ x = y
    BY Zenon DEF InOnePlace
  <2>1. Held(kind, x, q) BY Zenon DEF Holds, Held, Has
  <2>2. Held(other, y, q) BY Zenon DEF Holds, Held, Has
  <2> QED BY Zenon, <1>1, <2>1, <2>2
<1>2. ASSUME request'[q].pc \in Unsent => \A kind, x : ~Held(kind, x, q)
      PROVE  Unborn(q)'
  <2> SUFFICES ASSUME request'[q].pc \in Unsent, NEW kind, NEW x, Holds(kind, x, q)' PROVE FALSE
    BY Zenon DEF Unborn
  <2>1. Held(kind, x, q) BY Zenon DEF Holds, Held, Has
  <2> QED BY Zenon, <1>2, <2>1
<1> QED BY Zenon, <1>1, <1>2

\* Steps after which a token is where it was, or gone.
LEMMA TokensStay ==
  ASSUME Once, NEW q \in Requests,
         \A kind, x : Held(kind, x, q) => Holds(kind, x, q),
         request'[q].pc \in Unsent => request[q].pc \in Unsent
  PROVE  InOnePlace(q)' /\ Unborn(q)'
<1>1. InOnePlace(q) /\ Unborn(q) BY Zenon DEF Once
<1>2. \A kind, x, other, y : Held(kind, x, q) /\ Held(other, y, q) => kind = other /\ x = y
  BY Zenon, <1>1 DEF InOnePlace
<1>3. request'[q].pc \in Unsent => \A kind, x : ~Held(kind, x, q) BY Zenon, <1>1 DEF Unborn
<1> QED BY Zenon, <1>2, <1>3, AfterStep

\* A step that takes a token from one place to another.
LEMMA TokenMoves ==
  ASSUME Once, NEW q \in Requests, NEW kind, NEW x, NEW kind1, NEW x1,
         Holds(kind, x, q), ~Held(kind, x, q),
         Gains(q, kind1, x1),
         request'[q].pc \in Unsent => request[q].pc \in Unsent
  PROVE  InOnePlace(q)' /\ Unborn(q)'
<1>1. InOnePlace(q) /\ Unborn(q) BY Zenon DEF Once
<1>2. ~(request[q].pc \in Unsent) BY Zenon, <1>1 DEF Unborn
<1>3. \A other, y : Held(other, y, q) => other = kind1 /\ y = x1
  <2> SUFFICES ASSUME NEW other, NEW y, Held(other, y, q) PROVE other = kind1 /\ y = x1
    BY Zenon
  <2>1. CASE Holds(other, y, q)
    <3>1. other = kind /\ y = x BY Zenon, <1>1, <2>1 DEF InOnePlace
    <3> QED BY Zenon, <3>1
  <2> QED BY Zenon, <2>1 DEF Gains
<1>4. \A other, y, another, z : Held(other, y, q) /\ Held(another, z, q) => other = another /\ y = z
  BY SMT, <1>3
<1> QED BY Zenon, <1>2, <1>4, AfterStep

\* No place gains a request.
Quiet ==
  /\ \A d \in Conns : \A y \in Requests : (Has(down'[d], y) => Has(down[d], y)) /\ (Has(up'[d], y) => Has(up[d], y))
  /\ \A d \in Conns : (Distinct(down[d]) => Distinct(down'[d])) /\ (Distinct(up[d]) => Distinct(up'[d]))
  /\ \A a \in Agents : working'[a] \subseteq working[a]
  /\ \A d \in Conns : handler'[d] = "delivering" => handler[d] = "delivering" /\ delivery'[d] = delivery[d]
  /\ channel' = channel
  /\ \A q \in Requests : request'[q].pc \in Unsent => request[q].pc \in Unsent

LEMMA QuietSteps ==
  ASSUME Once, Quiet
  PROVE  Once'
<1>1. ASSUME NEW q \in Requests, NEW kind, NEW x, Held(kind, x, q) PROVE Holds(kind, x, q)
  BY Zenon, <1>1 DEF Quiet, Holds, Held
<1>2. ASSUME NEW q \in Requests PROVE InOnePlace(q)' /\ Unborn(q)'
  BY Zenon, <1>1, TokensStay DEF Quiet
<1>3. \A d \in Conns : Distinct(down'[d]) /\ Distinct(up'[d]) BY Zenon DEF Quiet, Once
<1> QED BY Zenon, <1>2, <1>3 DEF Once, Distinct

\* A step that leaves the frames, the work, the deliveries and the calls alone but for what is said.
LEMMA Still ==
  ASSUME down' = down, up' = up, working' = working, channel' = channel,
         \A d \in Conns : handler'[d] = "delivering" => handler[d] = "delivering" /\ delivery'[d] = delivery[d],
         \A q \in Requests : request'[q].pc \in Unsent => request[q].pc \in Unsent
  PROVE  Quiet
BY Zenon DEF Quiet

LEMMA HungUp ==
  ASSUME NEW c, HangUp(c), \A a \in Agents : working'[a] \subseteq working[a], channel' = channel, request' = request,
         \A d \in Conns : handler'[d] = "delivering" => handler[d] = "delivering" /\ delivery'[d] = delivery[d]
  PROVE  Quiet
BY Zenon, HangUpPlaces DEF Quiet

\* handleAgent, but for the answers it reads and delivers.
LEMMA QuietAgent ==
  ASSUME Inv, NEW c \in Conns, Register(c) \/ Greet(c) \/ ReadError(c) \/ Unregister(c) \/ CloseExpired(c) \/ Break(c)
  PROVE  Quiet
<1>0. ServerTypes /\ FrameTypes BY Zenon DEF Inv
<1>h. ASSUME NEW pc, pc # "delivering", handler' = [handler EXCEPT ![c] = pc], delivery' = delivery
      PROVE  \A d \in Conns : handler'[d] = "delivering" => handler[d] = "delivering" /\ delivery'[d] = delivery[d]
  BY Zenon, <1>0, <1>h DEF ServerTypes
<1>1. CASE Register(c)
  <2>1. /\ HangUp(registry[serves[c]]) /\ handler' = [handler EXCEPT ![c] = "greeting"] /\ delivery' = delivery
        /\ working' = working /\ channel' = channel /\ request' = request
    BY Zenon, <1>1 DEF Register, RegisterConnection, requestVars, agentVars
  <2>2. \A d \in Conns : handler'[d] = "delivering" => handler[d] = "delivering" /\ delivery'[d] = delivery[d]
    BY Zenon, <1>h, <2>1
  <2> QED BY Zenon, <2>1, <2>2, HungUp
<1>2. CASE Greet(c)
  <2>1. /\ SendMessage(c, Greeting) /\ handler' = [handler EXCEPT ![c] = "reading"] /\ delivery' = delivery
        /\ up' = up /\ working' = working /\ channel' = channel /\ request' = request
    BY Zenon, <1>2 DEF Greet, requestVars, agentVars
  <2>2. \A d \in Conns : handler'[d] = "delivering" => handler[d] = "delivering" /\ delivery'[d] = delivery[d]
    BY Zenon, <1>h, <2>1
  <2>3. Greeting \in Frames /\ \A y \in Requests : y # Greeting BY Zenon, TunnelAssumption DEF Frames
  <2>4. \A d \in Conns : (Distinct(down[d]) => Distinct(down'[d])) /\ \A y \in Requests : Has(down'[d], y) => Has(down[d], y)
    BY Zenon, <1>0, <2>1, <2>3, SendMessagePlaces
  <2> QED BY Zenon, <2>1, <2>2, <2>4 DEF Quiet
<1>3. CASE ReadError(c)
  <2>1. /\ handler' = [handler EXCEPT ![c] = "leaving"] /\ delivery' = delivery /\ down' = down
        /\ up' = up /\ working' = working /\ channel' = channel /\ request' = request
    BY Zenon, <1>3 DEF ReadError, requestVars, agentVars
  <2>2. \A d \in Conns : handler'[d] = "delivering" => handler[d] = "delivering" /\ delivery'[d] = delivery[d]
    BY Zenon, <1>h, <2>1
  <2> QED BY Zenon, <2>1, <2>2, Still
<1>4. CASE Unregister(c)
  <2>1. /\ HangUp(c) /\ handler' = [handler EXCEPT ![c] = "done"] /\ delivery' = delivery
        /\ working' = working /\ channel' = channel /\ request' = request
    BY Zenon, <1>4 DEF Unregister, requestVars, agentVars
  <2>2. \A d \in Conns : handler'[d] = "delivering" => handler[d] = "delivering" /\ delivery'[d] = delivery[d]
    BY Zenon, <1>h, <2>1
  <2> QED BY Zenon, <2>1, <2>2, HungUp
<1>5. CASE CloseExpired(c) \/ Break(c)
  <2>1. /\ HangUp(c) /\ handler' = handler /\ delivery' = delivery
        /\ working' = working /\ channel' = channel /\ request' = request
    BY Zenon, <1>5 DEF CloseExpired, Break, serverVars, requestVars, agentVars
  <2> QED BY Zenon, <2>1, HungUp
<1> QED BY Zenon, <1>1, <1>2, <1>3, <1>4, <1>5

\* A call that is made, answered or ended.
LEMMA QuietRequest ==
  ASSUME Inv, NEW q \in Requests, Await(q) \/ Leave(q) \/ \E i \in IDs, k \in Clusters : ProxyRequest(q, i, k)
  PROVE  Quiet
<1>0. request \in [Requests -> Record] /\ \A r \in Requests : channel[r] \in Requests \cup {None}
  BY Zenon DEF Inv, RequestTypes
<1>1. down' = down /\ up' = up /\ working' = working /\ channel' = channel /\ handler' = handler /\ delivery' = delivery
  BY Zenon DEF Await, Leave, ProxyRequest, serverVars, agentVars
<1>2. CASE Await(q)
  <2>1. PICK answer \in Requests \cup {None} : Answered(q, answer)
    BY Zenon, <1>0, <1>2 DEF Await, TakeResponse, SeeClosed, TimeOut
  <2>2. request'[q].pc = "leaving" /\ \A r \in Requests : r # q => request'[r] = request[r]
    BY Zenon, <1>0, <2>1, AnsweredEffect
  <2>3. \A r \in Requests : request'[r].pc \in Unsent => request[r].pc \in Unsent BY Zenon, <2>2 DEF Unsent
  <2> QED BY Zenon, <1>1, <2>3, Still
<1>3. CASE Leave(q)
  <2>1. Step(q, "done") BY Zenon, <1>3 DEF Leave
  <2>2. request'[q].pc = "done" /\ \A r \in Requests : r # q => request'[r] = request[r]
    BY Zenon, <1>0, <2>1, StepEffect
  <2>3. \A r \in Requests : request'[r].pc \in Unsent => request[r].pc \in Unsent BY Zenon, <2>2 DEF Unsent
  <2> QED BY Zenon, <1>1, <2>3, Still
<1>4. CASE \E i \in IDs, k \in Clusters : ProxyRequest(q, i, k)
  <2>1. request[q].pc = "new" /\ \A r \in Requests : r # q => request'[r] = request[r]
    BY Zenon, <1>0, <1>4 DEF ProxyRequest
  <2>3. \A r \in Requests : request'[r].pc \in Unsent => request[r].pc \in Unsent BY Zenon, <2>1 DEF Unsent
  <2> QED BY Zenon, <1>1, <2>3, Still
<1> QED BY Zenon, <1>2, <1>3, <1>4

\* The main loop of an agent, but for the requests it takes in.
LEMMA QuietLoop ==
  ASSUME Inv, NEW a \in Agents, Connect(a) \/ ReadGreeting(a) \/ Disconnect(a) \/ Restart(a)
  PROVE  Quiet
<1>0. ServerTypes /\ FrameTypes /\ AgentTypes BY Zenon DEF Inv
<1>1. CASE Connect(a)
  <2>1. /\ handler' = [handler EXCEPT ![dials + 1] = "starting"] /\ delivery' = delivery /\ down' = down
        /\ up' = up /\ working' = working /\ channel' = channel /\ request' = request
    BY Zenon, <1>1 DEF Connect, requestVars
  <2>2. \A d \in Conns : handler'[d] = "delivering" => handler[d] = "delivering" /\ delivery'[d] = delivery[d]
    BY Zenon, <1>0, <2>1 DEF ServerTypes
  <2> QED BY Zenon, <2>1, <2>2, Still
<1>2. CASE ReadGreeting(a)
  <2>1. /\ handler' = handler /\ delivery' = delivery /\ working' = working /\ channel' = channel /\ request' = request
        /\ agent[a].pc = "joining" /\ down[agent[a].conn] # <<>>
    BY Zenon, <1>2 DEF ReadGreeting, serverVars, requestVars
  <2>2. PICK c \in Conns : c = agent[a].conn BY Zenon, <1>0, <2>1 DEF AgentTypes
  <2>3. CASE HangUp(c) BY Zenon, <2>1, <2>3, HungUp
  <2>4. CASE down' = [down EXCEPT ![c] = Tail(down[c])] /\ up' = up
    <3>1. down[c] \in Seq(Frames) /\ down[c] # <<>> BY Zenon, <1>0, <2>1, <2>2 DEF FrameTypes
    <3>2. (\A y : Has(Tail(down[c]), y) => Has(down[c], y)) /\ (Distinct(down[c]) => Distinct(Tail(down[c])))
      BY Zenon, <3>1, FrameRemoved
    <3>3. down'[c] = Tail(down[c]) /\ \A d \in Conns : d # c => down'[d] = down[d] BY Zenon, <1>0, <2>4 DEF FrameTypes
    <3>4. \A d \in Conns : (Distinct(down[d]) => Distinct(down'[d])) /\ \A y : Has(down'[d], y) => Has(down[d], y)
      BY Zenon, <3>2, <3>3
    <3> QED BY Zenon, <2>1, <2>4, <3>4 DEF Quiet
  <2> QED BY Zenon, <1>2, <2>2, <2>3, <2>4 DEF ReadGreeting
<1>3. CASE Disconnect(a)
  <2>1. /\ handler' = handler /\ delivery' = delivery /\ down' = down /\ up' = up
        /\ working' = working /\ channel' = channel /\ request' = request
    BY Zenon, <1>3 DEF Disconnect, serverVars, requestVars
  <2> QED BY Zenon, <2>1, Still
<1>4. CASE Restart(a)
  <2>1. /\ HangUp(agent[a].conn) /\ handler' = handler /\ delivery' = delivery
        /\ channel' = channel /\ request' = request /\ working' = [working EXCEPT ![a] = {}]
    BY Zenon, <1>4 DEF Restart, serverVars, requestVars
  <2>2. \A b \in Agents : working'[b] \subseteq working[b] BY Zenon, <1>0, <2>1 DEF AgentTypes
  <2> QED BY Zenon, <2>1, <2>2, HungUp
<1> QED BY Zenon, <1>1, <1>2, <1>3, <1>4

\* One token moves, and every other one is where it was or gone.
LEMMA OneMoves ==
  ASSUME Once, NEW q \in Requests, NEW kind, NEW x, NEW kind1, NEW x1,
         Holds(kind, x, q), ~Held(kind, x, q),
         Gains(q, kind1, x1),
         \A r \in Requests : r # q => \A other, y : Held(other, y, r) => Holds(other, y, r),
         \A r \in Requests : request'[r].pc \in Unsent => request[r].pc \in Unsent,
         \A d \in Conns : Distinct(down[d])' /\ Distinct(up[d])'
  PROVE  Once'
<1>1. InOnePlace(q)' /\ Unborn(q)' BY Zenon, TokenMoves
<1>2. ASSUME NEW r \in Requests, r # q PROVE InOnePlace(r)' /\ Unborn(r)'
  <2>1. \A other, y : Held(other, y, r) => Holds(other, y, r) BY Zenon, <1>2
  <2> QED BY Zenon, <2>1, TokensStay
<1> QED BY Zenon, <1>1, <1>2 DEF Once

\* The answer goes from the wire to the hands of handleAgent.
LEMMA ReadMessageMoves ==
  ASSUME Inv, Once, NEW c \in Conns, ReadMessage(c)
  PROVE  Once'
<1>0. ServerTypes /\ FrameTypes /\ RequestTypes BY Zenon DEF Inv
<1>1. /\ handler[c] = "reading" /\ up[c] # <<>> /\ up' = [up EXCEPT ![c] = Tail(up[c])] /\ down' = down
      /\ working' = working /\ channel' = channel /\ request' = request
  BY Zenon DEF ReadMessage, requestVars, agentVars
<1>2. up[c] \in Seq(Requests) BY Zenon, <1>0 DEF FrameTypes
<1>3. PICK q \in Requests : q = Head(up[c]) BY SMT, <1>1, <1>2
<1>4. up'[c] = Tail(up[c]) /\ \A d \in Conns : d # c => up'[d] = up[d] BY Zenon, <1>0, <1>1 DEF FrameTypes
<1>5. /\ \A y : Has(Tail(up[c]), y) => Has(up[c], y)
      /\ Has(up[c], q) /\ Distinct(up[c]) => Distinct(Tail(up[c])) /\ (q # Greeting => ~Has(Tail(up[c]), q))
  BY Zenon, <1>1, <1>2, <1>3, FrameRemoved
<1>6. Has(up[c], q) BY Zenon, <1>1, <1>2, <1>3, FrameRemoved
<1>7. \A d \in Conns : Distinct(down[d]) /\ Distinct(up[d]) BY Zenon DEF Once
<1>8. q # Greeting BY Zenon, TunnelAssumption
<1>9. ~Has(up'[c], q) /\ \A d \in Conns : Distinct(up'[d]) /\ \A y : Has(up'[d], y) => Has(up[d], y)
  BY Zenon, <1>4, <1>5, <1>6, <1>7, <1>8
<1>10. CASE handler' = handler /\ delivery' = delivery
  <2>1. Quiet BY Zenon, <1>1, <1>9, <1>10 DEF Quiet
  <2> QED BY Zenon, <2>1, QuietSteps
<1>11. CASE /\ delivery' = [delivery EXCEPT ![c] = [answer |-> Head(up[c]), to |-> Lookup(c, Head(up[c]))]]
            /\ handler' = [handler EXCEPT ![c] = "delivering"]
  <2>1. delivery'[c].answer = q /\ \A d \in Conns : d # c => delivery'[d] = delivery[d] /\ handler'[d] = handler[d]
    BY Zenon, <1>0, <1>3, <1>11 DEF ServerTypes
  <2>2. Holds("up", c, q) BY Zenon, <1>6 DEF Holds
  <2>3. ~Held("up", c, q)
    <3>1. "up" # "down" /\ "up" # "work" /\ "up" # "delivery" /\ "up" # "channel" BY Zenon
    <3> QED BY Zenon, <1>9, <3>1 DEF Held
  <2>4. ASSUME NEW r \in Requests, NEW other, NEW y, Held(other, y, r)
        PROVE  Holds(other, y, r) \/ (r = q /\ other = "delivery" /\ y = c)
    BY Zenon, <1>1, <1>9, <2>1, <2>4 DEF Holds, Held
  <2>5. \A d \in Conns : Distinct(down[d])' /\ Distinct(up[d])' BY Zenon, <1>1, <1>7, <1>9 DEF Distinct
  <2>6. \A r \in Requests : request'[r].pc \in Unsent => request[r].pc \in Unsent BY Zenon, <1>1
  <2>7. Gains(q, "delivery", c) BY SMT, <2>4 DEF Gains
  <2>8. \A r \in Requests : r # q => \A other, y : Held(other, y, r) => Holds(other, y, r) BY Zenon, <2>4
  <2> QED BY Zenon, <2>2, <2>3, <2>5, <2>6, <2>7, <2>8, OneMoves
<1> QED BY Zenon, <1>10, <1>11 DEF ReadMessage

\* The answer goes from the hands of handleAgent to a channel.
LEMMA DeliverResponseMoves ==
  ASSUME Inv, Once, NEW c \in Conns, DeliverResponse(c)
  PROVE  Once'
<1>0. ServerTypes /\ RequestTypes BY Zenon DEF Inv
<1>1. /\ handler[c] = "delivering" /\ handler' = [handler EXCEPT ![c] = "reading"] /\ down' = down /\ up' = up
      /\ delivery' = [delivery EXCEPT ![c] = NoDelivery]
      /\ channel' = [channel EXCEPT ![delivery[c].to] = delivery[c].answer]
      /\ working' = working /\ request' = request
  BY Zenon DEF DeliverResponse, agentVars
<1>2. delivery[c] \in [answer : Requests, to : Requests] BY Zenon, <1>0, <1>1 DEF ServerTypes
<1>3. PICK q \in Requests, p \in Requests : q = delivery[c].answer /\ p = delivery[c].to BY Zenon, <1>2
<1>4. channel'[p] = q /\ \A r \in Requests : r # p => channel'[r] = channel[r] BY Zenon, <1>0, <1>1, <1>3 DEF RequestTypes
<1>5. /\ handler'[c] = "reading"
      /\ \A d \in Conns : d # c => handler'[d] = handler[d] /\ delivery'[d] = delivery[d]
  BY Zenon, <1>0, <1>1 DEF ServerTypes
<1>6. Holds("delivery", c, q) BY Zenon, <1>1, <1>3 DEF Holds
<1>7. ~Held("delivery", c, q)
  <2>1. "delivery" # "down" /\ "delivery" # "up" /\ "delivery" # "work" /\ "delivery" # "channel" BY Zenon
  <2>2. handler'[c] # "delivering" BY Zenon, <1>5
  <2> QED BY Zenon, <2>1, <2>2 DEF Held
<1>8. ASSUME NEW r \in Requests, NEW other, NEW y, Held(other, y, r)
      PROVE  Holds(other, y, r) \/ (r = q /\ other = "channel" /\ y = p)
  <2>1. handler'[c] # "delivering" BY Zenon, <1>5
  <2> QED BY Zenon, <1>1, <1>4, <1>5, <1>8, <2>1 DEF Holds, Held
<1>9. \A d \in Conns : Distinct(down[d])' /\ Distinct(up[d])' BY Zenon, <1>1 DEF Once, Distinct
<1>10. \A r \in Requests : request'[r].pc \in Unsent => request[r].pc \in Unsent BY Zenon, <1>1
<1>11. Gains(q, "channel", p) BY SMT, <1>8 DEF Gains
<1>12. \A r \in Requests : r # q => \A other, y : Held(other, y, r) => Holds(other, y, r) BY Zenon, <1>8
<1> QED BY Zenon, <1>6, <1>7, <1>9, <1>10, <1>11, <1>12, OneMoves

\* The frame goes from the wire to the agent's work.
LEMMA ReadRequestMoves ==
  ASSUME Inv, Once, NEW a \in Agents, ReadRequest(a)
  PROVE  Once'
<1>0. ServerTypes /\ FrameTypes /\ AgentTypes BY Zenon DEF Inv
<1>1. /\ agent[a].pc = "serving" /\ down[agent[a].conn] # <<>>
      /\ down' = [down EXCEPT ![agent[a].conn] = Tail(down[agent[a].conn])]
      /\ working' = [working EXCEPT ![a] = working[a] \cup ({Head(down[agent[a].conn])} \ {Greeting})]
      /\ handler' = handler /\ delivery' = delivery /\ up' = up /\ channel' = channel /\ request' = request
  BY Zenon DEF ReadRequest, serverVars, requestVars
<1>2. PICK c \in Conns : c = agent[a].conn BY Zenon, <1>0, <1>1 DEF AgentTypes
<1>3. down[c] \in Seq(Frames) /\ down[c] # <<>> BY Zenon, <1>0, <1>1, <1>2 DEF FrameTypes
<1>4. PICK q \in Frames : q = Head(down[c]) BY SMT, <1>3
<1>5. down'[c] = Tail(down[c]) /\ \A d \in Conns : d # c => down'[d] = down[d] BY Zenon, <1>0, <1>1, <1>2 DEF FrameTypes
<1>6. /\ working'[a] = working[a] \cup ({q} \ {Greeting})
      /\ \A b \in Agents : b # a => working'[b] = working[b]
  BY Zenon, <1>0, <1>1, <1>2, <1>4 DEF AgentTypes
<1>7. \A d \in Conns : Distinct(down[d]) /\ Distinct(up[d]) BY Zenon DEF Once
<1>8. /\ \A y : Has(Tail(down[c]), y) => Has(down[c], y)
      /\ Has(down[c], q) /\ Distinct(Tail(down[c])) /\ (q # Greeting => ~Has(Tail(down[c]), q))
  <2>1. /\ \A y : Has(Tail(down[c]), y) => Has(down[c], y)
        /\ Distinct(down[c]) => Distinct(Tail(down[c])) /\ (Head(down[c]) # Greeting => ~Has(Tail(down[c]), Head(down[c])))
    BY Zenon, <1>3, FrameRemoved
  <2>2. Has(down[c], Head(down[c])) BY Zenon, <1>3, FrameRemoved
  <2> QED BY Zenon, <1>4, <1>7, <2>1, <2>2
<1>9. \A d \in Conns : Distinct(down'[d]) /\ \A y : Has(down'[d], y) => Has(down[d], y)
  BY Zenon, <1>5, <1>7, <1>8
<1>10. CASE q = Greeting
  <2>1. \A b \in Agents : working'[b] \subseteq working[b] BY Zenon, <1>6, <1>10
  <2>2. Quiet BY Zenon, <1>1, <1>9, <2>1 DEF Quiet
  <2> QED BY Zenon, <2>2, QuietSteps
<1>11. CASE q # Greeting
  <2>1. q \in Requests BY Zenon, <1>11 DEF Frames
  <2>2. Holds("down", c, q) BY Zenon, <1>8 DEF Holds
  <2>3. ~Held("down", c, q)
    <3>1. "down" # "up" /\ "down" # "work" /\ "down" # "delivery" /\ "down" # "channel" BY Zenon
    <3> QED BY Zenon, <1>5, <1>8, <1>11, <3>1 DEF Held
  <2>4. ASSUME NEW r \in Requests, NEW other, NEW y, Held(other, y, r)
        PROVE  Holds(other, y, r) \/ (r = q /\ other = "work" /\ y = a)
    BY Zenon, <1>1, <1>6, <1>9, <2>4 DEF Holds, Held
  <2>5. \A d \in Conns : Distinct(down[d])' /\ Distinct(up[d])' BY Zenon, <1>1, <1>7, <1>9 DEF Distinct
  <2>6. \A r \in Requests : request'[r].pc \in Unsent => request[r].pc \in Unsent BY Zenon, <1>1
  <2>7. Gains(q, "work", a) BY SMT, <2>1, <2>4 DEF Gains
  <2>8. \A r \in Requests : r # q => \A other, y : Held(other, y, r) => Holds(other, y, r) BY Zenon, <2>4
  <2> QED BY Zenon, <2>1, <2>2, <2>3, <2>5, <2>6, <2>7, <2>8, OneMoves
<1> QED BY Zenon, <1>10, <1>11

\* The answer goes from the agent's work to the wire, or is lost.
LEMMA SendResponseMoves ==
  ASSUME Inv, Once, NEW a \in Agents, NEW q \in Requests, SendResponse(a, q)
  PROVE  Once'
<1>0. ServerTypes /\ FrameTypes /\ AgentTypes BY Zenon DEF Inv
<1>1. /\ q \in working[a] /\ working' = [working EXCEPT ![a] = working[a] \ {q}]
      /\ up' = IF agent[a].conn \in alive THEN [up EXCEPT ![agent[a].conn] = Append(up[agent[a].conn], q)] ELSE up
      /\ handler' = handler /\ delivery' = delivery /\ down' = down /\ channel' = channel /\ request' = request
  BY Zenon DEF SendResponse, serverVars, requestVars
<1>2. /\ working'[a] = working[a] \ {q}
      /\ \A b \in Agents : b # a => working'[b] = working[b]
  BY Zenon, <1>0, <1>1 DEF AgentTypes
<1>3. \A d \in Conns : Distinct(down[d]) /\ Distinct(up[d]) BY Zenon DEF Once
<1>4. CASE up' = up
  <2>1. \A b \in Agents : working'[b] \subseteq working[b] BY Zenon, <1>2
  <2>2. Quiet BY Zenon, <1>1, <1>4, <2>1 DEF Quiet
  <2> QED BY Zenon, <2>2, QuietSteps
<1>5. ASSUME NEW c \in Conns, up' = [up EXCEPT ![c] = Append(up[c], q)] PROVE Once'
  <2>1. up[c] \in Seq(Requests) BY Zenon, <1>0 DEF FrameTypes
  <2>2. up'[c] = Append(up[c], q) /\ \A d \in Conns : d # c => up'[d] = up[d] BY Zenon, <1>0, <1>5 DEF FrameTypes
  <2>3. Holds("work", a, q) BY Zenon, <1>1 DEF Holds
  <2>4. ~Has(up[c], q)
    <3>1. SUFFICES ASSUME Has(up[c], q) PROVE FALSE BY Zenon
    <3>2. Holds("up", c, q) BY Zenon, <3>1 DEF Holds
    <3>3. "up" = "work" BY Zenon, <2>3, <3>2 DEF Once, InOnePlace
    <3> QED BY Zenon, <3>3
  <2>5. \A y : Has(Append(up[c], q), y) => Has(up[c], y) \/ y = q BY Zenon, <2>1, FrameAdded
  <2>6. Distinct(Append(up[c], q)) BY Zenon, <1>3, <2>1, <2>4, FrameAdded
  <2>7. \A d \in Conns : Distinct(up'[d]) /\ \A y : Has(up'[d], y) => Has(up[d], y) \/ (d = c /\ y = q)
    BY Zenon, <1>3, <2>2, <2>5, <2>6
  <2>8. ~Held("work", a, q)
    <3>1. "work" # "up" /\ "work" # "down" /\ "work" # "delivery" /\ "work" # "channel" BY Zenon
    <3> QED BY Zenon, <1>2, <3>1 DEF Held
  <2>9. ASSUME NEW r \in Requests, NEW other, NEW y, Held(other, y, r)
        PROVE  Holds(other, y, r) \/ (r = q /\ other = "up" /\ y = c)
    BY Zenon, <1>1, <1>2, <2>7, <2>9 DEF Holds, Held
  <2>10. \A d \in Conns : Distinct(down[d])' /\ Distinct(up[d])' BY ZenonT(40), <1>1, <1>3, <2>7 DEF Distinct
  <2>11. \A r \in Requests : request'[r].pc \in Unsent => request[r].pc \in Unsent BY Zenon, <1>1
  <2>12. Gains(q, "up", c) BY SMT, <2>9 DEF Gains
  <2>13. \A r \in Requests : r # q => \A other, y : Held(other, y, r) => Holds(other, y, r) BY Zenon, <2>9
  <2> QED BY Zenon, <2>3, <2>8, <2>10, <2>11, <2>12, <2>13, OneMoves
<1> QED BY Zenon, <1>0, <1>1, <1>4, <1>5 DEF ServerTypes

\* A request is sent for the first and only time.
LEMMA SendRequestMoves ==
  ASSUME Inv, Once, NEW q \in Requests, SendRequest(q)
  PROVE  Once'
<1>0. ServerTypes /\ FrameTypes /\ RequestTypes BY Zenon DEF Inv
<1>1. /\ request[q].pc = "noted" /\ SendMessage(request[q].conn, q)
      /\ handler' = handler /\ delivery' = delivery /\ up' = up /\ channel' = channel /\ working' = working
  BY Zenon DEF SendRequest, serverVars, agentVars
<1>2. request'[q].pc \notin Unsent /\ \A r \in Requests : r # q => request'[r] = request[r]
  <2>1. PICK pc \in {"waiting", "leaving"} : Step(q, pc) BY Zenon DEF SendRequest
  <2>2. request \in [Requests -> Record] BY Zenon, <1>0 DEF RequestTypes
  <2>3. request'[q].pc = pc /\ \A r \in Requests : r # q => request'[r] = request[r] BY Zenon, <2>1, <2>2, StepEffect
  <2> QED BY Zenon, <2>3 DEF Unsent
<1>3. PICK c \in Conns : c = request[q].conn BY Zenon, <1>0, <1>1 DEF RequestTypes
<1>4. \A kind, x : ~Holds(kind, x, q) BY Zenon, <1>1 DEF Once, Unborn, Unsent
<1>5. \A d \in Conns : ~Has(down[d], q) BY Zenon, <1>4 DEF Holds
<1>6. q \in Frames /\ SendMessage(c, q) BY Zenon, <1>1, <1>3 DEF Frames
<1>7. \A d \in Conns : \A y : Has(down'[d], y) => Has(down[d], y) \/ (d = c /\ y = q)
  BY Zenon, <1>0, <1>6, SendMessagePlaces
<1>8. \A d \in Conns : Distinct(down'[d])
  <2>1. \A d \in Conns : Distinct(down[d]) /\ (q = Greeting \/ ~Has(down[d], q)) => Distinct(down'[d])
    BY Zenon, <1>0, <1>6, SendMessagePlaces
  <2> QED BY Zenon, <1>5, <2>1 DEF Once
<1>9. ASSUME NEW r \in Requests, NEW other, NEW y, Held(other, y, r)
      PROVE  Holds(other, y, r) \/ (r = q /\ other = "down" /\ y = c)
  BY Zenon, <1>1, <1>7, <1>9 DEF Holds, Held
<1>10. InOnePlace(q)' /\ Unborn(q)'
  <2>1. \A other, y : Held(other, y, q) => other = "down" /\ y = c BY SMT, <1>4, <1>9
  <2>2. \A other, y, another, z : Held(other, y, q) /\ Held(another, z, q) => other = another /\ y = z BY SMT, <2>1
  <2> QED BY Zenon, <1>2, <2>2, AfterStep
<1>11. ASSUME NEW r \in Requests, r # q PROVE InOnePlace(r)' /\ Unborn(r)'
  <2>1. \A kind, x : Held(kind, x, r) => Holds(kind, x, r) BY Zenon, <1>9, <1>11
  <2>2. request'[r].pc \in Unsent => request[r].pc \in Unsent BY Zenon, <1>2, <1>11
  <2> QED BY Zenon, <2>1, <2>2, TokensStay
<1>12. \A d \in Conns : Distinct(down[d])' /\ Distinct(up[d])' BY Zenon, <1>1, <1>8 DEF Once, Distinct
<1> QED BY Zenon, <1>10, <1>11, <1>12 DEF Once

LEMMA TokensInitially == TunnelInit => Once
<1> SUFFICES ASSUME TunnelInit PROVE Once BY Zenon
<1>1. \A c \in Conns : down[c] = <<>> /\ up[c] = <<>> /\ handler[c] = "idle" BY Zenon DEF TunnelInit
<1>2. (\A a \in Agents : working[a] = {}) /\ (\A q \in Requests : channel[q] = None) BY Zenon DEF TunnelInit
<1>3. \A q \in Requests : q # None BY Zenon, TunnelAssumption
<1>4. \A q \in Requests : \A kind, x : ~Holds(kind, x, q)
  <2> SUFFICES ASSUME NEW q \in Requests, NEW kind, NEW x, Holds(kind, x, q) PROVE FALSE BY Zenon
  <2>1. \A c \in Conns : ~Has(down[c], q) /\ ~Has(up[c], q) BY Zenon, <1>1, NoFrames
  <2>2. \A c \in Conns : handler[c] # "delivering" BY Zenon, <1>1
  <2> QED BY Zenon, <1>2, <1>3, <2>1, <2>2 DEF Holds
<1>5. \A c \in Conns : Distinct(down[c]) /\ Distinct(up[c]) BY Zenon, <1>1, NoFrames
<1> QED BY Zenon, <1>4, <1>5 DEF Once, InOnePlace, Unborn

LEMMA TokenSteps ==
  ASSUME Inv, Once, [TunnelNext]_vars
  PROVE  Once'
<1>1. ASSUME NEW c \in Conns, handleAgent(c) \/ CloseExpired(c) \/ Break(c)
      PROVE  Once'
  BY Zenon, <1>1, QuietAgent, QuietSteps, ReadMessageMoves, DeliverResponseMoves DEF handleAgent
<1>2. ASSUME NEW q \in Requests, Proxying(q) \/ \E i \in IDs, k \in Clusters : ProxyRequest(q, i, k)
      PROVE  Once'
  BY Zenon, <1>2, QuietRequest, QuietSteps, SendRequestMoves DEF Proxying
<1>3. ASSUME NEW a \in Agents,
             connectAndServe(a) \/ Restart(a) \/ \E q \in Requests : SendResponse(a, q)
      PROVE  Once'
  BY Zenon, <1>3, QuietLoop, QuietSteps, ReadRequestMoves, SendResponseMoves DEF connectAndServe
<1>4. CASE UNCHANGED vars
  <2>1. /\ handler' = handler /\ delivery' = delivery /\ down' = down /\ up' = up
        /\ working' = working /\ channel' = channel /\ request' = request
    BY Zenon, <1>4 DEF vars, serverVars, requestVars, agentVars
  <2>2. Quiet BY Zenon, <2>1, Still
  <2> QED BY Zenon, <2>2, QuietSteps
<1> QED BY Zenon, <1>1, <1>2, <1>3, <1>4 DEF TunnelNext

\* An answer that fits a request nobody shares the ID of is the answer to that request.
LEMMA RoomForAnswers ==
  ASSUME Inv, Once
  PROVE  DeliveryFindsRoom
<1> SUFFICES ASSUME NEW c \in Conns, handler[c] = "delivering",
                    channel[delivery[c].to] # None, ~Shared(delivery[c].to)
             PROVE  FALSE
  BY Zenon DEF DeliveryFindsRoom
<1>0. ServerTypes /\ RequestTypes /\ Fitting BY Zenon DEF Inv
<1>1. delivery[c] \in [answer : Requests, to : Requests] BY Zenon, <1>0 DEF ServerTypes
<1>2. PICK p \in Requests, q \in Requests : p = delivery[c].answer /\ q = delivery[c].to BY Zenon, <1>1
<1>3. PICK r \in Requests : r = channel[q] BY Zenon, <1>0, <1>2 DEF RequestTypes
<1>4. Fits(p, q) BY Zenon, <1>0, <1>2 DEF Fitting
<1>5. Fits(r, q) BY Zenon, <1>0, <1>2, <1>3 DEF Fitting
<1>6. ~Shared(q) BY Zenon, <1>2
<1>7. p = q /\ r = q BY Zenon, <1>4, <1>5, <1>6 DEF Shared, Fits
<1>8. Holds("delivery", c, q) BY Zenon, <1>2, <1>7 DEF Holds
<1>9. Holds("channel", q, q) BY Zenon, <1>3, <1>7 DEF Holds
<1>10. "delivery" = "channel" BY Zenon, <1>8, <1>9 DEF Once, InOnePlace
<1> QED BY Zenon, <1>10

LEMMA Tokens == TunnelSpec => []Once
BY Invariance, TokensInitially, TokenSteps, PTL DEF TunnelSpec

\* handleAgent never waits for a caller: an answer under an ID that no two requests share finds
\* the channel of its request empty, whether or not the caller is still there and however often
\* connections were lost and replaced in between (server.go, the one-element channel of SendRequest).
THEOREM DeliveryNeverBlocks == TunnelSpec => []DeliveryFindsRoom
BY Invariance, Tokens, RoomForAnswers, PTL
================================================================================
