----------------------------- MODULE AgentTunnel -----------------------------
(***************************************************************************)
(* The tunnel through which the platform reaches clusters it cannot dial:  *)
(* cluster-agent keeps a websocket to the tunnel server open, and the      *)
(* proxy handler of apiserver sends requests down that socket and waits    *)
(* for the answers.                                                        *)
(*                                                                         *)
(* Every connection has its own goroutine (handleAgent) at the server, and *)
(* every proxied request its own (SendRequest); the agent proxies each     *)
(* request in a goroutine (handleRequest) that answers on whatever         *)
(* connection the agent has by then.  A connection is a number, given in   *)
(* the order the server accepts them.  What is under way when a socket     *)
(* goes down is lost: a frame that still arrives is one read earlier.      *)
(*                                                                         *)
(* Heartbeats are left out: they change the time and the node count shown  *)
(* for an agent and nothing else, and a failed one ends the connection as  *)
(* a failed read does.                                                     *)
(***************************************************************************)
EXTENDS Naturals, Sequences, FiniteSets

CONSTANTS
  Clusters,   \* cluster IDs
  Agents,     \* agent processes
  ClusterOf,  \* the cluster each agent is configured for
  Requests,   \* calls of the proxy handler
  IDs,        \* request IDs
  None,       \* no connection, no request, no answer
  Greeting,   \* the MsgRegister frame
  MaxDials,   \* bound on accepted connections
  MaxFaults   \* bound on lost connections, expired tokens and agent restarts

Conns == 1..MaxDials

ASSUME TunnelAssumption ==
  /\ ClusterOf \in [Agents -> Clusters]
  /\ None \notin Requests \cup {Greeting} /\ Greeting \notin Requests
  /\ None \notin Nat \cup Clusters
  /\ MaxDials \in Nat /\ MaxFaults \in Nat

VARIABLES
  registry,  \* AgentRegistry.agents
  handler,   \* where the handleAgent goroutine of a connection is
  serves,    \* the cluster a connection was accepted for
  delivery,  \* the answer handleAgent is about to send, and the request waiting for it
  closed,    \* connections whose `closed' channel is closed
  alive,     \* connections whose socket is up
  down,      \* frames under way to the agent
  up,        \* answers under way to the server, each named by its request
  pending,   \* AgentConnection.pending, per connection: request ID -> channel
  channel,   \* the answer in a request's channel, which holds one
  request,   \* the SendRequest goroutine of a call
  agent,     \* the main loop of an agent: its step and AgentClient.conn
  working,   \* requests an agent is proxying to its Kubernetes API
  dials,     \* connections accepted so far
  faults     \* faults so far

serverVars == <<registry, handler, serves, delivery, closed>>
requestVars == <<pending, channel, request>>
agentVars == <<agent, working, dials>>
vars == <<serverVars, alive, down, up, requestVars, agentVars, faults>>

NewRequest == [pc |-> "new", id |-> None, target |-> None, conn |-> None, answer |-> None]
NoDelivery == [answer |-> None, to |-> None]

\* Some agents run and the others do not.
TunnelInit ==
  /\ registry = [k \in Clusters |-> None]
  /\ handler = [c \in Conns |-> "idle"]
  /\ serves = [c \in Conns |-> None]
  /\ delivery = [c \in Conns |-> NoDelivery]
  /\ closed = {} /\ alive = {}
  /\ down = [c \in Conns |-> <<>>] /\ up = [c \in Conns |-> <<>>]
  /\ pending = [c \in Conns |-> [i \in IDs |-> None]]
  /\ channel = [q \in Requests |-> None]
  /\ request = [q \in Requests |-> NewRequest]
  /\ agent \in [Agents -> [pc : {"absent", "backoff"}, conn : {None}]]
  /\ working = [a \in Agents |-> {}]
  /\ dials = 0 /\ faults = 0

------------------------------------------------------------------------------
(* The server's side of a connection. *)

\* The frame reaches the wire if the socket is up; an error is dropped here.
SendMessage(c, frame) ==
  down' = IF c \in alive THEN [down EXCEPT ![c] = Append(@, frame)] ELSE down

\* The socket of c goes down, with what is under way on it.
HangUp(c) ==
  /\ alive' = alive \ {c}
  /\ down' = [d \in Conns |-> IF d = c THEN <<>> ELSE down[d]]
  /\ up' = [d \in Conns |-> IF d = c THEN <<>> ELSE up[d]]

\* The replaced connection is told, its socket is left open.
ReplaceQuietly(c) ==
  /\ registry' = [registry EXCEPT ![serves[c]] = c]
  /\ closed' = closed \cup ({registry[serves[c]]} \ {None})
  /\ UNCHANGED <<alive, down, up>>

\* Replaces the connection the cluster has and closes that one; the expiry timer
\* of the new one starts.
RegisterConnection(c) ==
  LET existing == registry[serves[c]]
  IN /\ registry' = [registry EXCEPT ![serves[c]] = c]
     /\ closed' = closed \cup ({existing} \ {None})
     /\ HangUp(existing)

Register(c) ==
  /\ handler[c] = "starting"
  /\ RegisterConnection(c)
  /\ handler' = [handler EXCEPT ![c] = "greeting"]
  /\ UNCHANGED <<serves, delivery, requestVars, agentVars, faults>>

Greet(c) ==
  /\ handler[c] = "greeting"
  /\ SendMessage(c, Greeting)
  /\ handler' = [handler EXCEPT ![c] = "reading"]
  /\ UNCHANGED <<registry, serves, delivery, closed, alive, up, requestVars, agentVars, faults>>

\* One table of pending requests for all connections.
LookupAnywhere(c, q) ==
  LET waiting == {d \in Conns : pending[d][request[q].id] # None}
  IN IF waiting = {} THEN None ELSE pending[CHOOSE d \in waiting : TRUE][request[q].id]

\* The channel that waits, on this connection, for an answer under the ID of q.
Lookup(c, q) == pending[c][request[q].id]

\* An answer is read; one that nobody waits for is dropped.
ReadMessage(c) ==
  /\ handler[c] = "reading" /\ c \notin closed /\ up[c] # <<>>
  /\ up' = [up EXCEPT ![c] = Tail(@)]
  /\ LET to == Lookup(c, Head(up[c]))
     IN IF to = None
        THEN UNCHANGED <<handler, delivery>>
        ELSE /\ delivery' = [delivery EXCEPT ![c] = [answer |-> Head(up[c]), to |-> to]]
             /\ handler' = [handler EXCEPT ![c] = "delivering"]
  /\ UNCHANGED <<registry, serves, closed, alive, down, requestVars, agentVars, faults>>

\* An unbuffered channel: only a request that is still waiting takes the answer.
DeliverUnbuffered(c) ==
  /\ handler[c] = "delivering"
  /\ request[delivery[c].to].pc = "waiting"
  /\ channel[delivery[c].to] = None
  /\ channel' = [channel EXCEPT ![delivery[c].to] = delivery[c].answer]
  /\ delivery' = [delivery EXCEPT ![c] = NoDelivery]
  /\ handler' = [handler EXCEPT ![c] = "reading"]
  /\ UNCHANGED <<registry, serves, closed, alive, down, up, pending, request, agentVars, faults>>

\* The answer goes into the request's channel, which has room for one; with the
\* channel full the goroutine waits.
DeliverResponse(c) ==
  /\ handler[c] = "delivering"
  /\ channel[delivery[c].to] = None
  /\ channel' = [channel EXCEPT ![delivery[c].to] = delivery[c].answer]
  /\ delivery' = [delivery EXCEPT ![c] = NoDelivery]
  /\ handler' = [handler EXCEPT ![c] = "reading"]
  /\ UNCHANGED <<registry, serves, closed, alive, down, up, pending, request, agentVars, faults>>

ReadError(c) ==
  /\ handler[c] = "reading" /\ c \notin alive
  /\ handler' = [handler EXCEPT ![c] = "leaving"]
  /\ UNCHANGED <<registry, serves, delivery, closed, alive, down, up, requestVars, agentVars, faults>>

\* Takes out whatever connection the cluster has.
RemoveWhatever(c) ==
  /\ registry' = [registry EXCEPT ![serves[c]] = None]
  /\ closed' = closed \cup {c}

\* Only the connection that is still registered is taken out.
RemoveConnection(c) ==
  IF registry[serves[c]] = c
  THEN /\ registry' = [registry EXCEPT ![serves[c]] = None]
       /\ closed' = closed \cup {c}
  ELSE UNCHANGED <<registry, closed>>

Unregister(c) ==
  /\ handler[c] = "leaving"
  /\ RemoveConnection(c)
  /\ HangUp(c)
  /\ handler' = [handler EXCEPT ![c] = "done"]
  /\ UNCHANGED <<serves, delivery, requestVars, agentVars, faults>>

\* The timer runs from registration until handleAgent returns.
CloseExpired(c) ==
  /\ handler[c] \in {"greeting", "reading", "delivering"} /\ c \notin closed
  /\ faults < MaxFaults /\ faults' = faults + 1
  /\ closed' = closed \cup {c}
  /\ HangUp(c)
  /\ UNCHANGED <<registry, handler, serves, delivery, requestVars, agentVars>>

------------------------------------------------------------------------------
(* A proxied request. *)

Step(q, pc) == request' = [request EXCEPT ![q].pc = pc]
Answered(q, answer) == request' = [request EXCEPT ![q].pc = "leaving", ![q].answer = answer]

\* The request ID is the caller's, or new.  The connection is the one the registry
\* holds at this moment; a second request under a pending ID is refused.
ProxyRequest(q, id, k) ==
  LET c == registry[k]
      free == c # None /\ pending[c][id] = None
  IN /\ request[q].pc = "new"
     /\ request' = [request EXCEPT ![q] =
          [pc |-> IF free THEN "noted" ELSE "done", id |-> id, target |-> k, conn |-> c, answer |-> None]]
     /\ pending' = IF free THEN [pending EXCEPT ![c][id] = q] ELSE pending
     /\ UNCHANGED <<serverVars, alive, down, up, channel, agentVars, faults>>

\* A write to a closed connection fails; one to a lost socket may go unnoticed.
SendRequest(q) ==
  LET c == request[q].conn
  IN /\ request[q].pc = "noted"
     /\ SendMessage(c, q)
     /\ \/ c \notin closed /\ Step(q, "waiting")
        \/ c \notin alive /\ Step(q, "leaving")
     /\ UNCHANGED <<serverVars, alive, up, pending, channel, agentVars, faults>>

TakeResponse(q) == channel[q] # None /\ Answered(q, channel[q])
SeeClosed(q) == request[q].conn \in closed /\ Answered(q, None)
NeverTimeOut(q) == FALSE
TimeOut(q) == Answered(q, None)

\* The select of SendRequest: any case that is ready.
Await(q) ==
  /\ request[q].pc = "waiting"
  /\ TakeResponse(q) \/ SeeClosed(q) \/ TimeOut(q)
  /\ UNCHANGED <<serverVars, alive, down, up, pending, channel, agentVars, faults>>

Leave(q) ==
  /\ request[q].pc = "leaving"
  /\ pending' = [pending EXCEPT ![request[q].conn][request[q].id] = None]
  /\ Step(q, "done")
  /\ UNCHANGED <<serverVars, alive, down, up, channel, agentVars, faults>>

------------------------------------------------------------------------------
(* The agent. *)

At(a, pc, c) == agent' = [agent EXCEPT ![a] = [pc |-> pc, conn |-> c]]

\* Connect dials and ServeHTTP accepts: the goroutine of the connection is
\* started.  A refused dial changes nothing.
Connect(a) ==
  /\ agent[a].pc = "backoff" /\ dials < MaxDials
  /\ LET c == dials + 1
     IN /\ dials' = c
        /\ handler' = [handler EXCEPT ![c] = "starting"]
        /\ serves' = [serves EXCEPT ![c] = ClusterOf[a]]
        /\ alive' = alive \cup {c}
        /\ At(a, "joining", c)
  /\ UNCHANGED <<registry, delivery, closed, down, up, requestVars, working, faults>>

\* Connect takes the first frame only if it is the greeting, and otherwise closes
\* the connection.
ReadGreeting(a) ==
  LET c == agent[a].conn
  IN /\ agent[a].pc = "joining" /\ down[c] # <<>>
     /\ IF Head(down[c]) = Greeting
        THEN /\ At(a, "serving", c)
             /\ down' = [down EXCEPT ![c] = Tail(@)]
             /\ UNCHANGED <<alive, up>>
        ELSE At(a, "backoff", None) /\ HangUp(c)
     /\ UNCHANGED <<serverVars, requestVars, working, dials, faults>>

\* handleRequest starts for every request frame.
ReadRequest(a) ==
  LET c == agent[a].conn
  IN /\ agent[a].pc = "serving" /\ down[c] # <<>>
     /\ down' = [down EXCEPT ![c] = Tail(@)]
     /\ working' = [working EXCEPT ![a] = @ \cup ({Head(down[c])} \ {Greeting})]
     /\ UNCHANGED <<serverVars, alive, up, requestVars, agent, dials, faults>>

\* The answer is sent, and may be sent again.
SendAgain(a, q) ==
  LET c == agent[a].conn
  IN /\ q \in working[a] /\ agent[a].pc # "joining"
     /\ up' = IF c \in alive THEN [up EXCEPT ![c] = Append(@, q)] ELSE up
     /\ UNCHANGED <<serverVars, alive, down, requestVars, agentVars, faults>>

\* handleRequest ends: SendResponse waits for a Connect under way, then writes to
\* the connection the agent has now, or gives up if it has none.
SendResponse(a, q) ==
  LET c == agent[a].conn
  IN /\ q \in working[a] /\ agent[a].pc # "joining"
     /\ working' = [working EXCEPT ![a] = @ \ {q}]
     /\ up' = IF c \in alive THEN [up EXCEPT ![c] = Append(@, q)] ELSE up
     /\ UNCHANGED <<serverVars, alive, down, requestVars, agent, dials, faults>>

\* Connect has no way out of its read.
DisconnectServing(a) ==
  /\ agent[a].pc = "serving" /\ agent[a].conn \notin alive
  /\ At(a, "backoff", None)
  /\ UNCHANGED <<serverVars, alive, down, up, requestVars, working, dials, faults>>

\* The socket is lost: the read, or the next heartbeat, fails and the main loop
\* goes back to dialling.
Disconnect(a) ==
  /\ agent[a].pc \in {"joining", "serving"} /\ agent[a].conn \notin alive
  /\ At(a, "backoff", None)
  /\ UNCHANGED <<serverVars, alive, down, up, requestVars, working, dials, faults>>

------------------------------------------------------------------------------
(* The environment. *)

Break(c) ==
  /\ c \in alive
  /\ faults < MaxFaults /\ faults' = faults + 1
  /\ HangUp(c)
  /\ UNCHANGED <<serverVars, requestVars, agentVars>>

\* The agent process ends and is started again.
Restart(a) ==
  /\ agent[a].pc # "absent"
  /\ faults < MaxFaults /\ faults' = faults + 1
  /\ HangUp(agent[a].conn)
  /\ working' = [working EXCEPT ![a] = {}]
  /\ At(a, "backoff", None)
  /\ UNCHANGED <<serverVars, requestVars, dials>>

------------------------------------------------------------------------------
handleAgent(c) ==
  Register(c) \/ Greet(c) \/ ReadMessage(c) \/ DeliverResponse(c) \/ ReadError(c) \/ Unregister(c)

Proxying(q) == SendRequest(q) \/ Await(q) \/ Leave(q)

connectAndServe(a) == Connect(a) \/ ReadGreeting(a) \/ ReadRequest(a) \/ Disconnect(a)

TunnelNext ==
  \/ \E c \in Conns : handleAgent(c) \/ CloseExpired(c) \/ Break(c)
  \/ \E q \in Requests : Proxying(q) \/ \E i \in IDs, k \in Clusters : ProxyRequest(q, i, k)
  \/ \E a \in Agents : connectAndServe(a) \/ Restart(a) \/ \E q \in Requests : SendResponse(a, q)

TunnelSpec == TunnelInit /\ [][TunnelNext]_vars

\* Goroutines are scheduled; the timer of a request fires; a lost socket is noticed
\* at both ends, by TCP keep-alive at the latest; a dial is accepted in the end.
TunnelFairness ==
  /\ \A c \in Conns : WF_vars(handleAgent(c))
  /\ \A q \in Requests : WF_vars(Proxying(q))
  /\ \A a \in Agents : WF_vars(connectAndServe(a))

------------------------------------------------------------------------------
Open == {"greeting", "reading", "delivering"}

Frames == Requests \cup {Greeting}

\* The state stays within its types, and a connection, an ID and an answer are
\* recorded exactly where the step of the goroutine says so.
TunnelTypeOK ==
  /\ registry \in [Clusters -> Conns \cup {None}]
  /\ handler \in [Conns -> Open \cup {"idle", "starting", "leaving", "done"}]
  /\ serves \in [Conns -> Clusters \cup {None}]
  /\ \A c \in Conns : /\ (handler[c] = "idle") <=> (serves[c] = None)
                      /\ (handler[c] = "delivering") <=> (delivery[c] # NoDelivery)
  /\ delivery \in [Conns -> [answer : Requests, to : Requests] \cup {NoDelivery}]
  /\ closed \subseteq Conns /\ alive \subseteq Conns \ closed
  /\ down \in [Conns -> Seq(Frames)] /\ up \in [Conns -> Seq(Requests)]
  /\ pending \in [Conns -> [IDs -> Requests \cup {None}]]
  /\ channel \in [Requests -> Requests \cup {None}]
  /\ request \in [Requests -> [pc : {"new", "noted", "waiting", "leaving", "done"},
                               id : IDs \cup {None}, target : Clusters \cup {None},
                               conn : Conns \cup {None}, answer : Requests \cup {None}]]
  /\ \A q \in Requests : request[q].pc \in {"noted", "waiting", "leaving"} =>
                           request[q].id \in IDs /\ request[q].conn \in Conns
  /\ agent \in [Agents -> [pc : {"absent", "backoff", "joining", "serving"}, conn : Conns \cup {None}]]
  /\ \A a \in Agents : (agent[a].conn # None) <=> (agent[a].pc \in {"joining", "serving"})
  /\ working \in [Agents -> SUBSET Requests]
  /\ dials \in 0..MaxDials /\ faults \in 0..MaxFaults

\* A connection that is being served is the one its cluster's requests are sent
\* to: the goroutine of an older connection that ends late does not take a newer
\* one out (Unregister compares with `expected'), and the registry holds no
\* connection whose goroutine has gone.
LiveConnectionsRoutable ==
  /\ \A c \in Conns : handler[c] \in Open /\ c \notin closed => registry[serves[c]] = c
  /\ \A k \in Clusters : registry[k] # None =>
       serves[registry[k]] = k /\ handler[registry[k]] \in Open \cup {"leaving"}

Shared(q) == \E p \in Requests \ {q} : request[p].id = request[q].id

\* What a caller gets is an answer of the cluster it asked, to a request under its
\* own ID, hence the answer to its very request when no other request has the ID:
\* not the late answer to a request that timed out, nor one that another cluster
\* gives under the same ID (SendRequest and DeliverResponse match per connection).
AnswersOwnRequest ==
  \A q \in Requests :
    LET answer == request[q].answer
    IN answer # None =>
         /\ request[answer].target = request[q].target
         /\ request[answer].id = request[q].id

\* The goroutine of a connection never waits for a caller: when it has an answer
\* for a request whose ID is not shared, the request's channel is empty, even if
\* the caller has left (the channel of SendRequest holds one answer).
DeliveryFindsRoom ==
  \A c \in Conns : handler[c] = "delivering" =>
    channel[delivery[c].to] = None \/ Shared(delivery[c].to)

\* Every proxied request returns to its caller, whatever becomes of the agent, the
\* socket and the answer (the select of SendRequest).
RequestsReturn ==
  \A q \in Requests : (request[q].pc = "noted") ~> (request[q].pc = "done")

\* No other agent process has the cluster of a.
Alone(a) == \A b \in Agents \ {a} : ClusterOf[b] = ClusterOf[a] => agent[b].pc = "absent"

\* A cluster's only agent is reachable again after every loss of its connection:
\* a request that overtakes the greeting, or the goroutine of an abandoned dial
\* that registers late, costs it a connection but not the cluster.
AgentReconnects ==
  \A a \in Agents :
    (agent[a].pc = "backoff" /\ Alone(a)) ~>
    (agent[a].pc = "serving" /\ registry[ClusterOf[a]] = agent[a].conn)

\* The goroutine of a lost connection ends, as long as no two requests share an ID.
LostConnectionsEnd ==
  \A c \in Conns : (handler[c] # "idle" /\ c \notin alive) ~>
                   (handler[c] = "done" \/ \E q \in Requests : request[q].id # None /\ Shared(q))
==============================================================================
