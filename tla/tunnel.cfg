CONSTANTS
  k1 = k1  k2 = k2  a1 = a1  a2 = a2  a3 = a3  q1 = q1  q2 = q2  i1 = i1
  Clusters = {k1, k2}
  Agents = {a1, a2, a3}
  ClusterOf <- MCClusterOf
  Requests = {q1, q2}
  IDs = {i1, i2}
  None = None
  Greeting = Greeting
  MaxDials = 4
  MaxFaults = 1
SPECIFICATION MCSpec
INVARIANTS TunnelTypeOK LiveConnectionsRoutable AnswersOwnRequest DeliveryFindsRoom
PROPERTIES RequestsReturn AgentReconnects LostConnectionsEnd
CHECK_DEADLOCK FALSE
