CONSTANTS
  s1 = s1  s2 = s2  a1 = a1  a2 = a2  f1 = f1  w2 = w2  t1 = t1  d1 = d1  d2 = d2  b1 = b1  b2 = b2
  k1 = k1  k2 = k2  c1 = c1  c2 = c2  y1 = y1  y2 = y2  p1 = p1  q1 = q1  p2 = p2  q2 = q2  x = x  y = y  g1 = g1
  u1 = u1  u2 = u2
  Requests = {a1, a2, f1, w2, t1, d1, d2, b1, b2}
  Services = {s1, s2}
  Pools = {p1, q1, p2, q2}
  Clusters = {x, y}
  NoPool = NoPool
  NoRequest = NoRequest
  ServiceOf <- MCServiceOf
  KindOf <- MCKindOf
  KeyOf <- MCKeyOf
  TargetPool <- MCTargetPool
  DRRequests = {d1, d2, b1, b2}
  AutoRequest <- MCAutoRequest
  PoolsOf <- MCPoolsOf
  ActivePool <- MCActivePool
  Priority <- MCPriority
  Members <- MCMembers
  RequireApproval = {s1}
  Users = {u1, u2}
  Controllers = {c1, c2}
  Domain = s1
  MaxDeliver = 2
  MaxCopies = 1
  Groups = {g1}
  Runs = {k1, k2}
  GroupOf <- MCGroupOf
  RequestFor <- MCRequestFor
  NoRun = NoRun
  Callers = {y1, y2}
  DataMember = DataMember
SPECIFICATION MCSpec
INVARIANT SucceededMeansSwitched
CHECK_DEADLOCK FALSE
