CONSTANTS
  o1 = o1
  s1 = s1  s2 = s2
  w1 = w1  w2 = w2
  OpOf <- MCOpOf
  DependsOn <- MCNoDependencies
  NoWorker = NoWorker
  NoCheckpoint = "none"
  Ops = {o1}
  Steps = {s1}
  HighRisk = {o1}
  StaleOutcomes = {"queued", "pending_approval", "queued_offline"}
  Workers = {w1}
  Checkpoints = {"none"}
  LeaseDuration = 1
  MaxGeneration = 3
  MaxAttempts = 1
SPECIFICATION Spec
INVARIANTS ApprovalPrecedesDispatch
CHECK_DEADLOCK FALSE
