CONSTANTS
  o1 = o1
  s1 = s1  s2 = s2
  w1 = w1  w2 = w2
  OpOf <- MCOpOf
  DependsOn <- MCNoDependencies
  NoWorker = NoWorker
  NoCheckpoint = "none"
  Ops = {o1}
  Steps = {s1}
  HighRisk = {o1}
  StaleOutcomes = {}
  Workers = {w1}
  Checkpoints = {"none"}
  LeaseDuration = 1
  MaxGeneration = 4
  MaxAttempts = 1
  MaxRetries = 0
  MaxDeliveries = 1
  MaxCopies = 2
  Malformed = {}
  RelayedKinds = {"step-requested"}
SPECIFICATION ExecSpec
INVARIANTS CommittedWriteStands
CHECK_DEADLOCK FALSE
