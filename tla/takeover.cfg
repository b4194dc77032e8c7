CONSTANTS
  o1 = o1
  s1 = s1  s2 = s2
  w1 = w1  w2 = w2
  OpOf <- MCOpOf
  DependsOn <- MCNoDependencies
  NoWorker = NoWorker
  NoCheckpoint = "none"
  Ops = {o1}
  Steps = {s1}
  HighRisk = {}
  StaleOutcomes = {}
  Workers = {w1, w2}
  Checkpoints = {"none"}
  LeaseDuration = 1
  MaxGeneration = 3
  MaxAttempts = 1
  MaxRetries = 1
  MaxDeliveries = 2
  MaxCopies = 1
  Malformed = {}
  RelayedKinds = {"step-requested"}
SYMMETRY MCWorkerSymmetry
SPECIFICATION ExecSpec
INVARIANTS ExecTypeOK NoCommandLost CommittedWriteStands
CHECK_DEADLOCK FALSE
