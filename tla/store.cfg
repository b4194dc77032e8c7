CONSTANTS
  o1 = o1
  s1 = s1  s2 = s2
  w1 = w1  w2 = w2
  OpOf <- MCOpOf
  DependsOn <- MCNoDependencies
  NoWorker = NoWorker
  NoCheckpoint = "none"
  Ops = {o1}
  Steps = {s1, s2}
  HighRisk = {o1}
  StaleOutcomes = {"pending_approval", "queued_offline"}
  Workers = {w1, w2}
  Checkpoints = {"none"}
  LeaseDuration = 1
  MaxGeneration = 3
  MaxAttempts = 2
SYMMETRY MCSymmetry
SPECIFICATION Spec
INVARIANTS TypeOK OutcomeMatchesSteps OutboxMatchesResults ApprovalPrecedesDispatch AuditExplainsStatus
PROPERTIES TerminalStatesStick FencingMonotone
CHECK_DEADLOCK FALSE
