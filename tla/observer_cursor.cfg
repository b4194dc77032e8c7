CONSTANTS
  n1 = n1  n2 = n2  k1 = k1  k2 = k2  t1 = t1  t2 = t2  c1 = c1  c2 = c2
  create1 = create1  delete1 = delete1  delete2 = delete2  b1 = b1
  Targets = {t1, t2}
  Observed = t1
  Nodes = {n1, n2}
  Classes = {k1, k2}
  BoundClass = k1
  BindingInputs <- MCBindingInputs
  NoClass = NoClass
  Unchanged = Unchanged
  NoCursor = NoCursor
  MaxSequence = 3
  MaxGeneration = 2
  MaxRuns = 2
  MaxCalls = 2
  Callers = {c1, c2}
  Keys = {create1, delete1, delete2}
  CreateKeys = {create1}
  Batches = {b1}
  ChildKey <- MCChildKey
  StaleOutcome = "require_approval"
  NoOperation = NoOperation
  NoBatch = NoBatch
  MaxVersion = 3
SYMMETRY MCSymmetry
SPECIFICATION MCSpec
PROPERTIES CursorNeverGoesBack
CHECK_DEADLOCK FALSE
