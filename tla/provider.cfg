CONSTANTS
  first = first  differing = differing  removal = removal  again = again
  t1 = t1  a = a  b = b  v1 = v1  v2 = v2
  Requests = {first, differing, removal, again}
  ExecutionOf <- MCExecutionOf
  Tenants = {t1}
  Steps = {a, b}
  Images = {v1, v2}
  maxCASAttempts = 2
  MaxRevision = 4
SPECIFICATION Spec
INVARIANTS ProviderTypeOK DeployedAsRequested
PROPERTIES FenceSpec TombstoneStays
CHECK_DEADLOCK FALSE
