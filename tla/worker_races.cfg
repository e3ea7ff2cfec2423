SPECIFICATION Spec
CONSTANTS
  e1 = e1  e2 = e2  alice = alice  root = root  k1 = k1  k2 = k2  r1 = r1  r2 = r2
  None = None  Absent = Absent  Partial = Partial
  Env = {e1}
  User = {alice}
  Role <- AliceRole
  Key = {k1}
  Rev = {r1, r2}
  TTL = 1
  MaxTTL = 2
  WarmTarget = 1
  MaxPreviews = 2
  ConfirmTTL = 1
  ExpiryWarning = 1
  CleanupRetry = 1
  Minutes = {1}
  Warm = {FALSE}
  MaxConfs = 1
  MaxDelivered = 0
  MaxOps = 3
  MaxUserOps = 3
  MaxGen = 1
  OrphansSurvive = FALSE
  MaxNow = 1
  MaxStops = 1
INVARIANTS
  OneScriptPerEnvironment
  StatusIsTrue
PROPERTIES
  PromiseKept
