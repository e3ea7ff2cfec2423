SPECIFICATION Spec
CONSTANTS
  e1 = e1  e2 = e2  alice = alice  root = root  k1 = k1  k2 = k2  r1 = r1  r2 = r2
  None = None  Absent = Absent  Partial = Partial
  Env = {e1}
  User = {alice}
  Role <- AliceRole
  Key = {k1}
  Rev = {r1}
  TTL = 1
  MaxTTL = 2
  WarmTarget = 1
  MaxPreviews = 2
  ConfirmTTL = 1
  ExpiryWarning = 1
  CleanupRetry = 1
  Minutes = {1}
  Warm = {TRUE}
  MaxConfs = 0
  MaxDelivered = 1
  MaxOps = 3
  MaxUserOps = 2
  MaxGen = 2
  OrphansSurvive = TRUE
  MaxNow = 2
  MaxStops = 1
INVARIANTS
  StoreInv
  PendingNoticesAreCurrent
PROPERTIES
  GenerationIsVersion
  HistoryIsFinal
