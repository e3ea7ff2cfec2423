SPECIFICATION Spec
CONSTANTS
  r1 = r1  r2 = r2  ann = ann  ben = ben  bot = bot
  None = None
  Request = {r1, r2}
  User = {ann, ben}
  Bot = bot
  Threshold = 1
  Elsewhere = {"approved", "denied"}
  Lifetime = 1
  MaxNow = 1
  Policy <- AutoOne
  Approvers <- Everybody
  Fallback = {}
  Requester <- Nobody
  Caller = {"chat"}
  StateFile = TRUE
  Approvals = {"setstate", "review"}
  Sources = {"watch", "poll"}
  ApiFails = {"watch", "poll"}
  PendingAfter = 1
  ResolvedAfter = 1
  MaxMishaps = 1
INVARIANTS
  DecisionsAreTrue
PROPERTIES
  PromiseKept
