SPECIFICATION FairSpec
CONSTANTS
  r1 = r1  r2 = r2  ann = ann  ben = ben  bot = bot
  None = None
  Request = {r1}
  User = {ben}
  Bot = bot
  Threshold = 2
  Elsewhere = {"approved", "denied"}
  Lifetime = 1
  MaxNow = 3
  Policy <- AskAll
  Approvers <- Everybody
  Fallback = {ben}
  Requester <- Nobody
  Caller = {"chat"}
  StateFile = TRUE
  Approvals = {"setstate", "review"}
  Sources = {"watch", "poll"}
  ApiFails = {"watch", "poll"}
  PendingAfter = 1
  ResolvedAfter = 1
  MaxMishaps = 2
INVARIANTS
  ReviewAskedOnce
PROPERTIES
  PendingIsTakenUp
  DecisionIsRecorded
