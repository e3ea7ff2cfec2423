SPECIFICATION SceneSpec
CONSTANTS
  Scenes = {"create", "manage", "delete", "queue", "form", "talk", "ship", "tour"}
  p1 = p1 p2 = p2 a1 = a1 a2 = a2 m1 = m1 m2 = m2 w1 = w1 w2 = w2 ann = ann ben = ben
  bedrock = bedrock vertex = vertex dev = dev
  None = None
  Payload = {p1, p2}
  MaxKeys = 3
  MaxGen = 3
  MaxFetches = 2
  MaxFaults = 1
  Theirs = {a1, a2}
  Reviewed = {a2}
  Mine = {m1, m2}
  Wish = {w1, w2}
  Denied = {w2}
  MaxAttempts = 3
  MaxAsks = 2
  MaxLosses = 1
  Person = {ann, ben}
  Provider = {bedrock, vertex}
  Target = {dev}
  MaxChats = 3
  MaxSaid = 2
  MaxEditions = 2
  MaxOutages = 1
INVARIANTS
  OneCreationPerForm
  ReportedIsWhatWasAsked
  ReportedDecisionHolds
  AnswersStay
PROPERTIES
  NoticeIsShown
  NeverOlder
CHECK_DEADLOCK FALSE
