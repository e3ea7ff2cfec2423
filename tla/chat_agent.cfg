SPECIFICATION SceneSpec
CONSTANTS
  q1 = q1  q2 = q2  q3 = q3  q4 = q4  q5 = q5  l1 = l1  l2 = l2  l3 = l3  l4 = l4  n1 = n1  n2 = n2
  ann = ann  ben = ben  pa = pa  pb = pb  c1 = c1  c2 = c2  here = here  there = there
  t1 = t1  t2 = t2  bedrock = bedrock  vertex = vertex
  None = None
  Subject = {ann, ben}
  Configured = {ann, ben}
  Person = {pa, pb}
  Place = {here, there}
  Code = {c1, c2}
  CodeOf <- Codes
  Notice = {n1, n2}
  Owner <- Owners
  Batch = 2
  Message = {l1, l2, l3, l4, q1, q2, q3, q4, q5}
  Mail <- Mails
  Talk = {t1, t2}
  Provider = {bedrock, vertex}
  Providers = {bedrock, vertex}
  MaxActive = 2
  Dead = {there}
  Unlimited = {there}
  MaxMishaps = 1
INVARIANTS
  ActiveIsCount
  AskedAtMostOnce
  CodesLinkOnce
PROPERTIES
  SessionsGrow
  AcknowledgedWasTold
  MessagesAreHandled
  NoticesArePassedOn
CHECK_DEADLOCK FALSE
