SPECIFICATION Spec
CONSTANTS
  None = None
  Profile <- Stacks
  Refusable <- PolicyNames
  Outages <- PodLosses
  MaxMishaps = 1
INVARIANTS
  FlowsAreTheMatrix
PROPERTIES
  NothingRefused
  StackComesUp
CHECK_DEADLOCK FALSE
