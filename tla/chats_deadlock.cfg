CONSTANTS
  a = a
  b = b
  c = c
  p = p
  Users = {a, b}
  Private = {}
  Present = {a, b}
  Scenarios <- DeadlockScenarios
SPECIFICATION FairSpec
PROPERTIES
  RequestIsAnswered
CHECK_DEADLOCK FALSE
