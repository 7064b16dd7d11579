CONSTANTS
  a = a
  b = b
  c = c
  p = p
  Users = {a, b, c}
  Private = {p}
  Present = {a, b}
  Scenarios <- MemberScenarios
SPECIFICATION Spec
INVARIANTS
  TypeOK
  StatusIsKnown
  NobodyMissed
  LeaversAreForgotten
  EmptyIsDropped
CHECK_DEADLOCK FALSE
VIEW View
