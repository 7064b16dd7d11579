CONSTANTS
  s1 = s1
  s2 = s2
  d1 = d1
  d2 = d2
  e1 = e1
  Senders = {s1, s2}
  Sessions = {d1, d2}
  Editors = {e1}
  Sends = 2
  Limit = 1
  Crashes = 1
  Unreliable = {d1}
SPECIFICATION Spec
INVARIANTS
  AssertionHolds
CHECK_DEADLOCK FALSE
