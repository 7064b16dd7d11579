SPECIFICATION FairSpec
CONSTANTS
  u1 = u1
  u2 = u2
  u3 = u3
  k1 = k1
  k2 = k2
  Users = {u1, u2}
  Keys = {k1, k2}
  KeyOf <- MCKeyOf
  Types = {"download"}
  AccountLimit <- MCAccountLimit
  TotalChoices <- OneSlot
  Faults = {"leave", "disconnect"}
PROPERTY DisconnectEnds
CHECK_DEADLOCK FALSE
