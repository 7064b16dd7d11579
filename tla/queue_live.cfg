SPECIFICATION FairSpec
CONSTANTS
  u1 = u1
  u2 = u2
  u3 = u3
  k1 = k1
  k2 = k2
  Users = {u1, u3}
  Keys = {k1, k2}
  KeyOf <- MCKeyOf
  Types = {"download", "upload"}
  AccountLimit <- MCAccountLimit
  TotalChoices <- OneOrTwoSlots
  Faults = {"leave", "login", "settings"}
PROPERTY SlotIsGranted
