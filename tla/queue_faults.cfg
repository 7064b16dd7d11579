SPECIFICATION Spec
CONSTANTS
  u1 = u1
  u2 = u2
  u3 = u3
  k1 = k1
  k2 = k2
  Users = {u1, u2}
  Keys = {k1, k2}
  KeyOf <- MCKeyOf
  Types = {"download"}
  AccountLimit <- NoAccountLimit
  TotalChoices <- OneOrTwoSlots
  Faults = {"leave", "disconnect","write","login","settings"}
INVARIANTS TypeOK SlotsCounted WaitingIsBlocked
PROPERTY ImplementsSlots
CHECK_DEADLOCK FALSE
SYMMETRY Sym
