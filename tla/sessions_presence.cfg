CONSTANTS
  ann = ann
  bob = bob
  eve = eve
  root = root
  guest = guest
  other = other
  Users = {ann, bob, eve}
  Admins = {root}
  Logins = {guest}
  Pending = 2
  Edits = 1
  Deficit = 1
  Scenarios <- CountedRequests
  Tables <- CountedTables
SPECIFICATION Spec
INVARIANTS
  TypeOK
PROPERTIES
  ImplementsPresence
  DisconnectIsFinal
SYMMETRY Symmetry
CHECK_DEADLOCK FALSE
