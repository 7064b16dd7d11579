CONSTANTS
  ann = ann
  bob = bob
  eve = eve
  root = root
  guest = guest
  other = other
  Users = {ann, bob}
  Admins = {root}
  Logins = {guest, other}
  Pending = 2
  Edits = 1
  Deficit = 1
  Scenarios <- AdminRequests
  Tables <- AdminTables
SPECIFICATION FairSpec

  
PROPERTIES
  DisconnectedEnd
CHECK_DEADLOCK FALSE
