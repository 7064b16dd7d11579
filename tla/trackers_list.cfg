SPECIFICATION FairSpec
CONSTANTS
  s1 = s1
  Servers = {s1}
  Ciphers = {1, 2}
  Faults = {"refuse", "lose", "crash", "stop", "settings"}
  MaxCrashes = 1
  Width = 2
INVARIANTS TypeOK UpdatesAreUnderstood TotalIsListed
PROPERTIES ListedAgain SilentIsHidden
