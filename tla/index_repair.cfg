CONSTANTS
  f = f
  g = g
  x = x
  h1 = h1
  h2 = h2
  i1 = i1
  i2 = i2
  Names <- Paths
  Handlers = {h1, h2}
  Indexers = {i1, i2}
  Trees <- FewTrees
  Scenarios <- FewEvents
SPECIFICATION FairSpec
INVARIANTS
  TypeOK
  FoundUnlessMissed
  WalkIsExact
PROPERTIES
  IndexIsRepaired
CHECK_DEADLOCK FALSE
