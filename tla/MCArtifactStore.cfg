\* A run, a promote command and two sweeps, all at the same time, three of their
\* operations in all and one process that may die.
SPECIFICATION FairSpec
CONSTANTS
  weights = weights
  optimizer = optimizer
  Blobs = {weights, optimizer}
  Objects <- AllObjects
  Versions = {v1}
  Aliases = {a1}
  Runs = {r1}
  Promoters = {p1}
  Sweepers = {s1, s2}
  NoVersion = NoVersion
  NoAlias = NoAlias
  NoBlob = NoBlob
  NoOne = NoOne
  NoJob = NoJob
  v1 = v1
  a1 = a1
  Events <- SomeEvents
  MaxBegun = 3
  MaxStops = 1
INVARIANTS
  NamesResolve
  RootsPresent
  RootsIntact
PROPERTIES
  SweepIsComplete
  SweepEnds
\* The processes end.
CHECK_DEADLOCK FALSE
