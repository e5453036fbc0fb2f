\* A sweep while an artifact is promoted.
SPECIFICATION Spec
CONSTANTS
  weights = weights
  optimizer = optimizer
  Blobs = {weights, optimizer}
  Objects <- AllObjects
  Versions = {v1}
  Aliases = {a1}
  Runs = {}
  Promoters = {p1}
  Sweepers = {s1}
  NoVersion = NoVersion
  NoAlias = NoAlias
  NoBlob = NoBlob
  NoOne = NoOne
  NoJob = NoJob
  v1 = v1
  a1 = a1
  Events <- SomeEvents
  MaxBegun = 2
  MaxStops = 0
INVARIANTS
  NeededStays
\* The processes end.
CHECK_DEADLOCK FALSE
