\* Two runs and a storage optimize command that begins again and again, any of the runs
\* dying at any moment; or two calls that may fail anywhere and two evictions, at any
\* time, that may stop.
SPECIFICATION MCSpec
CONSTANTS
  r1 = r1
  r2 = r2
  train = train
  Runs = {r1, r2}
  Names = {train}
  Name <- OneExperiment
  Commands = {k1}
  Keep = 1
  Kinds = {"promoted", "staged"}
  Stops = TRUE
  Calls = {c1, c2}
  Evictors = {e1, e2}
  Files = {weights, vocabulary}
  Marker = Marker
  NoCall = NoCall
INVARIANTS
  RecentKept
PROPERTIES
  ReturnsComplete
  RemovalsEnd
