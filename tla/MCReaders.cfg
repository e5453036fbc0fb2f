\* Two terminals, two sources, one change at any time; or two commands over three runs.
SPECIFICATION MCSpec
CONSTANTS
  Commands = {c1, c2}
  Files <- MCFiles
  Plain = {plain}
  Needing = {needing}
  Failing = {}
  Exiting = {exiting}
  Absent = Absent
  NoCache = NoCache
  MaxEdits = 1
  a = a
  b = b
  Unset = Unset
  Runs = {1, 2, 3}
  Labs <- MCLabs
  UnitSeconds <- MCUnitSeconds
  Scanners = {"c1", "c2"}
  MaxTime = 2
  MaxWrites = 2
  Width = 8
SYMMETRY Terminals
INVARIANTS
  CacheIsFresh
  ScansAreSound
  RemovedAsAsked
PROPERTIES
  ReturnsFresh
  StrictSkipsNothing
