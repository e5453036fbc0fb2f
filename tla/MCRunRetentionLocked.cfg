\* Two runs of one experiment, none of which dies.
SPECIFICATION Spec
CONSTANTS
  r1 = r1
  r2 = r2
  train = train
  Runs = {r1, r2}
  Names = {train}
  Name <- OneExperiment
  Commands = {}
  Keep = 1
  Kinds = {"promoted"}
  Stops = FALSE
CHECK_DEADLOCK FALSE
PROPERTIES
  LockedPreserved
