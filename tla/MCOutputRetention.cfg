\* A session's pass and those of a storage optimize command, which may overlap and
\* stop anywhere: every pointer, policy, order of writing and set of files.
SPECIFICATION Spec
CONSTANTS
  Dirs = {1, 2, 3}
  Files = {model_state, rng_state}
  Saved = {1, 2}
  Passes = {session, optimize}
  NoDir = NoDir
SYMMETRY AnyOrder
INVARIANTS
  PointerKept
  StillResumable
  StagedFresh
PROPERTIES
  PolicyApplied
