\* Passes that overlap or stop, with and without a pointer.
SPECIFICATION Spec
CONSTANTS
  Dirs = {1, 2}
  Files = {model_state, rng_state}
  Saved = {1, 2}
  Passes = {session, optimize}
  NoDir = NoDir
INVARIANTS
  AlwaysResumable
