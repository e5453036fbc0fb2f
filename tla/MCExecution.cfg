\* One run through the host with every fault of the runner and of the rlab process; or
\* two runs of three calls for workspaces in all, or one of three calls of any kind.
SPECIFICATION MCSpec
CONSTANTS
  Runs = {r1}
  Metrics = {loss, accuracy}
  MaxLines = 3
  RunnerFaults = {"print", "nan", "lost", "exit", "die"}
  HostFaults = TRUE
  Callers = {c1, c2}
  Sources = {s1}
  Files = {f1}
  Parts = {p1, p2}
  MaxCalls = 3
  None = None
INVARIANTS
  CompletedHasAllRecords
  CompletedIsEarned
  WorkspaceIsSound
  ResultIsHonest
  StoredIsOwn
PROPERTIES
  RaisedIsRecorded
  ContextCallsEnd
