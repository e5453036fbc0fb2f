\* A callable that may leave through sys.exit(0).
SPECIFICATION HFairSpec
CONSTANTS
  Runs = {r1}
  Metrics = {loss}
  MaxLines = 1
  RunnerFaults = {"exit"}
  HostFaults = FALSE
INVARIANTS
  CompletedMeansReturned
