\* One run, inspected, frozen, or of rlab exec beside another job.
SPECIFICATION MCSpec
CONSTANTS
  Runs = {r1}
  Jobs = {r1, j1}
  Metrics = {loss, accuracy}
  MaxLines = 1
INVARIANTS
  StatusIsTold
  EndedIsBacked
  InspectionIsBacked
  RecordsAreWhole
PROPERTIES
  EndedIsFrozen
  ClosingCallEnds
  LedgerSpec
