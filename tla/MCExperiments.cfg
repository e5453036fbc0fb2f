\* Studies of at most three jobs are executed, larger plans only planned; or two shells
\* and two nested commands, at most three runs.
SPECIFICATION MCSpec
CONSTANTS
  v1 = v1
  v2 = v2
  v3 = v3
  s1 = s1
  s2 = s2
  s3 = s3
  Leaves = {v1, v2, v3}
  Fields = {"w"}
  MaxCount = 15
  NoSeed = NoSeed
  NoName = NoName
  NoSelector = NoSelector
  NoQualification = NoQualification
  DefaultSeed = s1
  Malformed = Malformed
  Blank = Blank
  Refused = Refused
  NoResults = NoResults
  Requests <- AllRequests
  Keep = 1
  MaxChildren = 3
  c1 = c1
  c2 = c2
  n1 = n1
  n2 = n2
  low = low
  high = high
  text = text
  last = last
  seven = seven
  gpt = gpt
  Commands = {c1, c2, n1, n2}
  Shells = {c1, c2}
  MaxDepth = 1
  MaxRuns = 3
  Pruning = TRUE
  None = None
  Split = "split"
  SplitText = SplitText
  Rejected = Rejected
  Unseeded = Unseeded
  Lines <- MCLines
  Calls <- MCCalls
  Projects <- MCProjects
  EqualsTexts = {text}
  RefOf <- MCRefOf
  Axes <- MCAxes
  Values = {low, high, text, last, seven, gpt, SplitText}
SYMMETRY NestedAlike
INVARIANTS
  ParentAccounts
  PlanIsExact
  ChildIsOwn
  ExitZeroAccounts
  ParamsReachChild
