SPECIFICATION Spec
CONSTANTS
  Depth = 2
  DirName <- MCDirName
  PyprojectFiles <- MCPyprojectFiles
  LabFiles <- MCLabFiles
  Environments <- MCEnvironments
  Sources <- MCSources
  Blank = ""
  Outside = "outside"
  BadBoolean = BadBoolean
  DefaultPath = "runs"
  DefaultExecutable = "python"
  DefaultCache = "cache"
  NoSeed = "none"
  NoParams = "none"
  MaxConfigEdits = 1
  MaxDocEdits = 1
  a = a
  b = b
  one = one
  two = two
  null = null
  NoParent = NoParent
  Refused = Refused
  BadName = BadName
  notes = notes
  ideas = ideas
  Logs = {notes, ideas}
  Notes = notes
  Ideas = ideas
  ReadingOrder <- MCReadingOrder
  Runs = {run}
  Writers = {add1, add2}
  Searches = {search1}
  Newline = newline
  MaxEntries = 2
  MaxCleans = 1
  Callers = {call1, call2}
  Readers = {reader1}
  Rows <- MCRows
  Tables <- MCTables
  NoRow = NoRow
  Hole = Hole
  MaxTables = 2
  MaxLosses = 1
SYMMETRY Symmetry
INVARIANTS
  SettingsAreNearest
  DocumentsAreExact
  JournalIsExact
  RowsAreWhole
