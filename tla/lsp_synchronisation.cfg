SPECIFICATION FairSpec
CONSTANTS
  d1 = d1
  d2 = d2
  file = file
  x = x
  y = y
  Doc = {d1, d2}
  File = {file}
  Inputs <- BothRead
  Char = {x, y}
  Edits <- SomeEdits
  None = None
  MaxVersion = 3
  MaxRequests = 1
  MaxInbox = 2
  MaxOutbox = 1
  MaxDiskChanges = 1
INVARIANTS
  TypeOK
  StoreFollowsEditor
  DiagnosticsCurrent
  AnsweredOnce
PROPERTY RequestsAnswered
CHECK_DEADLOCK FALSE
