SPECIFICATION Spec
CONSTANTS
  e = e
  a = a
  b = b
  c = c
  x = x
  y = y
  Path = {e, a, b}
  Name = {x, y}
  Entry = e
  Unresolved = Unresolved
  Unquoted = Unquoted
  EntryCall = EntryCall
  NoText = NoText
  None = None
  Text <- SmallTexts
  Requests <- SmallRequests
  MaxIncludes = 5
  MaxIncludeDepth = 5
  MaxAstNodes = 100
  MaxDiagnostics = 1
  MayCancel = FALSE
INVARIANT CyclesAreErrors
