SPECIFICATION FaultySpec
CONSTANTS
  e = e
  a = a
  b = b
  c = c
  x = x
  y = y
  Path = {e, a, b, c}
  Name = {x, y}
  Entry = e
  Unresolved = Unresolved
  Unquoted = Unquoted
  EntryCall = EntryCall
  NoText = NoText
  None = None
  Text <- FaultyTexts
  Requests <- FaultyRequests
  MaxIncludes = 2
  MaxIncludeDepth = 1
  MaxAstNodes = 4
  MaxDiagnostics = 2
  MayCancel = TRUE
INVARIANTS
  WithinLimits
  CleanMeansComplete
 
