SPECIFICATION Spec
CONSTANTS
  e = e
  a = a
  b = b
  c = c
  x = x
  y = y
  Path = {e, a, b}
  Name = {x, y}
  Entry = e
  Unresolved = Unresolved
  Unquoted = Unquoted
  EntryCall = EntryCall
  NoText = NoText
  None = None
  Text <- GraphTexts
  Requests <- GraphRequests
  MaxIncludes = 5
  MaxIncludeDepth = 5
  MaxAstNodes = 100
  MaxDiagnostics = 3
  MayCancel = FALSE
INVARIANTS
  TypeOK
  OnceEach
  IncluderOverrides
  CollisionsWarned
  EntryOverrides
PROPERTY RefinesIncludeOrder
