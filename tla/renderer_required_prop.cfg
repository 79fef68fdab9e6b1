SPECIFICATION Spec
CONSTANTS
  item = item
  itemKey = itemKey
  title = title
  tone = tone
  size = size
  who = who
  list = list
  dict = dict
  flag = flag
  missing = missing
  a = a
  b = b
  key = key
  yes = yes
  no = no
  empty = empty
  pair = pair
  object = object
  Null = Null
  Card = Card
  Wrap = Wrap
  Undefined = Undefined
  Default = Default
  Side = Side
  Style = Style
  Invalid = Invalid
  Broken = Broken
  Unset = Unset
  None = None
  Name <- MCName
  Component = {Card, Wrap, Undefined}
  Slot = {Default, Side}
  Block <- MCBlock
  Value <- MCValue
  Truthy = {a, b, key, yes, pair, object}
  Emittable = {a, b, key, yes, no}
  Text = {a, b, key}
  Unresolvable = {key}
  Elements <- MCElements
  KeyName <- MCKeyName
  Warnings = {0}
  Programs <- InheritingDocuments
  MaxExpansionDepth = 2
  MaxLoopIterations = 5
  MaxHtmlBytes = 5
  MaxDiagnostics = 3
  MayCancel = FALSE
INVARIANT RequiredPropDemanded
CHECK_DEADLOCK FALSE
