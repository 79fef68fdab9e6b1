SPECIFICATION FairSpec
CONSTANTS
  d1 = d1
  d2 = d2
  data = data
  Doc = {d1, d2}
  Data = {data}
  Compiles <- SomeCompile
  None = None
  MaxVersion = 2
  MaxRequests = 3
INVARIANTS
  TypeOK
  QuietMeansCurrent
PROPERTIES
  UpdatesAreCurrent
  ImagesPerPreview
  Settles
CHECK_DEADLOCK FALSE
