SPECIFICATION FairSpec
CONSTANTS
  a = a
  b = b
  link = link
  pageA = pageA
  pageB = pageB
  Source = {a, b, link}
  Listings <- Walks
  Output = {pageA, pageB}
  OutputOf <- Pages
  None = None
  MaxSaves = 1
  MaxRuns = 2
INVARIANTS
  TypeOK
  ZeroMeansCurrent
  ReportIsTrue
PROPERTIES
  WritesAreAtomic
  Finishes
CHECK_DEADLOCK FALSE
