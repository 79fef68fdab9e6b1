SPECIFICATION Spec
CONSTANTS
  MaxInt = 3
  MaxDecimal = 9
  DiagnosticLimit = 2
  MaximumBytes = 2
  Name = {"a", "b", "c", "l", "f.em", "g.em", "g.txt"}
  Markup = {"f.em", "g.em"}
  Contents = {"in a", "in b", "in c", "large", "no markup"}
  Class = {"x", "y"}
  Property = {"color", "margin"}
  Value = {"own", "first", "second", "third", "0", "1", "red", "blue"}
  Bundle = {"one", "two", "none"}
  Source = {"a", "b", "m", "n"}
INVARIANTS
  ExpressionsEvaluate
  SyntaxAsWritten
  StylesCascade
  PositionsAgree
  PathsAgree
