SPECIFICATION FairSpec
CONSTANTS
  s = s
  t = t
  u = u
  Token = {s, t, u}
  Definition <- MixedDefinitions
  Undefined = Undefined
INVARIANTS
  TypeOK
  OutputSound
  OrderIrrelevant
  CyclesDiagnosed
PROPERTY Terminates
