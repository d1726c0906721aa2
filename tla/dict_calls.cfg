SPECIFICATION FairDict
CONSTANTS
  Cell = {c1, c2, c3}
  Key = {k1, k2, k3}
  Val = {v1, v2}
  NoVal = NoVal
  NULL = NULL
  WILD = WILD
  Head <- MCAnyHead
INVARIANTS
  DictTypeOK
  ListIsWhole
  OnlyWildHeadCrashes
PROPERTIES
  ImplementsMap
  CallsReturn
