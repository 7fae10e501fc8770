CONSTANTS
  Keys <- ThirtyKeys
  Rids <- ThirtyKeys
  NoRid = NoRid
  RidsOf <- SomeChange
  Erasable <- Changing
  T = 2
  FreeLimit = 16
  MaxPages = 16
SPECIFICATION GrownSpec
VIEW Shape
INVARIANTS
  PathLeadsToNode
