CONSTANTS
  Keys <- SevenKeys
  Rids <- SevenKeys
  NoRid = NoRid
  RidsOf <- OwnRecord
  Erasable <- SevenKeys
  T = 2
  FreeLimit = 1
  MaxPages = 12
SPECIFICATION Spec
VIEW Shape
INVARIANTS
  Balanced
  Occupancy
  Separated
  LeafChain
  ScansAgree
  PagesOwned
PROPERTIES
  ImplementsIndex
  PagesAccounted
