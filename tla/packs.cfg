SPECIFICATION MCSpec
CHECK_DEADLOCK FALSE
CONSTANTS
  Packs = {"p1", "p2"}
  Items = {i1, i2}
  Scens = {"s1", "s2"}
  Contents <- MCContents
  MaxUpdates = 3
  MaxEdits = 2
  MaxPacks = 2
SYMMETRY ItemSymmetry
INVARIANTS
  StoresAgree
  VerdictsAgree
PROPERTIES
  UnsubscribeSpares
  NothingOverwritten
