SPECIFICATION Spec
CONSTANTS
  Value = {v1, v2}
  NoConfig = NoConfig
  Halfwords = 3
  MaxSeq = 8
  MaxWrites = 5
INVARIANTS
  TypeOK
  NewestIsSafe
  CopiesOrdered
PROPERTIES
  NeverLosesConfig
  StoreSpec
