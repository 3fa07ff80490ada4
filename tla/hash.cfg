SPECIFICATION Spec
CONSTANTS
  Ptrs <- FourPtrs
  Nil = Nil
  Dummy = Dummy
  InitSize = 11
  maxRehash = 1
  Shl <- ShlIn12
  MaxCapacity = 60
INVARIANTS TypeOK Findable MovesAll
PROPERTY ImplementsLossySet
