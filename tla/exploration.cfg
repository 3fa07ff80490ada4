SPECIFICATION Spec
CONSTANTS
  x = x
  y = y
  z = z
  d = d
  GcObjs <- Containers
  CStubs <- Dict
  BlockSize = 2
  MaxBlocks = 2
SYMMETRY Symm
INVARIANTS TypeOK StackTracksObjects NothingLeftUnexplored
PROPERTIES NoEntryIsLost
CHECK_DEADLOCK FALSE
