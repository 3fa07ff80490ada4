SPECIFICATION Spec
CONSTANTS
  x = x
  y = y
  z = z
  d = d
  GcObjs <- Containers
  CStubs <- NoStubs
  BlockSize = 2
  MaxBlocks = 2
SYMMETRY Symm
INVARIANTS PopsOnlyPushed
CHECK_DEADLOCK FALSE
