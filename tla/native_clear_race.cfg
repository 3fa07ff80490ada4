SPECIFICATION Spec
CONSTANTS
  a = a
  b = b
  c = c
  n = n
  Null = Null
  Objs <- Four
  Pool <- PoolABC
  Slots <- ThreeSlots
  Stubs <- StubA
  Clearable <- ClearableBN
  WeakTargets <- WeakB
  ExtTargets <- ExtAB
  MaxExt = 1
INVARIANTS CountsUndisturbed
CHECK_DEADLOCK FALSE
