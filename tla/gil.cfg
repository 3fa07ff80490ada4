SPECIFICATION Spec
CONSTANTS
  j = j
  k = k
  n = n
  s1 = s1
  s2 = s2
  s3 = s3
  Null = Null
  Threads <- ThreeThreads
  Natives <- OnlyN
  States <- ThreeStates
  MaxDepth = 3
INVARIANTS TypeOK OneThreadInNative OwnStateCurrent NoFatalSwap CountersExact StatesKeptAlive
PROPERTY ImplementsOwnedLock
CONSTRAINT UntilLost
VIEW StillRead
SYMMETRY JKSym
CHECK_DEADLOCK FALSE
