SPECIFICATION Spec
CONSTANTS
  d1 = d1
  d2 = d2
  l1 = l1
  l2 = l2
  k1 = k1
  k2 = k2
  k3 = k3
  None = None
  Dicts <- TwoDicts
  Loops <- TwoLoops
  Keys <- ThreeKeys
PROPERTY LoopSeesAll
SYMMETRY Sym
