SPECIFICATION Spec
CONSTANTS
  c1 = c1
  c2 = c2
  i1 = i1
  NoItem = NoItem
  Containers <- TwoContainers
  Items <- TwoItems
  OwnHeads <- OneHead
  Kinds <- Mixed
  MaxLen = 2
  MaxLinks = 3
CONSTRAINT Bounded
INVARIANTS TypeOK LinksAligned
PROPERTY ImplementsMirror
