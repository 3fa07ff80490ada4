SPECIFICATION FairSpec
CONSTANTS
  s1 = s1
  s2 = s2
  s3 = s3
  c1 = c1
  d1 = d1
  Stubs <- TwoStubs
  Chores <- OneChore
  Delayed <- OneDelayed
  MaxGC = 3
  Orderly = TRUE
CHECK_DEADLOCK FALSE
PROPERTY GCSane
