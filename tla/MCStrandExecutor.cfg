\* Two executors, so that the strand moves between them, and two workers that could overlap.
SPECIFICATION FairSpec
CONSTANTS
  i1 = i1
  i2 = i2
  i3 = i3
  i4 = i4
  Items <- MCItems
  Executors = {e1, e2}
  Workers = {k1, k2}
  MaxBatch = 2
INVARIANTS
  OneOwner
  RunAsAdded
PROPERTY EveryItemRuns
\* All items may have run.
CHECK_DEADLOCK FALSE
