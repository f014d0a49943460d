\* One source with three threads, and merged tokens of one and of two sources; two callbacks, so
\* that the list is non-empty while one runs.
SPECIFICATION MCSpec
CONSTANTS
  t1 = t1
  t2 = t2
  t3 = t3
  c1 = c1
  c2 = c2
  s1 = s1
  s2 = s2
  m1 = m1
  Threads <- MCThreads
  Callbacks <- MCCallbacks
  Sources <- MCSources
  Merged <- MCMerged
  Unforeseen = {}
INVARIANTS
  AliveWhileUsed
  NoneMissed
PROPERTIES
  QuietOnceDestroyed
  EveryCallReturns
\* Every token, source and callback may be gone.
CHECK_DEADLOCK FALSE
