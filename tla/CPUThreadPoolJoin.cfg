\* A pool of one thread, which may be about to ask whether to stop when join() is called.
SPECIFICATION Spec
CONSTANTS
  Tasks = {t1}
  Threads = {k1}
  Sizes = {1}
  MaxResizes = 0
  Unforeseen = {"asking at join"}
INVARIANT JoinRunsAll
CHECK_DEADLOCK FALSE
