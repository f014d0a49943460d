\* Two tasks, up to two threads, and resizes by which a pool can be emptied and filled again; four
\* threads are enough for those that have stopped and are not joined yet.
SPECIFICATION FairSpec
CONSTANTS
  Tasks = {t1, t2}
  Threads = {k1, k2, k3, k4}
  Sizes = {0, 1, 2}
  MaxResizes = 1
  Unforeseen = {}
INVARIANTS
  CountsAgree
  JoinRunsAll
PROPERTIES
  EveryTaskRuns
  CallsReturn
\* The pool may have been joined, or have nothing to do.
CHECK_DEADLOCK FALSE
