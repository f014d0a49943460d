\* A SemiFuture made by collect() from two others; and a wait() on three nested futures; and a
\* chain of three cores with two threads that raise.
SPECIFICATION MCSpec
CONSTANTS
  root = root
  left = left
  right = right
  Execs <- MCExecs
  Root = root
  Nested <- MCNested
  MaxAdds = 2
  f1 = f1
  f2 = f2
  f3 = f3
  f4 = f4
  Funcs <- MCFuncs
  Final = f4
  NCores = 3
  Raisers = {r1, r2}
INVARIANTS
  RunAtMostOnce
  MembersExclusive
  NothingDropped
  DeletedOnTime
  
  HandledExactlyOnce
  LivesAsNeeded
PROPERTIES
  EveryFunctionSettles
  WaitReturns
\* The calls come to an end; wait() returns and its executor is deleted; every core is gone.
CHECK_DEADLOCK FALSE
