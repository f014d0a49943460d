\* Five calls: connecting, two writes, a reader and a close can come in any order and from any callback.
SPECIFICATION FairSpec
CONSTANTS
  Writes = {w1, w2}
  Readers = {r1, r2}
  Connectors = {c1, c2}
  MaxCalls = 5
  Unforeseen = {}
INVARIANTS
  
  ToldOnce
  WritesInOrder
  NothingForgotten
PROPERTY CloseCompletes
\* The socket may be closed, and the user's calls used up.
CHECK_DEADLOCK FALSE
