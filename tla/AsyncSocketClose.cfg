\* close() may also be called from a writeErr() that shutdownWriteNow() sends while writes remain.
SPECIFICATION FairSpec
CONSTANTS
  Writes = {w1, w2}
  Readers = {r1, r2}
  Connectors = {c1, c2}
  MaxCalls = 5
  Unforeseen = {"close in writeErr"}
PROPERTY CloseCompletes
\* The socket may be closed, and the user's calls used up.
CHECK_DEADLOCK FALSE
