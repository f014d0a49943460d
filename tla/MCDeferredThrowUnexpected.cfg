SPECIFICATION ThrowSpec
CONSTANTS
  root = root
  left = left
  right = right
  Execs <- MCExecs
  Root = root
  Nested <- MCNested
  MaxAdds = 1
INVARIANT UnexpectedUnmet
\* The calls come to an end, or terminate the program.
CHECK_DEADLOCK FALSE
