\* Two writers race for four tickets on a ring of two slots that one reader empties: every slot
\* is used twice, and full, empty and wrapped-around rings all occur.  The queue that grows has
\* three tickets for an array of one slot that is replaced by one of two.
SPECIFICATION MCSpec
CONSTANTS
  Writers = {w1, w2}
  Readers = {r1}
  Capacity = 2
  MinCapacity = 1
  MaxCapacity = 2
  Multiplier = 2
  MaxTickets = 4
  SizedTickets = 3
  DynamicTickets = 3
  Unforeseen = {}
INVARIANTS
  TicketsMatch
  SlotExclusive
  FailureLinearizes
  SizeLinearizes
  PromiseKept
SYMMETRY ThreadSymmetry
\* All tickets may be used up.
CHECK_DEADLOCK FALSE
