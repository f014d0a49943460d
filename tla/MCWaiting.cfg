\* 8 turns, 2 channels, deltas saturating at 2; the sequencer starts at any turn, and turns wrap
\* around.  Three threads that may post the Baton: one can still be inside the post of an earlier
\* lifetime, or about to send its wake, in each of the next two.
SPECIFICATION MCSpec
CONSTANTS
  t1 = t1
  t2 = t2
  u = u
  Owners <- MCOwners
  Timed <- MCTimed
  Modulus = 8
  Channels = 2
  DeltaMax = 2
  Posters = {p1, p2, p3}
INVARIANTS
  TurnExclusive
  NoLostWakeup
  DestroySafe
PROPERTIES
  TurnComes
  HandoffRefined
  PostEndsWait
