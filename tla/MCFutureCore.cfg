\* Three cores: two proxies can be chained in front of a result.
SPECIFICATION FairSpec
CONSTANT NCores = 3
INVARIANTS
  FreedOnTime
  InvokedOnceWithResult
  InlineOnlyIfPermitted
PROPERTY ContinuationSettles
\* The system stops once every core is deleted.
CHECK_DEADLOCK FALSE
