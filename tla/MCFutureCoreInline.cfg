\* One proxy: the consumer attaches its continuation before or after setProxy.
SPECIFICATION Spec
CONSTANT NCores = 2
INVARIANT InlineHonoured
CHECK_DEADLOCK FALSE
