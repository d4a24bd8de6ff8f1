\* The same thread under fair scheduling: what must eventually happen.
SPECIFICATION FairSpec
CONSTANTS
  Callers = {c1, c2}
  Methods <- MCMethods
  FollowUp <- MCFollowUp
  None = None
  Raising = {"cleanup"}
  LoopRaises = FALSE
  Survives = TRUE
  MaxPuts = 3
PROPERTIES
  EveryCallServed
  StopEndsThread
  WaitReturns
\* The worker ends and callers may wait on it for ever.
CHECK_DEADLOCK FALSE
