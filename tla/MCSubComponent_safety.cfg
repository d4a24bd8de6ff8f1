\* A thread whose handlers and loop may raise and whose handle_exception
\* re-raises (every component but Ringbuffer), under two callers.
SPECIFICATION Spec
CONSTANTS
  Callers = {c1, c2}
  Methods <- MCMethods
  FollowUp <- MCFollowUp
  None = None
  Raising = {"cleanup"}
  LoopRaises = TRUE
  Survives = FALSE
  MaxPuts = 4
INVARIANTS
  TypeOK
  NoLostWakeup
  StopDrains
  FollowUpsDrained
PROPERTIES
  WaitCoversCalls
  ImplementsMailbox
\* The worker ends and callers may wait on it for ever.
CHECK_DEADLOCK FALSE
