\* Two clients and a stop() at any moment.
SPECIFICATION Spec
CONSTANTS
  Clients = {"c1", "c2"}
  Messages <- MCMessages
  MaxSent = 2
INVARIANTS
  LinesWhole
  CommandsInOrder
PROPERTIES
  EveryLineAnswered
  StopEndsUI
\* The thread may die with clients still connected.
CHECK_DEADLOCK FALSE
