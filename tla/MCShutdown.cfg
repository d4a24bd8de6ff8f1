\* SHUTDOWN or SIGINT at any moment of an observation or between two.
SPECIFICATION FairStoppingSpec
CONSTANTS
  BandOrder <- OneBand
  Sources = {s1}
  NoSource = NoSource
  Faults = {}
  MaxCommands = 1
  MaxTicks = 1
  MaxQueue = 2
INVARIANTS
  MemoryCleaned
  ProcessesEnded
  ShutdownShown
PROPERTY
  ShutdownEnds
\* The program ends, and may not if a start was under way.
CHECK_DEADLOCK FALSE
