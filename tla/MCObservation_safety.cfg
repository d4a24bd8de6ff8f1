\* Everything may fail: the users, the buffers, the handlers, the processes.
SPECIFICATION Spec
CONSTANTS
  BandOrder <- TwoBands
  Sources = {s1, s2}
  NoSource = NoSource
  Faults = {"buffer", "raise", "exit"}
  MaxCommands = 3
  MaxTicks = 1
  MaxQueue = 2
SYMMETRY SourceSymmetry
INVARIANTS
  TypeOK
  BuffersUnderCapture
  StateIsTrue
  SourceNamesCapture
\* The backend may wait for ever on a component whose thread has died.
CHECK_DEADLOCK FALSE
