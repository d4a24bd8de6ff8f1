\* A second observation, with nothing failing.
SPECIFICATION Spec
CONSTANTS
  BandOrder <- OneBand
  Sources = {s1, s2}
  NoSource = NoSource
  Faults = {}
  MaxCommands = 2
  MaxTicks = 1
  MaxQueue = 2
PROPERTY
  BuffersCreated
