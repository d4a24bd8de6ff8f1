\* Nothing fails but the processes: what must eventually happen.
SPECIFICATION FairSpec
CONSTANTS
  BandOrder <- OneBand
  Sources = {s1, s2}
  NoSource = NoSource
  Faults = {"exit"}
  MaxCommands = 3
  MaxTicks = 1
  MaxQueue = 2
PROPERTIES
  StartTerminates
  AbortRecovers
  CompletedRecovers
