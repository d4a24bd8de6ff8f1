\* An observation, and another after it: cores, processes and pipes.
SPECIFICATION Spec
CONSTANTS
  NCpu = 12
  Interfaces <- MCInterfaces
  Pipelines <- MCBands
  BandOrder <- MCBands
  Masks <- MCMasks
  Busy = {0, 1, 2, 5, 6, 7, 8, 13}
  Followed <- MCFollowed
  MaxLaunches = 2
  MaxLines = 2
INVARIANTS
  ThreadsPlaced
  LocalFirst
PROPERTIES
  LaunchReturns
  FailureReported
  ReportsShown
\* A launch that fails ends the thread or keeps it for ever.
CHECK_DEADLOCK FALSE
