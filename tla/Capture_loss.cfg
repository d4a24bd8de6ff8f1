\* One packet lost while main() waits for the reset.
SPECIFICATION Spec
CONSTANTS
  PacketsToRead = 4
  ForceStart = FALSE
  ForcePeriod = 1
  RingSize = 2
  Network = {"lose"}
  MaxFrame = 5
  MaxResets = 0
  MaxInFlight = 2
INVARIANT
  LossIsReal
CHECK_DEADLOCK FALSE
