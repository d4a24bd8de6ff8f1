\* A short capture over a network that does all a network can do.
SPECIFICATION Spec
CONSTANTS
  PacketsToRead = 4
  ForceStart = TRUE
  ForcePeriod = 1
  RingSize = 2
  Network = {"lose", "duplicate", "reorder", "stray"}
  MaxFrame = 5
  MaxResets = 2
  MaxInFlight = 3
INVARIANTS
  TypeOK
  Aligned
  CountsAreTrue
PROPERTY
  ImplementsStream
\* The capture ends, and so may the packets.
CHECK_DEADLOCK FALSE
