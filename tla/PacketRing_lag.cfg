\* Four slots, and packets for two laps and a half.
SPECIFICATION Spec
CONSTANTS
  N = 4
  MaxPackets = 10
INVARIANTS
  TypeOK
  LagTells
  OverrunsCountLosses
PROPERTY
  FillerReceived
\* The packets end.
CHECK_DEADLOCK FALSE
