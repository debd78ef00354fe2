CONSTANTS
  Deliveries <- MCDeliveries
  Lateness = {0, 2}
  Second = 10
  MaxClock = 30
SPECIFICATION FairSpec
CHECK_DEADLOCK FALSE
INVARIANTS
  TypeOK
  PaceKept
  SentInTime
  EndsComplete
  DroppedAtNextWake
  SpreadOverDuration
PROPERTIES
  HangHolds
  StreamEnds
