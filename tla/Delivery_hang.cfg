CONSTANTS
  Deliveries <- MCDocumented
  Lateness = {0, 2}
  Second = 10
  MaxClock = 12
SPECIFICATION Spec
CHECK_DEADLOCK FALSE
INVARIANT HangsAfterBytes
