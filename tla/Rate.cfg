CONSTANTS
  Threads = {t1, t2, t3}
  MaxRps = 2
  Window = 2
  MaxClock = 4
  MaxCalls = 5
SPECIFICATION Spec
CHECK_DEADLOCK FALSE
INVARIANTS
  TypeOK
  SlidingWindowInOrder
  OvershootBounded
