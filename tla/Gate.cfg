CONSTANTS
  Clients = {c1, c2, c3, c4}
  ConnMax = 2
  Overs = {"reply", "block", "blockWithTimeout"}
  Shapes = {"default", "stream", "hang"}
SPECIFICATION FairSpec
INVARIANTS
  TypeOK
  PermitsConserved
  QueueExact
PROPERTIES
  RefusedOnlyWhenFull
  ImplementsConnLimit
  TimedWaitsEnd
  WaitersServed
