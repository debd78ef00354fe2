CONSTANTS
  a1 = a1
  a2 = a2
  r1 = r1
  page = page
  toys = toys
  Nil = Nil
  Admins = {a1, a2}
  Requests = {r1}
  Rules <- MCRules
  Crud <- MCCrud
  Batches <- MCBatches
  Targets <- MCTargets
  MaxOps = 3
  Methods = {"POST", "PUT"}
SPECIFICATION FairSpec
CHECK_DEADLOCK FALSE
INVARIANTS
  TypeOK
  IndexIsPosition
  OwnState
  LiveRuleUsesOwnState
PROPERTIES
  ImplementsRuleLog
  RequestsEnd
