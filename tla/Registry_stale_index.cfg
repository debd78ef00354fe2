CONSTANTS
  a1 = a1
  a2 = a2
  r1 = r1
  page = page
  toys = toys
  Nil = Nil
  Admins = {a1}
  Requests = {r1}
  Rules <- MCRules
  Crud <- MCCrud
  Batches <- MCNonEmptyBatches
  Targets <- MCTargets
  MaxOps = 2
  Methods = {"POST", "PUT"}
SPECIFICATION Spec
INVARIANT NeverForeignState
CHECK_DEADLOCK FALSE
