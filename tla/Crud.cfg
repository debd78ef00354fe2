CONSTANTS
  Keys <- MCKeys
  Seeds <- MCSeeds
  Bodies <- MCBodies
  PatchBodies <- MCPatches
  Strategies = {"inc", "uuid"}
  Uuids <- MCUuids
  BaseDepth = 1
  Below = {1}
  Width = 3
  Builds = {TRUE, FALSE}
  MaxNamed = 3
SPECIFICATION Spec
CHECK_DEADLOCK FALSE
INVARIANTS
  TypeOK
  KeysMatchIds
PROPERTIES
  CreateAdds
  OrderKept
  ImplementsCollection
