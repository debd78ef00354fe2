CONSTANTS
  Keys <- MCKeys
  Seeds <- NumberedSeeds
  Bodies <- MCBodies
  PatchBodies <- MCPatches
  Strategies = {"inc"}
  Uuids <- MCUuids
  BaseDepth = 1
  Below = {1, 2}
  Width = 3
  Builds = {TRUE}
  MaxNamed = 3
SPECIFICATION Spec
CHECK_DEADLOCK FALSE
PROPERTY IsRestResource
