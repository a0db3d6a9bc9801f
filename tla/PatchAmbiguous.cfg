SPECIFICATION PatchSpec
CONSTANTS
  Paths = {"f", "g"}
  PatchLines = {"a", "b", "c", "n", "x", "y", "z"}
  Trees <- SomeTrees
  Patches <- SomePatches
  NoFile = NoFile
  MaxPatches = 2
  MaxDeaths = 1
INVARIANT
  AmbiguousIsRefused
CHECK_DEADLOCK FALSE
