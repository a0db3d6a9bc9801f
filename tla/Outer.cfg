SPECIFICATION Spec
CONSTANTS
  Procs = {p1}
  Tasks = {t1, t2}
  CodeTasks = {t1, t2}
  LockSets <- Whole
  RoleSets <- SomeRoles
  Nothing = Nothing
  MaxWorktrees = 2
  MaxReviews = 1
  MaxOverlaps = 0
  MaxCrashes = 1
SYMMETRY Interchangeable
INVARIANTS
  LeasesExclusive
PROPERTIES
  BookSpec
CHECK_DEADLOCK FALSE
