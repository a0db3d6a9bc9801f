SPECIFICATION Spec
CONSTANTS
  Procs = {p1, p2}
  Tasks = {t1, t2}
  CodeTasks = {t1}
  LockSets <- Whole
  RoleSets <- SomeRoles
  Nothing = Nothing
  MaxWorktrees = 1
  MaxReviews = 1
  MaxOverlaps = 1
  MaxCrashes = 1
SYMMETRY InterchangeableProcs
INVARIANTS
  TypeOK
  LinksResolve
  CleanedIsGone
  ApprovedWasVerified
  ReviewedWasPlanned
CHECK_DEADLOCK FALSE
