SPECIFICATION FusionSpec
CONSTANTS
  Profiles <- SomeProfiles
  Tasks <- SomeTasks
  Triggers <- SomeTriggers
  Handlings <- SomeHandlings
  Supplies <- SomeSupplies
  MaxPlans = 1
INVARIANT
  EachIsDispatched
CHECK_DEADLOCK FALSE
