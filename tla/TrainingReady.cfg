SPECIFICATION TrainingSpec
CONSTANTS
  Goals <- SomeGoals
  Encounters <- SomeEncounters
  Limits = {1, 3}
  Nothing = Nothing
  MaxAttempts = 2
  MaxCrashes = 1
INVARIANT
  ReadyMeetsGates
CHECK_DEADLOCK FALSE
