SPECIFICATION Spec
CONSTANTS
  Callers = {c1, c2}
  Sessions = {s1}
  NoSession = NoSession
  Runtimes = {"mock", "openai"}
  Budgets = {1, 2}
  NoEntry = NoEntry
  MaxCalls = 3
  MaxRestarts = 1
  Backups = {b1}
  Versions = {v1, v2}
  Portions = {h1, h2}
  Hole = Hole
  Readers = {d1}
  NoReading = NoReading
  MaxSaves = 2
  MaxDamage = 2
  MaxVaultDeaths = 1
  Operators = {o1, o2}
  Cards = {k1, k2}
  NoCard = NoCard
  MaxMessages = 1
  MaxDecisions = 2
  MaxCardDeaths = 1
  ReviewRuns = {r1, r2}
  Reviewing = {p1}
  Diffs <- SomeDiffs
  NoArtifact = NoArtifact
  MaxFacts = 1
  MaxArtifacts = 2
  MaxReviewDeaths = 1
  Goals <- SomeGoals
  Encounters <- SomeEncounters
  Limits = {1, 3}
  Nothing = Nothing
  MaxAttempts = 2
  MaxCrashes = 1
  Processes = {p, q}
  Contents <- SomeContents
  SkillNames = {"build"}
  Values = {"terse"}
  SkillContent <- SkillSays
  ProfileContent <- ProfileSays
  NoValue = NoValue
  MaxCommands = 4
  MaxMemoryDeaths = 1
  Packs <- SomePacks
  Requests <- SomeRequests
  NoRuling = NoRuling
  Paths = {"f", "g"}
  PatchLines = {"a", "b", "c", "n", "x", "y", "z"}
  Trees <- SomeTrees
  Patches <- SomePatches
  NoFile = NoFile
  MaxPatches = 2
  MaxDeaths = 1
  Profiles <- SomeProfiles
  Tasks <- SomeTasks
  Triggers <- SomeTriggers
  Handlings <- SomeHandlings
  Supplies <- SomeSupplies
  MaxPlans = 1
INVARIANTS
  TypeOK
  SpendBounded
  PlansRestOnWhole
  DecisionsStand
  MergedWasSound
  DeliveredWasTested
  EndsDecided
  SettledDiskAgrees
  CheckpointIsLogged
  TornAppendsLoseOne
  IndexAgrees
  PatchedAsReported
  PlansFitEvidence
  RoutedIsAdvice
PROPERTIES
  DisabledStaysDisabled
  PacksOnlyTighten
CHECK_DEADLOCK FALSE
