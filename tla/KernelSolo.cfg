SPECIFICATION FairSoloSpec
CONSTANTS
  Procs = {p1}
  Clients = {c1}
  Specs <- SoloSpecs
  Evidence <- Scores
  MaxOutcomes = 1
  MaxApprovals = 3
INVARIANTS
  TypeOK
  InOrderAtMostOnce
  PendingNamesNext
  ReplayAgrees
  FailureStreakStops
  SuccessWasClaimed
PROPERTIES
  TerminalIsFinal
  Settles
  GovernedSpec
CHECK_DEADLOCK FALSE
