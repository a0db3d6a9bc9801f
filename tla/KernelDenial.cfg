SPECIFICATION FairSoloSpec
CONSTANTS
  Procs = {p1}
  Clients = {}
  Specs <- Denials
  Evidence = {}
  MaxOutcomes = 0
  MaxApprovals = 1
INVARIANTS
  PolicyDenialHaltsBlocked
CHECK_DEADLOCK FALSE
