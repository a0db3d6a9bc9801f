SPECIFICATION FairSoloSpec
CONSTANTS
  Procs = {p1}
  Clients = {}
  Specs <- Hinted
  Evidence = {}
  MaxOutcomes = 0
  MaxApprovals = 1
INVARIANTS
  HintsDoNotOverrideFailures
CHECK_DEADLOCK FALSE
