SPECIFICATION SharedSpec
CONSTANTS
  Procs = {p1, p2}
  Clients = {c1}
  Specs <- SharedSpecs
  Evidence = {}
  MaxOutcomes = 1
  MaxApprovals = 2
INVARIANTS
  EffectsWithinBudget
  RunsOnlyAsApproved
SYMMETRY AnyProcess
CHECK_DEADLOCK FALSE
