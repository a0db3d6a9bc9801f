SPECIFICATION Spec
CONSTANTS
  Sessions = {s1}
  Submitted <- Looks
  Injected <- Hinted
  CallerEvents <- DrivingEvents
  AutoApprove = FALSE
  MaxRuns = 1
  MaxCalls = 1
  MaxLog = 4
  MaxTrace = 6
INVARIANTS
  ReplayReconstructs
CHECK_DEADLOCK FALSE
