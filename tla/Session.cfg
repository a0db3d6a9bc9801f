SPECIFICATION Spec
CONSTANTS
  Sessions = {s1}
  Submitted <- Everything
  Injected <- Hinted
  CallerEvents <- DrivingEvents
  AutoApprove = FALSE
  MaxRuns = 2
  MaxCalls = 2
  MaxLog = 5
  MaxTrace = 5
INVARIANTS
  TypeOK
  EffectsAreReferenced
  ConsumedWhole
  FailureIsNoticed
  CompleteTraceReplays
PROPERTY
  CallersDecide
CHECK_DEADLOCK FALSE
