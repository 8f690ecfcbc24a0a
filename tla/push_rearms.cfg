SPECIFICATION Spec
CONSTANTS
  Events = {e1}
  Workflows = {fix, ciFix}
  MaxAttempts = 2
  MaxCost = 3
  MaxHeads = 3
  fix = fix
  ciFix = ciFix
  Requests <- MCRequests
  Outcomes <- MCOutcomes
  MaxRows = 4
  MaxAsks = 0
  MaxMishaps = 0
INVARIANT PushRearms
CHECK_DEADLOCK FALSE
