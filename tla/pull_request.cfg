SPECIFICATION Spec
CONSTANTS
  Events = {e1, e2}
  Workflows = {fix, ciFix}
  MaxAttempts = 2
  MaxCost = 3
  MaxHeads = 2
  fix = fix
  ciFix = ciFix
  Requests <- MCRequests
  Outcomes <- MCOutcomes
  MaxRows = 4
  MaxAsks = 1
  MaxMishaps = 1
INVARIANTS TypeOK OneLiveRun SaidOnce EscalationBinds NeverOvercharged BudgetHolds
SYMMETRY Symmetry
CHECK_DEADLOCK FALSE
