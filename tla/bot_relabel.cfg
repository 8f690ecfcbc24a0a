SPECIFICATION Spec
CONSTANTS
  Issues = {i1}
  Touched = {i1}
  MaxInFlight = 1
  Outcomes = {"failed"}
  Ceiling = 1
  MaxRows = 2
  MaxAsks = 1
  MaxMishaps = 0
PROPERTY RelabelNeverSpends
CHECK_DEADLOCK FALSE
