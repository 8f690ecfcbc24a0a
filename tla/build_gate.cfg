SPECIFICATION FairSpec
CONSTANTS
  Issues = {i1, i2}
  Touched = {i1}
  MaxInFlight = 2
  Outcomes = {"failed"}
  Ceiling = 1
  MaxRows = 2
  MaxAsks = 1
  MaxMishaps = 1
INVARIANTS TypeOK CeilingHolds NeverDropped
PROPERTY PickedUp
CHECK_DEADLOCK FALSE
