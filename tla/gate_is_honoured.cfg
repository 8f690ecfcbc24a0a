SPECIFICATION Spec
CONSTANTS
  Runs = {r1}
  Jobs = {j1}
  NoRun = NoRun
  NumPhases = 2
  Gated = {1}
  MaxResumes = 1
  MaxRestarts = 0
  MaxCrashes = 1
INVARIANT GateIsHonoured
