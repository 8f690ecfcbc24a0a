SPECIFICATION FairSpec
CONSTANTS
  Runs = {r1}
  Jobs = {j1, j2}
  NoRun = NoRun
  NumPhases = 2
  Gated = {1, 2}
  MaxResumes = 1
  MaxRestarts = 1
  MaxCrashes = 1
INVARIANTS TypeOK OpenGateHolds
PROPERTY RunningComesToRest
