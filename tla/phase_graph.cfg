SPECIFICATION FairSpec
CONSTANTS
  NumPhases = 3
  Graphs <- MCGraphs
  Unledgered = {3}
  Marked = {2}
  Blockable = {1}
  MaxStarts = 2
INVARIANTS TypeOK DecisionsAreSound CompletedStaysDone GreenMeansDone
PROPERTY WalkReturns
CHECK_DEADLOCK FALSE
