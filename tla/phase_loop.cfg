SPECIFICATION FairSpec
CONSTANTS
  Loops <- MCLoops
  MaxRounds = 2
  Repliers = {u1, u2}
  MaxCrashes = 1
  MaxReopenings = 1
INVARIANTS TypeOK NeverYields FixIsApproved ApprovalNotInvented AnswersKept CutShort
PROPERTIES KeepsContract Settles
CHECK_DEADLOCK FALSE
