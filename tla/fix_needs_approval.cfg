SPECIFICATION Spec
CONSTANTS
  Loops <- Reviewers
  MaxRounds = 2
  Repliers = {u1}
  MaxCrashes = 0
  MaxReopenings = 1
INVARIANT FixNeedsApproval
CHECK_DEADLOCK FALSE
