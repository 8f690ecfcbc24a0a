SPECIFICATION FairSpec
CONSTANTS
  Runs = {r1, r2, r3}
  Calls = {event, timer}
  Timer = timer
  NoRun = NoRun
  Cap = 1
  MaxReturns = 2
  MaxCrashes = 1
INVARIANTS TypeOK PromotionsRespectCap
PROPERTIES PromotionIsFifo DropIsFinal QueueDrains
CHECK_DEADLOCK FALSE
