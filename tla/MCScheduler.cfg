CONSTANTS
  N = 3
  None = None
  RetryLimit = 2
  TaskMems = {1}
  TaskDisks = {0, 1}
  Readings <- SmallReadings
  Quanta = 4
  MaxLoad = 8
  powerCost <- LiebPower
SPECIFICATION FairSpec
INVARIANTS TypeOK LeftOutForCause PickIsNotOutranked TurnsAreEven
PROPERTIES ImplementsSelection EveryCallAnswered
