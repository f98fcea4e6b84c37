SPECIFICATION FairSpec
CONSTANTS
  NoTime = NoTime
  Publishers = {p1, p2}
  Branches = {main}
  Targets = {ios}
  Ids = {1, 2}
  MaxTime = 2
  CommitTimes = {NoTime, 1, 2}
  Baselines = {TRUE, FALSE}
  PublishPercentages = {100}
  EditPercentages = {50}
  MaxBatch = 1

INVARIANTS
  TypeOK
  EmbeddedSlotFree
PROPERTIES
  AcceptedPrecomputedIsNewest
  AtomicPublishing
  EveryRequestAnswered
CHECK_DEADLOCK FALSE
