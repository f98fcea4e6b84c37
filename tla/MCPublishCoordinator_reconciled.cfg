SPECIFICATION Spec
CONSTANTS
  NoTime = NoTime
  Publishers = {p1, p2}
  Branches = {main, beta}
  Targets = {ios}
  Ids = {1}
  MaxTime = 1
  CommitTimes = {NoTime}
  Baselines = {TRUE}
  PublishPercentages = {100}
  EditPercentages = {}
  MaxBatch = 0
SYMMETRY Symmetry
PROPERTIES
  ReplacesOwnTupleOnly
CHECK_DEADLOCK FALSE
