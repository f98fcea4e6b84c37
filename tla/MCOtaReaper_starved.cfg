SPECIFICATION Spec
CONSTANTS
  NoUpdate = NoUpdate
  Ids = {1,2,3,4}
  Branches = {b1}
  Targets = {t1,t2}
  Percentages = {100}
  Cutoff = 5
  PageSize = 1
  ChunkSize = 1
  BaseWindow = 1
  Kinds <- MCKinds
SYMMETRY Symmetric
PROPERTY NothingLeftBehind
CHECK_DEADLOCK FALSE
