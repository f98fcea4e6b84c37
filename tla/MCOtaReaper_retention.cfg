SPECIFICATION Spec
CONSTANTS
  NoUpdate = NoUpdate
  Ids = {1,2,3,4}
  Branches = {b1}
  Targets = {t1,t2}
  Percentages = {50,100}
  Cutoff = 4
  PageSize = 2
  ChunkSize = 1
  BaseWindow = 1
  Kinds <- MCKinds
SYMMETRY Symmetric
INVARIANT TypeOK GroupsGoWhole
PROPERTY ReapingIsInvisible ReapingKeepsBases
CHECK_DEADLOCK FALSE
