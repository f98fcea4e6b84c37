SPECIFICATION ReleaseSpec
CONSTANTS
  NoUpdate = NoUpdate
  main = main
  Channels = {production}
  Branches = {main, beta}
  Ids = {1, 2, 3}
  SignedIds = {2, 3}
  Percentages = {0, 50, 100}
  FailureReports = {{}, {3}}
  SignatureModes = {TRUE, FALSE}
  Writers = {w1, w2}
  Requests = {r1}
  MaxVersion = 2
  MaxGeneration = 1
SYMMETRY Symmetry
INVARIANTS
  TypeOK
  CacheCoherent
  FillCoherent
  DeviceSafe
CHECK_DEADLOCK FALSE
