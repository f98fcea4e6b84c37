SPECIFICATION Spec
CONSTANTS
  NoUpdate = NoUpdate
  Channels = {production}
  Branches = {main}
  Ids = {1, 2}
  SignedIds = {}
  Percentages = {100}
  FailureReports = {{}}
  SignatureModes = {FALSE}
  Writers = {w1}
  Requests = {r1}
  MaxVersion = 2
  MaxGeneration = 0
SYMMETRY Symmetry
INVARIANTS
  StaleNeverMatched
CHECK_DEADLOCK FALSE
