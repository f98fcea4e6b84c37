SPECIFICATION ManagementSpec
CONSTANTS
  b1 = b1  b2 = b2  b3 = b3
  k1 = k1  k2 = k2
  s1 = s1  s2 = s2
  v1 = v1  v2 = v2
  NoTest = NoTest  NeverMatch = NeverMatch  NoMapping = NoMapping
  NoClient = NoClient  NoBranch = NoBranch  NoRow = NoRow
  Unborn = Unborn  Deleted = Deleted  Idle = Idle
  Branches = {b1, b2, b3}
  Channels = {c1}
  Requests = {r1, r2}
  Clients = {k1, k2}
  Runtimes = {v1, v2}
  Salts = {s1, s2}
  Full = 2
  Operands = {1}
  Fraction <- MCFraction
  StoredRows <- MCStoredRows
  EnvRequests = {r1, r2}
  Keys = {k}
  BuiltinEnvironments = {}
  CustomEnvironments = {qa, dev}
  MaxVars = 2
  ImportPage = 1
  ImportConcurrency = 1
  HistoryCap = 1
  MaxMinted = 5
  Submitters = {submit1}
  SubmissionIds = {r1, r2}
  NoSubmission = nosubmission
  MaxCalls = 2
SYMMETRY Symmetric
INVARIANTS
  ComponentsTyped
  RoutesAreKnown RolloutHangsTogether RoutedBranchesExist
  ExportComplete EnvironmentsKnown HistoryBounded
  OutcomeTruthful
PROPERTIES
  PercentageMovesOnlyItsDevices
  EndStands
CHECK_DEADLOCK FALSE
