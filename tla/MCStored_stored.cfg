SPECIFICATION StoredSpec
CONSTANTS
  Hashes = {a1, a2}
  Updates = {b1, b2}
  Publishers = {c1, c2}
  Collectors = {d1, d2}
  ChunkSize = 1
  MaxActors = 2
  Uploads = {upload1}
  BuildIds = {a1, a2}
  NoBuild = nobuild
  MaxAttempts = 3
  Signers = {a1, a2}
  Projects = {project}
  Certs = {b1, b2}
  CertLimit = 1
  Uploaded = {c1, c2}
  Udids = {d1, d2}
  MaxEdits = 1
  NoCert = nocert
  NoProfile = noprofile
  Ids = {a1, a2, update3}
  BaseWindow = 1
  NoId = noid
SYMMETRY Symmetric
INVARIANTS
  ComponentsTyped
  ReadyHasObject SurvivorKeepsAsset NoAssetLeaks
  ListedArtifactStored ObjectsAccounted
  ProfileStored BuildCoversRoster LiveCertificateHasKey
  BodySuitsDevice
PROPERTIES
  SweepSparesUsable
CHECK_DEADLOCK FALSE
