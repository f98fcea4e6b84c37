SPECIFICATION AssetSpec
CONSTANTS
  Hashes = {h1,h2}
  Updates = {u1, u2}
  Publishers = {p1}
  Collectors = {c1}
  ChunkSize = 1
SYMMETRY Symmetric
INVARIANT StoredUpdateHasObjects
CHECK_DEADLOCK FALSE
