-------------------------- MODULE MCAssetCollection --------------------------
(***************************************************************************)
(* Model checking of AssetCollection: interchangeable actors and hashes.   *)
(***************************************************************************)
EXTENDS AssetCollection, TLC

Symmetric ==
  Permutations(Hashes) \cup Permutations(Updates)
    \cup Permutations(Publishers) \cup Permutations(Collectors)
=============================================================================
