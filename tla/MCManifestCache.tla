--------------------------- MODULE MCManifestCache ---------------------------
(* Model-checking instance of ManifestCache: the bounds are in the .cfg files. *)
EXTENDS ManifestCache, TLC

Symmetry == Permutations(Writers) \cup Permutations(Requests)
=============================================================================
