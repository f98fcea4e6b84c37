------------------------ MODULE MCPublishCoordinator ------------------------
(* PublishCoordinator on small instances. *)
EXTENDS PublishCoordinator, TLC

Symmetry == Permutations(Publishers) \cup Permutations(Branches) \cup Permutations(Targets)
=============================================================================
