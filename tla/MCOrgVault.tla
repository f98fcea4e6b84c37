------------------------------ MODULE MCOrgVault ------------------------------
(* One person who comes and goes, with two devices: the laptop is a recipient *)
(* of another organization's vault as well.  Rotations and grants are made by *)
(* administrators whose own keys play no part.                                *)
EXTENDS OrgVault, TLC

CONSTANTS alice

MCOwner == [d \in DeviceKeys |-> alice]
Interchangeable == Permutations(Sessions)
===============================================================================
