------------------------------- MODULE MCStored -------------------------------
(***************************************************************************)
(* Model checking of the components whose rows refer to objects in R2 and   *)
(* that share no state: assets, builds, signing credentials, patches. Each   *)
(* behaviour is one of one component; `part' says which, and the others     *)
(* stay where they start.                                                   *)
(***************************************************************************)
EXTENDS AssetCollection, Builds, Signing, Patches, TLC

CONSTANT MaxActors  \* publishers and collectors at once, while two assets are in play

VARIABLE part

storedVars == <<assetVars, buildVars, signingVars, patchVars, part>>

StoredInit ==
  /\ part \in {"assets", "builds", "signing", "serving", "sweeping"}
  /\ AssetInit /\ BuildInit /\ SigningInit /\ PatchInit
  /\ part # "signing" => /\ portal = [certs |-> {}, devices |-> {}]
                         /\ \A d \in Udids : roster[d] = "absent"

\* More actors than MaxActors meet over a single asset.
BusyActors ==
  {p \in Publishers : pub[p] # Idle} \cup {c \in Collectors : col[c] # Idle}
InPlay ==
  {h \in Hashes : \/ asset[h] # "none" \/ h \in object
                  \/ \E p \in Publishers : pub[p] # Idle /\ h \in pub[p].hashes}
ActorsBounded == Cardinality(BusyActors) <= MaxActors \/ Cardinality(InPlay) <= 1

StoredNext ==
  \/ /\ part = "assets" /\ AssetNext /\ ActorsBounded'
     /\ UNCHANGED <<part, buildVars, signingVars, patchVars>>
  \/ part = "builds" /\ BuildNext /\ UNCHANGED <<part, assetVars, signingVars, patchVars>>
  \/ part = "signing" /\ SigningNext /\ UNCHANGED <<part, assetVars, buildVars, patchVars>>
  \/ /\ \/ part = "serving" /\ (Patching \/ Serving)
        \/ part = "sweeping" /\ (Patching \/ Sweeping)
     /\ UNCHANGED <<part, assetVars, buildVars, signingVars>>

StoredSpec == StoredInit /\ [][StoredNext]_storedVars

\* The components share four pairs of model values, so that one small group of
\* permutations serves them all.
Symmetric ==
  Permutations(Hashes) \cup Permutations(Updates)
    \cup Permutations(Publishers) \cup Permutations(Collectors)

\* Every component keeps to its types.
ComponentsTyped == AssetTypeOK /\ BuildTypeOK /\ SigningTypeOK /\ PatchTypeOK
===============================================================================
