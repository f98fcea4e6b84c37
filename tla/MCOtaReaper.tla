----------------------------- MODULE MCOtaReaper -----------------------------
(***************************************************************************)
(* Model checking of OtaReaper: the two platforms of a group are alike.    *)
(***************************************************************************)
EXTENDS OtaReaper, TLC

\* What the CLI publishes: updates at any percentage, rollback directives and
\* embedded baselines to everyone.
MCKinds == {<<FALSE, TRUE, pct>> : pct \in Percentages}
             \cup {<<FALSE, FALSE, 100>>, <<TRUE, TRUE, 100>>}

Symmetric == Permutations(Branches) \cup Permutations(Targets)
=============================================================================
