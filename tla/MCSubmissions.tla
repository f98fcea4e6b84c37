---------------------------- MODULE MCSubmissions ----------------------------
(***************************************************************************)
(* Model checking of Submissions under its fairness.                       *)
(***************************************************************************)
EXTENDS Submissions
=============================================================================
