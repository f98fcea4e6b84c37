---------------------------- MODULE UpdateRows ----------------------------
(***************************************************************************)
(* The rows of the updates table as the server's queries see them, and the *)
(* per-update rollout decision taken over them.                            *)
(*                                                                         *)
(* A row set always holds the rows of ONE (branch, platform,               *)
(* runtimeVersion) tuple: every query of the code filters by the three.    *)
(* Rows are ordered by (created_at, id); only that order matters, so a     *)
(* row's field `id' is its rank in it.  Percentages are 0 (reverted), 100  *)
(* (fully rolled out) or anything between (an active rollout).             *)
(***************************************************************************)
EXTENDS Integers

CONSTANT NoUpdate       \* "no row": the server answers 204 No Content

NoneNewer(u, S) == \A v \in S : v.id <= u.id

\* ORDER BY created_at DESC, id DESC LIMIT 1
Newest(S) == CHOOSE u \in S : NoneNewer(u, S)

\* ORDER BY created_at DESC, id DESC LIMIT 2: a row that is the newest, or
\* the newest of the others.
Candidates(S) ==
  {u \in S : NoneNewer(u, S) \/ NoneNewer(u, S \ {Newest(S)})}

FullyRolledOut(S) == {u \in S : u.pct = 100}

Partial(u) == u.pct > 0 /\ u.pct < 100

HasActiveRollout(S) == S # {} /\ Partial(Newest(S))

IdOf(S) == IF S = {} THEN NoUpdate ELSE Newest(S).id

(***************************************************************************)
(* resolveUpdateRollout over the (at most two) servable candidates.        *)
(* `enrolled' is the set of updates whose rollout hash admits the device,  *)
(* `known' says whether the device sent an EAS-Client-ID at all.  The      *)
(* result is the chosen row, whether the fallback query must be issued,    *)
(* and nothing when both fail.                                             *)
(***************************************************************************)
Chosen(u)  == [row |-> {u}, fallback |-> FALSE]
Nothing    == [row |-> {},  fallback |-> FALSE]
Fallback   == [row |-> {},  fallback |-> TRUE]

ResolvePrevious(P, known, enrolled) ==
  IF P = {} THEN Nothing
  ELSE LET previous == Newest(P) IN
       IF \/ previous.pct = 100
          \/ Partial(previous) /\ (known => previous.id \in enrolled)
       THEN Chosen(previous)
       ELSE Fallback

ResolveRollout(C, known, enrolled) ==
  IF C = {} THEN Nothing
  ELSE LET latest == Newest(C) IN
       IF \/ latest.pct = 100
          \/ Partial(latest) /\ known /\ latest.id \in enrolled
       THEN Chosen(latest)
       ELSE ResolvePrevious(C \ {latest}, known, enrolled)
=============================================================================
