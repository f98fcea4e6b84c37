--------------------------- MODULE UpdateRowsProofs ---------------------------
(***************************************************************************)
(* Facts about the row queries and the rollout decision, for every finite  *)
(* set of rows.                                                            *)
(***************************************************************************)
EXTENDS UpdateRows, FiniteSetTheorems, TLAPS

\* What the queries need of a row set: the database holds finitely many rows
\* and ranks are natural numbers.
Rows(S) == IsFiniteSet(S) /\ \A u \in S : u.id \in Nat

\* No two rows of a set have the same rank (id is the primary key).
Keyed(S) == \A u, v \in S : u.id = v.id => u = v

LEMMA RowsSubset ==
  ASSUME NEW S, Rows(S), NEW T, T \subseteq S
  PROVE  Rows(T)
BY FS_Subset DEF Rows

(***************************************************************************)
(* ORDER BY ... DESC LIMIT 1 over a nonempty table returns one of its rows *)
(* and no row is newer.  A row without newer ones exists because the sets  *)
(* of newer rows have a minimal one under strict inclusion.                *)
(***************************************************************************)
LEMMA NewestExists ==
  ASSUME NEW S, Rows(S), S # {}
  PROVE  Newest(S) \in S /\ NoneNewer(Newest(S), S)
<1> DEFINE Newer(u) == {v \in S : v.id > u.id}
           T == {Newer(u) : u \in S}
           R == StrictSubsetOrdering(S)
<1>1. IsWellFoundedOn(R, FiniteSubsetsOf(S))
  BY FS_StrictSubsetOrderingWellFounded
<1>2. T \subseteq FiniteSubsetsOf(S) /\ T # {}
  <2>1. \A u \in S : IsFiniteSet(Newer(u)) /\ Newer(u) \in SUBSET S
    BY FS_Subset DEF Rows
  <2> QED BY <2>1 DEF FiniteSubsetsOf
<1> HIDE DEF T, R
<1>3. \E X \in T : \A Y \in T : ~(<<Y, X>> \in R)
  BY <1>1, <1>2, WFMin
<1>4. PICK u \in S : \A v \in S : ~(<<Newer(v), Newer(u)>> \in R)
  BY <1>3 DEF T
<1>5. ASSUME NEW v \in S, v.id > u.id PROVE FALSE
  <2>1. Newer(v) \subseteq Newer(u) /\ Newer(v) # Newer(u)
    BY <1>5 DEF Rows
  <2>2. <<Newer(v), Newer(u)>> \in R
    BY <2>1 DEF R, StrictSubsetOrdering
  <2> QED BY <2>2, <1>4
<1>6. NoneNewer(u, S)
  BY <1>5 DEF NoneNewer, Rows
<1> QED
  BY <1>6 DEF Newest

\* With distinct ranks the newest row is the only one without a newer row.
LEMMA NewestUnique ==
  ASSUME NEW S, Rows(S), Keyed(S), NEW u \in S, NoneNewer(u, S)
  PROVE  Newest(S) = u
BY NewestExists DEF NoneNewer, Keyed, Rows

\* The rollout decision returns one of the rows it was given, or none; none
\* when it asks for the fallback query.
LEMMA ResolveRolloutPicks ==
  ASSUME NEW C, Rows(C), NEW known, NEW enrolled
  PROVE  LET pick == ResolveRollout(C, known, enrolled) IN
         /\ pick.row \subseteq C
         /\ pick.fallback \in BOOLEAN
         /\ pick.fallback => pick.row = {}
<1>1. \A P : Rows(P) /\ P \subseteq C =>
        LET pick == ResolvePrevious(P, known, enrolled) IN
        /\ pick.row \subseteq C
        /\ pick.fallback \in BOOLEAN
        /\ pick.fallback => pick.row = {}
  BY NewestExists DEF ResolvePrevious, Chosen, Nothing, Fallback
<1>2. C # {} => Newest(C) \in C
  BY NewestExists
<1>3. Rows(C \ {Newest(C)})
  BY RowsSubset
<1> QED
  BY <1>1, <1>2, <1>3 DEF ResolveRollout, Chosen, Nothing

\* A fully rolled out newest row is every device's pick, whatever else is in
\* the set.
LEMMA ResolveRolloutFull ==
  ASSUME NEW C, C # {}, Newest(C).pct = 100, NEW known, NEW enrolled
  PROVE  ResolveRollout(C, known, enrolled) = Chosen(Newest(C))
BY DEF ResolveRollout
=============================================================================
