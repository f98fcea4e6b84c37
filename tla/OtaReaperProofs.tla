--------------------------- MODULE OtaReaperProofs ---------------------------
(***************************************************************************)
(* Machine-checked proofs about the retention pass, for any number of      *)
(* updates, branches and targets, any page, chunk and base window, and     *)
(* whatever is published, edited, deleted or relinked meanwhile.           *)
(***************************************************************************)
EXTENDS OtaReaper, UpdateRowsProofs

USE OtaReaperAssumption

(***************************************************************************)
(* Facts about sets of rows.                                               *)
(***************************************************************************)

\* Of finitely many rows, at least W have fewer than W newer ones, if there are
\* W rows at all.
Top(N, W) == {v \in N : Cardinality({w \in N : w.id > v.id}) < W}

LEMMA TopIsLarge ==
  ASSUME NEW N, Rows(N), NEW W \in Nat, Cardinality(N) >= W
  PROVE  Cardinality(Top(N, W)) >= W
<1> DEFINE low == N \ Top(N, W)
<1>1. IsFiniteSet(N) /\ IsFiniteSet(Top(N, W)) /\ Rows(low)
  BY FS_Subset, RowsSubset DEF Rows, Top
<1>2. CASE low = {}
  <2>1. Top(N, W) = N
    BY <1>2 DEF Top
  <2> QED BY <2>1
<1>3. CASE low # {}
  <2> DEFINE v == Newest(low)
  <2>1. v \in low /\ NoneNewer(v, low)
    BY <1>1, <1>3, NewestExists
  <2>2. {w \in N : w.id > v.id} \subseteq Top(N, W)
    <3> SUFFICES ASSUME NEW w \in N, w.id > v.id, w \in low PROVE FALSE
      OBVIOUS
    <3>1. w.id \in Nat /\ v.id \in Nat /\ w.id <= v.id
      BY <2>1 DEF NoneNewer, Rows
    <3> QED BY <3>1
  <2>3. Cardinality({w \in N : w.id > v.id}) <= Cardinality(Top(N, W))
    BY <1>1, <2>2, FS_Subset
  <2>4. Cardinality({w \in N : w.id > v.id}) \in Nat /\ Cardinality(Top(N, W)) \in Nat
    BY <1>1, FS_Subset, FS_CardinalityType
  <2>5. ~(Cardinality({w \in N : w.id > v.id}) < W)
    BY <2>1 DEF Top
  <2> QED BY <2>3, <2>4, <2>5
<1> QED BY <1>2, <1>3

\* There are as many ids as rows.
LEMMA IdsOfKeyed ==
  ASSUME NEW S, Rows(S), Keyed(S)
  PROVE  IsFiniteSet(IdsOf(S)) /\ Cardinality(IdsOf(S)) = Cardinality(S)
<1> DEFINE f == [u \in S |-> u.id]
<1>1. f \in Bijection(S, IdsOf(S))
  BY DEF IdsOf, Keyed, Bijection, Injection, Surjection, IsInjective
<1>2. ExistsBijection(S, IdsOf(S))
  BY <1>1 DEF ExistsBijection
<1> QED BY <1>2, FS_Bijection, FS_SameCardinalityBij DEF Rows

\* A row that is not among the newest two has two newer ones, which are.
LEMMA TwoNewer ==
  ASSUME NEW S, Rows(S), Keyed(S), NEW u \in S, u \notin Candidates(S)
  PROVE  \E v, w \in Candidates(S) : u.id < v.id /\ v.id < w.id
<1> DEFINE w == Newest(S)
           v == Newest(S \ {w})
<1>1. w \in S /\ NoneNewer(w, S)
  BY NewestExists
<1>2. u # w /\ u \in S \ {w} /\ ~NoneNewer(u, S \ {w})
  BY <1>1 DEF Candidates
<1>3. Rows(S \ {w})
  BY RowsSubset
<1>4. v \in S \ {w} /\ NoneNewer(v, S \ {w})
  BY <1>2, <1>3, NewestExists
<1>5. v \in Candidates(S) /\ w \in Candidates(S)
  BY <1>1, <1>4 DEF Candidates
<1>6. u.id \in Nat /\ v.id \in Nat /\ w.id \in Nat
  BY <1>1, <1>4 DEF Rows
<1>7. v.id < w.id
  <2>1. v.id <= w.id /\ v.id # w.id
    BY <1>1, <1>4 DEF NoneNewer, Keyed
  <2> QED BY <1>6, <2>1
<1>8. u.id < v.id
  <2>1. PICK x \in S \ {w} : ~(x.id <= u.id)
    BY <1>2 DEF NoneNewer
  <2>2. x.id <= v.id /\ x.id \in Nat
    BY <1>4, <2>1 DEF NoneNewer, Rows
  <2> QED BY <1>6, <2>1, <2>2
<1> QED BY <1>5, <1>7, <1>8

\* What devices are sent depends on the newest two rows and on the newest fully
\* rolled out one: other rows may go.
LEMMA ServedWithout ==
  ASSUME NEW S, Rows(S), Keyed(S), NEW T, T \subseteq S,
         Candidates(S) \subseteq T,
         \A u \in FullyRolledOut(S) : NoneNewer(u, FullyRolledOut(S)) => u \in T,
         NEW known, NEW enrolled, NEW hidden
  PROVE  Served(S, known, enrolled, hidden) = Served(T, known, enrolled, hidden)
<1>1. Rows(T) /\ Keyed(T)
  BY RowsSubset DEF Keyed
<1>2. S # {} => Newest(S) \in S /\ NoneNewer(Newest(S), S) /\ Newest(S) \in T /\ Newest(T) = Newest(S)
  <2> SUFFICES ASSUME S # {}
               PROVE  Newest(S) \in S /\ NoneNewer(Newest(S), S) /\ Newest(S) \in T /\ Newest(T) = Newest(S)
    OBVIOUS
  <2>1. Newest(S) \in S /\ NoneNewer(Newest(S), S)
    BY NewestExists
  <2>2. Newest(S) \in T /\ NoneNewer(Newest(S), T)
    BY <2>1 DEF Candidates, NoneNewer
  <2> QED BY <1>1, <2>1, <2>2, NewestUnique
<1>3. Candidates(T) = Candidates(S)
  <2>1. ASSUME NEW u \in Candidates(S) PROVE u \in Candidates(T)
    <3>1. u \in T /\ Newest(T) = Newest(S)
      BY <1>2 DEF Candidates
    <3> QED BY <3>1 DEF Candidates, NoneNewer
  <2>2. ASSUME NEW u \in Candidates(T), u \notin Candidates(S) PROVE FALSE
    <3>1. u \in S /\ u \in T
      BY <2>2 DEF Candidates
    <3>2. PICK v, w \in Candidates(S) : u.id < v.id /\ v.id < w.id
      BY <2>2, <3>1, TwoNewer
    <3>3. v \in T /\ w \in T /\ u.id \in Nat /\ v.id \in Nat /\ w.id \in Nat
      BY <3>1, <3>2, <1>1 DEF Rows
    <3>4. v # Newest(T)
      <4>1. w.id <= Newest(T).id
        BY <1>2, <3>2, <3>3 DEF NoneNewer
      <4> QED BY <3>2, <3>3, <4>1
    <3>5. ~NoneNewer(u, T) /\ ~NoneNewer(u, T \ {Newest(T)})
      BY <3>2, <3>3, <3>4 DEF NoneNewer
    <3> QED BY <2>2, <3>5 DEF Candidates
  <2> QED BY <2>1, <2>2
<1>4. {u \in FullyRolledOut(T) : u = Newest(FullyRolledOut(T)) /\ u.id \notin hidden}
        = {u \in FullyRolledOut(S) : u = Newest(FullyRolledOut(S)) /\ u.id \notin hidden}
  <2>1. FullyRolledOut(T) \subseteq FullyRolledOut(S) /\ Rows(FullyRolledOut(S)) /\ Rows(FullyRolledOut(T))
    BY <1>1, RowsSubset DEF FullyRolledOut
  <2>2. CASE FullyRolledOut(S) = {}
    BY <2>1, <2>2
  <2>3. CASE FullyRolledOut(S) # {}
    <3> DEFINE n == Newest(FullyRolledOut(S))
    <3>1. n \in FullyRolledOut(S) /\ NoneNewer(n, FullyRolledOut(S))
      BY <2>1, <2>3, NewestExists
    <3>2. n \in FullyRolledOut(T) /\ NoneNewer(n, FullyRolledOut(T))
      BY <2>1, <3>1 DEF NoneNewer, FullyRolledOut
    <3>3. Keyed(FullyRolledOut(T))
      BY <1>1 DEF Keyed, FullyRolledOut
    <3>4. Newest(FullyRolledOut(T)) = n
      BY <2>1, <3>2, <3>3, NewestUnique
    <3> QED BY <3>1, <3>2, <3>4
  <2> QED BY <2>2, <2>3
<1> QED BY <1>3, <1>4 DEF Served

(***************************************************************************)
(* The inductive invariant.                                                *)
(***************************************************************************)

\* Ids are given once, and a group is not younger than its members.
RowsApart ==
  /\ Rows(rows) /\ Keyed(rows)
  /\ \A u \in rows : u.id \in used /\ u.group <= u.id

\* What a run is about to delete is old and not kept, and has the rest of its
\* groups with it; so are the groups it has begun to delete.
Batch ==
  reaper # Idle =>
    /\ reaper.reap \subseteq reaper.guarded
    /\ reaper.guarded \subseteq reaper.page
    /\ reaper.guarded \cap reaper.keep = {}
    /\ \A i \in reaper.page : i < Cutoff
    /\ \A g \in reaper.reaped : g < Cutoff
    /\ reaper.pc \notin {"groups", "delete"} => reaper.page = {}
    /\ \A u \in rows : u.group \in reaper.reaped => u.id \in reaper.reap
    /\ \A u, v \in rows : u.id \in reaper.reap /\ v.group = u.group => v.id \in reaper.reap

Old(u) == u.id < Cutoff /\ u.id \notin reaper.keep

\* Whatever is served stands on two newer rows that are kept.
ServableKept ==
  \A u \in rows : Old(u) /\ u.branch \in reachable =>
    \E v, w \in Tuple(u) : u.id < v.id /\ v.id < w.id /\ {v.id, w.id} \subseteq reaper.keep

\* The kept patch bases that are newer than u.
Heirs(u) == {v \in Tuple(u) : v.launch /\ v.id > u.id /\ v.id \in reaper.keep}

BasesKept ==
  \A u \in rows : Old(u) =>
    ~u.embedded /\ (u.launch => Cardinality(IdsOf(Heirs(u))) >= BaseWindow)

\* A fully rolled out row on the page has a newer one that is not.
FullyRolledOutKept ==
  \A u \in rows : u.id \in reaper.page /\ u.pct = 100 =>
    \E v \in Tuple(u) : v.pct = 100 /\ v.id > u.id /\ v.id \notin reaper.page

Kept ==
  reaper # Idle /\ ~reaper.touched =>
    /\ reaper.pc = "servable" => reaper.reach = reachable
    /\ reaper.pc # "servable" => ServableKept
    /\ reaper.pc \notin {"servable", "bases"} => BasesKept
    /\ FullyRolledOutKept

IInv == TypeOK /\ RowsApart /\ Batch /\ Kept

LEMMA IInvInit == ASSUME Init PROVE IInv
BY FS_EmptySet DEF Init, IInv, TypeOK, RowsApart, Rows, Keyed, Batch, Kept

\* An idle slot is no run.
LEMMA Running ==
  ASSUME TypeOK, reaper # Idle
  PROVE  reaper \in Reaper
BY DEF TypeOK

LEMMA RowShape ==
  ASSUME NEW u \in Row
  PROVE  /\ u.id \in Ids /\ u.id \in Nat /\ u.group \in Ids /\ u.group \in Nat
         /\ u.branch \in Branches /\ u.target \in Targets /\ u.pct \in 0..100
         /\ u.embedded \in BOOLEAN /\ u.launch \in BOOLEAN
<1>1. /\ u.id \in Ids /\ u.group \in Ids
      /\ u.branch \in Branches /\ u.target \in Targets /\ u.pct \in 0..100
      /\ u.embedded \in BOOLEAN /\ u.launch \in BOOLEAN
  BY DEF Row
<1>2. Ids \subseteq Nat
  OBVIOUS
<1> QED BY <1>1, <1>2

(***************************************************************************)
(* Publishing: the other rows stay, but for their mark as a baseline.      *)
(***************************************************************************)
Alike(v, w) ==
  /\ w.id = v.id /\ w.group = v.group /\ w.branch = v.branch /\ w.target = v.target
  /\ w.pct = v.pct /\ w.launch = v.launch /\ (w.embedded => v.embedded)

LEMMA PublishShape ==
  ASSUME TypeOK, RowsApart, NEW u \in Row, Publish(u)
  PROVE  /\ rows' \subseteq Row /\ used' \subseteq Ids
         /\ \A v \in rows : \E w \in rows' : Alike(v, w)
         /\ \A w \in rows' : w = u \/ \E v \in rows : Alike(v, w)
         /\ \A v \in rows : v.id < u.id
         /\ RowsApart'
<1> DEFINE Cleared(v) == IF u.embedded /\ v \in Tuple(u) THEN [v EXCEPT !.embedded = FALSE] ELSE v
           kept == {Cleared(v) : v \in rows}
<1>1. rows' = kept \cup {u} /\ used' = used \cup {u.id}
  BY DEF Publish
<1>2. \A v \in rows : Cleared(v) \in Row /\ Alike(v, Cleared(v))
  BY ZenonT(60) DEF TypeOK, Row, Alike
<1>3. \A v \in rows : v.id < u.id
  BY DEF Publish, RowsApart
<1> HIDE DEF Cleared
<1>4. /\ \A v \in rows : \E w \in rows' : Alike(v, w)
      /\ \A w \in rows' : w = u \/ \E v \in rows : w = Cleared(v) /\ Alike(v, w)
  BY <1>1, <1>2
<1>5. rows' \subseteq Row /\ used' \subseteq Ids
  BY ZenonT(60), <1>1, <1>2 DEF TypeOK, Row
<1>6. IsFiniteSet(rows')
  <2>1. IsFiniteSet(kept)
    <3> DEFINE f == [v \in rows |-> Cleared(v)]
    <3>1. f \in Surjection(rows, kept)
      BY DEF Surjection
    <3> QED BY <3>1, FS_Surjection DEF RowsApart, Rows
  <2> QED BY <1>1, <2>1, FS_AddElement
<1>7. Rows(rows)'
  BY <1>5, <1>6, RowShape DEF Rows
<1>8. Keyed(rows)'
  <2> SUFFICES ASSUME NEW v \in rows', NEW w \in rows', v.id = w.id PROVE v = w
    BY DEF Keyed
  <2>1. \A x \in rows : \A y \in rows : x.id = y.id => Cleared(x) = Cleared(y)
    BY DEF RowsApart, Keyed
  <2>2. \A x \in rows : x.id # u.id
    <3> SUFFICES ASSUME NEW x \in rows, x.id = u.id PROVE FALSE
      OBVIOUS
    <3>1. x.id < u.id /\ u.id \in Nat
      BY <1>3, RowShape
    <3> QED BY <3>1
  <2> QED BY <1>4, <2>1, <2>2 DEF Alike
<1>9. \A w \in rows' : w.id \in used' /\ w.group <= w.id
  <2>1. u.id \in used' /\ u.group <= u.id
    <3>1. CASE u.group = u.id
      BY <1>1, <3>1, RowShape
    <3>2. CASE u.group # u.id
      <4>1. PICK v \in rows : v.group = u.group
        BY <3>2 DEF Publish
      <4>2. v.group <= v.id /\ v.id < u.id /\ v.group \in Nat /\ v.id \in Nat /\ u.id \in Nat
        BY <1>3, RowShape DEF RowsApart, TypeOK
      <4> QED BY <1>1, <4>1, <4>2
    <3> QED BY <3>1, <3>2
  <2>2. ASSUME NEW w \in rows', NEW v \in rows, Alike(v, w) PROVE w.id \in used' /\ w.group <= w.id
    BY <1>1, <2>2 DEF RowsApart, Alike
  <2> QED BY <1>4, <2>1, <2>2
<1> QED BY <1>3, <1>4, <1>5, <1>7, <1>8, <1>9 DEF RowsApart

\* A run's batch stays closed while rows go or change, and while new groups
\* come: they are young.
LEMMA BatchLasts ==
  ASSUME IInv, reaper # Idle, reaper' \in Reaper,
         reaper'.pc = reaper.pc, reaper'.page = reaper.page, reaper'.guarded = reaper.guarded,
         reaper'.keep = reaper.keep, reaper'.reap = reaper.reap, reaper'.reaped = reaper.reaped,
         rows' \subseteq Row,
         \A w \in rows' : \/ w.id >= Cutoff /\ w.group >= Cutoff
                          \/ \E v \in rows : w.id = v.id /\ w.group = v.group
  PROVE  Batch'
<1>1. /\ \A i \in reaper.page : i < Cutoff
      /\ \A g \in reaper.reaped : g < Cutoff
      /\ reaper.reap \subseteq reaper.page
  BY DEF IInv, Batch
<1>2. ASSUME NEW w \in rows', w.group \in reaper.reaped PROVE w.id \in reaper.reap
  <2>1. PICK v \in rows : w.id = v.id /\ w.group = v.group
    BY <1>1, <1>2, RowShape
  <2> QED BY <1>2, <2>1 DEF IInv, Batch
<1>3. ASSUME NEW w \in rows', NEW x \in rows', w.id \in reaper.reap, x.group = w.group
      PROVE  x.id \in reaper.reap
  <2>1. w.id < Cutoff
    BY <1>1, <1>3
  <2>2. PICK v \in rows : w.id = v.id /\ w.group = v.group
    BY <2>1, RowShape
  <2>3. v.group <= v.id
    BY DEF IInv, RowsApart
  <2>4. w.group \in Nat /\ w.id \in Nat /\ w.group <= w.id
    BY <2>2, <2>3, RowShape
  <2>5. x.group < Cutoff
    BY <1>3, <2>1, <2>4
  <2>6. PICK y \in rows : x.id = y.id /\ x.group = y.group
    BY <2>5, RowShape
  <2> QED BY <1>3, <2>2, <2>6 DEF IInv, Batch
<1> QED BY <1>2, <1>3 DEF IInv, Batch

\* What a run relies on lasts while the rows it keeps do, and those outside its
\* page.
LEMMA KeptLasts ==
  ASSUME IInv, reaper # Idle, reachable' = reachable, reaper'.keep = reaper.keep,
         Rows(rows)', Keyed(rows)',
         \A w \in rows' : w.id < Cutoff => \E v \in rows : Alike(v, w),
         \A v \in rows : v.id \in reaper.keep \/ v.id \notin reaper.page =>
                           \E w \in rows' : Alike(v, w)
  PROVE  /\ ServableKept => ServableKept'
         /\ BasesKept => BasesKept'
         /\ FullyRolledOutKept /\ reaper'.page = reaper.page => FullyRolledOutKept'
<1>1. ASSUME NEW x \in rows', x.id < Cutoff
      PROVE  \E v \in rows : Alike(v, x)
  BY <1>1
<1>2. ASSUME NEW v \in rows, NEW x \in rows', Alike(v, x), NEW a \in Tuple(v),
             a.id \in reaper.keep \/ a.id \notin reaper.page
      PROVE  \E b \in Tuple(x)' : Alike(a, b)
  <2>1. a \in rows /\ a.branch = v.branch /\ a.target = v.target
    BY DEF Tuple, On
  <2>2. PICK b \in rows' : Alike(a, b)
    BY <1>2, <2>1
  <2>3. b.branch = x.branch /\ b.target = x.target
    BY <1>2, <2>1, <2>2 DEF Alike
  <2> QED BY <2>2, <2>3 DEF Tuple, On
<1>3. ASSUME ServableKept PROVE ServableKept'
  <2> SUFFICES ASSUME NEW x \in rows', x.id < Cutoff, x.id \notin reaper.keep, x.branch \in reachable
               PROVE  \E b, c \in Tuple(x)' : x.id < b.id /\ b.id < c.id /\ {b.id, c.id} \subseteq reaper.keep
    BY DEF ServableKept, Old
  <2>1. PICK v \in rows : Alike(v, x)
    BY <1>1
  <2>2. Old(v) /\ v.branch \in reachable
    BY <2>1 DEF Alike, Old
  <2>3. PICK b, c \in Tuple(v) : v.id < b.id /\ b.id < c.id /\ {b.id, c.id} \subseteq reaper.keep
    BY <1>3, <2>2 DEF ServableKept
  <2>4. PICK d \in Tuple(x)' : Alike(b, d)
    BY <1>2, <2>1, <2>3
  <2>5. PICK e \in Tuple(x)' : Alike(c, e)
    BY <1>2, <2>1, <2>3
  <2> QED BY <2>1, <2>3, <2>4, <2>5 DEF Alike
<1>4. ASSUME BasesKept PROVE BasesKept'
  <2> SUFFICES ASSUME NEW x \in rows', x.id < Cutoff, x.id \notin reaper.keep
               PROVE  /\ ~x.embedded
                      /\ x.launch => Cardinality(IdsOf(Heirs(x)')) >= BaseWindow
    BY DEF BasesKept, Old, IdsOf, Heirs
  <2>1. PICK v \in rows : Alike(v, x)
    BY <1>1
  <2>2. Old(v)
    BY <2>1 DEF Alike, Old
  <2>3. ~v.embedded /\ (v.launch => Cardinality(IdsOf(Heirs(v))) >= BaseWindow)
    BY <1>4, <2>2 DEF BasesKept
  <2>4. IdsOf(Heirs(v)) \subseteq IdsOf(Heirs(x)')
    <3> SUFFICES ASSUME NEW a \in Heirs(v) PROVE \E b \in Heirs(x)' : b.id = a.id
      BY DEF IdsOf
    <3>1. a \in Tuple(v) /\ a.launch /\ a.id > v.id /\ a.id \in reaper.keep
      BY DEF Heirs
    <3>2. PICK b \in Tuple(x)' : Alike(a, b)
      BY <1>2, <2>1, <3>1
    <3>3. b.launch /\ b.id > x.id /\ b.id \in reaper'.keep /\ b.id = a.id
      BY <2>1, <3>1, <3>2 DEF Alike
    <3> QED BY <3>2, <3>3 DEF Heirs
  <2>5. IsFiniteSet(IdsOf(Heirs(x)'))
    <3>1. Heirs(x)' \subseteq rows'
      BY DEF Heirs, Tuple, On
    <3>2. Rows(Heirs(x)') /\ Keyed(Heirs(x)')
      <4>1. Rows(Heirs(x)')
        BY <3>1, RowsSubset
      <4> QED BY <3>1, <4>1 DEF Keyed
    <3> QED BY <3>2, IdsOfKeyed
  <2>6. /\ Cardinality(IdsOf(Heirs(v))) <= Cardinality(IdsOf(Heirs(x)'))
        /\ Cardinality(IdsOf(Heirs(v))) \in Nat /\ Cardinality(IdsOf(Heirs(x)')) \in Nat
    BY <2>4, <2>5, FS_Subset, FS_CardinalityType
  <2> QED BY <2>1, <2>3, <2>6 DEF Alike
<1>5. ASSUME FullyRolledOutKept, reaper'.page = reaper.page PROVE FullyRolledOutKept'
  <2> SUFFICES ASSUME NEW x \in rows', x.id \in reaper.page, x.pct = 100
               PROVE  \E b \in Tuple(x)' : b.pct = 100 /\ b.id > x.id /\ b.id \notin reaper.page
    BY <1>5 DEF FullyRolledOutKept
  <2>1. PICK v \in rows : Alike(v, x)
    BY <1>1 DEF IInv, Batch
  <2>2. PICK a \in Tuple(v) : a.pct = 100 /\ a.id > v.id /\ a.id \notin reaper.page
    BY <1>5, <2>1 DEF FullyRolledOutKept, Alike
  <2>3. PICK b \in Tuple(x)' : Alike(a, b)
    BY <1>2, <2>1, <2>2
  <2> QED BY <2>1, <2>2, <2>3 DEF Alike
<1> QED BY <1>3, <1>4, <1>5

LEMMA PublishStep ==
  ASSUME IInv, NEW u \in Row, Publish(u)
  PROVE  IInv'
<1>1. /\ rows' \subseteq Row /\ used' \subseteq Ids
      /\ \A v \in rows : \E w \in rows' : Alike(v, w)
      /\ \A w \in rows' : w = u \/ \E v \in rows : Alike(v, w)
      /\ RowsApart'
  BY PublishShape DEF IInv
<1>2. /\ UNCHANGED <<reachable, reaper>>
      /\ reaper # Idle => u.id >= Cutoff /\ u.group >= Cutoff
  BY DEF Publish
<1>3. TypeOK'
  BY <1>1, <1>2 DEF IInv, TypeOK
<1>4. CASE reaper = Idle
  BY <1>1, <1>2, <1>3, <1>4 DEF IInv, Batch, Kept
<1>5. CASE reaper # Idle
  <2>1. reaper' \in Reaper
    BY <1>2, <1>5, Running DEF IInv
  <2>2. \A w \in rows' : \/ w.id >= Cutoff /\ w.group >= Cutoff
                         \/ \E v \in rows : w.id = v.id /\ w.group = v.group
    BY <1>1, <1>2, <1>5 DEF Alike
  <2>3. Batch'
    BY <1>1, <1>2, <1>5, <2>1, <2>2, BatchLasts
  <2>4. \A w \in rows' : w.id < Cutoff => \E v \in rows : Alike(v, w)
    BY <1>1, <1>2, <1>5, RowShape
  <2>5. /\ ServableKept => ServableKept'
        /\ BasesKept => BasesKept'
        /\ FullyRolledOutKept => FullyRolledOutKept'
    BY <1>1, <1>2, <1>5, <2>4, KeptLasts DEF RowsApart
  <2>6. Kept'
    BY <1>2, <2>5 DEF IInv, Kept
  <2> QED BY <1>1, <1>3, <2>3, <2>6 DEF IInv
<1> QED BY <1>4, <1>5

(***************************************************************************)
(* Edits, deletions and relinks: rows keep their ids and groups, and a run *)
(* that they meet is touched.                                              *)
(***************************************************************************)
LEMMA Touched ==
  ASSUME IInv, Touch, rows' \subseteq Row, reachable' \subseteq Branches, RowsApart',
         \A w \in rows' : \E v \in rows : w.id = v.id /\ w.group = v.group
  PROVE  IInv'
<1>1. CASE reaper = Idle
  BY <1>1 DEF Touch, IInv, TypeOK, Batch, Kept
<1>2. CASE reaper # Idle
  <2>1. reaper' = [reaper EXCEPT !.touched = TRUE] /\ reaper \in Reaper /\ used' = used
    BY <1>2, Running DEF Touch, IInv
  <2>2. /\ reaper' \in Reaper
        /\ reaper'.pc = reaper.pc /\ reaper'.page = reaper.page
        /\ reaper'.guarded = reaper.guarded /\ reaper'.keep = reaper.keep
        /\ reaper'.reap = reaper.reap /\ reaper'.reaped = reaper.reaped
        /\ reaper'.touched = TRUE
    BY <2>1 DEF Reaper
  <2>3. Batch'
    BY <1>2, <2>2, BatchLasts
  <2>4. TypeOK' /\ Kept'
    BY <2>1, <2>2 DEF IInv, TypeOK, Kept
  <2> QED BY <2>3, <2>4 DEF IInv
<1> QED BY <1>1, <1>2

LEMMA UpdateRolloutStep ==
  ASSUME IInv, NEW u \in rows, NEW pct \in Percentages, UpdateRollout(u, pct)
  PROVE  IInv'
<1> DEFINE v == [u EXCEPT !.pct = pct]
<1>1. u \in Row /\ rows \subseteq Row
  BY DEF IInv, TypeOK
<1>2. v \in Row /\ v.id = u.id /\ v.group = u.group
  <2>1. pct \in 0..100
    OBVIOUS
  <2> QED BY <1>1, <2>1 DEF Row
<1>3. rows' = (rows \ {u}) \cup {v} /\ Touch /\ reachable' = reachable /\ used' = used
  BY DEF UpdateRollout, Touch
<1> HIDE DEF v
<1>4. rows' \subseteq Row
  BY <1>1, <1>2, <1>3
<1>5. RowsApart'
  <2>1. IsFiniteSet(rows')
    <3>1. IsFiniteSet(rows \ {u})
      BY FS_Subset DEF IInv, RowsApart, Rows
    <3> QED BY <1>3, <3>1, FS_AddElement
  <2>2. Rows(rows')
    BY <1>4, <2>1, RowShape DEF Rows
  <2>3. Keyed(rows')
    BY <1>2, <1>3 DEF IInv, RowsApart, Keyed
  <2>4. \A w \in rows' : w.id \in used' /\ w.group <= w.id
    BY <1>2, <1>3 DEF IInv, RowsApart
  <2> QED BY <2>2, <2>3, <2>4 DEF RowsApart
<1>6. \A w \in rows' : \E x \in rows : w.id = x.id /\ w.group = x.group
  BY <1>2, <1>3
<1> QED BY <1>3, <1>4, <1>5, <1>6, Touched DEF IInv, TypeOK

\* Fewer rows are as well apart.
LEMMA FewerRows ==
  ASSUME IInv, rows' \subseteq rows, used' = used
  PROVE  rows' \subseteq Row /\ RowsApart'
<1>1. Rows(rows')
  BY RowsSubset DEF IInv, RowsApart
<1>2. Keyed(rows')
  BY DEF IInv, RowsApart, Keyed
<1> QED BY <1>1, <1>2 DEF IInv, RowsApart, TypeOK

LEMMA DeleteGroupStep ==
  ASSUME IInv, NEW g \in Ids, DeleteGroup(g)
  PROVE  IInv'
<1>1. rows' \subseteq rows /\ Touch /\ reachable' = reachable /\ used' = used
  BY DEF DeleteGroup, Touch
<1> QED BY <1>1, FewerRows, Touched DEF IInv, TypeOK

LEMMA RelinkStep ==
  ASSUME IInv, NEW bs \in SUBSET Branches, Relink(bs)
  PROVE  IInv'
<1>1. rows' = rows /\ Touch /\ reachable' = bs /\ used' = used
  BY DEF Relink, Touch
<1> QED BY <1>1, FewerRows, Touched

(***************************************************************************)
(* The run.                                                                *)
(***************************************************************************)
LEMMA StartStep == ASSUME IInv, Start PROVE IInv'
<1> DEFINE new == [pc |-> "servable", reach |-> reachable, keep |-> {}, page |-> {},
                   guarded |-> {}, groups |-> {}, reap |-> {}, more |-> TRUE,
                   touched |-> FALSE, reaped |-> {}]
<1>1. reaper' = new /\ UNCHANGED <<rows, used, reachable>>
  BY DEF Start, Step
<1>2. /\ new \in Reaper
      /\ new.pc = "servable" /\ new.reach = reachable /\ new.page = {} /\ new.guarded = {}
      /\ new.reap = {} /\ new.reaped = {}
  BY DEF IInv, TypeOK, Reaper
<1> HIDE DEF new
<1>3. TypeOK' /\ RowsApart'
  BY <1>1, <1>2 DEF IInv, TypeOK, RowsApart
<1>4. Batch'
  BY <1>1, <1>2 DEF Batch
<1>5. Kept'
  BY <1>1, <1>2 DEF Kept, FullyRolledOutKept
<1> QED BY <1>3, <1>4, <1>5 DEF IInv

\* The first two queries: the page is still empty.
LEMMA ReadServableStep == ASSUME IInv, ReadServable PROVE IInv'
<1> DEFINE keep == IdsOf({u \in rows : u.branch \in reaper.reach /\ u \in Candidates(Tuple(u))})
<1>1. /\ reaper # Idle /\ reaper.pc = "servable" /\ reaper \in Reaper
      /\ UNCHANGED <<rows, used, reachable>>
      /\ reaper' = [reaper EXCEPT !.pc = "bases", !.reach = {}, !.keep = keep]
  BY Running DEF ReadServable, At, Step, IInv
<1>2. keep \subseteq Ids
  BY RowShape DEF IdsOf, IInv, TypeOK
<1>3. \A u \in rows : u.branch \in reaper.reach /\ u \in Candidates(Tuple(u)) => u.id \in keep
  BY DEF IdsOf
<1> HIDE DEF keep
<1>4. /\ reaper' \in Reaper /\ reaper'.pc = "bases" /\ reaper'.keep = keep
      /\ reaper'.page = reaper.page /\ reaper'.guarded = reaper.guarded
      /\ reaper'.reap = reaper.reap /\ reaper'.reaped = reaper.reaped
      /\ reaper'.touched = reaper.touched
  BY <1>1, <1>2 DEF Reaper
<1>5. TypeOK' /\ RowsApart'
  BY <1>1, <1>4 DEF IInv, TypeOK, RowsApart
<1>6. reaper.page = {} /\ reaper.guarded = {} /\ reaper.reap = {}
  BY <1>1 DEF IInv, Batch
<1>7. Batch'
  BY <1>1, <1>4, <1>6 DEF IInv, Batch
<1>8. ASSUME ~reaper.touched PROVE ServableKept'
  <2> SUFFICES ASSUME NEW u \in rows, u.id \notin keep, u.branch \in reachable
               PROVE  \E v, w \in Tuple(u) : u.id < v.id /\ v.id < w.id /\ {v.id, w.id} \subseteq keep
    BY <1>1, <1>4 DEF ServableKept, Old, Tuple, On
  <2>1. reaper.reach = reachable
    BY <1>1, <1>8 DEF IInv, Kept
  <2>2. u \in Tuple(u) /\ u \notin Candidates(Tuple(u)) /\ Tuple(u) \subseteq rows
    BY <1>3, <2>1 DEF Tuple, On
  <2>3. Rows(Tuple(u)) /\ Keyed(Tuple(u))
    BY <2>2, RowsSubset DEF IInv, RowsApart, Keyed
  <2>4. PICK v, w \in Candidates(Tuple(u)) : u.id < v.id /\ v.id < w.id
    BY <2>2, <2>3, TwoNewer
  <2>5. \A x \in Candidates(Tuple(u)) :
          x \in rows /\ x.branch \in reachable /\ Tuple(x) = Tuple(u) /\ x \in Tuple(u)
    BY DEF Candidates, Tuple, On
  <2>6. v.id \in keep /\ w.id \in keep
    BY <1>3, <2>1, <2>4, <2>5
  <2> QED BY <2>4, <2>5, <2>6
<1>9. FullyRolledOutKept'
  BY <1>4, <1>6 DEF FullyRolledOutKept
<1>10. Kept'
  BY <1>4, <1>8, <1>9 DEF Kept
<1> QED BY <1>5, <1>7, <1>10 DEF IInv

\* Enough newer patch bases are kept for every row that is not kept itself.
LEMMA EnoughBases ==
  ASSUME IInv, NEW u \in rows, u.launch, u \notin PatchBases(rows)
  PROVE  LET bases == {v \in Tuple(u) : v.launch /\ v.id > u.id /\ v \in PatchBases(rows)}
         IN  Cardinality(IdsOf(bases)) >= BaseWindow
<1> DEFINE N == {v \in rows : v.launch /\ v.branch = u.branch /\ v.target = u.target /\ v.id > u.id}
           bases == {v \in Tuple(u) : v.launch /\ v.id > u.id /\ v \in PatchBases(rows)}
<1>1. Rows(N) /\ Keyed(N) /\ IsFiniteSet(N) /\ Cardinality(N) \in Nat
  <2>1. Rows(N)
    BY RowsSubset DEF IInv, RowsApart
  <2> QED BY <2>1, FS_CardinalityType DEF IInv, RowsApart, Keyed, Rows
<1>2. Cardinality(N) >= BaseWindow
  <2>1. ~(Cardinality(N) < BaseWindow)
    BY DEF PatchBases
  <2> QED BY <1>1, <2>1
<1>3. Cardinality(Top(N, BaseWindow)) >= BaseWindow
  BY <1>1, <1>2, TopIsLarge
<1>4. Top(N, BaseWindow) \subseteq bases
  <2> SUFFICES ASSUME NEW v \in Top(N, BaseWindow) PROVE v \in bases
    OBVIOUS
  <2>1. v \in N /\ Cardinality({w \in N : w.id > v.id}) < BaseWindow
    BY DEF Top
  <2>2. {w \in N : w.id > v.id}
          = {w \in rows : w.launch /\ w.branch = v.branch /\ w.target = v.target /\ w.id > v.id}
    <3> SUFFICES ASSUME NEW w \in rows, w.id > v.id PROVE w.id > u.id
      BY <2>1
    <3>1. v.id > u.id /\ v.id \in Nat /\ u.id \in Nat /\ w.id \in Nat
      BY <2>1 DEF IInv, RowsApart, Rows
    <3> QED BY <3>1
  <2>3. v \in PatchBases(rows)
    BY <2>1, <2>2 DEF PatchBases
  <2> QED BY <2>1, <2>3 DEF Tuple, On
<1>5. Rows(bases) /\ Keyed(bases) /\ IsFiniteSet(bases)
  <2>1. bases \subseteq rows
    BY DEF Tuple, On
  <2>2. Rows(bases)
    BY <2>1, RowsSubset DEF IInv, RowsApart
  <2> QED BY <2>1, <2>2 DEF IInv, RowsApart, Keyed, Rows
<1>6. Cardinality(IdsOf(bases)) = Cardinality(bases)
  BY <1>5, IdsOfKeyed
<1>7. Cardinality(Top(N, BaseWindow)) <= Cardinality(bases)
  BY <1>4, <1>5, FS_Subset
<1>8. Cardinality(Top(N, BaseWindow)) \in Nat /\ Cardinality(bases) \in Nat
  BY <1>4, <1>5, FS_Subset, FS_CardinalityType
<1> QED BY <1>3, <1>6, <1>7, <1>8

LEMMA ReadBasesStep == ASSUME IInv, ReadBases PROVE IInv'
<1> DEFINE keep == reaper.keep \cup IdsOf(PatchBases(rows))
<1>1. /\ reaper # Idle /\ reaper.pc = "bases" /\ reaper \in Reaper
      /\ UNCHANGED <<rows, used, reachable>>
      /\ reaper' = [reaper EXCEPT !.pc = "page", !.keep = keep]
  BY Running DEF ReadBases, At, Step, IInv
<1>2. keep \subseteq Ids
  <2>1. IdsOf(PatchBases(rows)) \subseteq Ids
    BY RowShape DEF IdsOf, PatchBases, IInv, TypeOK
  <2> QED BY <1>1, <2>1 DEF Reaper
<1>3. reaper.keep \subseteq keep /\ \A u \in PatchBases(rows) : u.id \in keep
  BY DEF IdsOf
<1> HIDE DEF keep
<1>4. /\ reaper' \in Reaper /\ reaper'.pc = "page" /\ reaper'.keep = keep
      /\ reaper'.page = reaper.page /\ reaper'.guarded = reaper.guarded
      /\ reaper'.reap = reaper.reap /\ reaper'.reaped = reaper.reaped
      /\ reaper'.touched = reaper.touched
  BY <1>1, <1>2 DEF Reaper
<1>5. TypeOK' /\ RowsApart'
  BY <1>1, <1>4 DEF IInv, TypeOK, RowsApart
<1>6. reaper.page = {} /\ reaper.guarded = {} /\ reaper.reap = {}
  BY <1>1 DEF IInv, Batch
<1>7. Batch'
  BY <1>1, <1>4, <1>6 DEF IInv, Batch
<1>8. ASSUME ServableKept PROVE ServableKept'
  <2> SUFFICES ASSUME NEW u \in rows, u.id < Cutoff, u.id \notin keep, u.branch \in reachable
               PROVE  \E v, w \in Tuple(u) : u.id < v.id /\ v.id < w.id /\ {v.id, w.id} \subseteq keep
    BY <1>1, <1>4 DEF ServableKept, Old, Tuple, On
  <2>1. Old(u)
    BY <1>3 DEF Old
  <2>2. PICK v, w \in Tuple(u) : u.id < v.id /\ v.id < w.id /\ {v.id, w.id} \subseteq reaper.keep
    BY <1>8, <2>1 DEF ServableKept
  <2> QED BY <1>3, <2>2
<1>9. BasesKept'
  <2> SUFFICES ASSUME NEW u \in rows, u.id \notin keep
               PROVE  /\ ~u.embedded
                      /\ u.launch => Cardinality(IdsOf(Heirs(u)')) >= BaseWindow
    BY <1>1, <1>4 DEF BasesKept, Old, IdsOf, Heirs, Tuple, On
  <2>1. u \notin PatchBases(rows)
    BY <1>3
  <2>2. ~u.embedded
    BY <2>1 DEF PatchBases
  <2>3. ASSUME u.launch PROVE Cardinality(IdsOf(Heirs(u)')) >= BaseWindow
    <3> DEFINE bases == {v \in Tuple(u) : v.launch /\ v.id > u.id /\ v \in PatchBases(rows)}
    <3>1. Cardinality(IdsOf(bases)) >= BaseWindow
      BY <2>1, <2>3, EnoughBases
    <3>2. bases \subseteq Heirs(u)' /\ Heirs(u)' \subseteq rows
      BY <1>1, <1>3, <1>4 DEF Heirs, Tuple, On
    <3>3. Rows(Heirs(u)') /\ Keyed(Heirs(u)')
      <4>1. Rows(Heirs(u)')
        BY <3>2, RowsSubset DEF IInv, RowsApart
      <4> QED BY <3>2, <4>1 DEF IInv, RowsApart, Keyed
    <3>4. IsFiniteSet(IdsOf(Heirs(u)'))
      BY <3>3, IdsOfKeyed
    <3>5. IdsOf(bases) \subseteq IdsOf(Heirs(u)')
      BY <3>2 DEF IdsOf
    <3>6. /\ Cardinality(IdsOf(bases)) <= Cardinality(IdsOf(Heirs(u)'))
          /\ Cardinality(IdsOf(bases)) \in Nat /\ Cardinality(IdsOf(Heirs(u)')) \in Nat
      BY <3>4, <3>5, FS_Subset, FS_CardinalityType
    <3> HIDE DEF bases
    <3> QED BY <3>1, <3>6
  <2> QED BY <2>2, <2>3
<1>10. FullyRolledOutKept'
  BY <1>4, <1>6 DEF FullyRolledOutKept
<1>11. Kept'
  BY <1>1, <1>4, <1>8, <1>9, <1>10 DEF IInv, Kept
<1> QED BY <1>5, <1>7, <1>11 DEF IInv

\* The end of a page, after which nothing is left of the groups reaped so far.
LEMMA TurnStep ==
  ASSUME IInv, reaper # Idle, reaper.pc \notin {"servable", "bases"},
         NEW pc \in {"page", "orphans"}, NEW reaped \in SUBSET Ids, Turn(pc, reaped),
         rows' \subseteq rows, UNCHANGED <<used, reachable>>,
         \A v \in rows : v.id \in reaper.keep \/ v.id \notin reaper.page => v \in rows',
         \A u \in rows' : u.group \notin reaped,
         \A g \in reaped : g < Cutoff
  PROVE  IInv'
<1>1. reaper \in Reaper
  BY Running DEF IInv
<1>2. /\ reaper' \in Reaper /\ reaper'.pc = pc /\ reaper'.page = {} /\ reaper'.guarded = {}
      /\ reaper'.reap = {} /\ reaper'.reaped = reaped /\ reaper'.keep = reaper.keep
      /\ reaper'.touched = reaper.touched
  BY <1>1 DEF Turn, Reaper
<1>3. rows' \subseteq Row /\ RowsApart'
  BY FewerRows
<1>4. TypeOK'
  BY <1>2, <1>3 DEF IInv, TypeOK
<1>5. Batch'
  BY <1>2 DEF Batch
<1>6. \A v \in rows : Alike(v, v)
  BY DEF Alike
<1>7. /\ ServableKept => ServableKept'
      /\ BasesKept => BasesKept'
  BY <1>2, <1>3, <1>6, KeptLasts DEF RowsApart
<1>8. FullyRolledOutKept'
  BY <1>2 DEF FullyRolledOutKept
<1>9. Kept'
  BY <1>2, <1>7, <1>8 DEF IInv, Kept
<1> QED BY <1>3, <1>4, <1>5, <1>9 DEF IInv

LEMMA FindPageStep == ASSUME IInv, FindPage PROVE IInv'
<1> DEFINE page == IdsOf(Page)
           guarded == page \ reaper.keep
           groups == {u.group : u \in {v \in rows : v.id \in guarded}}
<1>1. /\ reaper # Idle /\ reaper.pc = "page" /\ reaper \in Reaper
      /\ UNCHANGED <<rows, used, reachable>>
  BY Running DEF FindPage, At, Step, IInv
<1>2. reaper.page = {} /\ reaper.guarded = {} /\ reaper.reap = {}
  BY <1>1 DEF IInv, Batch
<1>3. CASE guarded = {}
  <2>1. Turn("orphans", reaper.reaped)
    BY <1>3 DEF FindPage, Leave
  <2>2. reaper.reaped \in SUBSET Ids
    BY <1>1 DEF Reaper
  <2>3. /\ \A u \in rows' : u.group \notin reaper.reaped
        /\ \A g \in reaper.reaped : g < Cutoff
    BY <1>1, <1>2 DEF IInv, Batch
  <2> QED BY <1>1, <2>1, <2>2, <2>3, TurnStep
<1>4. CASE guarded # {}
  <2>1. reaper' = [reaper EXCEPT !.pc = "groups", !.page = page, !.guarded = guarded,
                                 !.groups = groups, !.reap = {}]
    BY <1>4 DEF FindPage
  <2>2. page \subseteq Ids /\ groups \subseteq Ids
    BY RowShape DEF IdsOf, Page, IInv, TypeOK
  <2>3. \A i \in page : i < Cutoff /\ \E u \in rows : u.id = i /\ Candidate(u)
    BY DEF IdsOf, Page, Candidate
  <2> HIDE DEF page, groups
  <2>4. /\ reaper' \in Reaper /\ reaper'.pc = "groups" /\ reaper'.page = page
        /\ reaper'.guarded = guarded /\ reaper'.reap = {} /\ reaper'.reaped = reaper.reaped
        /\ reaper'.keep = reaper.keep /\ reaper'.touched = reaper.touched
    BY <1>1, <2>1, <2>2 DEF Reaper
  <2>5. TypeOK' /\ RowsApart'
    BY <1>1, <2>4 DEF IInv, TypeOK, RowsApart
  <2>6. Batch'
    BY <1>1, <1>2, <2>3, <2>4 DEF IInv, Batch
  <2>7. /\ ServableKept => ServableKept'
        /\ BasesKept => BasesKept'
    <3>1. \A v \in rows : Alike(v, v)
      BY DEF Alike
    <3> QED BY <1>1, <2>4, <2>5, <3>1, KeptLasts DEF RowsApart
  <2>8. FullyRolledOutKept'
    <3> SUFFICES ASSUME NEW u \in rows, u.id \in page, u.pct = 100
                 PROVE  \E v \in Tuple(u) : v.pct = 100 /\ v.id > u.id /\ v.id \notin page
      BY <1>1, <2>4 DEF FullyRolledOutKept, Tuple, On
    <3>1. Candidate(u)
      BY <2>3 DEF IInv, RowsApart, Keyed
    <3> DEFINE full == FullyRolledOut(Tuple(u))
               v == Newest(full)
    <3>2. u \in full /\ full \subseteq rows
      BY DEF FullyRolledOut, Tuple, On
    <3>3. Rows(full)
      BY <3>2, RowsSubset DEF IInv, RowsApart
    <3>4. v \in full /\ NoneNewer(v, full)
      BY <3>2, <3>3, NewestExists
    <3>5. v \in rows /\ v \in Tuple(u) /\ v.pct = 100 /\ Tuple(v) = Tuple(u)
      BY <3>4 DEF FullyRolledOut, Tuple, On
    <3>6. v # u /\ ~Candidate(v)
      BY <3>1, <3>5 DEF Candidate
    <3>7. v.id > u.id
      <4>1. u.id <= v.id /\ v.id # u.id /\ u.id \in Nat /\ v.id \in Nat
        BY <3>2, <3>4, <3>5, <3>6 DEF NoneNewer, IInv, RowsApart, Keyed, Rows
      <4> QED BY <4>1
    <3>8. v.id \notin page
      BY <2>3, <3>5, <3>6 DEF IInv, RowsApart, Keyed
    <3> QED BY <3>5, <3>7, <3>8
  <2>9. Kept'
    BY <1>1, <2>4, <2>7, <2>8 DEF IInv, Kept
  <2> QED BY <2>5, <2>6, <2>9 DEF IInv
<1> QED BY <1>3, <1>4

\* A group joins the batch whole, or stays out of it whole.
LEMMA LoadGroupStep == ASSUME IInv, NEW g \in Ids, LoadGroup(g) PROVE IInv'
<1> DEFINE members == IdsOf({u \in rows : u.group = g})
           groups == reaper.groups \ {g}
           reap == IF members \subseteq reaper.guarded THEN reaper.reap \cup members ELSE reaper.reap
<1>1. /\ reaper # Idle /\ reaper.pc = "groups" /\ reaper \in Reaper
      /\ UNCHANGED <<rows, used, reachable>>
      /\ Loaded(groups, reap)
  BY Running DEF LoadGroup, At, Step, IInv
<1>2. /\ reaper.reap \subseteq reap /\ reap \subseteq reaper.guarded
      /\ reaper.guarded \in SUBSET Ids /\ groups \in SUBSET Ids
  BY <1>1 DEF Reaper, IInv, Batch
<1>3. \A u, v \in rows : u.id \in reap /\ v.group = u.group => v.id \in reap
  <2> SUFFICES ASSUME NEW u \in rows, NEW v \in rows, u.id \in reap, v.group = u.group
               PROVE  v.id \in reap
    OBVIOUS
  <2>1. CASE u.id \in reaper.reap
    BY <1>1, <1>2, <2>1 DEF IInv, Batch
  <2>2. CASE u.id \notin reaper.reap
    <3>1. members \subseteq reaper.guarded /\ u.id \in members
      BY <2>2
    <3>2. PICK w \in rows : w.group = g /\ w.id = u.id
      BY <3>1 DEF IdsOf
    <3>3. w = u
      BY <3>2 DEF IInv, RowsApart, Keyed
    <3>4. v.id \in members
      BY <3>2, <3>3 DEF IdsOf
    <3> QED BY <3>1, <3>4
  <2> QED BY <2>1, <2>2
<1> HIDE DEF members, groups, reap
<1>4. CASE groups = {} /\ reap = {}
  <2>1. Turn("orphans", reaper.reaped)
    BY <1>1, <1>4 DEF Loaded, Leave
  <2>2. reaper.reaped \in SUBSET Ids
    BY <1>1 DEF Reaper
  <2>3. /\ \A u \in rows' : u.group \notin reaper.reaped
        /\ \A i \in reaper.reaped : i < Cutoff
    BY <1>1, <1>2, <1>4 DEF IInv, Batch
  <2> QED BY <1>1, <2>1, <2>2, <2>3, TurnStep
<1>5. CASE ~(groups = {} /\ reap = {})
  <2>1. /\ reaper' \in Reaper /\ reaper'.pc \in {"groups", "delete"} /\ reaper'.page = reaper.page
        /\ reaper'.guarded = reaper.guarded /\ reaper'.reap = reap
        /\ reaper'.reaped = reaper.reaped /\ reaper'.keep = reaper.keep
        /\ reaper'.touched = reaper.touched
    <3>1. CASE groups # {}
      <4>1. reaper' = [reaper EXCEPT !.groups = groups, !.reap = reap]
        BY <1>1, <3>1 DEF Loaded
      <4> QED BY <1>1, <1>2, <4>1 DEF Reaper
    <3>2. CASE groups = {}
      <4> DEFINE more == Cardinality(reap) = Cardinality(reaper.page)
      <4>1. reaper' = [reaper EXCEPT !.pc = "delete", !.groups = {}, !.reap = reap, !.more = more]
        BY <1>1, <1>5, <3>2 DEF Loaded
      <4>2. more \in BOOLEAN
        OBVIOUS
      <4> HIDE DEF more
      <4> QED BY <1>1, <1>2, <4>1, <4>2 DEF Reaper
    <3> QED BY <3>1, <3>2
  <2>2. TypeOK' /\ RowsApart'
    BY <1>1, <2>1 DEF IInv, TypeOK, RowsApart
  <2>3. Batch'
    BY <1>1, <1>2, <1>3, <2>1 DEF IInv, Batch
  <2>4. /\ ServableKept => ServableKept'
        /\ BasesKept => BasesKept'
        /\ FullyRolledOutKept => FullyRolledOutKept'
    <3>1. \A v \in rows : Alike(v, v)
      BY DEF Alike
    <3> QED BY <1>1, <2>1, <2>2, <3>1, KeptLasts DEF RowsApart
  <2>5. Kept'
    BY <1>1, <2>1, <2>4 DEF IInv, Kept
  <2> QED BY <2>2, <2>3, <2>5 DEF IInv
<1> QED BY <1>4, <1>5

LEMMA DeleteChunkStep ==
  ASSUME IInv, NEW ids \in SUBSET Ids, DeleteChunk(ids)
  PROVE  IInv'
<1> DEFINE reaped == reaper.reaped \cup {u.group : u \in rows \ rows'}
<1>1. /\ reaper # Idle /\ reaper.pc = "delete" /\ reaper \in Reaper
      /\ ids \subseteq reaper.reap
      /\ rows' = {u \in rows : u.id \notin ids}
      /\ UNCHANGED <<used, reachable>>
  BY Running DEF DeleteChunk, At, IInv
<1>2. /\ reaper.reap \subseteq reaper.page /\ reaper.reap \cap reaper.keep = {}
      /\ \A i \in reaper.reap : i < Cutoff
      /\ \A i \in reaper.reaped : i < Cutoff
  BY <1>1 DEF IInv, Batch
<1>3. rows' \subseteq rows /\ \A u \in rows \ rows' : u.id \in ids
  BY <1>1
<1>4. reaped \in SUBSET Ids
  <2>1. \A u \in rows : u.group \in Ids
    BY RowShape DEF IInv, TypeOK
  <2>2. reaper.reaped \subseteq Ids
    BY <1>1 DEF Reaper
  <2> QED BY <2>1, <2>2
<1>5. \A i \in reaped : i < Cutoff
  <2> SUFFICES ASSUME NEW u \in rows, u.id \in ids PROVE u.group < Cutoff
    BY <1>2, <1>3
  <2>1. u.group <= u.id /\ u.id < Cutoff /\ u.group \in Nat /\ u.id \in Nat
    BY <1>1, <1>2, RowShape DEF IInv, RowsApart, TypeOK
  <2> QED BY <2>1
<1>6. \A u \in rows' : u.group \in reaped => u.id \in reaper.reap \ ids
  <2> SUFFICES ASSUME NEW u \in rows', u.group \in reaped PROVE u.id \in reaper.reap
    BY <1>1
  <2>1. CASE u.group \in reaper.reaped
    BY <1>1, <1>3, <2>1 DEF IInv, Batch
  <2>2. CASE u.group \notin reaper.reaped
    <3>1. PICK v \in rows : v.id \in ids /\ v.group = u.group
      BY <1>3, <2>2
    <3> QED BY <1>1, <1>3, <3>1 DEF IInv, Batch
  <2> QED BY <2>1, <2>2
<1>7. \A v \in rows : v.id \in reaper.keep \/ v.id \notin reaper.page => v \in rows'
  BY <1>1, <1>2
<1>8. CASE ids = reaper.reap
  <2> DEFINE pc == IF reaper.more THEN "page" ELSE "orphans"
  <2>1. Turn(pc, reaped)
    BY <1>8 DEF DeleteChunk
  <2>2. \A u \in rows' : u.group \notin reaped
    BY <1>6, <1>8
  <2>3. pc \in {"page", "orphans"}
    OBVIOUS
  <2> HIDE DEF pc, reaped
  <2> QED BY <1>1, <1>3, <1>4, <1>5, <1>7, <2>1, <2>2, <2>3, TurnStep
<1>9. CASE ids # reaper.reap
  <2>1. reaper' = [reaper EXCEPT !.reap = @ \ ids, !.reaped = reaped]
    BY <1>9 DEF DeleteChunk
  <2> HIDE DEF reaped
  <2>2. /\ reaper' \in Reaper /\ reaper'.pc = "delete" /\ reaper'.page = reaper.page
        /\ reaper'.guarded = reaper.guarded /\ reaper'.reap = reaper.reap \ ids
        /\ reaper'.reaped = reaped /\ reaper'.keep = reaper.keep
        /\ reaper'.touched = reaper.touched
    BY <1>1, <1>4, <2>1 DEF Reaper
  <2>3. rows' \subseteq Row /\ RowsApart'
    BY <1>1, <1>3, FewerRows
  <2>4. TypeOK'
    BY <1>1, <2>2, <2>3 DEF IInv, TypeOK
  <2>5. \A u, v \in rows' : u.id \in reaper.reap \ ids /\ v.group = u.group => v.id \in reaper.reap \ ids
    <3> SUFFICES ASSUME NEW u \in rows', NEW v \in rows', u.id \in reaper.reap, v.group = u.group
                 PROVE  v.id \in reaper.reap
      BY <1>1
    <3> QED BY <1>1, <1>3 DEF IInv, Batch
  <2>6. Batch'
    BY <1>1, <1>5, <1>6, <2>2, <2>5 DEF IInv, Batch
  <2>7. \A v \in rows : Alike(v, v)
    BY DEF Alike
  <2>8. /\ ServableKept => ServableKept'
        /\ BasesKept => BasesKept'
        /\ FullyRolledOutKept => FullyRolledOutKept'
    BY <1>1, <1>3, <1>7, <2>2, <2>3, <2>7, KeptLasts DEF RowsApart
  <2>9. Kept'
    BY <1>1, <2>2, <2>8 DEF IInv, Kept
  <2> QED BY <2>3, <2>4, <2>6, <2>9 DEF IInv
<1> QED BY <1>8, <1>9

LEMMA RunEnds == ASSUME IInv, End \/ Crash PROVE IInv'
<1>1. reaper' = Idle /\ UNCHANGED <<rows, used, reachable>>
  BY DEF End, Crash, Step
<1> QED BY <1>1 DEF IInv, TypeOK, RowsApart, Batch, Kept

(***************************************************************************)
(* The theorems.                                                           *)
(***************************************************************************)
LEMMA IInvStep == ASSUME IInv, [Next]_vars PROVE IInv'
<1>1. CASE UNCHANGED vars
  <2>1. TypeOK' /\ RowsApart' /\ Batch'
    BY <1>1 DEF vars, IInv, TypeOK, RowsApart, Batch
  <2>2. Kept'
    BY <1>1 DEF vars, IInv, Kept, ServableKept, BasesKept, FullyRolledOutKept, Old, Heirs,
                Tuple, On, IdsOf
  <2> QED BY <2>1, <2>2 DEF IInv
<1>2. CASE Manage
  <2>1. ASSUME NEW id \in Ids \ used, NEW group \in Ids, NEW b \in Branches, NEW t \in Targets,
               NEW kind \in Kinds,
               Publish([id |-> id, group |-> group, branch |-> b, target |-> t, pct |-> kind[3],
                        embedded |-> kind[1], launch |-> kind[2]])
        PROVE  IInv'
    <3> DEFINE u == [id |-> id, group |-> group, branch |-> b, target |-> t, pct |-> kind[3],
                     embedded |-> kind[1], launch |-> kind[2]]
    <3>1. kind[1] \in BOOLEAN /\ kind[2] \in BOOLEAN /\ kind[3] \in 0..100
      <4>1. kind \in BOOLEAN \X BOOLEAN \X Percentages
        OBVIOUS
      <4> QED BY <4>1
    <3>2. u \in Row
      BY <3>1 DEF Row
    <3> HIDE DEF u
    <3> QED BY <2>1, <3>2, PublishStep DEF u
  <2> QED BY <1>2, <2>1, UpdateRolloutStep, DeleteGroupStep, RelinkStep DEF Manage
<1>3. CASE Start
  BY <1>3, StartStep
<1>4. CASE Reap
  BY <1>4, ReadServableStep, ReadBasesStep, FindPageStep, LoadGroupStep, DeleteChunkStep,
     RunEnds DEF Reap
<1>5. CASE Crash
  BY <1>5, RunEnds
<1> QED BY <1>1, <1>2, <1>3, <1>4, <1>5 DEF Next

LEMMA ReaperInvariant == Spec => []IInv
<1>1. Init => IInv
  BY IInvInit
<1>2. IInv /\ [Next]_vars => IInv'
  BY IInvStep
<1> QED BY <1>1, <1>2, PTL DEF Spec

\* Every variable has its type in every reachable state.
THEOREM TypeCorrect == Spec => []TypeOK
<1>1. IInv => TypeOK
  BY DEF IInv
<1> QED BY <1>1, ReaperInvariant, PTL

\* When a run turns to its next page or ends its loop, nothing is left of the
\* groups it deleted from, although it decides on pages that cut groups and
\* deletes in chunks that cut them again (reapOneBatch, runDeleteUpdateRows).
THEOREM GroupsAreReapedWhole == Spec => []GroupsGoWhole
<1>1. IInv => GroupsGoWhole
  BY DEF IInv, Batch, GroupsGoWhole, At
<1> QED BY <1>1, ReaperInvariant, PTL

(***************************************************************************)
(* What reaping changes: nothing that devices see or patch from.           *)
(***************************************************************************)

\* A step that reaps is a chunk of a run that nobody interfered with; the rows
\* it deletes are old, not kept, and of the page.
LEMMA ReapingIsChunk ==
  ASSUME IInv, [Next]_vars, Reaping
  PROVE  /\ rows' \subseteq rows
         /\ \A u \in rows \ rows' : Old(u) /\ u.id \in reaper.page
         /\ ServableKept /\ BasesKept /\ FullyRolledOutKept
<1>1. reaper # Idle /\ reaper.pc = "delete" /\ reaper \in Reaper
  BY Running DEF Reaping, At, IInv
<1>2. PICK ids \in SUBSET Ids : DeleteChunk(ids)
  <2>1. CASE Manage
    <3>1. ASSUME Touch PROVE FALSE
      <4>1. reaper' = [reaper EXCEPT !.touched = TRUE]
        BY <1>1, <3>1 DEF Touch
      <4> QED BY <1>1, <4>1 DEF Reaping, Reaper
    <3>2. ASSUME NEW u, Publish(u) PROVE FALSE
      BY <3>2 DEF Publish, Reaping
    <3>3. ~\E u \in rows, pct \in Percentages : UpdateRollout(u, pct)
      BY <3>1 DEF UpdateRollout
    <3>4. ~\E g \in Ids : DeleteGroup(g)
      BY <3>1 DEF DeleteGroup
    <3>5. ~\E bs \in SUBSET Branches : Relink(bs)
      BY <3>1 DEF Relink
    <3> QED BY <2>1, <3>2, <3>3, <3>4, <3>5 DEF Manage
  <2>2. CASE Start \/ Crash \/ UNCHANGED vars
    BY <2>2 DEF Start, Crash, Step, vars, Reaping
  <2>3. CASE Reap
    <3>1. ASSUME Step PROVE FALSE
      BY <3>1 DEF Step, Reaping
    <3> QED BY <2>3, <3>1 DEF Reap, ReadServable, ReadBases, FindPage, LoadGroup, End
  <2>4. Manage \/ (Start \/ Crash \/ UNCHANGED vars) \/ Reap
    BY DEF Next
  <2> QED BY <2>1, <2>2, <2>3, <2>4
<1>3. /\ ids \subseteq reaper.reap
      /\ rows' = {u \in rows : u.id \notin ids}
  BY <1>2 DEF DeleteChunk
<1>4. ~reaper.touched
  <2>1. CASE ids = reaper.reap
    BY <1>1, <1>2, <2>1 DEF DeleteChunk, Turn, Reaper, Reaping
  <2>2. CASE ids # reaper.reap
    BY <1>1, <1>2, <2>2 DEF DeleteChunk, Reaper, Reaping
  <2> QED BY <2>1, <2>2
<1>5. \A u \in rows \ rows' : Old(u) /\ u.id \in reaper.page
  BY <1>1, <1>3 DEF IInv, Batch, Old
<1>6. ServableKept /\ BasesKept /\ FullyRolledOutKept
  BY <1>1, <1>4 DEF IInv, Kept
<1> QED BY <1>3, <1>5, <1>6

InvisibleHere ==
  Reaping =>
    \A b \in reachable, t \in Targets, known \in BOOLEAN, hidden \in SUBSET Ids :
      \A enrolled \in SUBSET Rollouts(On(b, t)) :
        Served(On(b, t), known, enrolled, hidden)
          = Served(On(b, t)', known, enrolled, hidden)

LEMMA InvisibleInStep == ASSUME IInv, [Next]_vars PROVE InvisibleHere
<1> SUFFICES ASSUME Reaping, NEW b \in reachable, NEW t \in Targets, NEW known, NEW hidden,
                    NEW enrolled
             PROVE  Served(On(b, t), known, enrolled, hidden)
                      = Served(On(b, t)', known, enrolled, hidden)
  BY DEF InvisibleHere
<1> DEFINE S == On(b, t)
           T == On(b, t)'
<1>1. /\ rows' \subseteq rows
      /\ \A u \in rows \ rows' : Old(u) /\ u.id \in reaper.page
      /\ ServableKept /\ FullyRolledOutKept
  BY ReapingIsChunk
<1>2. /\ S \subseteq rows /\ T \subseteq S
      /\ \A u \in S : u.branch = b /\ Tuple(u) = S /\ (u \in rows' => u \in T)
  BY <1>1 DEF On, Tuple
<1>3. Rows(S) /\ Keyed(S)
  <2>1. Rows(S)
    BY <1>2, RowsSubset DEF IInv, RowsApart
  <2> QED BY <1>2, <2>1 DEF IInv, RowsApart, Keyed
<1> HIDE DEF S, T
<1>4. Candidates(S) \subseteq T
  <2> SUFFICES ASSUME NEW u \in Candidates(S), u \notin T PROVE FALSE
    OBVIOUS
  <2>1. u \in S /\ u \in rows \ rows'
    BY <1>2 DEF Candidates
  <2>2. PICK v, w \in S : u.id < v.id /\ v.id < w.id
    BY <1>1, <1>2, <2>1 DEF ServableKept
  <2>3. Newest(S) \in S /\ NoneNewer(Newest(S), S)
    BY <1>3, <2>1, NewestExists
  <2>4. u.id \in Nat /\ v.id \in Nat /\ w.id \in Nat /\ w.id <= Newest(S).id
    BY <1>3, <2>1, <2>2, <2>3 DEF Rows, NoneNewer
  <2>5. v # Newest(S)
    BY <2>2, <2>4
  <2>6. ~NoneNewer(u, S) /\ ~NoneNewer(u, S \ {Newest(S)})
    BY <2>2, <2>4, <2>5 DEF NoneNewer
  <2> QED BY <2>6 DEF Candidates
<1>5. \A u \in FullyRolledOut(S) : NoneNewer(u, FullyRolledOut(S)) => u \in T
  <2> SUFFICES ASSUME NEW u \in S, u.pct = 100, NoneNewer(u, FullyRolledOut(S)), u \notin T
               PROVE  FALSE
    BY DEF FullyRolledOut
  <2>1. u \in rows \ rows'
    BY <1>2
  <2>2. PICK v \in S : v.pct = 100 /\ v.id > u.id
    BY <1>1, <1>2, <2>1 DEF FullyRolledOutKept
  <2>3. v.id <= u.id /\ v.id \in Nat /\ u.id \in Nat
    BY <1>3, <2>2 DEF NoneNewer, FullyRolledOut, Rows
  <2> QED BY <2>2, <2>3
<1> QED BY <1>2, <1>3, <1>4, <1>5, ServedWithout DEF S, T

\* No device is sent anything else because rows were reaped, on any branch that
\* is reachable, whatever is published meanwhile and however many pages and
\* chunks it takes: the newest two rows of a tuple and its newest fully rolled
\* out one outlive every run (findServableUpdateIdsForBranches, reapOneBatch).
THEOREM DevicesSeeNoReaping == Spec => ReapingIsInvisible
<1>1. IInv /\ [Next]_vars => [InvisibleHere]_vars
  BY InvisibleInStep
<1> QED BY <1>1, ReaperInvariant, PTL DEF Spec, InvisibleHere, ReapingIsInvisible

BasesHere == Reaping => PatchBases(rows') = PatchBases(rows)

\* A deleted row has enough kept bases above it, and so has every row that it
\* counted for.
LEMMA BasesInStep == ASSUME IInv, [Next]_vars PROVE BasesHere
<1> SUFFICES ASSUME Reaping PROVE PatchBases(rows') = PatchBases(rows)
  BY DEF BasesHere
<1> DEFINE Newer(S, u) == {v \in S : v.launch /\ v.branch = u.branch
                                       /\ v.target = u.target /\ v.id > u.id}
<1>1. /\ rows' \subseteq rows
      /\ \A u \in rows \ rows' : Old(u)
      /\ BasesKept
  BY ReapingIsChunk
<1>2. Rows(rows) /\ Keyed(rows)
  BY DEF IInv, RowsApart
<1>3. \A u : /\ IsFiniteSet(Newer(rows, u)) /\ IsFiniteSet(Newer(rows', u))
             /\ Newer(rows', u) \subseteq Newer(rows, u)
             /\ Cardinality(Newer(rows', u)) <= Cardinality(Newer(rows, u))
             /\ Cardinality(Newer(rows', u)) \in Nat /\ Cardinality(Newer(rows, u)) \in Nat
  <2> TAKE u
  <2>1. Newer(rows', u) \subseteq Newer(rows, u) /\ Newer(rows, u) \subseteq rows
    BY <1>1
  <2> QED BY <1>2, <2>1, FS_Subset, FS_CardinalityType DEF Rows
\* what stays of the rows above a deleted one
<1>4. ASSUME NEW d \in rows \ rows', d.launch, NEW u \in rows,
             u.branch = d.branch, u.target = d.target, u.id <= d.id
      PROVE  ~(Cardinality(Newer(rows', u)) < BaseWindow)
  <2>1. Cardinality(IdsOf(Heirs(d))) >= BaseWindow
    BY <1>1, <1>4 DEF BasesKept
  <2>2. Heirs(d) \subseteq Newer(rows', u)
    <3> SUFFICES ASSUME NEW v \in rows, v.branch = d.branch, v.target = d.target, v.launch,
                        v.id > d.id, v.id \in reaper.keep
                 PROVE  v \in rows' /\ v.id > u.id
      BY <1>4 DEF Heirs, Tuple, On
    <3>1. v \in rows'
      BY <1>1 DEF Old
    <3>2. v.id \in Nat /\ d.id \in Nat /\ u.id \in Nat
      BY <1>2 DEF Rows
    <3> QED BY <1>4, <3>1, <3>2
  <2>3. Rows(Heirs(d)) /\ Keyed(Heirs(d))
    <3>1. Heirs(d) \subseteq rows
      BY DEF Heirs, Tuple, On
    <3>2. Rows(Heirs(d))
      BY <1>2, <3>1, RowsSubset
    <3> QED BY <1>2, <3>1, <3>2 DEF Keyed
  <2>4. Cardinality(IdsOf(Heirs(d))) = Cardinality(Heirs(d))
    BY <2>3, IdsOfKeyed
  <2>5. Cardinality(Heirs(d)) <= Cardinality(Newer(rows', u)) /\ Cardinality(Heirs(d)) \in Nat
    BY <1>3, <2>2, <2>3, FS_Subset, FS_CardinalityType DEF Rows
  <2> HIDE DEF Newer
  <2> QED BY <1>3, <2>1, <2>4, <2>5
<1>5. ASSUME NEW u \in PatchBases(rows) PROVE u \in PatchBases(rows')
  <2>1. u \in rows /\ (u.embedded \/ (u.launch /\ Cardinality(Newer(rows, u)) < BaseWindow))
    BY DEF PatchBases
  <2>2. u \in rows'
    <3> SUFFICES ASSUME u \in rows \ rows' PROVE FALSE
      BY <2>1
    <3>1. ~u.embedded /\ u.launch /\ u.id <= u.id
      BY <1>1, <1>2, <2>1 DEF BasesKept, Rows
    <3>2. ~(Cardinality(Newer(rows', u)) < BaseWindow)
      BY <1>4, <3>1
    <3> HIDE DEF Newer
    <3> QED BY <1>3, <2>1, <3>1, <3>2
  <2>3. u.embedded \/ (u.launch /\ Cardinality(Newer(rows', u)) < BaseWindow)
    <3> HIDE DEF Newer
    <3> QED BY <1>3, <2>1
  <2> QED BY <2>2, <2>3 DEF PatchBases
<1>6. ASSUME NEW u \in PatchBases(rows') PROVE u \in PatchBases(rows)
  <2>1. u \in rows' /\ u \in rows /\ (u.embedded \/ (u.launch /\ Cardinality(Newer(rows', u)) < BaseWindow))
    BY <1>1 DEF PatchBases
  <2>2. CASE u.embedded
    BY <2>1, <2>2 DEF PatchBases
  <2>3. CASE Newer(rows, u) \subseteq rows'
    <3>1. Newer(rows, u) = Newer(rows', u)
      BY <1>1, <2>3
    <3> QED BY <2>1, <3>1 DEF PatchBases
  <2>4. CASE ~u.embedded /\ ~(Newer(rows, u) \subseteq rows')
    <3>1. PICK d \in rows \ rows' : d.launch /\ d.branch = u.branch /\ d.target = u.target /\ d.id > u.id
      BY <2>4
    <3>2. u.id <= d.id
      BY <1>2, <2>1, <3>1 DEF Rows
    <3>3. ~(Cardinality(Newer(rows', u)) < BaseWindow)
      BY <1>4, <2>1, <3>1, <3>2
    <3> QED BY <2>1, <2>4, <3>3
  <2> QED BY <2>2, <2>3, <2>4
<1> QED BY <1>5, <1>6

\* Reaping takes no update that a device may patch from, and none it counts as
\* recent becomes so, for any base window (findPatchBaseUpdateIdsByProject).
THEOREM BasesOutliveReaping == Spec => ReapingKeepsBases
<1>1. IInv /\ [Next]_vars => [BasesHere]_vars
  BY BasesInStep
<1> QED BY <1>1, ReaperInvariant, PTL DEF Spec, BasesHere, ReapingKeepsBases
=============================================================================
