---------------------- MODULE PublishCoordinatorProofs ----------------------
(***************************************************************************)
(* Machine-checked proofs about PublishCoordinator, for every set of       *)
(* publishers, branches, targets and ids and every bound on the clock.     *)
(***************************************************************************)
EXTENDS PublishCoordinator, FiniteSetTheorems, TLAPS

USE PublishCoordinatorAssumption

(***************************************************************************)
(* The inductive invariant.  The permit makes the rows a request has       *)
(* checked stay as it saw them: only the holder of a branch's permit puts  *)
(* rows there, and only the head of the queue is past its first read.      *)
(***************************************************************************)

\* No two rows have the same id (the primary key).
Keyed(S) == \A u, v \in S : u.id = v.id => u = v

\* The table: finitely many rows of the type, keyed by id.
Table(S) == S \subseteq Row /\ IsFiniteSet(S) /\ Keyed(S)

\* A request: finitely many updates with an id each; a baseline comes alone.
WellFormed(items) ==
  /\ IsFiniteSet(items)
  /\ \A i, j \in items : i.id = j.id => i = j
  /\ \A i \in items : i.embedded => items = {i}

Busy(p) == job[p] # Idle

RequestInv == \A p \in Publishers : Busy(p) => WellFormed(job[p].items)

\* In a branch's queue stand requests of the branch, each once.
QueueInv ==
  \A b \in Branches : \A m \in 1..Len(queue[b]) :
    /\ Busy(queue[b][m]) /\ job[queue[b][m]].branch = b
    /\ \A n \in 1..Len(queue[b]) : queue[b][m] = queue[b][n] => m = n

\* A request past its first read holds the permit.
HeadInv == \A p \in Publishers : job[p].pc \notin {"idle", "rollout"} => Holds(p)

\* What the request of p has read of the baseline slot and of the clock.
SlotFree(p) ==
  job[p].pc \in {"skew", "insert"} =>
    \A i \in job[p].items : i.embedded =>
      \A u \in Tuple(job[p].branch, i.target) : ~u.embedded

Beats(p, i) ==
  i.commit # NoTime /\ ~i.embedded =>
    \A u \in Tuple(job[p].branch, i.target) : u.at < i.commit

Recent(p) ==
  /\ job[p].pc = "skew" => \A i \in job[p].items \ job[p].left : Beats(p, i)
  /\ job[p].pc = "insert" => \A i \in job[p].items : Beats(p, i)

Checks == \A p \in Publishers : SlotFree(p) /\ Recent(p)

\* The part about requests and queues alone.
JobsInv ==
  /\ job \in [Publishers -> Job \cup {Idle}]
  /\ queue \in [Branches -> Seq(Publishers)]
  /\ RequestInv
  /\ QueueInv
  /\ HeadInv

TableInv == Table(rows) /\ used \subseteq Ids /\ now \in Times

IInv == TableInv /\ JobsInv /\ Checks

(***************************************************************************)
(* ORDER BY created_at DESC, id DESC LIMIT 1 over a nonempty tuple returns *)
(* its newest row: the sets of later rows have a minimal one under strict  *)
(* inclusion, and the row it belongs to has none.                          *)
(***************************************************************************)
LEMMA LatestExists ==
  ASSUME NEW S, Table(S), S # {}
  PROVE  Latest(S) \in S /\ \A v \in S \ {Latest(S)} : Precedes(v, Latest(S))
<1> DEFINE Later(u) == {v \in S : Precedes(u, v)}
           T == {Later(u) : u \in S}
           R == StrictSubsetOrdering(S)
<1>0. \A u \in S : u.at \in Int /\ u.id \in Int
  <2>1. \A u \in S : u.at \in Times /\ u.id \in Ids
    BY DEF Table, Row
  <2>2. Times \subseteq Int /\ Ids \subseteq Int
    BY DEF Times
  <2> HIDE PublishCoordinatorAssumption
  <2> QED BY <2>1, <2>2
<1>1. IsWellFoundedOn(R, FiniteSubsetsOf(S))
  BY FS_StrictSubsetOrderingWellFounded
<1>2. T \subseteq FiniteSubsetsOf(S) /\ T # {}
  <2>1. \A u \in S : IsFiniteSet(Later(u)) /\ Later(u) \in SUBSET S
    BY FS_Subset DEF Table
  <2> HIDE DEF Later
  <2> QED BY <2>1 DEF FiniteSubsetsOf
<1> HIDE DEF T, R
<1>3. \E X \in T : \A Y \in T : ~(<<Y, X>> \in R)
  BY <1>1, <1>2, WFMin
<1>4. PICK u \in S : \A v \in S : ~(<<Later(v), Later(u)>> \in R)
  <2> HIDE DEF Later
  <2> QED BY <1>3 DEF T
<1>5. ASSUME NEW v \in S, Precedes(u, v) PROVE FALSE
  <2>1. Later(v) \subseteq Later(u) /\ v \in Later(u) /\ v \notin Later(v)
    BY <1>0, <1>5 DEF Precedes
  <2>2. <<Later(v), Later(u)>> \in R
    BY <2>1 DEF R, StrictSubsetOrdering
  <2> QED BY <2>2, <1>4
<1>6. \A v \in S \ {u} : Precedes(v, u)
  BY <1>0, <1>5 DEF Precedes, Table, Keyed
<1> QED
  BY <1>6 DEF Latest

\* A commit time that clockSkewConflict lets pass beats every row of the tuple.
LEMMA SkewBeats ==
  ASSUME TableInv, NEW p \in Publishers, NEW i \in Item,
         ~ClockSkew(i, Tuple(job[p].branch, i.target))
  PROVE  Beats(p, i)
<1> DEFINE S == Tuple(job[p].branch, i.target)
<1>1. Table(S)
  BY FS_Subset DEF TableInv, Table, Keyed, Tuple
<1> HIDE DEF S
<1> SUFFICES ASSUME i.commit # NoTime, ~i.embedded, NEW u \in S PROVE u.at < i.commit
  BY DEF Beats, S
<1>2. i.commit \in Int /\ u.at \in Int /\ Latest(S) \in S /\ Latest(S).at \in Int
  BY <1>1, LatestExists DEF Item, Times, Table, Row
<1>3. ~(i.commit <= Latest(S).at)
  BY DEF ClockSkew, S
<1>4. u.at <= Latest(S).at
  BY <1>1, <1>2, LatestExists DEF Precedes
<1> QED BY <1>2, <1>3, <1>4

(***************************************************************************)
(* Requests and queues.                                                    *)
(***************************************************************************)
LEMMA JobFields ==
  ASSUME JobsInv, NEW p \in Publishers
  PROVE  /\ Busy(p) <=> job[p].pc # "idle"
         /\ Busy(p) => /\ job[p] \in Job /\ job[p].branch \in Branches
                       /\ job[p].items \subseteq Item /\ job[p].left \subseteq Item
                       /\ WellFormed(job[p].items)
         /\ Holds(p) => Busy(p) /\ queue[job[p].branch] # <<>> /\ Head(queue[job[p].branch]) = p
BY DEF JobsInv, RequestInv, Busy, Job, Idle, Holds

\* The job of p goes on: pc and left change, the rest stays.
Moved(p, pc, left) ==
  /\ job' = [job EXCEPT ![p] = [job[p] EXCEPT !.pc = pc, !.left = left]]
  /\ queue' = queue

LEMMA MovedJob ==
  ASSUME JobsInv, NEW p \in Publishers, Holds(p), NEW pc, NEW left, Moved(p, pc, left)
  PROVE  /\ job'[p].pc = pc /\ job'[p].left = left
         /\ job'[p].branch = job[p].branch /\ job'[p].items = job[p].items
         /\ \A q \in Publishers \ {p} : job'[q] = job[q]
<1>1. job[p] \in Job
  BY JobFields
<1>2. job'[p] = [job[p] EXCEPT !.pc = pc, !.left = left]
  BY DEF JobsInv, Moved
<1> QED
  BY <1>1, <1>2 DEF JobsInv, Moved, Job

LEMMA GotoMoves ==
  ASSUME JobsInv, NEW p \in Publishers, Holds(p), NEW pc, Goto(p, pc)
  PROVE  Moved(p, pc, job[p].items) /\ UNCHANGED <<used, now>>
<1>1. job[p] \in Job
  BY JobFields
<1> QED
  BY <1>1 DEF Goto, JobsInv, Job, Moved

LEMMA MovedInv ==
  ASSUME JobsInv, NEW p \in Publishers, Holds(p),
         NEW pc \in {"rollout", "reconcile", "delete", "clear", "skew", "insert", "bump"},
         NEW left \in SUBSET Item, Moved(p, pc, left)
  PROVE  JobsInv'
<1> DEFINE slot == [job[p] EXCEPT !.pc = pc, !.left = left]
<1>1. slot \in Job /\ slot.pc = pc /\ slot.branch = job[p].branch /\ slot.items = job[p].items
  BY JobFields DEF Job
<1>2. job' = [job EXCEPT ![p] = slot] /\ queue' = queue
  BY DEF Moved
<1>3. slot # Idle
  BY ZenonT(60), <1>1 DEF Idle
<1> HIDE DEF slot
<1>4. /\ job' \in [Publishers -> Job \cup {Idle}] /\ job'[p] = slot
      /\ \A q \in Publishers \ {p} : job'[q] = job[q]
  BY <1>1, <1>2 DEF JobsInv
<1>5. RequestInv'
  BY <1>1, <1>4, JobFields DEF JobsInv, RequestInv, Busy, WellFormed
<1>6. QueueInv'
  <2>1. \A q \in Publishers : Busy(q) => Busy(q)' /\ job'[q].branch = job[q].branch
    BY <1>1, <1>3, <1>4 DEF Busy
  <2>2. \A b \in Branches : \A m \in 1..Len(queue[b]) : queue[b][m] \in Publishers
    BY DEF JobsInv
  <2> QED BY <1>2, <2>1, <2>2 DEF JobsInv, QueueInv
<1>7. HeadInv'
  <2>1. Holds(p)'
    BY <1>1, <1>2, <1>3, <1>4 DEF Holds
  <2>2. \A q \in Publishers \ {p} : Holds(q) => Holds(q)'
    BY <1>2, <1>4 DEF Holds
  <2> QED BY <1>4, <2>1, <2>2 DEF JobsInv, HeadInv
<1> QED
  BY <1>2, <1>4, <1>5, <1>6, <1>7 DEF JobsInv

\* The request that holds the permit is answered.
LEMMA LeaveInv ==
  ASSUME JobsInv, NEW p \in Publishers, Holds(p), Leave(p)
  PROVE  /\ JobsInv'
         /\ job'[p] = Idle /\ \A q \in Publishers \ {p} : job'[q] = job[q]
<1> DEFINE b == job[p].branch
<1>1. Busy(p) /\ b \in Branches /\ queue[b] \in Seq(Publishers) /\ queue[b] # <<>> /\ queue[b][1] = p
  BY JobFields DEF JobsInv
<1>2. /\ job' \in [Publishers -> Job \cup {Idle}] /\ job'[p] = Idle
      /\ \A q \in Publishers \ {p} : job'[q] = job[q]
  BY DEF Leave, JobsInv
<1>3. /\ queue' \in [Branches -> Seq(Publishers)] /\ queue'[b] = Tail(queue[b])
      /\ \A c \in Branches \ {b} : queue'[c] = queue[c]
  BY <1>1 DEF Leave, JobsInv
<1> HIDE DEF b
<1>4. RequestInv'
  BY <1>2 DEF JobsInv, RequestInv, Busy
<1>5. /\ Len(queue'[b]) = Len(queue[b]) - 1 /\ Len(queue[b]) \in Nat
      /\ \A m \in 1..Len(queue'[b]) : queue'[b][m] = queue[b][m + 1] /\ m + 1 \in 1..Len(queue[b])
  BY <1>1, <1>3
<1>6. \A c \in Branches : \A m \in 1..Len(queue'[c]) : queue'[c][m] \in Publishers \ {p}
  <2>1. \A m \in 1..Len(queue'[b]) : queue'[b][m] # p
    BY <1>1, <1>5 DEF JobsInv, QueueInv
  <2>2. \A c \in Branches \ {b} : \A m \in 1..Len(queue[c]) : queue[c][m] # p
    BY DEF JobsInv, QueueInv, b
  <2>3. \A c \in Branches : \A m \in 1..Len(queue'[c]) : queue'[c][m] \in Publishers
    BY <1>3
  <2> QED BY ZenonT(60), <1>3, <2>1, <2>2, <2>3
<1>7. QueueInv'
  <2>1. ASSUME NEW m \in 1..Len(queue'[b]), NEW q, q = queue'[b][m]
        PROVE  /\ job'[q] # Idle /\ job'[q].branch = b
               /\ \A n \in 1..Len(queue'[b]) : q = queue'[b][n] => m = n
    <3>1. q \in Publishers \ {p} /\ q = queue[b][m + 1]
      BY <1>1, <1>5, <1>6, <2>1
    <3>2. Busy(q) /\ job[q].branch = b
      BY <1>1, <1>5, <3>1 DEF JobsInv, QueueInv
    <3>3. ASSUME NEW n \in 1..Len(queue'[b]), q = queue'[b][n] PROVE m = n
      <4>1. /\ n + 1 \in 1..Len(queue[b]) /\ queue[b][n + 1] = q
            /\ m + 1 \in 1..Len(queue[b]) /\ queue[b][m + 1] = q
        BY <1>5, <2>1, <3>1, <3>3
      <4>2. m + 1 = n + 1
        BY <1>1, <4>1 DEF JobsInv, QueueInv
      <4> QED BY <1>5, <4>2
    <3> QED BY <1>2, <3>1, <3>2, <3>3 DEF Busy
  <2>2. ASSUME NEW c \in Branches \ {b}, NEW m \in 1..Len(queue[c]), NEW q, q = queue[c][m]
        PROVE  /\ job'[q] # Idle /\ job'[q].branch = c
               /\ \A n \in 1..Len(queue[c]) : q = queue[c][n] => m = n
    BY <1>2, <1>3, <1>6, <2>2 DEF JobsInv, QueueInv, Busy
  <2>3. ASSUME NEW c \in Branches, NEW m \in 1..Len(queue'[c])
        PROVE  /\ job'[queue'[c][m]] # Idle /\ job'[queue'[c][m]].branch = c
               /\ \A n \in 1..Len(queue'[c]) : queue'[c][m] = queue'[c][n] => m = n
    <3>1. CASE c = b
      BY <2>1, <2>3, <3>1
    <3>2. CASE c # b
      BY <1>3, <2>2, <2>3, <3>2
    <3> QED BY <3>1, <3>2
  <2> QED BY <2>3 DEF QueueInv, Busy
<1>8. HeadInv'
  <2>1. ASSUME NEW q \in Publishers \ {p}, Holds(q) PROVE Holds(q)'
    <3>1. job[q].branch # b
      BY <1>1, <2>1 DEF Holds, b
    <3> QED BY <1>2, <1>3, <2>1, <3>1, JobFields DEF Holds
  <2> QED BY <1>2, <2>1 DEF JobsInv, HeadInv, Idle
<1> QED
  BY <1>2, <1>3, <1>4, <1>7, <1>8 DEF JobsInv

LEMMA HeadAppend ==
  ASSUME NEW P, NEW s \in Seq(P), s # <<>>, NEW x \in P
  PROVE  Append(s, x) # <<>> /\ Head(Append(s, x)) = Head(s)
OBVIOUS

\* A request that is not in any queue joins one.
LEMMA EnterInv ==
  ASSUME JobsInv, NEW p \in Publishers, NEW b \in Branches, NEW items \in SUBSET Item,
         WellFormed(items), Enter(p, b, items)
  PROVE  /\ JobsInv'
         /\ job'[p].pc = "rollout" /\ \A q \in Publishers \ {p} : job'[q] = job[q]
<1> DEFINE slot == [pc |-> "rollout", branch |-> b, items |-> items, left |-> items]
<1>1. slot \in Job /\ slot.pc = "rollout" /\ slot.branch = b /\ slot.items = items /\ slot # Idle
  BY DEF Job, Idle
<1>2. /\ job[p] = Idle /\ job' = [job EXCEPT ![p] = slot]
      /\ queue' = [queue EXCEPT ![b] = Append(@, p)]
  BY DEF Enter
<1> HIDE DEF slot
<1>3. /\ job' \in [Publishers -> Job \cup {Idle}] /\ job'[p] = slot
      /\ \A q \in Publishers \ {p} : job'[q] = job[q]
  BY <1>1, <1>2 DEF JobsInv
<1>4. /\ queue' \in [Branches -> Seq(Publishers)] /\ queue'[b] = Append(queue[b], p)
      /\ \A c \in Branches \ {b} : queue'[c] = queue[c]
  BY <1>2 DEF JobsInv
<1>5. RequestInv'
  BY <1>1, <1>3 DEF JobsInv, RequestInv, Busy
<1>6. \A c \in Branches : \A m \in 1..Len(queue[c]) : queue[c][m] \in Publishers \ {p}
  <2>1. \A c \in Branches : \A m \in 1..Len(queue[c]) : queue[c][m] \in Publishers
    BY DEF JobsInv
  <2> QED BY <1>2, <2>1 DEF JobsInv, QueueInv, Busy
<1>7. queue[b] \in Seq(Publishers) /\ Len(queue[b]) \in Nat
  BY DEF JobsInv
<1>8. /\ Len(queue'[b]) = Len(queue[b]) + 1 /\ queue'[b][Len(queue[b]) + 1] = p
      /\ \A m \in 1..Len(queue[b]) : queue'[b][m] = queue[b][m]
  BY <1>4, <1>7
<1>9. QueueInv'
  <2>1. ASSUME NEW c \in Branches, NEW m \in 1..Len(queue[c])
        PROVE  /\ job'[queue[c][m]] # Idle /\ job'[queue[c][m]].branch = c
               /\ \A n \in 1..Len(queue[c]) : queue[c][m] = queue[c][n] => m = n
    BY <1>3, <1>6, <2>1 DEF JobsInv, QueueInv, Busy
  <2>2. ASSUME NEW m \in 1..Len(queue'[b])
        PROVE  /\ job'[queue'[b][m]] # Idle /\ job'[queue'[b][m]].branch = b
               /\ \A n \in 1..Len(queue'[b]) : queue'[b][m] = queue'[b][n] => m = n
    <3>1. \A n \in 1..Len(queue'[b]) : n \in 1..Len(queue[b]) \/ n = Len(queue[b]) + 1
      BY <1>7, <1>8
    <3>2. CASE m \in 1..Len(queue[b])
      BY <1>6, <1>8, <2>1, <3>1, <3>2
    <3>3. CASE m = Len(queue[b]) + 1
      BY <1>1, <1>3, <1>6, <1>8, <3>1, <3>3
    <3> QED BY <3>1, <3>2, <3>3
  <2>3. ASSUME NEW c \in Branches, NEW m \in 1..Len(queue'[c])
        PROVE  /\ job'[queue'[c][m]] # Idle /\ job'[queue'[c][m]].branch = c
               /\ \A n \in 1..Len(queue'[c]) : queue'[c][m] = queue'[c][n] => m = n
    <3>1. CASE c = b
      BY <2>2, <2>3, <3>1
    <3>2. CASE c # b
      BY <1>4, <2>1, <2>3, <3>2
    <3> QED BY <3>1, <3>2
  <2> QED BY <2>3 DEF QueueInv, Busy
<1>10. HeadInv'
  <2>1. ASSUME NEW q \in Publishers \ {p}, Holds(q) PROVE Holds(q)'
    <3>1. /\ job[q].branch \in Branches /\ queue[job[q].branch] \in Seq(Publishers)
          /\ queue[job[q].branch] # <<>> /\ Head(queue[job[q].branch]) = q
      BY <2>1, JobFields DEF JobsInv
    <3> DEFINE c == job[q].branch
    <3>2. queue'[c] # <<>> /\ Head(queue'[c]) = q
      <4> HIDE DEF c
      <4>1. CASE c = b
        BY <1>4, <3>1, <4>1, HeadAppend DEF c
      <4>2. CASE c # b
        BY <1>4, <3>1, <4>2 DEF c
      <4> QED BY <4>1, <4>2
    <3> QED BY <1>3, <2>1, <3>2 DEF Holds
  <2> QED BY <1>1, <1>3, <2>1 DEF JobsInv, HeadInv
<1> QED
  BY <1>1, <1>3, <1>4, <1>5, <1>9, <1>10 DEF JobsInv

\* A branch's object goes, with everyone in its queue.
LEMMA EvictInv ==
  ASSUME JobsInv, NEW b \in Branches, Evict(b)
  PROVE  /\ JobsInv'
         /\ \A q \in Publishers : job'[q] \in {Idle, job[q]}
<1>1. /\ queue' \in [Branches -> Seq(Publishers)] /\ queue'[b] = <<>>
      /\ \A c \in Branches \ {b} : queue'[c] = queue[c]
  BY DEF Evict, JobsInv
<1>2. /\ job' \in [Publishers -> Job \cup {Idle}]
      /\ \A q \in Publishers : job'[q] \in {Idle, job[q]}
      /\ \A q \in Publishers : Busy(q) /\ job[q].branch # b => job'[q] = job[q]
      /\ \A q \in Publishers : Busy(q) /\ job[q].branch = b => job'[q] = Idle
  BY DEF Evict, JobsInv, Busy
<1>3. RequestInv'
  BY <1>2 DEF JobsInv, RequestInv, Busy
<1>4. QueueInv'
  <2>1. \A c \in Branches : \A m \in 1..Len(queue[c]) : queue[c][m] \in Publishers
    BY DEF JobsInv
  <2>2. ASSUME NEW c \in Branches, NEW m \in 1..Len(queue'[c])
        PROVE  /\ job'[queue'[c][m]] # Idle /\ job'[queue'[c][m]].branch = c
               /\ \A n \in 1..Len(queue'[c]) : queue'[c][m] = queue'[c][n] => m = n
    <3>1. CASE c # b
      <4>1. Busy(queue[c][m]) /\ job[queue[c][m]].branch = c /\ queue[c][m] \in Publishers
        BY <1>1, <2>1, <2>2, <3>1 DEF JobsInv, QueueInv
      <4> QED BY <1>1, <1>2, <2>2, <3>1, <4>1 DEF JobsInv, QueueInv, Busy
    <3> QED BY <1>1, <2>2, <3>1
  <2> QED BY <2>2 DEF QueueInv, Busy
<1>5. HeadInv'
  <2>1. ASSUME NEW q \in Publishers, job'[q].pc \notin {"idle", "rollout"} PROVE Holds(q)'
    <3>1. job'[q] = job[q] /\ Holds(q) /\ job'[q] # Idle
      BY <1>2, <2>1 DEF JobsInv, HeadInv, Idle
    <3>2. job[q].branch # b /\ job[q].branch \in Branches
      BY <1>2, <3>1, JobFields DEF Busy
    <3> QED BY <1>1, <3>1, <3>2 DEF Holds
  <2> QED BY <2>1 DEF HeadInv
<1> QED
  BY <1>1, <1>2, <1>3, <1>4, <1>5 DEF JobsInv

(***************************************************************************)
(* The table.                                                              *)
(***************************************************************************)

\* What a statement that inserts nothing makes of the rows: rows that were
\* there before, with another percentage or without the baseline mark.
Derived(S) ==
  /\ Table(S)
  /\ \A v \in S : \E u \in rows :
       /\ v.id = u.id /\ v.branch = u.branch /\ v.target = u.target
       /\ v.at = u.at /\ v.precomputed = u.precomputed
       /\ v.embedded => u.embedded

LEMMA PartDerived ==
  ASSUME Table(rows), NEW S \in SUBSET rows
  PROVE  Derived(S)
BY FS_Subset DEF Derived, Table, Keyed

\* Rows rewritten one by one.
LEMMA EditDerived ==
  ASSUME Table(rows), NEW f \in [rows -> Row],
         \A u \in rows :
           /\ f[u].id = u.id /\ f[u].branch = u.branch /\ f[u].target = u.target
           /\ f[u].at = u.at /\ f[u].precomputed = u.precomputed
           /\ f[u].embedded => u.embedded,
         NEW S, S = {f[u] : u \in rows}
  PROVE  Derived(S)
<1>1. f \in Surjection(rows, S)
  BY DEF Surjection
<1>2. S \subseteq Row /\ IsFiniteSet(S)
  BY <1>1, FS_Surjection DEF Table
<1>3. Keyed(S)
  BY DEF Table, Keyed
<1> QED
  BY <1>2, <1>3 DEF Derived, Table

\* What a request has checked stays true while nothing is inserted, and a
\* request with nothing checked has nothing to lose.
LEMMA ChecksKept ==
  ASSUME Derived(rows'), NEW p \in Publishers, SlotFree(p), Recent(p), job'[p] = job[p]
  PROVE  SlotFree(p)' /\ Recent(p)'
<1>1. ASSUME NEW b, NEW t, NEW v \in Tuple(b, t)'
      PROVE  \E u \in Tuple(b, t) : v.at = u.at /\ (v.embedded => u.embedded)
  BY <1>1 DEF Derived, Tuple
<1>2. SlotFree(p)'
  BY <1>1 DEF SlotFree
<1>3. \A i : Beats(p, i) => Beats(p, i)'
  BY <1>1 DEF Beats
<1> QED
  BY <1>2, <1>3 DEF Recent

LEMMA ChecksNone ==
  ASSUME NEW p \in Publishers, job'[p].pc \notin {"skew", "insert"}
  PROVE  SlotFree(p)' /\ Recent(p)'
BY DEF SlotFree, Recent

\* A step of the request of p that inserts nothing.
LEMMA StepInv ==
  ASSUME IInv, Derived(rows'), used' = used, now' = now, JobsInv',
         NEW p \in Publishers, \A q \in Publishers \ {p} : job'[q] = job[q],
         SlotFree(p)', Recent(p)'
  PROVE  IInv'
<1>1. \A q \in Publishers : SlotFree(q)' /\ Recent(q)'
  BY ChecksKept DEF IInv, Checks
<1> QED
  BY <1>1 DEF IInv, TableInv, Checks, Derived

LEMMA SameRows ==
  ASSUME IInv, rows' = rows
  PROVE  Derived(rows')
BY PartDerived DEF IInv, TableInv

LEMMA LeaveStep ==
  ASSUME IInv, NEW p \in Publishers, Holds(p), Leave(p), UNCHANGED <<rows, used, now>>
  PROVE  IInv'
<1>1. /\ JobsInv' /\ \A q \in Publishers \ {p} : job'[q] = job[q]
      /\ job'[p].pc = "idle"
  BY LeaveInv DEF IInv, Idle
<1>2. SlotFree(p)' /\ Recent(p)'
  BY <1>1, ChecksNone
<1> QED
  BY <1>1, <1>2, StepInv, SameRows

\* The job goes on to a phase before the skew check, or behind the insert.
LEMMA MovedStep ==
  ASSUME IInv, NEW p \in Publishers, Holds(p), Derived(rows'), used' = used, now' = now,
         NEW pc \in {"rollout", "reconcile", "delete", "clear"},
         NEW left \in SUBSET Item, Moved(p, pc, left)
  PROVE  IInv'
<1>1. /\ JobsInv' /\ job'[p].pc = pc /\ \A q \in Publishers \ {p} : job'[q] = job[q]
  BY MovedInv, MovedJob DEF IInv
<1>2. SlotFree(p)' /\ Recent(p)'
  BY <1>1, ChecksNone
<1> QED
  BY <1>1, <1>2, StepInv

LEMMA CheckedMoves ==
  ASSUME JobsInv, NEW p \in Publishers, Holds(p), NEW i, NEW next, Checked(p, i, next)
  PROVE  /\ UNCHANGED <<rows, used, now>>
         /\ \/ job[p].left = {i} /\ Moved(p, next, job[p].items)
            \/ job[p].left # {i} /\ Moved(p, job[p].pc, job[p].left \ {i})
<1>1. job[p] \in Job
  BY JobFields
<1>2. CASE job[p].left = {i}
  BY <1>2, GotoMoves DEF Checked
<1>3. CASE job[p].left # {i}
  <2>1. /\ job' = [job EXCEPT ![p].left = @ \ {i}]
        /\ UNCHANGED <<rows, used, queue, now>>
    BY <1>3 DEF Checked
  <2>2. job' = [job EXCEPT ![p] = [job[p] EXCEPT !.pc = job[p].pc, !.left = job[p].left \ {i}]]
    BY <1>1, <2>1 DEF JobsInv, Job
  <2> QED BY <1>3, <2>1, <2>2 DEF Moved
<1> QED
  BY <1>2, <1>3

(***************************************************************************)
(* The steps inside the Durable Object.                                    *)
(***************************************************************************)
LEMMA CheckRolloutStep ==
  ASSUME IInv, NEW p \in Publishers, NEW i, CheckRollout(p, i)
  PROVE  IInv'
<1>0. JobsInv /\ Holds(p) /\ job[p].pc = "rollout"
  BY DEF IInv, CheckRollout, At
<1>1. /\ job[p].items \in SUBSET Item /\ job[p].left \in SUBSET Item
      /\ WellFormed(job[p].items)
  BY <1>0, JobFields
<1>2. CASE Refuse(p)
  BY <1>0, <1>2, LeaveStep DEF Refuse
<1>3. CASE Checked(p, i, IF Baseline(p) = {} THEN "skew" ELSE "reconcile")
  <2> DEFINE next == IF Baseline(p) = {} THEN "skew" ELSE "reconcile"
  <2>1. /\ UNCHANGED <<rows, used, now>>
        /\ \/ Moved(p, next, job[p].items)
           \/ Moved(p, "rollout", job[p].left \ {i})
    BY <1>0, <1>3, CheckedMoves
  <2>2. CASE Moved(p, "rollout", job[p].left \ {i})
    BY <1>0, <1>1, <2>1, <2>2, MovedStep, SameRows
  <2>3. CASE Baseline(p) # {} /\ Moved(p, "reconcile", job[p].items)
    BY <1>0, <1>1, <2>1, <2>3, MovedStep, SameRows
  <2>4. CASE Baseline(p) = {} /\ Moved(p, "skew", job[p].items)
    <3>1. /\ JobsInv' /\ job'[p].pc = "skew" /\ \A q \in Publishers \ {p} : job'[q] = job[q]
          /\ job'[p].left = job[p].items /\ job'[p].items = job[p].items
      BY <1>0, <1>1, <2>4, MovedInv, MovedJob
    <3>2. SlotFree(p)' /\ Recent(p)'
      BY <2>4, <3>1 DEF SlotFree, Recent, Baseline
    <3> QED BY <2>1, <3>1, <3>2, StepInv, SameRows
  <2> QED BY <2>1, <2>2, <2>3, <2>4
<1> QED
  BY <1>2, <1>3 DEF CheckRollout

LEMMA ReconcileStep ==
  ASSUME IInv, NEW p \in Publishers, NEW i, Reconcile(p, i)
  PROVE  IInv'
<1>0. JobsInv /\ Holds(p)
  BY DEF IInv, Reconcile, At
<1>1. job[p].items \in SUBSET Item
  BY <1>0, JobFields
<1>2. CASE Refuse(p)
  BY <1>0, <1>2, LeaveStep DEF Refuse
<1>3. ASSUME NEW pc \in {"clear", "delete"}, Goto(p, pc), UNCHANGED rows PROVE IInv'
  BY <1>0, <1>1, <1>3, GotoMoves, MovedStep, SameRows
<1> QED
  BY <1>2, <1>3 DEF Reconcile

LEMMA DeletePriorStep ==
  ASSUME IInv, NEW p \in Publishers, NEW i, DeletePrior(p, i)
  PROVE  IInv'
<1>0. JobsInv /\ Holds(p) /\ Goto(p, "clear") /\ rows' \in SUBSET rows
  BY DEF IInv, DeletePrior, At
<1>1. job[p].items \in SUBSET Item
  BY <1>0, JobFields
<1>2. Derived(rows')
  BY <1>0, PartDerived DEF IInv, TableInv
<1> QED
  BY <1>0, <1>1, <1>2, GotoMoves, MovedStep

\* What clearing the mark makes of the rows.
LEMMA ClearedRows ==
  ASSUME Table(rows), NEW p \in Publishers, NEW i, ClearEmbedded(p, i)
  PROVE  /\ Derived(rows')
         /\ \A v \in rows' : v.branch = job[p].branch /\ v.target = i.target => ~v.embedded
<1> DEFINE Cleared(u) == IF u \in Tuple(job[p].branch, i.target)
                         THEN [u EXCEPT !.embedded = FALSE] ELSE u
           f == [u \in rows |-> Cleared(u)]
<1>1. rows' = {f[u] : u \in rows}
  BY DEF ClearEmbedded
<1>2. ASSUME NEW u \in rows
      PROVE  /\ Cleared(u) \in Row
             /\ Cleared(u).id = u.id /\ Cleared(u).branch = u.branch
             /\ Cleared(u).target = u.target
             /\ Cleared(u).at = u.at /\ Cleared(u).precomputed = u.precomputed
             /\ Cleared(u).embedded => u.embedded
             /\ u \in Tuple(job[p].branch, i.target) => ~Cleared(u).embedded
  <2>1. u \in Row
    BY DEF Table
  <2> QED BY <2>1 DEF Row
<1> HIDE DEF Cleared
<1>3. f \in [rows -> Row] /\ \A u \in rows : f[u] = Cleared(u)
  BY <1>2
<1> HIDE DEF f
<1>4. Derived(rows')
  BY <1>1, <1>2, <1>3, EditDerived
<1>5. ASSUME NEW v \in rows', v.branch = job[p].branch, v.target = i.target PROVE ~v.embedded
  <2>1. PICK u \in rows : v = Cleared(u)
    BY <1>1, <1>3
  <2>2. u \in Tuple(job[p].branch, i.target)
    BY <1>2, <1>5, <2>1 DEF Tuple
  <2> QED BY <1>2, <2>1, <2>2
<1> QED
  BY <1>4, <1>5

LEMMA ClearEmbeddedStep ==
  ASSUME IInv, NEW p \in Publishers, NEW i, ClearEmbedded(p, i)
  PROVE  IInv'
<1>0. JobsInv /\ Holds(p) /\ Goto(p, "skew") /\ i \in job[p].items /\ i.embedded
  BY DEF IInv, ClearEmbedded, At, Baseline
<1>1. job[p].items \in SUBSET Item /\ job[p].items = {i}
  BY <1>0, JobFields DEF WellFormed
<1>2. /\ Derived(rows')
      /\ \A v \in rows' : v.branch = job[p].branch /\ v.target = i.target => ~v.embedded
  BY ClearedRows DEF IInv, TableInv
<1>3. Moved(p, "skew", job[p].items) /\ UNCHANGED <<used, now>>
  BY <1>0, GotoMoves
<1>4. /\ JobsInv' /\ job'[p].pc = "skew" /\ \A q \in Publishers \ {p} : job'[q] = job[q]
      /\ job'[p].left = job[p].items /\ job'[p].items = job[p].items
      /\ job'[p].branch = job[p].branch
  BY <1>0, <1>1, <1>3, MovedInv, MovedJob
<1>5. SlotFree(p)' /\ Recent(p)'
  BY <1>1, <1>2, <1>4 DEF SlotFree, Recent, Tuple
<1> QED
  BY <1>2, <1>3, <1>4, <1>5, StepInv

LEMMA CheckSkewStep ==
  ASSUME IInv, NEW p \in Publishers, NEW i, CheckSkew(p, i)
  PROVE  IInv'
<1>0. JobsInv /\ Holds(p) /\ job[p].pc = "skew" /\ SlotFree(p) /\ Recent(p) /\ i \in job[p].left
  BY DEF IInv, CheckSkew, At, Checks
<1>1. job[p].items \in SUBSET Item /\ job[p].left \in SUBSET Item
  BY <1>0, JobFields
<1>2. CASE Refuse(p)
  BY <1>0, <1>2, LeaveStep DEF Refuse
<1>3. CASE /\ ~ClockSkew(i, Tuple(job[p].branch, i.target))
           /\ Checked(p, i, "insert")
  <2>1. /\ UNCHANGED <<rows, used, now>>
        /\ \/ job[p].left = {i} /\ Moved(p, "insert", job[p].items)
           \/ Moved(p, "skew", job[p].left \ {i})
    BY <1>0, <1>3, CheckedMoves
  <2>2. \A j \in job[p].items : j = i \/ j \notin job[p].left => Beats(p, j)
    BY <1>0, <1>1, <1>3, SkewBeats DEF IInv, Recent
  <2>3. ASSUME NEW pc \in {"skew", "insert"}, NEW left \in SUBSET Item, Moved(p, pc, left),
               \A j \in job[p].items : pc = "insert" \/ j \notin left => Beats(p, j)
        PROVE  IInv'
    <3>1. /\ JobsInv' /\ job'[p].pc = pc /\ \A q \in Publishers \ {p} : job'[q] = job[q]
          /\ job'[p].left = left /\ job'[p].items = job[p].items
          /\ job'[p].branch = job[p].branch
      BY <1>0, <2>3, MovedInv, MovedJob
    <3>2. SlotFree(p)'
      BY <1>0, <2>1, <3>1 DEF SlotFree, Tuple
    <3>3. \A j : Beats(p, j) => Beats(p, j)'
      BY <2>1, <3>1 DEF Beats, Tuple
    <3>4. Recent(p)'
      BY <2>3, <3>1, <3>3 DEF Recent
    <3> QED BY <2>1, <3>1, <3>2, <3>4, StepInv, SameRows
  <2>4. CASE job[p].left = {i} /\ Moved(p, "insert", job[p].items)
    BY <1>1, <2>2, <2>3, <2>4
  <2>5. CASE Moved(p, "skew", job[p].left \ {i})
    BY <1>1, <2>2, <2>3, <2>5
  <2> QED BY <2>1, <2>4, <2>5
<1> QED
  BY <1>2, <1>3 DEF CheckSkew

\* The rows a request inserts.
LEMMA NewRowFields ==
  ASSUME IInv, NEW p \in Publishers, Holds(p), NEW i \in job[p].items
  PROVE  LET v == NewRow(p, i) IN
         /\ v \in Row
         /\ v.id = i.id /\ v.branch = job[p].branch /\ v.target = i.target
         /\ v.embedded = i.embedded
         /\ v.precomputed <=> i.commit # NoTime
         /\ i.commit # NoTime => v.at = i.commit
<1>1. i \in Item /\ job[p].branch \in Branches /\ now \in Times
  BY JobFields DEF IInv, TableInv
<1>2. CreatedAt(i) \in Times /\ (i.commit # NoTime => CreatedAt(i) = i.commit)
  BY <1>1 DEF CreatedAt, Item
<1> HIDE DEF CreatedAt
<1> QED
  BY <1>1, <1>2 DEF NewRow, Row, Item

\* The batch that goes through.
Inserts(p) ==
  /\ At(p, "insert")
  /\ \A i \in job[p].items : ~Collides(p, i)
  /\ rows' = rows \cup {NewRow(p, i) : i \in job[p].items}
  /\ used' = used \cup {i.id : i \in job[p].items}
  /\ job' = [job EXCEPT ![p].pc = "bump"]
  /\ UNCHANGED <<queue, now>>

LEMMA InsertCases ==
  ASSUME IInv, NEW p \in Publishers, Insert(p)
  PROVE  \/ Inserts(p)
         \/ Holds(p) /\ Refuse(p)
BY DEF Insert, Inserts, At

LEMMA InsertMoves ==
  ASSUME IInv, NEW p \in Publishers, Inserts(p)
  PROVE  Moved(p, "bump", job[p].left)
<1>1. job[p] \in Job
  BY JobFields DEF IInv, Inserts, At
<1> QED
  BY <1>1 DEF IInv, JobsInv, Inserts, Moved, Job

LEMMA InsertTable ==
  ASSUME IInv, NEW p \in Publishers, Inserts(p)
  PROVE  TableInv'
<1> DEFINE new == {NewRow(p, i) : i \in job[p].items}
           f == [i \in job[p].items |-> NewRow(p, i)]
<1>1. /\ Holds(p) /\ WellFormed(job[p].items) /\ job[p].items \subseteq Item
      /\ Table(rows) /\ rows' = rows \cup new /\ now' = now
      /\ used' = used \cup {i.id : i \in job[p].items}
  BY JobFields DEF IInv, TableInv, Inserts, At
<1>2. \A i \in job[p].items : NewRow(p, i) \in Row /\ NewRow(p, i).id = i.id
  BY <1>1, NewRowFields
<1>3. \A i \in job[p].items : \A u \in rows : u.id # i.id
  BY DEF Inserts, Collides
<1>4. used' \subseteq Ids
  BY ZenonT(60), <1>1 DEF IInv, TableInv, Item
<1>5. IsFiniteSet(rows')
  <2> HIDE DEF new
  <2>1. f \in Surjection(job[p].items, new)
    BY DEF Surjection, new
  <2> HIDE DEF f
  <2>2. IsFiniteSet(new)
    BY <1>1, <2>1, FS_Surjection DEF WellFormed
  <2> QED BY <1>1, <2>2, FS_Union DEF Table
<1>6. rows' \subseteq Row
  BY <1>1, <1>2 DEF Table
<1>7. Keyed(rows')
  <2>1. \A v \in new : \E i \in job[p].items : v = NewRow(p, i) /\ v.id = i.id
    BY <1>2
  <2> HIDE DEF new
  <2>2. \A v \in new, u \in rows : u.id # v.id
    BY <1>3, <2>1
  <2>3. \A v, w \in new : v.id = w.id => v = w
    BY <1>1, <2>1 DEF WellFormed
  <2> QED BY <1>1, <2>2, <2>3 DEF Table, Keyed
<1> QED
  BY <1>1, <1>4, <1>5, <1>6, <1>7 DEF TableInv, Table, IInv

\* The other requests that have checked something are on other branches.
LEMMA InsertChecks ==
  ASSUME IInv, NEW p \in Publishers, Inserts(p)
  PROVE  Checks'
<1>1. Holds(p) /\ Moved(p, "bump", job[p].left) /\ JobsInv
  BY InsertMoves DEF Inserts, At, IInv
<1>2. job'[p].pc = "bump" /\ \A q \in Publishers \ {p} : job'[q] = job[q]
  BY <1>1, MovedJob
<1>3. SlotFree(p)' /\ Recent(p)'
  BY <1>2, ChecksNone
<1>4. ASSUME NEW q \in Publishers \ {p} PROVE SlotFree(q)' /\ Recent(q)'
  <2>1. CASE job[q].pc \notin {"skew", "insert"}
    BY <1>2, <2>1, ChecksNone
  <2>2. CASE job[q].pc \in {"skew", "insert"}
    <3>1. job[q].branch # job[p].branch
      BY <1>1, <2>2 DEF JobsInv, HeadInv, Holds
    <3>2. \A t : Tuple(job[q].branch, t)' = Tuple(job[q].branch, t)
      <4>1. \A v \in rows' \ rows : v.branch = job[p].branch
        BY <1>1, NewRowFields DEF Inserts
      <4>2. rows \subseteq rows'
        BY DEF Inserts
      <4> QED BY <1>2, <3>1, <4>1, <4>2 DEF Tuple
    <3>3. SlotFree(q) /\ Recent(q) /\ job'[q] = job[q]
      BY <1>2 DEF IInv, Checks
    <3>4. SlotFree(q)'
      BY <3>2, <3>3 DEF SlotFree
    <3>5. \A i : Beats(q, i) => Beats(q, i)'
      BY <3>2, <3>3 DEF Beats
    <3> QED BY <3>3, <3>4, <3>5 DEF Recent
  <2> QED BY <2>1, <2>2
<1> QED
  BY <1>3, <1>4 DEF Checks

LEMMA InsertStep ==
  ASSUME IInv, NEW p \in Publishers, Insert(p)
  PROVE  IInv'
<1>1. CASE Holds(p) /\ Refuse(p)
  BY <1>1, LeaveStep DEF Refuse
<1>2. CASE Inserts(p)
  <2>1. JobsInv /\ Holds(p) /\ job[p].left \in SUBSET Item
    BY <1>2, JobFields DEF IInv, Inserts, At
  <2>2. JobsInv'
    BY <1>2, <2>1, InsertMoves, MovedInv
  <2> QED BY <1>2, <2>2, InsertTable, InsertChecks DEF IInv
<1> QED
  BY <1>1, <1>2, InsertCases

(***************************************************************************)
(* Requests that arrive, and the writes outside the Durable Object.        *)
(***************************************************************************)
LEMMA RequestEnters ==
  ASSUME NEW p \in Publishers, Request(p)
  PROVE  \E b \in Branches, items \in SUBSET Item :
           WellFormed(items) /\ items # {} /\ Enter(p, b, items)
<1>1. PICK b \in Branches, id \in [Targets -> Ids], commit \in [Targets -> CommitTimes] :
        \/ \E t \in Targets, pct \in PublishPercentages, embedded \in Baselines :
             Create(p, b, [id |-> id[t], target |-> t, commit |-> commit[t],
                           pct |-> pct, embedded |-> embedded])
        \/ \E ts \in SUBSET Targets :
             Republish(p, b, {[id |-> id[t], target |-> t, commit |-> commit[t],
                               pct |-> 100, embedded |-> FALSE] : t \in ts})
  BY DEF Request
<1>0. CommitTimes \subseteq Times \cup {NoTime} /\ PublishPercentages \subseteq 0..100
  BY DEF Times
<1>2. ASSUME NEW t \in Targets, NEW pct \in PublishPercentages, NEW embedded \in Baselines,
             Create(p, b, [id |-> id[t], target |-> t, commit |-> commit[t],
                           pct |-> pct, embedded |-> embedded])
      PROVE  \E items \in SUBSET Item : WellFormed(items) /\ items # {} /\ Enter(p, b, items)
  <2> DEFINE item == [id |-> id[t], target |-> t, commit |-> commit[t],
                      pct |-> pct, embedded |-> embedded]
  <2>1. item \in Item
    BY <1>0 DEF Item
  <2>2. Enter(p, b, {item})
    BY <1>2 DEF Create
  <2> HIDE DEF item
  <2>3. WellFormed({item})
    BY FS_Singleton DEF WellFormed
  <2> QED BY <2>1, <2>2, <2>3
<1>3. ASSUME NEW ts \in SUBSET Targets,
             Republish(p, b, {[id |-> id[t], target |-> t, commit |-> commit[t],
                               pct |-> 100, embedded |-> FALSE] : t \in ts})
      PROVE  \E items \in SUBSET Item : WellFormed(items) /\ items # {} /\ Enter(p, b, items)
  <2> DEFINE items == {[id |-> id[t], target |-> t, commit |-> commit[t],
                        pct |-> 100, embedded |-> FALSE] : t \in ts}
  <2>1. items \in SUBSET Item
    <3>1. ASSUME NEW t \in ts
          PROVE  [id |-> id[t], target |-> t, commit |-> commit[t],
                  pct |-> 100, embedded |-> FALSE] \in Item
      <4>1. t \in Targets /\ id[t] \in Ids /\ commit[t] \in Times \cup {NoTime}
        BY <1>0
      <4> QED BY <4>1 DEF Item
    <3> QED BY <3>1
  <2>2. Republish(p, b, items)
    BY <1>3
  <2> HIDE DEF items
  <2>3. WellFormed(items) /\ items # {} /\ Enter(p, b, items)
    BY <2>2 DEF Republish, WellFormed
  <2> QED BY <2>1, <2>3
<1> QED
  BY <1>1, <1>2, <1>3

LEMMA RequestStep ==
  ASSUME IInv, NEW p \in Publishers, Request(p)
  PROVE  IInv'
<1>1. PICK b \in Branches, items \in SUBSET Item : WellFormed(items) /\ Enter(p, b, items)
  BY RequestEnters
<1>2. /\ JobsInv' /\ job'[p].pc = "rollout" /\ \A q \in Publishers \ {p} : job'[q] = job[q]
  BY <1>1, EnterInv DEF IInv
<1>3. UNCHANGED <<rows, used, now>>
  BY <1>1 DEF Enter
<1> QED
  BY <1>2, <1>3, ChecksNone, StepInv, SameRows

LEMMA EvictStep ==
  ASSUME IInv, NEW b \in Branches, Evict(b)
  PROVE  IInv'
<1>1. /\ JobsInv' /\ \A q \in Publishers : job'[q] \in {Idle, job[q]}
      /\ UNCHANGED <<rows, used, now>>
  BY EvictInv DEF IInv, Evict
<1>2. \A q \in Publishers : SlotFree(q)' /\ Recent(q)'
  BY <1>1, ChecksKept, ChecksNone, SameRows DEF IInv, Checks, Idle
<1> QED
  BY <1>1, <1>2 DEF IInv, TableInv, Checks

\* What a rollout edit makes of the rows.
LEMMA UpdateRolloutRows ==
  ASSUME Table(rows), NEW id, NEW pct \in EditPercentages, UpdateRollout(id, pct)
  PROVE  Derived(rows')
<1> DEFINE Edited(u) == IF u.id = id THEN [u EXCEPT !.pct = pct] ELSE u
           f == [u \in rows |-> Edited(u)]
<1>1. rows' = {f[u] : u \in rows}
  BY DEF UpdateRollout
<1>2. ASSUME NEW u \in rows
      PROVE  /\ Edited(u) \in Row
             /\ Edited(u).id = u.id /\ Edited(u).branch = u.branch
             /\ Edited(u).target = u.target
             /\ Edited(u).at = u.at /\ Edited(u).precomputed = u.precomputed
             /\ Edited(u).embedded = u.embedded
  <2>1. u \in Row
    BY DEF Table
  <2> QED BY <2>1 DEF Row
<1> HIDE DEF Edited
<1>3. f \in [rows -> Row] /\ \A u \in rows : f[u] = Edited(u)
  BY <1>2
<1> HIDE DEF f
<1> QED
  BY <1>1, <1>2, <1>3, EditDerived

LEMMA OutsideStep ==
  ASSUME IInv, Derived(rows'), used' = used, now' \in Times, UNCHANGED <<queue, job>>
  PROVE  IInv'
<1>1. JobsInv'
  BY DEF IInv, JobsInv, RequestInv, QueueInv, HeadInv, Busy, Holds
<1>2. \A q \in Publishers : SlotFree(q)' /\ Recent(q)'
  BY ChecksKept DEF IInv, Checks
<1> QED
  BY <1>1, <1>2 DEF IInv, TableInv, Checks, Derived

LEMMA InitInv == Init => IInv
<1> SUFFICES ASSUME Init PROVE IInv
  OBVIOUS
<1>1. TableInv
  BY FS_EmptySet DEF Init, TableInv, Table, Keyed, Times
<1>2. JobsInv
  BY DEF Init, JobsInv, RequestInv, QueueInv, HeadInv, Busy, Idle
<1>3. Checks
  BY DEF Init, Checks, SlotFree, Recent, Idle
<1> QED
  BY <1>1, <1>2, <1>3 DEF IInv

LEMMA NextInv == IInv /\ [Next]_vars => IInv'
<1> SUFFICES ASSUME IInv, [Next]_vars PROVE IInv'
  OBVIOUS
<1>1. ASSUME NEW p \in Publishers, Request(p) PROVE IInv'
  BY <1>1, RequestStep
<1>2. ASSUME NEW p \in Publishers, Advance(p) PROVE IInv'
  <2>1. CASE Bump(p)
    BY <2>1, LeaveStep DEF Bump, At
  <2> QED
    BY <1>2, <2>1, CheckRolloutStep, ReconcileStep, DeletePriorStep, ClearEmbeddedStep,
       CheckSkewStep, InsertStep DEF Advance
<1>3. ASSUME NEW p \in Publishers, Fail(p) PROVE IInv'
  BY <1>3, LeaveStep DEF Fail
<1>4. ASSUME NEW b \in Branches, Evict(b) PROVE IInv'
  BY <1>4, EvictStep
<1>5. ASSUME NEW id \in Ids, NEW pct \in EditPercentages, UpdateRollout(id, pct) PROVE IInv'
  BY <1>5, UpdateRolloutRows, OutsideStep DEF UpdateRollout, IInv, TableInv
<1>6. ASSUME NEW ids \in SUBSET Ids, DeleteRows(ids) PROVE IInv'
  <2>1. rows' \in SUBSET rows
    BY <1>6 DEF DeleteRows
  <2> QED BY <1>6, <2>1, PartDerived, OutsideStep DEF DeleteRows, IInv, TableInv
<1>7. CASE Tick
  <2>1. now' \in Times
    BY <1>7 DEF Tick, IInv, TableInv, Times
  <2> QED BY <1>7, <2>1, SameRows, OutsideStep DEF Tick
<1>8. CASE UNCHANGED vars
  BY <1>8, SameRows, OutsideStep DEF vars, IInv, TableInv
<1> QED
  BY <1>1, <1>2, <1>3, <1>4, <1>5, <1>6, <1>7, <1>8 DEF Next

\* For any publishers, branches, targets and ids: every table row, queue and
\* request has its type.
THEOREM TypeCorrect == Spec => []TypeOK
<1>1. IInv => TypeOK
  BY DEF IInv, TableInv, Table, JobsInv, TypeOK
<1> QED
  BY <1>1, InitInv, NextInv, PTL DEF Spec

\* The one baseline slot of a tuple is free when publishUpdate inserts, with
\* any number of publishers, edits and deletions in between.
THEOREM SlotStaysFree == Spec => []EmbeddedSlotFree
<1>1. IInv => EmbeddedSlotFree
  BY DEF IInv, Checks, SlotFree, EmbeddedSlotFree, At, Baseline
<1> QED
  BY <1>1, InitInv, NextInv, PTL DEF Spec

(***************************************************************************)
(* What a step inserts, and what it makes of the rows otherwise.           *)
(***************************************************************************)
LEMMA StepRows ==
  ASSUME IInv, [Next]_vars, \A p \in Publishers : ~Inserts(p)
  PROVE  Derived(rows')
<1>0. Table(rows)
  BY DEF IInv, TableInv
<1>1. ASSUME NEW p \in Publishers, Request(p) PROVE Derived(rows')
  BY <1>1, RequestEnters, SameRows DEF Enter
<1>2. ASSUME NEW p \in Publishers, Advance(p) PROVE Derived(rows')
  <2>1. ASSUME NEW i, CheckRollout(p, i) \/ Reconcile(p, i) \/ CheckSkew(p, i)
        PROVE  rows' = rows
    BY <2>1 DEF CheckRollout, Reconcile, CheckSkew, Refuse, Checked
  <2>2. ASSUME NEW i, DeletePrior(p, i) PROVE Derived(rows')
    <3>1. rows' \in SUBSET rows
      BY <2>2 DEF DeletePrior
    <3> QED BY <1>0, <3>1, PartDerived
  <2>3. ASSUME NEW i, ClearEmbedded(p, i) PROVE Derived(rows')
    BY <1>0, <2>3, ClearedRows
  <2>4. CASE Insert(p)
    BY <2>4, InsertCases, SameRows DEF Refuse
  <2>5. CASE Bump(p)
    BY <2>5, SameRows DEF Bump
  <2> QED BY <1>2, <2>1, <2>2, <2>3, <2>4, <2>5, SameRows DEF Advance
<1>3. ASSUME NEW p \in Publishers, Fail(p) PROVE Derived(rows')
  BY <1>3, SameRows DEF Fail
<1>4. ASSUME NEW b \in Branches, Evict(b) PROVE Derived(rows')
  BY <1>4, SameRows DEF Evict
<1>5. ASSUME NEW id \in Ids, NEW pct \in EditPercentages, UpdateRollout(id, pct)
      PROVE  Derived(rows')
  BY <1>0, <1>5, UpdateRolloutRows
<1>6. ASSUME NEW ids \in SUBSET Ids, DeleteRows(ids) PROVE Derived(rows')
  <2>1. rows' \in SUBSET rows
    BY <1>6 DEF DeleteRows
  <2> QED BY <1>0, <2>1, PartDerived
<1>7. CASE Tick \/ UNCHANGED vars
  BY <1>7, SameRows DEF Tick, vars
<1> QED
  BY <1>1, <1>2, <1>3, <1>4, <1>5, <1>6, <1>7 DEF Next

\* What holds of every row at the instant it is inserted.
LEMMA InsertedRow ==
  ASSUME IInv, NEW p \in Publishers, Inserts(p), NEW v \in rows' \ rows
  PROVE  /\ v.branch = job[p].branch
         /\ \A u \in rows : u.id # v.id
         /\ v.precomputed /\ ~v.embedded =>
              \A u \in Tuple(v.branch, v.target) : u.at < v.at
         /\ v.embedded => \A u \in Tuple(v.branch, v.target) : ~u.embedded
<1>1. PICK i \in job[p].items : v = NewRow(p, i)
  BY DEF Inserts
<1>2. /\ Holds(p) /\ job[p].pc = "insert" /\ ~Collides(p, i) /\ Beats(p, i)
  BY DEF Inserts, At, IInv, Checks, Recent
<1>3. /\ v.id = i.id /\ v.branch = job[p].branch /\ v.target = i.target
      /\ v.embedded = i.embedded
      /\ v.precomputed <=> i.commit # NoTime
      /\ i.commit # NoTime => v.at = i.commit
  BY <1>1, <1>2, NewRowFields
<1> QED
  BY <1>2, <1>3 DEF Collides, Beats

\* No publish on the branch, edit or deletion comes between the check of an
\* accepted signed update and its insert: it lands as the newest of its tuple.
THEOREM AcceptedIsNewest == Spec => AcceptedPrecomputedIsNewest
<1> DEFINE A == \A v \in Inserted : v.precomputed /\ ~v.embedded =>
                  \A u \in Tuple(v.branch, v.target) : u.at < v.at
<1>1. ASSUME IInv, [Next]_vars PROVE A
  <2>1. CASE \A p \in Publishers : ~Inserts(p)
    <3>1. Derived(rows')
      BY <1>1, <2>1, StepRows
    <3> QED BY <3>1 DEF Derived, Inserted
  <2>2. CASE \E p \in Publishers : Inserts(p)
    BY <1>1, <2>2, InsertedRow DEF Inserted
  <2> QED BY <2>1, <2>2
<1>2. IInv /\ [Next]_vars => [A]_vars
  BY <1>1
<1> QED
  BY <1>2, InitInv, NextInv, PTL DEF Spec, AcceptedPrecomputedIsNewest

(***************************************************************************)
(* The feed.  A branch's pending requests are its queue without a head     *)
(* that has inserted.                                                      *)
(***************************************************************************)

\* Sequences under a function.
Image(f, s) == [n \in 1..Len(s) |-> f[s[n]]]

LEMMA SameSequence ==
  ASSUME NEW Q, NEW t \in Seq(Q), NEW u \in Seq(Q), Len(t) = Len(u),
         \A n \in 1..Len(t) : t[n] = u[n]
  PROVE  t = u
OBVIOUS

LEMMA ImageType ==
  ASSUME NEW s \in Seq(Publishers), NEW f \in [Publishers -> SUBSET Item]
  PROVE  Image(f, s) \in Seq(SUBSET Item) /\ Len(Image(f, s)) = Len(s)
BY DEF Image

LEMMA ImageTail ==
  ASSUME NEW s \in Seq(Publishers), s # <<>>, NEW f \in [Publishers -> SUBSET Item]
  PROVE  /\ Image(f, Tail(s)) = Tail(Image(f, s))
         /\ Image(f, s) # <<>> /\ Head(Image(f, s)) = f[Head(s)]
<1>1. Image(f, s) \in Seq(SUBSET Item) /\ Len(Image(f, s)) = Len(s) /\ Len(s) \in Nat \ {0}
  BY ImageType
<1>2. Image(f, s) # <<>> /\ Head(Image(f, s)) = f[Head(s)]
  BY <1>1 DEF Image
<1>3. Tail(s) \in Seq(Publishers) /\ Len(Tail(s)) = Len(s) - 1
      /\ \A n \in 1..Len(s) - 1 : Tail(s)[n] = s[n + 1]
  OBVIOUS
<1>4. /\ Image(f, Tail(s)) \in Seq(SUBSET Item) /\ Len(Image(f, Tail(s))) = Len(s) - 1
      /\ \A n \in 1..Len(s) - 1 : Image(f, Tail(s))[n] = f[s[n + 1]]
  BY <1>3, ImageType DEF Image
<1>5. /\ Tail(Image(f, s)) \in Seq(SUBSET Item) /\ Len(Tail(Image(f, s))) = Len(s) - 1
      /\ \A n \in 1..Len(s) - 1 : Tail(Image(f, s))[n] = f[s[n + 1]]
  <2> DEFINE t == Image(f, s)
  <2>1. \A n \in 1..Len(s) : t[n] = f[s[n]]
    BY DEF Image
  <2> HIDE DEF t
  <2> QED BY <1>1, <1>2, <2>1 DEF t
<1>6. Image(f, Tail(s)) = Tail(Image(f, s))
  <2> DEFINE t == Image(f, Tail(s))
             u == Tail(Image(f, s))
  <2> HIDE DEF t, u
  <2>1. t \in Seq(SUBSET Item) /\ u \in Seq(SUBSET Item)
    BY <1>4, <1>5 DEF t, u
  <2>2. Len(t) = Len(u) /\ \A n \in 1..Len(t) : t[n] = u[n]
    BY <1>4, <1>5 DEF t, u
  <2>3. t = u
    BY <2>1, <2>2, SameSequence
  <2> QED BY <2>3 DEF t, u
<1> QED BY <1>2, <1>6

LEMMA ImageAppend ==
  ASSUME NEW s \in Seq(Publishers), NEW x \in Publishers, NEW f \in [Publishers -> SUBSET Item]
  PROVE  Image(f, Append(s, x)) = Append(Image(f, s), f[x])
<1>1. Image(f, s) \in Seq(SUBSET Item) /\ Len(Image(f, s)) = Len(s) /\ Len(s) \in Nat
  BY ImageType
<1>2. Append(s, x) \in Seq(Publishers) /\ Len(Append(s, x)) = Len(s) + 1
      /\ \A n \in 1..Len(s) + 1 : Append(s, x)[n] = IF n = Len(s) + 1 THEN x ELSE s[n]
  OBVIOUS
<1>3. /\ Image(f, Append(s, x)) \in Seq(SUBSET Item) /\ Len(Image(f, Append(s, x))) = Len(s) + 1
      /\ \A n \in 1..Len(s) + 1 :
           Image(f, Append(s, x))[n] = IF n = Len(s) + 1 THEN f[x] ELSE f[s[n]]
  BY <1>2, ImageType DEF Image
<1>4. \A n \in 1..Len(s) : Image(f, s)[n] = f[s[n]]
  BY DEF Image
<1>5. /\ Append(Image(f, s), f[x]) \in Seq(SUBSET Item) /\ Len(Append(Image(f, s), f[x])) = Len(s) + 1
      /\ \A n \in 1..Len(s) + 1 :
           Append(Image(f, s), f[x])[n] = IF n = Len(s) + 1 THEN f[x] ELSE f[s[n]]
  <2> DEFINE t == Image(f, s)
  <2> HIDE DEF t
  <2> QED BY <1>1, <1>4 DEF t
<1> DEFINE u == Image(f, Append(s, x))
           v == Append(Image(f, s), f[x])
<1> HIDE DEF u, v
<1>6. u = v
  BY <1>1, <1>3, <1>5 DEF u, v
<1> QED BY <1>6 DEF u, v

\* Who waits in a branch's queue, and for what.
Line(b) == IF queue[b] # <<>> /\ job[Head(queue[b])].pc = "bump" THEN Tail(queue[b]) ELSE queue[b]

ItemsOf == [p \in Publishers |-> Items(p)]

LEMMA ItemsType ==
  ASSUME JobsInv
  PROVE  ItemsOf \in [Publishers -> SUBSET Item]
<1>1. \A p \in Publishers : Items(p) \in SUBSET Item
  BY JobFields DEF Items, Busy
<1> QED
  BY <1>1 DEF ItemsOf

LEMMA WaitingImage ==
  ASSUME JobsInv, NEW b \in Branches
  PROVE  Line(b) \in Seq(Publishers) /\ Waiting(b) = Image(ItemsOf, Line(b))
<1>1. queue[b] \in Seq(Publishers)
  BY DEF JobsInv
<1>2. Line(b) \in Seq(Publishers)
  BY <1>1 DEF Line
<1>3. Waiting(b) = [n \in 1..Len(Line(b)) |-> Items(Line(b)[n])]
  BY DEF Waiting, Line
<1> DEFINE s == Line(b)
<1> HIDE DEF s
<1>4. \A n \in 1..Len(s) : ItemsOf[s[n]] = Items(s[n])
  BY <1>2 DEF ItemsOf, s
<1>5. Waiting(b) = [n \in 1..Len(s) |-> ItemsOf[s[n]]]
  BY <1>3, <1>4 DEF s
<1> QED
  BY <1>2, <1>5 DEF Image, s

LEMMA WaitingImages ==
  \A b \in Branches : JobsInv => Line(b) \in Seq(Publishers) /\ Waiting(b) = Image(ItemsOf, Line(b))
BY WaitingImage

LEMMA WaitingImagesNext ==
  (\A b \in Branches : JobsInv => Line(b) \in Seq(Publishers) /\ Waiting(b) = Image(ItemsOf, Line(b)))'
BY WaitingImages, PTL

\* The head of a queue, and those behind it, which wait for their first read.
LEMMA QueueFacts ==
  ASSUME JobsInv, NEW p \in Publishers, Holds(p), NEW b, b = job[p].branch
  PROVE  /\ b \in Branches /\ queue[b] \in Seq(Publishers) /\ queue[b] # <<>> /\ Head(queue[b]) = p
         /\ Tail(queue[b]) \in Seq(Publishers)
         /\ \A m \in 1..Len(Tail(queue[b])) :
              /\ Tail(queue[b])[m] \in Publishers \ {p}
              /\ Busy(Tail(queue[b])[m]) /\ job[Tail(queue[b])[m]].pc # "bump"
<1>1. b \in Branches /\ queue[b] \in Seq(Publishers) /\ queue[b] # <<>> /\ Head(queue[b]) = p
  BY JobFields DEF JobsInv
<1>2. /\ Tail(queue[b]) \in Seq(Publishers) /\ queue[b][1] = p
      /\ \A m \in 1..Len(Tail(queue[b])) :
           /\ m + 1 \in 1..Len(queue[b]) /\ m + 1 # 1 /\ 1 \in 1..Len(queue[b])
           /\ Tail(queue[b])[m] = queue[b][m + 1] /\ queue[b][m + 1] \in Publishers
  BY <1>1
<1>3. ASSUME NEW m \in 1..Len(Tail(queue[b])), NEW q, q = Tail(queue[b])[m]
      PROVE  q \in Publishers \ {p} /\ Busy(q) /\ job[q].pc # "bump"
  <2>1. q \in Publishers /\ Busy(q) /\ job[q].branch = b
    BY <1>1, <1>2, <1>3 DEF JobsInv, QueueInv
  <2>2. q # p
    BY <1>1, <1>2, <1>3 DEF JobsInv, QueueInv
  <2>3. ~Holds(q)
    BY <1>1, <2>1, <2>2 DEF Holds
  <2> QED BY <2>1, <2>2, <2>3 DEF JobsInv, HeadInv
<1> QED
  BY <1>1, <1>2, <1>3

\* A queue that stays, with requests that keep what they wait for.
LEMMA WaitingSame ==
  ASSUME JobsInv, JobsInv', NEW b \in Branches, queue'[b] = queue[b],
         \A m \in 1..Len(queue[b]) :
           /\ job'[queue[b][m]].items = job[queue[b][m]].items
           /\ job'[queue[b][m]].pc = "bump" <=> job[queue[b][m]].pc = "bump"
  PROVE  Waiting(b)' = Waiting(b)
<1>1. queue[b] \in Seq(Publishers)
  BY DEF JobsInv
<1>2. queue[b] # <<>> => Head(queue[b]) = queue[b][1] /\ 1 \in 1..Len(queue[b])
  BY <1>1
<1>3. Line(b)' = Line(b)
  BY <1>2 DEF Line
<1>4. \A n \in 1..Len(Line(b)) : \E m \in 1..Len(queue[b]) : Line(b)[n] = queue[b][m]
  <2>1. ASSUME queue[b] # <<>>, NEW n \in 1..Len(Tail(queue[b]))
        PROVE  \E m \in 1..Len(queue[b]) : Tail(queue[b])[n] = queue[b][m]
    <3>1. n + 1 \in 1..Len(queue[b]) /\ Tail(queue[b])[n] = queue[b][n + 1]
      BY <1>1, <2>1
    <3> QED BY <3>1
  <2> QED BY <2>1 DEF Line
<1>5. ASSUME NEW n \in 1..Len(Line(b)) PROVE Items(Line(b)[n]) = job[Line(b)[n]].items
                                             /\ ItemsOf'[Line(b)[n]] = ItemsOf[Line(b)[n]]
  <2>1. PICK m \in 1..Len(queue[b]) : Line(b)[n] = queue[b][m]
    BY <1>4, <1>5
  <2> DEFINE q == queue[b][m]
  <2>2. q \in Publishers /\ job[q] # Idle
    BY <1>1 DEF JobsInv, QueueInv, Busy
  <2>3. job'[q] # Idle /\ job'[q].items = job[q].items
    BY <1>1 DEF JobsInv, QueueInv, Busy
  <2> HIDE DEF q
  <2> QED BY <2>1, <2>2, <2>3 DEF Items, ItemsOf, q
<1>6. Waiting(b) = Image(ItemsOf, Line(b)) /\ Waiting(b)' = Image(ItemsOf', Line(b)')
  BY WaitingImages, WaitingImagesNext
<1> QED
  BY <1>3, <1>5, <1>6 DEF Image

\* The request with the permit no longer waits: it has landed or was answered.
LEMMA WaitingPopped ==
  ASSUME JobsInv, JobsInv', NEW p \in Publishers, Holds(p), NEW b, b = job[p].branch,
         Line(b)' = Tail(queue[b]), \A q \in Publishers \ {p} : job'[q] = job[q]
  PROVE  /\ job[p].pc = "bump" => Waiting(b)' = Waiting(b)
         /\ job[p].pc # "bump" => /\ Waiting(b) # <<>> /\ Head(Waiting(b)) = job[p].items
                                  /\ Waiting(b)' = Tail(Waiting(b))
<1> DEFINE s == Tail(queue[b])
<1>1. /\ b \in Branches /\ queue[b] \in Seq(Publishers) /\ queue[b] # <<>> /\ Head(queue[b]) = p
      /\ s \in Seq(Publishers)
      /\ \A m \in 1..Len(s) : s[m] \in Publishers \ {p} /\ Busy(s[m]) /\ job[s[m]].pc # "bump"
  <2>1. b \in Branches
    BY JobFields
  <2> QED BY <2>1, QueueFacts
<1>2. Waiting(b) = Image(ItemsOf, Line(b)) /\ Waiting(b)' = Image(ItemsOf', s)
  BY <1>1, WaitingImages, WaitingImagesNext
<1> HIDE DEF s
<1>3. Image(ItemsOf', s) = Image(ItemsOf, s)
  <2>1. \A m \in 1..Len(s) : ItemsOf'[s[m]] = ItemsOf[s[m]]
    BY <1>1 DEF ItemsOf, Items
  <2> QED BY <2>1 DEF Image
<1>4. CASE job[p].pc = "bump"
  <2>1. Line(b) = s
    BY <1>1, <1>4 DEF Line, s
  <2> QED BY <1>2, <1>3, <1>4, <2>1
<1>5. CASE job[p].pc # "bump"
  <2>1. Line(b) = queue[b]
    BY <1>1, <1>5 DEF Line
  <2>2. /\ Image(ItemsOf, s) = Tail(Image(ItemsOf, queue[b]))
        /\ Image(ItemsOf, queue[b]) # <<>>
        /\ Head(Image(ItemsOf, queue[b])) = ItemsOf[p]
    BY <1>1, ItemsType, ImageTail DEF s
  <2>3. ItemsOf[p] = job[p].items
    BY JobFields DEF ItemsOf, Items, Busy
  <2> QED BY <1>2, <1>3, <1>5, <2>1, <2>2, <2>3
<1> QED
  BY <1>4, <1>5

LEMMA LeaveWaiting ==
  ASSUME JobsInv, JobsInv', NEW p \in Publishers, Holds(p), Leave(p), NEW b, b = job[p].branch
  PROVE  /\ Line(b)' = Tail(queue[b])
         /\ \A q \in Publishers \ {p} : job'[q] = job[q]
         /\ \A c \in Branches \ {b} : Waiting(c)' = Waiting(c)
<1>1. /\ b \in Branches /\ queue[b] \in Seq(Publishers) /\ queue[b] # <<>>
      /\ Tail(queue[b]) \in Seq(Publishers)
      /\ \A m \in 1..Len(Tail(queue[b])) :
           /\ Tail(queue[b])[m] \in Publishers \ {p} /\ job[Tail(queue[b])[m]].pc # "bump"
  <2>1. b \in Branches
    BY QueueFacts
  <2>2. queue[b] \in Seq(Publishers) /\ queue[b] # <<>> /\ Tail(queue[b]) \in Seq(Publishers)
    BY QueueFacts
  <2>3. ASSUME NEW m \in 1..Len(Tail(queue[b]))
        PROVE  Tail(queue[b])[m] \in Publishers \ {p} /\ job[Tail(queue[b])[m]].pc # "bump"
    BY QueueFacts
  <2> QED BY <2>1, <2>2, <2>3
<1>2. /\ queue'[b] = Tail(queue[b])
      /\ \A c \in Branches \ {b} : queue'[c] = queue[c]
  BY <1>1 DEF Leave, JobsInv
<1>3. \A q \in Publishers \ {p} : job'[q] = job[q]
  BY LeaveInv
<1>4. Line(b)' = Tail(queue[b])
  <2> DEFINE s == Tail(queue[b])
  <2>1. ASSUME s # <<>> PROVE job'[Head(s)].pc # "bump"
    <3>1. Head(s) = s[1] /\ 1 \in 1..Len(s)
      BY <1>1, <2>1
    <3> QED BY ZenonT(60), <1>1, <1>3, <3>1
  <2> HIDE DEF s
  <2>2. queue'[b] = s
    BY <1>2 DEF s
  <2> QED BY <2>1, <2>2 DEF Line, s
<1>5. ASSUME NEW c \in Branches \ {b} PROVE Waiting(c)' = Waiting(c)
  <2>1. \A m \in 1..Len(queue[c]) : queue[c][m] \in Publishers
    BY DEF JobsInv
  <2>2. \A m \in 1..Len(queue[c]) : queue[c][m] # p
    BY DEF JobsInv, QueueInv
  <2>3. \A m \in 1..Len(queue[c]) : job'[queue[c][m]] = job[queue[c][m]]
    BY <1>3, <2>1, <2>2
  <2> QED BY <1>2, <2>3, WaitingSame
<1> QED
  BY <1>3, <1>4, <1>5

\* A job that goes on without landing keeps every line as it was.
LEMMA MovedWaiting ==
  ASSUME JobsInv, JobsInv', NEW p \in Publishers, Holds(p), NEW pc, NEW left,
         Moved(p, pc, left), NEW c \in Branches,
         c = job[p].branch => job[p].pc # "bump" /\ pc # "bump"
  PROVE  Waiting(c)' = Waiting(c)
<1>1. /\ job'[p].pc = pc /\ job'[p].items = job[p].items
      /\ \A q \in Publishers \ {p} : job'[q] = job[q]
  BY MovedJob
<1>2. \A m \in 1..Len(queue[c]) : queue[c][m] \in Publishers
  BY DEF JobsInv
<1>3. \A m \in 1..Len(queue[c]) : queue[c][m] = p => c = job[p].branch
  BY DEF JobsInv, QueueInv
<1>4. \A m \in 1..Len(queue[c]) :
        /\ job'[queue[c][m]].items = job[queue[c][m]].items
        /\ job'[queue[c][m]].pc = "bump" <=> job[queue[c][m]].pc = "bump"
  BY <1>1, <1>2, <1>3
<1> QED
  BY <1>4, WaitingSame DEF Moved

LEMMA EnterWaiting ==
  ASSUME JobsInv, JobsInv', NEW p \in Publishers, NEW b \in Branches, NEW items \in SUBSET Item,
         WellFormed(items), Enter(p, b, items)
  PROVE  /\ Waiting(b)' = Append(Waiting(b), items)
         /\ \A c \in Branches \ {b} : Waiting(c)' = Waiting(c)
<1>1. /\ job'[p].pc = "rollout" /\ job'[p].items = items
      /\ \A q \in Publishers \ {p} : job'[q] = job[q]
  BY DEF Enter, JobsInv
<1>2. /\ queue[b] \in Seq(Publishers) /\ queue'[b] = Append(queue[b], p)
      /\ \A c \in Branches \ {b} : queue'[c] = queue[c]
  BY DEF Enter, JobsInv
<1>3. \A c \in Branches : \A m \in 1..Len(queue[c]) : queue[c][m] \in Publishers \ {p}
  <2>1. \A c \in Branches : \A m \in 1..Len(queue[c]) : queue[c][m] \in Publishers
    BY DEF JobsInv
  <2> QED BY <2>1 DEF JobsInv, QueueInv, Busy, Enter
<1>4. ASSUME NEW c \in Branches \ {b} PROVE Waiting(c)' = Waiting(c)
  <2>1. \A m \in 1..Len(queue[c]) : job'[queue[c][m]] = job[queue[c][m]]
    BY <1>1, <1>3
  <2> QED BY <1>2, <2>1, WaitingSame
<1>5. Line(b)' = Append(Line(b), p) /\ Line(b) \in Seq(Publishers)
  <2>1. Line(b) \in Seq(Publishers)
    BY WaitingImages
  <2>2. CASE queue[b] = <<>>
    <3>1. queue'[b] # <<>> /\ Head(queue'[b]) = p
      BY <1>2, <2>2
    <3> QED BY <1>1, <1>2, <2>1, <2>2, <3>1 DEF Line
  <2>3. CASE queue[b] # <<>>
    <3>1. queue'[b] # <<>> /\ Head(queue'[b]) = Head(queue[b])
          /\ Tail(queue'[b]) = Append(Tail(queue[b]), p)
      BY <1>2, <2>3
    <3>2. Head(queue[b]) = queue[b][1] /\ 1 \in 1..Len(queue[b])
      BY <1>2, <2>3
    <3>3. job'[Head(queue[b])] = job[Head(queue[b])]
      BY <1>1, <1>3, <3>2
    <3> QED BY <1>2, <2>1, <2>3, <3>1, <3>3 DEF Line
  <2> QED BY <2>2, <2>3
<1>6. Waiting(b) = Image(ItemsOf, Line(b)) /\ Waiting(b)' = Image(ItemsOf', Append(Line(b), p))
  BY <1>5, WaitingImages, WaitingImagesNext
<1>7. Image(ItemsOf', Append(Line(b), p)) = Append(Image(ItemsOf', Line(b)), ItemsOf'[p])
  <2>1. ItemsOf' \in [Publishers -> SUBSET Item]
    <3>1. \A q \in Publishers : Items(q)' \in SUBSET Item
      BY DEF JobsInv, Items, Job
    <3> QED BY <3>1 DEF ItemsOf
  <2> DEFINE f == ItemsOf'
             s == Line(b)
  <2> HIDE DEF f, s
  <2> QED BY <1>5, <2>1, ImageAppend DEF f, s
<1>8. ItemsOf'[p] = items
  BY <1>1 DEF ItemsOf, Items, Idle
<1>9. Image(ItemsOf', Line(b)) = Image(ItemsOf, Line(b))
  <2> DEFINE s == Line(b)
  <2>1. \A n \in 1..Len(s) : \E m \in 1..Len(queue[b]) : s[n] = queue[b][m]
    <3>1. ASSUME queue[b] # <<>>, NEW n \in 1..Len(Tail(queue[b]))
          PROVE  \E m \in 1..Len(queue[b]) : Tail(queue[b])[n] = queue[b][m]
      <4>1. n + 1 \in 1..Len(queue[b]) /\ Tail(queue[b])[n] = queue[b][n + 1]
        BY <1>2, <3>1
      <4> QED BY <4>1
    <3> QED BY <3>1 DEF Line
  <2>2. \A n \in 1..Len(s) : s[n] \in Publishers \ {p}
    BY <1>3, <2>1
  <2> HIDE DEF s
  <2>3. \A n \in 1..Len(s) : ItemsOf'[s[n]] = ItemsOf[s[n]]
    BY <1>1, <2>2 DEF ItemsOf, Items
  <2> QED BY <2>3 DEF Image, s
<1> QED
  BY <1>4, <1>6, <1>7, <1>8, <1>9

LEMMA EvictWaiting ==
  ASSUME JobsInv, JobsInv', NEW b \in Branches, Evict(b)
  PROVE  /\ Waiting(b)' = <<>>
         /\ \A c \in Branches \ {b} : Waiting(c)' = Waiting(c)
<1>1. queue'[b] = <<>> /\ \A c \in Branches \ {b} : queue'[c] = queue[c]
  BY DEF Evict, JobsInv
<1>2. Waiting(b)' = <<>>
  BY <1>1 DEF Waiting
<1>3. ASSUME NEW c \in Branches \ {b} PROVE Waiting(c)' = Waiting(c)
  <2>1. \A m \in 1..Len(queue[c]) : queue[c][m] \in Publishers /\ job[queue[c][m]].branch = c
    BY DEF JobsInv, QueueInv
  <2>2. \A m \in 1..Len(queue[c]) : job'[queue[c][m]] = job[queue[c][m]]
    BY <2>1 DEF Evict
  <2> QED BY <1>1, <2>2, WaitingSame
<1> QED BY <1>2, <1>3

(***************************************************************************)
(* Every step of the implementation is a step of the feed, or none.        *)
(***************************************************************************)
Pending == [b \in Branches |-> Waiting(b)]

FeedStep == Feed!Next \/ UNCHANGED <<rows, Pending>>

LEMMA PendingSame ==
  ASSUME \A c \in Branches : Waiting(c)' = Waiting(c)
  PROVE  Pending' = Pending
BY DEF Pending

LEMMA PendingChange ==
  ASSUME NEW b \in Branches, NEW w, Waiting(b)' = w,
         \A c \in Branches \ {b} : Waiting(c)' = Waiting(c)
  PROVE  Pending' = [Pending EXCEPT ![b] = w] /\ Pending[b] = Waiting(b) /\ Pending'[b] = w
<1>1. /\ \A c \in Branches : Pending[c] = Waiting(c)
      /\ \A c \in Branches : Pending'[c] = Waiting(c)'
      /\ Pending = [c \in Branches |-> Pending[c]]
      /\ Pending' = [c \in Branches |-> Pending'[c]]
  BY DEF Pending
<1>2. \A c \in Branches : Pending'[c] = IF c = b THEN w ELSE Pending[c]
  BY <1>1
<1> QED
  BY <1>1, <1>2

\* Rows only go or change in place while the requests go on waiting.
LEMMA ReviseStep ==
  ASSUME Derived(rows'), Pending' = Pending
  PROVE  FeedStep
<1>1. {Feed!Lasting(u) : u \in rows'} \subseteq {Feed!Lasting(u) : u \in rows}
  BY DEF Derived, Feed!Lasting
<1>2. \A v \in rows' : v.embedded => \E u \in rows : u.embedded /\ Feed!Lasting(u) = Feed!Lasting(v)
  BY DEF Derived, Feed!Lasting
<1> QED
  BY <1>1, <1>2 DEF FeedStep, Pending, Feed!Next, Feed!Revise

LEMMA SubmitStep ==
  ASSUME IInv, IInv', NEW p \in Publishers, Request(p)
  PROVE  FeedStep
<1>1. PICK b \in Branches, items \in SUBSET Item : WellFormed(items) /\ Enter(p, b, items)
  BY RequestEnters
<1> DEFINE w == Append(Waiting(b), items)
<1>2. /\ Waiting(b)' = w
      /\ \A c \in Branches \ {b} : Waiting(c)' = Waiting(c)
  BY <1>1, EnterWaiting DEF IInv
<1>3. Waiting(b) \in Seq(SUBSET Item)
  BY WaitingImages, ItemsType, ImageType DEF IInv
<1>4. Len(w) = Len(Waiting(b)) + 1 /\ w[Len(Waiting(b)) + 1] = items
  BY <1>3
<1> HIDE DEF w
<1>5. Pending' = [Pending EXCEPT ![b] = w] /\ Pending[b] = Waiting(b) /\ Pending'[b] = w
  BY <1>2, PendingChange
<1>6. /\ Len(Pending'[b]) = Len(Pending[b]) + 1
      /\ Pending' = [Pending EXCEPT ![b] = Append(@, Pending'[b][Len(@) + 1])]
      /\ rows' = rows
  BY <1>1, <1>4, <1>5 DEF w, Enter
<1>7. Feed!Submit(b)
  BY <1>6 DEF Feed!Submit, Pending
<1> QED
  BY <1>7 DEF FeedStep, Feed!Next

\* An answer: the request whose turn it was landed before, or is abandoned.
LEMMA LeaveFeed ==
  ASSUME IInv, IInv', NEW p \in Publishers, Holds(p), Leave(p), rows' = rows
  PROVE  FeedStep
<1>0. PICK b \in Branches : b = job[p].branch
  BY JobFields DEF IInv
<1>1. JobsInv /\ JobsInv'
  BY DEF IInv
<1>2. /\ Line(b)' = Tail(queue[b])
      /\ \A q \in Publishers \ {p} : job'[q] = job[q]
      /\ \A c \in Branches \ {b} : Waiting(c)' = Waiting(c)
  BY <1>0, <1>1, LeaveWaiting
<1>3. /\ job[p].pc = "bump" => Waiting(b)' = Waiting(b)
      /\ job[p].pc # "bump" => Waiting(b) # <<>> /\ Waiting(b)' = Tail(Waiting(b))
  BY ZenonT(60), <1>0, <1>1, <1>2, WaitingPopped
<1>4. CASE job[p].pc = "bump"
  <2>1. Pending' = Pending
    BY <1>2, <1>3, <1>4, PendingSame
  <2> QED BY <2>1 DEF FeedStep
<1>5. CASE job[p].pc # "bump"
  <2>1. /\ Pending' = [Pending EXCEPT ![b] = Tail(Pending[b])] /\ Pending[b] # <<>>
    BY <1>1, <1>2, <1>3, <1>5, PendingChange
  <2>2. Feed!Abandon(b)
    BY <2>1 DEF Feed!Abandon, Pending
  <2> QED BY <1>1, <2>2 DEF FeedStep, Feed!Next
<1> QED
  BY <1>4, <1>5

LEMMA EvictFeed ==
  ASSUME IInv, IInv', NEW b \in Branches, Evict(b)
  PROVE  FeedStep
<1>1. Waiting(b)' = <<>> /\ \A c \in Branches \ {b} : Waiting(c)' = Waiting(c)
  BY EvictWaiting DEF IInv
<1>2. rows' = rows
  BY DEF Evict
<1>3. CASE Waiting(b) = <<>>
  <2>1. Pending' = Pending
    BY <1>1, <1>3, PendingSame
  <2> QED BY <1>2, <2>1 DEF FeedStep
<1>4. CASE Waiting(b) # <<>>
  <2>1. Pending' = [Pending EXCEPT ![b] = <<>>] /\ Pending[b] # <<>>
    BY <1>1, <1>4, PendingChange
  <2>2. Feed!Abandon(b)
    BY <1>2, <2>1 DEF Feed!Abandon, Pending
  <2> QED BY <2>2 DEF FeedStep, Feed!Next
<1> QED
  BY <1>3, <1>4

\* The insert is the instant at which a request takes effect.
LEMMA InsertFeed ==
  ASSUME IInv, IInv', NEW p \in Publishers, Inserts(p)
  PROVE  FeedStep
<1> DEFINE new == rows' \ rows
<1>0. PICK b \in Branches : b = job[p].branch
  BY JobFields DEF IInv, Inserts, At
<1>1. /\ JobsInv /\ JobsInv' /\ Holds(p) /\ job[p].pc = "insert"
      /\ Moved(p, "bump", job[p].left)
  BY JobFields, InsertMoves DEF IInv, Inserts, At
<1>2. job'[p].pc = "bump" /\ \A q \in Publishers \ {p} : job'[q] = job[q]
  BY <1>1, MovedJob
<1>3. Line(b)' = Tail(queue[b])
  <2>1. queue' = queue /\ queue[b] # <<>> /\ Head(queue[b]) = p
    BY <1>0, <1>1 DEF Inserts, Holds
  <2> QED BY <1>2, <2>1 DEF Line
<1>4. \A c \in Branches \ {b} : Waiting(c)' = Waiting(c)
  BY <1>0, <1>1, MovedWaiting
<1>5. /\ Waiting(b) # <<>> /\ Head(Waiting(b)) = job[p].items
      /\ Waiting(b)' = Tail(Waiting(b))
  BY <1>0, <1>1, <1>2, <1>3, WaitingPopped
<1>6. /\ Pending' = [Pending EXCEPT ![b] = Tail(Pending[b])]
      /\ Pending[b] # <<>> /\ Head(Pending[b]) = job[p].items
  BY <1>1, <1>4, <1>5, PendingChange
<1>7. \A v \in new :
        /\ v.branch = b
        /\ \A u \in rows : u.id # v.id
        /\ v.precomputed /\ ~v.embedded => \A u \in Tuple(v.branch, v.target) : u.at < v.at
        /\ v.embedded => \A u \in Tuple(v.branch, v.target) : ~u.embedded
  BY <1>0, InsertedRow
<1>8. \A v : Feed!Tuple(v) = Tuple(v.branch, v.target)
  BY DEF Feed!Tuple, Tuple
<1>9. {<<v.id, v.target>> : v \in new} = {<<i.id, i.target>> : i \in job[p].items}
  <2>1. \A i \in job[p].items : /\ NewRow(p, i).id = i.id
                                /\ NewRow(p, i).target = i.target
                                /\ NewRow(p, i) \notin rows
    BY NewRowFields, <1>1 DEF Inserts, Collides
  <2>2. new = {NewRow(p, i) : i \in job[p].items}
    BY <2>1 DEF Inserts
  <2> HIDE DEF new
  <2> QED BY <2>1, <2>2
<1>10. rows \subseteq rows'
  BY DEF Inserts
<1>11. Feed!Land(b)
  BY <1>6, <1>7, <1>8, <1>9, <1>10 DEF Feed!Land, Pending
<1> QED
  BY <1>1, <1>11 DEF FeedStep, Feed!Next

LEMMA NextFeed ==
  ASSUME IInv, IInv', [Next]_vars
  PROVE  FeedStep
<1>0. JobsInv /\ JobsInv'
  BY DEF IInv
<1>m. ASSUME NEW p \in Publishers, Holds(p), job[p].pc # "bump", Derived(rows'),
             NEW pc, pc # "bump", NEW left, Moved(p, pc, left)
      PROVE  FeedStep
  <2>1. \A c \in Branches : Waiting(c)' = Waiting(c)
    BY <1>0, <1>m, MovedWaiting
  <2> QED BY <1>m, <2>1, PendingSame, ReviseStep
<1>o. ASSUME Derived(rows'), UNCHANGED <<queue, job>> PROVE FeedStep
  <2>1. \A c \in Branches : Waiting(c)' = Waiting(c)
    BY <1>o DEF Waiting, Items
  <2> QED BY <1>o, <2>1, PendingSame, ReviseStep
<1>1. ASSUME NEW p \in Publishers, Request(p) PROVE FeedStep
  BY <1>1, SubmitStep
<1>2. ASSUME NEW p \in Publishers, Advance(p) PROVE FeedStep
  <2>1. ASSUME NEW i, NEW next, next # "bump", At(p, "rollout") \/ At(p, "skew"),
               Checked(p, i, next)
        PROVE  FeedStep
    <3>1. Holds(p) /\ job[p].pc # "bump" /\ rows' = rows
      BY <2>1 DEF At, Checked
    <3> QED BY <1>0, <1>m, <2>1, <3>1, CheckedMoves, SameRows
  <2>2. ASSUME NEW i, CheckRollout(p, i) PROVE FeedStep
    BY <2>1, <2>2, LeaveFeed DEF CheckRollout, Refuse, At
  <2>3. ASSUME NEW i, CheckSkew(p, i) PROVE FeedStep
    BY <2>1, <2>3, LeaveFeed DEF CheckSkew, Refuse, At
  <2>4. ASSUME NEW i, Reconcile(p, i) PROVE FeedStep
    <3>1. Holds(p) /\ job[p].pc # "bump" /\ rows' = rows
      BY <2>4 DEF Reconcile, At, Refuse
    <3>2. CASE Refuse(p)
      BY <3>1, <3>2, LeaveFeed DEF Refuse
    <3>3. ASSUME NEW pc \in {"clear", "delete"}, Goto(p, pc) PROVE FeedStep
      BY <1>0, <1>m, <3>1, <3>3, GotoMoves, SameRows
    <3> QED BY <2>4, <3>2, <3>3 DEF Reconcile
  <2>5. ASSUME NEW i, DeletePrior(p, i) PROVE FeedStep
    <3>1. Holds(p) /\ job[p].pc # "bump" /\ rows' \in SUBSET rows /\ Goto(p, "clear")
      BY <2>5 DEF DeletePrior, At
    <3>2. Derived(rows')
      BY <3>1, PartDerived DEF IInv, TableInv
    <3> QED BY <1>0, <1>m, <3>1, <3>2, GotoMoves
  <2>6. ASSUME NEW i, ClearEmbedded(p, i) PROVE FeedStep
    <3>1. Holds(p) /\ job[p].pc # "bump" /\ Goto(p, "skew")
      BY <2>6 DEF ClearEmbedded, At
    <3>2. Derived(rows')
      BY <2>6, ClearedRows DEF IInv, TableInv
    <3> QED BY <1>0, <1>m, <3>1, <3>2, GotoMoves
  <2>7. CASE Insert(p)
    BY <2>7, InsertCases, InsertFeed, LeaveFeed DEF Refuse
  <2>8. CASE Bump(p)
    BY <2>8, LeaveFeed DEF Bump, At
  <2> QED BY <1>2, <2>2, <2>3, <2>4, <2>5, <2>6, <2>7, <2>8 DEF Advance
<1>3. ASSUME NEW p \in Publishers, Fail(p) PROVE FeedStep
  BY <1>3, LeaveFeed DEF Fail
<1>4. ASSUME NEW b \in Branches, Evict(b) PROVE FeedStep
  BY <1>4, EvictFeed
<1>5. ASSUME NEW id \in Ids, NEW pct \in EditPercentages, UpdateRollout(id, pct) PROVE FeedStep
  BY <1>5, <1>o, UpdateRolloutRows DEF UpdateRollout, IInv, TableInv
<1>6. ASSUME NEW ids \in SUBSET Ids, DeleteRows(ids) PROVE FeedStep
  <2>1. rows' \in SUBSET rows
    BY <1>6 DEF DeleteRows
  <2> QED BY <1>6, <1>o, <2>1, PartDerived DEF DeleteRows, IInv, TableInv
<1>7. CASE Tick \/ UNCHANGED vars
  BY <1>7, <1>o, SameRows DEF Tick, vars
<1> QED
  BY <1>1, <1>2, <1>3, <1>4, <1>5, <1>6, <1>7 DEF Next

\* The Durable Object with its reads, refusals, evictions and the writes
\* around it implements the feed: a request lands whole, at the instant of its
\* insert, in the order of arrival on its branch, with its checks true there.
THEOREM PublishingIsAtomic == Spec => AtomicPublishing
<1>1. Init => Feed!Init
  BY DEF Init, Feed!Init, Waiting
<1>2. ASSUME IInv, IInv', [Next]_vars
      PROVE  [Feed!Next]_<<rows, [b \in Branches |-> Waiting(b)]>>
  BY <1>2, NextFeed DEF FeedStep, Pending
<1> QED
  BY <1>1, <1>2, InitInv, NextInv, PTL DEF Spec, AtomicPublishing, Feed!Spec

(***************************************************************************)
(* Progress.  EveryRequestAnswered needs fairness and stays with TLC; what *)
(* a proof of it would rest on is safety and is proved here: every request *)
(* stands in a queue, the head of every queue has a statement to execute,  *)
(* and every statement is progress that nobody undoes.                     *)
(***************************************************************************)
Queued(p) == \E m \in 1..Len(queue[job[p].branch]) : queue[job[p].branch][m] = p

\* In this phase the request has a statement to execute: an update it has not
\* read for, or a baseline to reconcile.
HasWork(p, pc, left) ==
  /\ pc \in {"rollout", "skew"} => left # {}
  /\ pc \in {"reconcile", "delete", "clear"} => Baseline(p) # {}

HeardInv ==
  \A p \in Publishers : Busy(p) =>
    /\ Queued(p)
    /\ job[p].left \subseteq job[p].items
    /\ HasWork(p, job[p].pc, job[p].left)

Stage(pc) ==
  CASE pc = "rollout"   -> 1
    [] pc = "reconcile" -> 2
    [] pc = "delete"    -> 3
    [] pc = "clear"     -> 4
    [] pc = "skew"      -> 5
    [] pc = "insert"    -> 6
    [] pc = "bump"      -> 7

\* The phase is a later one, or the same with fewer updates left.
Further(p, pc, left) ==
  \/ Stage(pc) > Stage(job[p].pc)
  \/ pc = job[p].pc /\ left \subseteq job[p].left /\ left # job[p].left

Phase == {"rollout", "reconcile", "delete", "clear", "skew", "insert", "bump"}

\* A statement answers the request or takes it further.
LEMMA AdvanceCases ==
  ASSUME IInv, HeardInv, NEW p \in Publishers, Advance(p)
  PROVE  /\ Holds(p)
         /\ \/ Leave(p)
            \/ \E pc \in Phase, left \in SUBSET job[p].items :
                 Moved(p, pc, left) /\ HasWork(p, pc, left) /\ Further(p, pc, left)
<1> DEFINE Goal == /\ Holds(p)
                   /\ \/ Leave(p)
                      \/ \E pc \in Phase, left \in SUBSET job[p].items :
                           Moved(p, pc, left) /\ HasWork(p, pc, left) /\ Further(p, pc, left)
<1>0. JobsInv
  BY DEF IInv
<1>1. Holds(p) /\ Busy(p) /\ job[p].left \subseteq job[p].items
  BY <1>0, JobFields DEF Advance, CheckRollout, Reconcile, DeletePrior, ClearEmbedded, CheckSkew, Insert,
         Bump, At, HeardInv
<1>2. ASSUME Leave(p) PROVE Goal
  BY <1>1, <1>2
<1>3. ASSUME NEW pc \in Phase, Moved(p, pc, job[p].items), Stage(pc) > Stage(job[p].pc),
             pc \in {"reconcile", "delete", "clear"} => Baseline(p) # {}, job[p].items # {}
      PROVE  Goal
  BY <1>1, <1>3 DEF HasWork, Further
<1>4. ASSUME NEW i \in job[p].left, job[p].left # {i}, Moved(p, job[p].pc, job[p].left \ {i}),
             job[p].pc \in {"rollout", "skew"}
      PROVE  Goal
  <2> DEFINE left == job[p].left \ {i}
  <2>1. left # {} /\ left \subseteq job[p].left /\ left # job[p].left /\ left \in SUBSET job[p].items
    BY <1>1, <1>4
  <2> HIDE DEF left
  <2>2. HasWork(p, job[p].pc, left) /\ Further(p, job[p].pc, left)
    BY <1>4, <2>1 DEF HasWork, Further
  <2>3. Moved(p, job[p].pc, left) /\ job[p].pc \in Phase
    BY <1>4 DEF left, Phase
  <2> QED BY <1>1, <2>1, <2>2, <2>3
<1> HIDE DEF Goal
<1>5. ASSUME NEW i \in job[p].items, CheckRollout(p, i) PROVE Goal
  <2> DEFINE next == IF Baseline(p) = {} THEN "skew" ELSE "reconcile"
  <2>0. job[p].pc = "rollout" /\ i \in job[p].left /\ job[p].items # {}
    BY <1>5 DEF CheckRollout, At
  <2>1. CASE Refuse(p)
    BY <1>2, <2>1 DEF Refuse
  <2>2. CASE Checked(p, i, next)
    <3>1. \/ job[p].left = {i} /\ Moved(p, next, job[p].items)
          \/ job[p].left # {i} /\ Moved(p, "rollout", job[p].left \ {i})
      BY <1>0, <1>1, <2>0, <2>2, CheckedMoves
    <3>2. next \in Phase /\ Stage(next) > Stage("rollout")
          /\ (next \in {"reconcile", "delete", "clear"} => Baseline(p) # {})
      BY DEF Phase, Stage
    <3> HIDE DEF next
    <3> QED BY <1>3, <1>4, <2>0, <3>1, <3>2
  <2> QED BY <1>5, <2>1, <2>2 DEF CheckRollout
<1>6. ASSUME NEW i \in job[p].items, CheckSkew(p, i) PROVE Goal
  <2>0. job[p].pc = "skew" /\ i \in job[p].left /\ job[p].items # {}
    BY <1>6 DEF CheckSkew, At
  <2>1. CASE Refuse(p)
    BY <1>2, <2>1 DEF Refuse
  <2>2. CASE Checked(p, i, "insert")
    <3>1. \/ job[p].left = {i} /\ Moved(p, "insert", job[p].items)
          \/ job[p].left # {i} /\ Moved(p, "skew", job[p].left \ {i})
      BY <1>0, <1>1, <2>0, <2>2, CheckedMoves
    <3>2. Stage("insert") > Stage("skew") /\ "insert" \in Phase
      BY DEF Stage, Phase
    <3> QED BY <1>3, <1>4, <2>0, <3>1, <3>2
  <2> QED BY <1>6, <2>1, <2>2 DEF CheckSkew
<1>7. ASSUME NEW i \in Baseline(p), NEW pc \in Phase, Stage(pc) > Stage(job[p].pc), Goto(p, pc)
      PROVE  Goal
  <2>1. Moved(p, pc, job[p].items) /\ job[p].items # {} /\ Baseline(p) # {}
    BY <1>0, <1>1, <1>7, GotoMoves DEF Baseline
  <2> QED BY <1>3, <1>7, <2>1
<1>8. ASSUME NEW i \in job[p].items, Reconcile(p, i) PROVE Goal
  <2>1. job[p].pc = "reconcile" /\ i \in Baseline(p) /\ (Goto(p, "clear") \/ Goto(p, "delete") \/ Refuse(p))
    BY <1>8 DEF Reconcile, At
  <2>2. /\ Stage("clear") > Stage("reconcile") /\ Stage("delete") > Stage("reconcile")
        /\ "clear" \in Phase /\ "delete" \in Phase
    BY DEF Stage, Phase
  <2> QED BY <1>2, <1>7, <2>1, <2>2 DEF Refuse
<1>9. ASSUME NEW i \in job[p].items, DeletePrior(p, i) \/ ClearEmbedded(p, i) PROVE Goal
  <2>1. /\ i \in Baseline(p)
        /\ \/ job[p].pc = "delete" /\ Goto(p, "clear")
           \/ job[p].pc = "clear" /\ Goto(p, "skew")
    BY <1>9 DEF DeletePrior, ClearEmbedded, At
  <2>2. /\ Stage("clear") > Stage("delete") /\ Stage("skew") > Stage("clear")
        /\ "clear" \in Phase /\ "skew" \in Phase
    BY DEF Stage, Phase
  <2> QED BY <1>7, <2>1, <2>2
<1>10. ASSUME Insert(p) PROVE Goal
  <2>1. CASE Inserts(p)
    <3>1. Moved(p, "bump", job[p].left) /\ job[p].pc = "insert"
      BY <2>1, InsertMoves DEF Inserts, At
    <3>2. Stage("bump") > Stage("insert") /\ "bump" \in Phase
      BY DEF Stage, Phase
    <3>3. HasWork(p, "bump", job[p].left) /\ Further(p, "bump", job[p].left)
      BY <3>1, <3>2 DEF HasWork, Further
    <3> QED BY <1>1, <3>1, <3>2, <3>3 DEF Goal
  <2> QED BY <1>2, <1>10, <2>1, InsertCases DEF Refuse
<1>11. Goal
  BY <1>2, <1>5, <1>6, <1>8, <1>9, <1>10 DEF Advance, Items, Bump
<1> QED BY <1>11 DEF Goal

\* A request whose job a step leaves alone is heard if it still has its place.
LEMMA HeardKept ==
  ASSUME HeardInv, NEW q \in Publishers, job'[q] = job[q], Busy(q) => Queued(q)'
  PROVE  Busy(q)' => /\ Queued(q)' /\ job'[q].left \subseteq job'[q].items
                     /\ HasWork(q, job[q].pc, job[q].left)'
BY DEF HeardInv, Busy, HasWork, Baseline

LEMMA MovedHeard ==
  ASSUME JobsInv, HeardInv, NEW p \in Publishers, Holds(p), NEW pc,
         NEW left \in SUBSET job[p].items, Moved(p, pc, left), HasWork(p, pc, left)
  PROVE  HeardInv'
<1>1. /\ job'[p].pc = pc /\ job'[p].left = left
      /\ job'[p].branch = job[p].branch /\ job'[p].items = job[p].items
      /\ \A q \in Publishers \ {p} : job'[q] = job[q]
      /\ queue' = queue
  <2>1. queue' = queue
    BY DEF Moved
  <2> QED BY <2>1, MovedJob
<1>2. Queued(p)' /\ job'[p].left \subseteq job'[p].items
  <2>1. Queued(p)
    BY JobFields DEF HeardInv
  <2>2. Queued(p)'
    BY <1>1, <2>1 DEF Queued
  <2> QED BY <1>1, <2>2
<1>3. HasWork(p, job[p].pc, job[p].left)'
  BY <1>1 DEF HasWork, Baseline
<1>4. ASSUME NEW q \in Publishers \ {p}
      PROVE  Busy(q)' => /\ Queued(q)' /\ job'[q].left \subseteq job'[q].items
                         /\ HasWork(q, job[q].pc, job[q].left)'
  <2>1. Busy(q) => Queued(q)'
    BY <1>1 DEF HeardInv, Queued
  <2> QED BY <1>1, <2>1, HeardKept
<1> QED
  BY <1>2, <1>3, <1>4 DEF HeardInv


\* The answer moves everyone behind the head one place up, in the same order.
LEMMA LeaveHeard ==
  ASSUME JobsInv, HeardInv, NEW p \in Publishers, Holds(p), Leave(p)
  PROVE  HeardInv'
<1>0. PICK b \in Branches : b = job[p].branch
  BY JobFields
<1>1. /\ queue[b] \in Seq(Publishers) /\ queue[b] # <<>> /\ queue[b][1] = p
  BY <1>0, QueueFacts
<1>2. /\ job'[p] = Idle
      /\ \A q \in Publishers \ {p} : job'[q] = job[q]
      /\ queue'[b] = Tail(queue[b])
      /\ \A c \in Branches \ {b} : queue'[c] = queue[c]
  BY <1>0, LeaveInv DEF Leave, JobsInv
<1>3. ASSUME NEW q \in Publishers \ {p}, Busy(q) PROVE Queued(q)'
  <2>1. PICK c \in Branches : c = job[q].branch
    BY <1>3, JobFields
  <2>2. PICK m \in 1..Len(queue[c]) : queue[c][m] = q
    BY <1>3, <2>1 DEF HeardInv, Queued
  <2>3. CASE c # b
    <3>1. queue'[c] = queue[c] /\ job'[q].branch = c
      BY <1>2, <2>1, <2>3
    <3> QED BY <2>2, <3>1 DEF Queued
  <2>4. CASE c = b
    <3>1. m # 1 /\ m \in 1..Len(queue[b]) /\ queue[b][m] = q
      BY <1>1, <2>2, <2>4
    <3>2. m - 1 \in 1..Len(Tail(queue[b])) /\ Tail(queue[b])[m - 1] = q
      BY <1>1, <3>1
    <3>3. queue'[c] = Tail(queue[b]) /\ job'[q].branch = c
      BY <1>2, <2>1, <2>4
    <3> QED BY <3>2, <3>3 DEF Queued
  <2> QED BY <2>3, <2>4
<1>4. ASSUME NEW q \in Publishers \ {p}
      PROVE  Busy(q)' => /\ Queued(q)' /\ job'[q].left \subseteq job'[q].items
                         /\ HasWork(q, job[q].pc, job[q].left)'
  BY <1>2, <1>3, HeardKept
<1> QED
  BY <1>2, <1>4 DEF HeardInv, Busy

LEMMA EnterHeard ==
  ASSUME JobsInv, HeardInv, NEW p \in Publishers, NEW b \in Branches, NEW items \in SUBSET Item,
         items # {}, Enter(p, b, items)
  PROVE  HeardInv'
<1>1. /\ job'[p].pc = "rollout" /\ job'[p].branch = b
      /\ job'[p].items = items /\ job'[p].left = items
      /\ \A q \in Publishers \ {p} : job'[q] = job[q]
      /\ queue[b] \in Seq(Publishers) /\ queue'[b] = Append(queue[b], p)
      /\ \A c \in Branches \ {b} : queue'[c] = queue[c]
  BY DEF Enter, JobsInv
<1>2. /\ Len(queue'[b]) = Len(queue[b]) + 1 /\ queue'[b][Len(queue[b]) + 1] = p
      /\ \A m \in 1..Len(queue[b]) : m \in 1..Len(queue'[b]) /\ queue'[b][m] = queue[b][m]
      /\ Len(queue[b]) + 1 \in 1..Len(queue'[b])
  BY <1>1
<1>3. Queued(p)'
  BY <1>1, <1>2 DEF Queued
<1>4. HasWork(p, job[p].pc, job[p].left)'
  BY <1>1 DEF HasWork
<1>5. ASSUME NEW q \in Publishers \ {p}, Busy(q) PROVE Queued(q)'
  <2>1. PICK c \in Branches : c = job[q].branch
    BY <1>5, JobFields
  <2>2. PICK m \in 1..Len(queue[c]) : queue[c][m] = q
    BY <1>5, <2>1 DEF HeardInv, Queued
  <2>3. m \in 1..Len(queue'[c]) /\ queue'[c][m] = q
    <3>1. CASE c = b
      BY <1>2, <2>2, <3>1
    <3>2. CASE c # b
      <4>1. queue'[c] = queue[c]
        BY <1>1, <3>2
      <4> QED BY <2>2, <4>1
    <3> QED BY <3>1, <3>2
  <2>4. job'[q].branch = c
    BY <1>1, <2>1
  <2> QED BY <2>3, <2>4 DEF Queued
<1>6. ASSUME NEW q \in Publishers \ {p}
      PROVE  Busy(q)' => /\ Queued(q)' /\ job'[q].left \subseteq job'[q].items
                         /\ HasWork(q, job[q].pc, job[q].left)'
  BY <1>1, <1>5, HeardKept
<1> QED
  BY <1>1, <1>3, <1>4, <1>6 DEF HeardInv

LEMMA EvictHeard ==
  ASSUME JobsInv, HeardInv, NEW b \in Branches, Evict(b)
  PROVE  HeardInv'
<1>1. /\ \A c \in Branches \ {b} : queue'[c] = queue[c]
      /\ \A q \in Publishers : Busy(q) /\ job[q].branch # b => job'[q] = job[q]
      /\ \A q \in Publishers : ~Busy(q) \/ job[q].branch = b => job'[q] = Idle
  BY DEF Evict, JobsInv, Busy
<1>2. ASSUME NEW q \in Publishers, Busy(q)'
      PROVE  /\ Queued(q)' /\ job'[q].left \subseteq job'[q].items
             /\ HasWork(q, job[q].pc, job[q].left)'
  <2>1. Busy(q) /\ job[q].branch # b /\ job'[q] = job[q]
    BY <1>1, <1>2 DEF Busy
  <2>2. PICK c \in Branches : c = job[q].branch
    BY <2>1, JobFields
  <2>3. queue'[c] = queue[c] /\ job'[q].branch = c
    BY <1>1, <2>1, <2>2
  <2>4. Queued(q)
    BY <2>1 DEF HeardInv
  <2>5. Queued(q)'
    BY <2>2, <2>3, <2>4 DEF Queued
  <2> QED BY <1>2, <2>1, <2>5, HeardKept
<1> QED
  BY <1>2 DEF HeardInv

LEMMA HeardNext == IInv /\ HeardInv /\ [Next]_vars => HeardInv'
<1> SUFFICES ASSUME IInv, HeardInv, [Next]_vars PROVE HeardInv'
  OBVIOUS
<1>0. JobsInv
  BY DEF IInv
<1>1. ASSUME NEW p \in Publishers, Request(p) PROVE HeardInv'
  <2>1. PICK b \in Branches, items \in SUBSET Item : items # {} /\ Enter(p, b, items)
    BY <1>1, RequestEnters
  <2> QED BY <1>0, <2>1, EnterHeard
<1>2. ASSUME NEW p \in Publishers, Advance(p) PROVE HeardInv'
  <2>1. Holds(p)
    BY <1>2, AdvanceCases
  <2>2. CASE Leave(p)
    BY <1>0, <2>1, <2>2, LeaveHeard
  <2>3. ASSUME NEW pc \in Phase, NEW left \in SUBSET job[p].items,
               Moved(p, pc, left), HasWork(p, pc, left)
        PROVE  HeardInv'
    BY <1>0, <2>1, <2>3, MovedHeard
  <2> QED BY <1>2, <2>2, <2>3, AdvanceCases
<1>3. ASSUME NEW p \in Publishers, Fail(p) PROVE HeardInv'
  BY <1>0, <1>3, LeaveHeard DEF Fail
<1>4. ASSUME NEW b \in Branches, Evict(b) PROVE HeardInv'
  BY <1>0, <1>4, EvictHeard
<1>5. ASSUME UNCHANGED <<queue, job>> PROVE HeardInv'
  BY <1>5 DEF HeardInv, Busy, Queued, HasWork, Baseline
<1> QED
  BY <1>1, <1>2, <1>3, <1>4, <1>5 DEF Next, UpdateRollout, DeleteRows, Tick, vars


\* Every request in flight stands in the queue of its branch, and the head of
\* every queue is a request of the branch that holds the permit and has a
\* statement to execute: an update to read for, a baseline to reconcile, the
\* batch, or the answer.
NobodyWaitsInVain ==
  /\ \A p \in Publishers : Busy(p) => Queued(p)
  /\ \A b \in Branches : queue[b] # <<>> =>
       \E p \in Publishers :
         /\ Head(queue[b]) = p
         /\ Holds(p) /\ job[p].branch = b
         /\ job[p].left \subseteq job[p].items
         /\ HasWork(p, job[p].pc, job[p].left)

\* The permit is never lost: no refusal, failure or eviction leaves a branch
\* with a queue whose head is gone, or a request that no queue knows of.
THEOREM NobodyIsForgotten == Spec => []NobodyWaitsInVain
<1>1. ASSUME IInv, HeardInv PROVE NobodyWaitsInVain
  <2>1. ASSUME NEW b \in Branches, queue[b] # <<>>
        PROVE  \E p \in Publishers :
                 /\ Head(queue[b]) = p
                 /\ Holds(p) /\ job[p].branch = b
                 /\ job[p].left \subseteq job[p].items
                 /\ HasWork(p, job[p].pc, job[p].left)
    <3>1. queue[b] \in Seq(Publishers)
      BY <1>1 DEF IInv, JobsInv
    <3>2. /\ 1 \in 1..Len(queue[b]) /\ Head(queue[b]) = queue[b][1]
          /\ queue[b][1] \in Publishers
      BY <2>1, <3>1
    <3>3. PICK p \in Publishers : p = queue[b][1]
      BY <3>2
    <3>4. Busy(p) /\ job[p].branch = b
      BY <1>1, <3>2, <3>3 DEF IInv, JobsInv, QueueInv
    <3>5. Holds(p)
      BY <2>1, <3>2, <3>3, <3>4 DEF Holds, Busy
    <3>6. job[p].left \subseteq job[p].items /\ HasWork(p, job[p].pc, job[p].left)
      BY <1>1, <3>4 DEF HeardInv
    <3> QED BY <3>2, <3>3, <3>4, <3>5, <3>6
  <2> QED BY <1>1, <2>1 DEF NobodyWaitsInVain, HeardInv
<1>2. Init => HeardInv
  BY DEF Init, HeardInv, Busy
<1> QED
  BY <1>1, <1>2, InitInv, NextInv, HeardNext, PTL DEF Spec


\* Who is served before the request of q.
Ahead(q) ==
  {x \in Publishers : \E n \in 1..Len(queue[job[q].branch]) :
     /\ queue[job[q].branch][n] = q
     /\ \E m \in 1..(n - 1) : queue[job[q].branch][m] = x}

\* The step puts nobody before it.
NobodyPasses(q) == Ahead(q)' \subseteq Ahead(q)

\* What a step may do to the request of q while it stays in flight.
Advances(q) ==
  /\ job'[q].branch = job[q].branch /\ job'[q].items = job[q].items
  /\ NobodyPasses(q)
  /\ \/ job'[q] = job[q]
     \/ Holds(q) /\ Further(q, job'[q].pc, job'[q].left)

\* A line that stays, loses its head or grows at its end puts nobody before q.
LEMMA AheadSame ==
  ASSUME NEW q \in Publishers, NEW b \in Branches, job[q].branch = b, job'[q].branch = b,
         queue'[b] = queue[b]
  PROVE  NobodyPasses(q)
BY DEF NobodyPasses, Ahead

LEMMA AheadTail ==
  ASSUME NEW q \in Publishers, NEW b \in Branches, job[q].branch = b, job'[q].branch = b,
         queue[b] \in Seq(Publishers), queue[b] # <<>>, queue'[b] = Tail(queue[b])
  PROVE  NobodyPasses(q)
<1> DEFINE s == queue[b]
           t == Tail(s)
<1>1. ASSUME NEW n \in 1..Len(t), NEW m \in 1..(n - 1)
      PROVE  /\ n + 1 \in 1..Len(s) /\ s[n + 1] = t[n]
             /\ m + 1 \in 1..((n + 1) - 1) /\ s[m + 1] = t[m]
  BY <1>1
<1> HIDE DEF s, t
<1>2. ASSUME NEW x \in Publishers, NEW n \in 1..Len(t), t[n] = q, NEW m \in 1..(n - 1), t[m] = x
      PROVE  x \in Ahead(q)
  <2>1. \E k \in 1..Len(s) : s[k] = q /\ \E j \in 1..(k - 1) : s[j] = x
    <3>1. n + 1 \in 1..Len(s) /\ s[n + 1] = q /\ m + 1 \in 1..((n + 1) - 1) /\ s[m + 1] = x
      BY <1>1, <1>2
    <3> DEFINE k == n + 1
               j == m + 1
    <3>2. k \in 1..Len(s) /\ s[k] = q /\ j \in 1..(k - 1) /\ s[j] = x
      BY <3>1
    <3> HIDE DEF k, j
    <3> QED BY Zenon, <3>2
  <2> QED BY <2>1 DEF Ahead, s
<1>3. queue'[b] = t
  BY DEF s, t
<1> QED
  BY <1>2, <1>3 DEF NobodyPasses, Ahead

LEMMA AheadAppend ==
  ASSUME NEW q \in Publishers, NEW b \in Branches, job[q].branch = b, job'[q].branch = b,
         queue[b] \in Seq(Publishers), NEW p \in Publishers \ {q}, queue'[b] = Append(queue[b], p)
  PROVE  NobodyPasses(q)
<1> DEFINE s == queue[b]
           t == Append(s, p)
<1>1. ASSUME NEW n \in 1..Len(t), t[n] = q, NEW m \in 1..(n - 1)
      PROVE  n \in 1..Len(s) /\ s[n] = t[n] /\ s[m] = t[m]
  BY <1>1
<1> HIDE DEF s, t
<1>2. ASSUME NEW x \in Publishers, NEW n \in 1..Len(t), t[n] = q, NEW m \in 1..(n - 1), t[m] = x
      PROVE  x \in Ahead(q)
  <2>1. \E k \in 1..Len(s) : s[k] = q /\ \E j \in 1..(k - 1) : s[j] = x
    BY <1>1, <1>2
  <2> QED BY <2>1 DEF Ahead, s
<1>3. queue'[b] = t
  BY DEF s, t
<1> QED
  BY <1>2, <1>3 DEF NobodyPasses, Ahead


\* A step that takes the request of p, and no other, further.
LEMMA MovedAdvances ==
  ASSUME JobsInv, NEW p \in Publishers, Holds(p), NEW pc, NEW left, Moved(p, pc, left),
         Further(p, pc, left), NEW q \in Publishers, Busy(q)
  PROVE  Advances(q)
<1>1. PICK b \in Branches : b = job[q].branch
  BY JobFields
<1>2. /\ job'[p].pc = pc /\ job'[p].left = left
      /\ job'[p].branch = job[p].branch /\ job'[p].items = job[p].items
      /\ \A r \in Publishers \ {p} : job'[r] = job[r]
  BY MovedJob
<1>3. job'[q].branch = b /\ job'[q].items = job[q].items /\ queue'[b] = queue[b]
  BY <1>1, <1>2 DEF Moved
<1>4. NobodyPasses(q)
  BY <1>1, <1>3, AheadSame
<1> QED
  BY <1>1, <1>2, <1>3, <1>4 DEF Advances

LEMMA LeaveAdvances ==
  ASSUME JobsInv, NEW p \in Publishers, Holds(p), Leave(p), NEW q \in Publishers \ {p}, Busy(q)
  PROVE  Advances(q)
<1>1. PICK b \in Branches : b = job[q].branch
  BY JobFields
<1>2. job'[q] = job[q]
  BY LeaveInv
<1>3. CASE b = job[p].branch
  <2>1. queue[b] \in Seq(Publishers) /\ queue[b] # <<>>
    BY <1>3, QueueFacts
  <2>2. queue'[b] = Tail(queue[b])
    BY <1>3 DEF Leave, JobsInv
  <2> QED BY <1>1, <1>2, <2>1, <2>2, AheadTail DEF Advances
<1>4. CASE b # job[p].branch
  <2>1. queue'[b] = queue[b]
    BY <1>4 DEF Leave, JobsInv
  <2> QED BY <1>1, <1>2, <2>1, AheadSame DEF Advances
<1> QED
  BY <1>3, <1>4

LEMMA EnterAdvances ==
  ASSUME JobsInv, NEW p \in Publishers, NEW b \in Branches, NEW items, Enter(p, b, items),
         NEW q \in Publishers, Busy(q)
  PROVE  Advances(q)
<1>1. PICK c \in Branches : c = job[q].branch
  BY JobFields
<1>2. p # q /\ job'[q] = job[q]
  BY DEF Enter, JobsInv, Busy
<1>3. CASE c = b
  <2>1. queue[c] \in Seq(Publishers) /\ queue'[c] = Append(queue[c], p)
    BY <1>3 DEF Enter, JobsInv
  <2> QED BY <1>1, <1>2, <2>1, AheadAppend DEF Advances
<1>4. CASE c # b
  <2>1. queue'[c] = queue[c]
    BY <1>4 DEF Enter, JobsInv
  <2> QED BY <1>1, <1>2, <2>1, AheadSame DEF Advances
<1> QED
  BY <1>3, <1>4

LEMMA EvictAdvances ==
  ASSUME JobsInv, NEW b \in Branches, Evict(b), NEW q \in Publishers, Busy(q), Busy(q)'
  PROVE  Advances(q)
<1>1. PICK c \in Branches : c = job[q].branch
  BY JobFields
<1>2. c # b /\ job'[q] = job[q] /\ queue'[c] = queue[c]
  BY <1>1 DEF Evict, JobsInv, Busy
<1> QED
  BY <1>1, <1>2, AheadSame DEF Advances

LEMMA NextAdvances ==
  ASSUME IInv, HeardInv, [Next]_vars, NEW q \in Publishers, Busy(q), Busy(q)'
  PROVE  Advances(q)
<1>0. JobsInv
  BY DEF IInv
<1>l. ASSUME NEW p \in Publishers, Holds(p), Leave(p) PROVE Advances(q)
  <2>1. p # q
    BY <1>0, <1>l, LeaveInv DEF Busy
  <2> QED BY <1>0, <1>l, <2>1, LeaveAdvances
<1>1. ASSUME NEW p \in Publishers, Request(p) PROVE Advances(q)
  BY <1>0, <1>1, RequestEnters, EnterAdvances
<1>2. ASSUME NEW p \in Publishers, Advance(p) PROVE Advances(q)
  <2>1. Holds(p)
    BY <1>2, AdvanceCases
  <2>2. ASSUME NEW pc, NEW left, Moved(p, pc, left), Further(p, pc, left) PROVE Advances(q)
    BY <1>0, <2>1, <2>2, MovedAdvances
  <2> QED BY <1>2, <1>l, <2>1, <2>2, AdvanceCases
<1>3. ASSUME NEW p \in Publishers, Fail(p) PROVE Advances(q)
  BY <1>3, <1>l DEF Fail
<1>4. ASSUME NEW b \in Branches, Evict(b) PROVE Advances(q)
  BY <1>0, <1>4, EvictAdvances
<1>5. ASSUME UNCHANGED <<queue, job>> PROVE Advances(q)
  <2>1. PICK b \in Branches : b = job[q].branch
    BY <1>0, JobFields
  <2> QED BY <1>5, <2>1, AheadSame DEF Advances
<1> QED
  BY <1>1, <1>2, <1>3, <1>4, <1>5 DEF Next, UpdateRollout, DeleteRows, Tick, vars

\* Every statement of the holder answers its request or takes it further.
Progresses(p) == job'[p] = Idle \/ Further(p, job'[p].pc, job'[p].left)

LEMMA AdvanceProgresses ==
  ASSUME IInv, HeardInv, NEW p \in Publishers, Advance(p)
  PROVE  Progresses(p)
<1>1. Holds(p) /\ JobsInv
  BY AdvanceCases DEF IInv
<1>2. CASE Leave(p)
  BY <1>1, <1>2, LeaveInv DEF Progresses
<1>3. ASSUME NEW pc, NEW left, Moved(p, pc, left), Further(p, pc, left) PROVE Progresses(p)
  BY <1>1, <1>3, MovedJob DEF Progresses
<1> QED
  BY <1>2, <1>3, AdvanceCases

\* While a request is in flight its branch and its updates stay, nobody comes
\* to stand before it, and its phase and its reads change only when it holds
\* the permit, and then for later ones; no statement leaves it where it was.
NobodyFallsBack ==
  [][\A p \in Publishers :
       /\ Busy(p) /\ Busy(p)' => Advances(p)
       /\ Advance(p) => Progresses(p)]_vars

\* The queue is fair and the statements of a request are finitely many: what
\* the fairness of FairSpec has to drive to its end only ever gets shorter.
THEOREM NobodyIsOvertaken == Spec => NobodyFallsBack
<1>1. ASSUME IInv, HeardInv, [Next]_vars
      PROVE  [\A p \in Publishers :
                /\ Busy(p) /\ Busy(p)' => Advances(p)
                /\ Advance(p) => Progresses(p)]_vars
  BY <1>1, NextAdvances, AdvanceProgresses
<1>2. Init => HeardInv
  BY DEF Init, HeardInv, Busy
<1> QED
  BY <1>1, <1>2, InitInv, NextInv, HeardNext, PTL DEF Spec, NobodyFallsBack
=============================================================================
