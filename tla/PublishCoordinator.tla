------------------------- MODULE PublishCoordinator -------------------------
(***************************************************************************)
(* Publishing: the Durable Object of each branch serializes publishes and  *)
(* republishes, and inside it every one reads the update rows statement by *)
(* statement (active rollout, pinned embedded id, clock skew) before it    *)
(* inserts.  Rollout edits and group deletions write the same rows without *)
(* entering the Durable Object, and the Durable Objects of two branches    *)
(* share the id space of the table.                                        *)
(*                                                                         *)
(* A `target' is a (platform, runtimeVersion) pair; a tuple is a branch    *)
(* and a target.  Times stand for ISO timestamps, compared as strings.     *)
(***************************************************************************)
EXTENDS Integers, Sequences, FiniteSets

CONSTANTS
  Publishers,         \* concurrent create / republish requests
  Branches,
  Targets,
  Ids,                \* update ids; their order is the tie-break of the queries
  NoTime,             \* commit time of a body the server renders itself
  MaxTime,            \* bound: the server clock
  CommitTimes,        \* commit times the publishing machines stamp, NoTime included
  Baselines,          \* whether embedded baselines are published
  PublishPercentages, \* rolloutPercentage of a create, 1..100
  EditPercentages,    \* percentages an edit, complete or revert writes
  MaxBatch            \* bound: updates in one republished group

ASSUME PublishCoordinatorAssumption ==
  /\ Ids \subseteq Nat
  /\ MaxTime \in Nat \ {0}
  /\ NoTime \notin 1..MaxTime
  /\ CommitTimes \subseteq 1..MaxTime \cup {NoTime}
  /\ Baselines \subseteq BOOLEAN
  /\ PublishPercentages \subseteq 1..100
  /\ EditPercentages \subseteq 0..100
  /\ MaxBatch \in Nat

VARIABLES
  rows,      \* the updates table
  used,      \* history: every id ever inserted (a server-made UUID is none of them)
  queue,     \* per branch: who holds the Durable Object's permit, then who waits
  job,       \* what each request is about to do
  now        \* the server clock

vars == <<rows, used, queue, job, now>>

Times == 1..MaxTime

Row == [id : Ids, branch : Branches, target : Targets, at : Times,
        pct : 0..100, embedded : BOOLEAN, precomputed : BOOLEAN]

\* One update of a create or republish request.  `commit' is the commit time
\* in its manifest or directive body, which the publishing machine stamped.
Item == [id : Ids, target : Targets, pct : 0..100, embedded : BOOLEAN,
         commit : Times \cup {NoTime}]

Idle == [pc |-> "idle"]

Job == [branch : Branches,
        pc : {"rollout", "reconcile", "delete", "clear", "skew", "insert", "bump"},
        items : SUBSET Item, left : SUBSET Item]

TypeOK ==
  /\ rows \subseteq Row
  /\ used \subseteq Ids
  /\ queue \in [Branches -> Seq(Publishers)]
  /\ job \in [Publishers -> Job \cup {Idle}]
  /\ now \in Times

Init ==
  /\ rows = {}
  /\ used = {}
  /\ queue = [b \in Branches |-> <<>>]
  /\ job = [p \in Publishers |-> Idle]
  /\ now = 1

(***************************************************************************)
(* The queries.                                                            *)
(***************************************************************************)
Tuple(b, t) == {u \in rows : u.branch = b /\ u.target = t}

Precedes(u, v) == u.at < v.at \/ (u.at = v.at /\ u.id < v.id)

\* ORDER BY created_at DESC, id DESC LIMIT 1
Latest(S) == CHOOSE u \in S : \A v \in S \ {u} : Precedes(v, u)

Partial(u) == u.pct > 0 /\ u.pct < 100

HasActiveRollout(S) == S # {} /\ Partial(Latest(S))

\* clockSkewConflict: a body that carries its own commit time must beat the
\* row served now; embedded baselines and bodies rendered later are exempt.
ClockSkew(item, S) ==
  /\ item.commit # NoTime
  /\ ~item.embedded
  /\ S # {}
  /\ item.commit <= Latest(S).at

PendingIds == {i.id : i \in UNION {job[p].items : p \in {q \in Publishers : job[q] # Idle}}}

(***************************************************************************)
(* Entering and leaving the Durable Object.  The semaphore is fair, and    *)
(* gives its permit back when the operation succeeds, is refused or fails. *)
(***************************************************************************)
\* Mutant: nothing waits for the permit.
HoldsAlways(p) == job[p] # Idle

Holds(p) ==
  /\ job[p] # Idle
  /\ queue[job[p].branch] # <<>>
  /\ Head(queue[job[p].branch]) = p

Enter(p, b, items) ==
  /\ job[p] = Idle
  /\ job' = [job EXCEPT ![p] =
       [pc |-> "rollout", branch |-> b, items |-> items, left |-> items]]
  /\ queue' = [queue EXCEPT ![b] = Append(@, p)]
  /\ UNCHANGED <<rows, used, now>>

\* handleCreateUpdate: one update, its id chosen by the client or fresh.
Create(p, b, item) == Enter(p, b, {item})

\* The republish handler: a group's updates under fresh ids, one per target,
\* fully rolled out, never the embedded baseline.
Republish(p, b, items) ==
  /\ items # {}
  /\ IsFiniteSet(items) /\ Cardinality(items) <= MaxBatch
  /\ \A i \in items : i.pct = 100 /\ ~i.embedded /\ i.id \notin used \cup PendingIds
  /\ \A i, j \in items : i.target = j.target \/ i.id = j.id => i = j
  /\ Enter(p, b, items)

\* Mutant: a refused request keeps the permit.
LeaveHolding(p) ==
  /\ job' = [job EXCEPT ![p] = Idle]
  /\ queue' = queue

\* The answer, a conflict or an exception: runExclusive is over, and the permit
\* goes to the next in the queue.
Leave(p) ==
  /\ job' = [job EXCEPT ![p] = Idle]
  /\ queue' = [queue EXCEPT ![job[p].branch] = Tail(@)]

Refuse(p) == Leave(p) /\ UNCHANGED <<rows, used, now>>

At(p, pc) == job[p] # Idle /\ job[p].pc = pc /\ Holds(p)

Goto(p, pc) ==
  /\ job' = [job EXCEPT ![p].pc = pc, ![p].left = job[p].items]
  /\ UNCHANGED <<used, queue, now>>

\* One of the reads of the phase is done; after the last one comes `next'.
Checked(p, i, next) ==
  IF job[p].left = {i}
  THEN Goto(p, next) /\ UNCHANGED rows
  ELSE /\ job' = [job EXCEPT ![p].left = @ \ {i}]
       /\ UNCHANGED <<rows, used, queue, now>>

Baseline(p) == {i \in job[p].items : i.embedded}

(***************************************************************************)
(* publishUpdate and republishUpdate, one D1 statement a step.             *)
(***************************************************************************)
CheckRollout(p, i) ==
  /\ At(p, "rollout")
  /\ i \in job[p].left
  /\ IF HasActiveRollout(Tuple(job[p].branch, i.target))
     THEN Refuse(p)
     ELSE Checked(p, i, IF Baseline(p) = {} THEN "skew" ELSE "reconcile")

\* reconcileEmbeddedBaselineId: look the pinned id up.
Reconcile(p, i) ==
  /\ At(p, "reconcile")
  /\ i \in Baseline(p)
  /\ LET existing == {u \in rows : u.id = i.id} IN
     \/ existing = {} /\ Goto(p, "clear") /\ UNCHANGED rows
     \/ /\ \E u \in existing : u.branch = job[p].branch /\ u.target = i.target
        /\ Goto(p, "delete") /\ UNCHANGED rows
     \/ /\ \E u \in existing : u.branch # job[p].branch \/ u.target # i.target
        /\ Refuse(p)

\* deleteById: by id alone.
DeletePrior(p, i) ==
  /\ At(p, "delete")
  /\ i \in Baseline(p)
  /\ rows' = {u \in rows : u.id # i.id}
  /\ Goto(p, "clear")

\* Mutant: the prior baseline keeps its mark.
ClearEmbeddedNot(p, i) ==
  /\ At(p, "clear")
  /\ i \in Baseline(p)
  /\ rows' = rows
  /\ Goto(p, "skew")

ClearEmbedded(p, i) ==
  /\ At(p, "clear")
  /\ i \in Baseline(p)
  /\ rows' = {IF u \in Tuple(job[p].branch, i.target) THEN [u EXCEPT !.embedded = FALSE] ELSE u
                : u \in rows}
  /\ Goto(p, "skew")

CheckSkew(p, i) ==
  /\ At(p, "skew")
  /\ i \in job[p].left
  /\ IF ClockSkew(i, Tuple(job[p].branch, i.target))
     THEN Refuse(p)
     ELSE Checked(p, i, "insert")

\* Mutant: the commit time of the body without its fallback.
CreatedAtBody(i) == i.commit

\* publishCreatedAt: the served commit time, else the server clock.
CreatedAt(i) == IF i.commit = NoTime THEN now ELSE i.commit

NewRow(p, i) ==
  [id |-> i.id, branch |-> job[p].branch, target |-> i.target, at |-> CreatedAt(i),
   pct |-> i.pct, embedded |-> i.embedded, precomputed |-> i.commit # NoTime]

\* UNIQUE constraint failed: the primary key, or the one baseline of a tuple.
Collides(p, i) ==
  \/ \E u \in rows : u.id = i.id
  \/ i.embedded /\ \E u \in Tuple(job[p].branch, i.target) : u.embedded

\* The atomic batch, then its result.
Insert(p) ==
  /\ At(p, "insert")
  /\ IF \E i \in job[p].items : Collides(p, i)
     THEN Refuse(p)
     ELSE /\ rows' = rows \cup {NewRow(p, i) : i \in job[p].items}
          /\ used' = used \cup {i.id : i \in job[p].items}
          /\ job' = [job EXCEPT ![p].pc = "bump"]
          /\ UNCHANGED <<queue, now>>

\* The cache version bump (module ManifestCache) and the answer.
Bump(p) == At(p, "bump") /\ Leave(p) /\ UNCHANGED <<rows, used, now>>

\* A D1 call rejects.
Fail(p) == Holds(p) /\ Leave(p) /\ UNCHANGED <<rows, used, now>>

\* The Durable Object is evicted with everyone inside it.
Evict(b) ==
  /\ queue[b] # <<>>
  /\ queue' = [queue EXCEPT ![b] = <<>>]
  /\ job' = [p \in Publishers |-> IF job[p] # Idle /\ job[p].branch = b THEN Idle ELSE job[p]]
  /\ UNCHANGED <<rows, used, now>>

(***************************************************************************)
(* Outside the Durable Object.  The row was found by an earlier statement, *)
(* so it may be gone by now, or stored again under its id.                 *)
(***************************************************************************)
UpdateRollout(id, pct) ==
  /\ \E u \in rows : u.id = id /\ u.pct # pct
  /\ rows' = {IF u.id = id THEN [u EXCEPT !.pct = pct] ELSE u : u \in rows}
  /\ UNCHANGED <<used, queue, job, now>>

\* deleteGroup, the OTA reaper: one statement over ids read before.
DeleteRows(ids) ==
  /\ \E u \in rows : u.id \in ids
  /\ rows' = {u \in rows : u.id \notin ids}
  /\ UNCHANGED <<used, queue, job, now>>

Tick ==
  /\ now < MaxTime
  /\ now' = now + 1
  /\ UNCHANGED <<rows, used, queue, job>>

Items(p) == IF job[p] = Idle THEN {} ELSE job[p].items

Advance(p) ==
  \/ \E i \in Items(p) : \/ CheckRollout(p, i)
                         \/ Reconcile(p, i)
                         \/ DeletePrior(p, i)
                         \/ ClearEmbedded(p, i)
                         \/ CheckSkew(p, i)
  \/ Insert(p)
  \/ Bump(p)

Request(p) ==
  \E b \in Branches, id \in [Targets -> Ids], commit \in [Targets -> CommitTimes] :
    \/ \E t \in Targets, pct \in PublishPercentages, embedded \in Baselines :
         Create(p, b, [id |-> id[t], target |-> t, commit |-> commit[t],
                       pct |-> pct, embedded |-> embedded])
    \/ \E ts \in SUBSET Targets :
         Republish(p, b, {[id |-> id[t], target |-> t, commit |-> commit[t],
                           pct |-> 100, embedded |-> FALSE] : t \in ts})

Next ==
  \/ \E p \in Publishers : Request(p) \/ Advance(p) \/ Fail(p)
  \/ \E b \in Branches : Evict(b)
  \/ \E id \in Ids, pct \in EditPercentages : UpdateRollout(id, pct)
  \/ \E ids \in SUBSET Ids : DeleteRows(ids)
  \/ Tick

Spec == Init /\ [][Next]_vars

\* Every D1 call of the request that holds the permit returns or rejects.
FairSpec == Spec /\ \A p \in Publishers : WF_vars(Advance(p))

(***************************************************************************)
(* Properties.                                                             *)
(***************************************************************************)

\* When publishUpdate inserts an embedded baseline, the tuple's one slot for
\* it is free: nothing in the Durable Object or outside of it puts a baseline
\* back between the UPDATE that cleared the mark and the INSERT.
EmbeddedSlotFree ==
  \A p \in Publishers :
    At(p, "skew") \/ At(p, "insert") =>
      \A i \in Baseline(p) : \A u \in Tuple(job[p].branch, i.target) : ~u.embedded

\* Rows that a step inserts.
Inserted == {v \in rows' : v.id \notin {u.id : u \in rows}}

\* A signed update or rollback directive that publishing accepts is newer than
\* every row of its tuple when it lands, so the server serves it and a device
\* that runs one of those rows switches to it: the read of clockSkewConflict
\* is not outrun by another publish.
AcceptedPrecomputedIsNewest ==
  [][\A v \in Inserted : v.precomputed /\ ~v.embedded =>
       \A u \in Tuple(v.branch, v.target) : u.at < v.at]_vars

\* Every create and republish request gets an answer: the permit is always
\* given back.
EveryRequestAnswered == \A p \in Publishers : job[p] # Idle ~> job[p] = Idle

\* The Durable Object, its reads and the writes around it implement the feed of
\* PublishFeed: a request that has not inserted is pending, and reads, refusals
\* and the cache bump only drop or keep it.  So every request takes effect at
\* one instant, in the order in which it entered the object, and its checks
\* still hold there (serialized-coordinator.ts:7, publish-coordination.ts:287).
Waiting(b) ==
  LET q     == queue[b]
      waits == IF q # <<>> /\ job[Head(q)].pc = "bump" THEN Tail(q) ELSE q
  IN
  [n \in 1..Len(waits) |-> Items(waits[n])]

Feed == INSTANCE PublishFeed WITH
  feed    <- rows,
  pending <- [b \in Branches |-> Waiting(b)]

AtomicPublishing == Feed!Spec

\* reconcileEmbeddedBaselineId's comment: "never overwrite another update's
\* row across the trust boundary".  The row is deleted by id in a statement of
\* its own, and by then another branch may have stored the id.
ReplacesOwnTupleOnly ==
  [][\A p \in Publishers : At(p, "delete") /\ job'[p] # job[p] =>
       \A u \in rows \ rows' :
         u.branch = job[p].branch /\ \E i \in Baseline(p) : u.target = i.target]_vars
=============================================================================
