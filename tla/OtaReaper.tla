------------------------------ MODULE OtaReaper ------------------------------
(***************************************************************************)
(* The retention pass over the updates of one project: what is reaped,     *)
(* while the project is published to and managed.  A run first reads, in   *)
(* three queries, the ids it must keep; then it loops over pages of old    *)
(* rows, drops the kept ones, drops the groups that are not old as a       *)
(* whole, and deletes the rest in chunks.  Module AssetCollection has what *)
(* happens to the assets of the deleted rows.                              *)
(*                                                                         *)
(* Ids are ranks in (created_at, id) order, so "created before the cutoff" *)
(* is "below Cutoff".                                                      *)
(***************************************************************************)
EXTENDS UpdateRows, FiniteSets

CONSTANTS
  Ids,           \* bound: updates ever published
  Branches,
  Targets,       \* (platform, runtimeVersion) pairs
  Kinds,         \* updates published: is_embedded, "can be patched from", percentage
  Percentages,   \* rollout percentages in use
  Cutoff,        \* rows below it are older than UPDATE_RETENTION_DAYS
  PageSize,      \* GC_BATCH_SIZE
  ChunkSize,     \* IN_CHUNK
  BaseWindow     \* PATCH_BASE_PROTECT_LIMIT

ASSUME OtaReaperAssumption ==
  /\ Ids \subseteq Nat
  /\ Percentages \subseteq 0..100
  /\ Kinds \subseteq BOOLEAN \X BOOLEAN \X Percentages
  /\ Cutoff \in Nat
  /\ {PageSize, ChunkSize, BaseWindow} \subseteq Nat \ {0}

VARIABLES
  rows,        \* the updates of the project
  used,        \* ids given out
  reachable,   \* branches that a channel routes to
  reaper       \* the scheduled run

vars == <<rows, used, reachable, reaper>>

\* A group is named after its first update.  `launch' says whether the row is
\* no rollback and has a launch asset.
Row == [id : Ids, group : Ids, branch : Branches, target : Targets,
        pct : 0..100, embedded : BOOLEAN, launch : BOOLEAN]

Idle == [pc |-> "idle"]

\* `touched' and `reaped' are history: whether rows were edited or deleted or
\* channels relinked during the run, and the groups it deleted rows of.
Reaper ==
  [pc : {"servable", "bases", "page", "groups", "delete", "orphans"},
   reach : SUBSET Branches, keep : SUBSET Ids, page : SUBSET Ids, guarded : SUBSET Ids,
   groups : SUBSET Ids, reap : SUBSET Ids, more : BOOLEAN,
   touched : BOOLEAN, reaped : SUBSET Ids]

TypeOK ==
  /\ rows \subseteq Row
  /\ used \subseteq Ids
  /\ reachable \subseteq Branches
  /\ reaper \in Reaper \cup {Idle}

Init ==
  /\ rows = {}
  /\ used = {}
  /\ reachable = Branches
  /\ reaper = Idle

On(b, t) == {u \in rows : u.branch = b /\ u.target = t}
Tuple(u) == On(u.branch, u.target)
IdsOf(S) == {u.id : u \in S}

(***************************************************************************)
(* Everybody else.  Republishing and linking of channels are in the other  *)
(* modules; here they are new rows and a new set of reachable branches.    *)
(***************************************************************************)
Publish(u) ==
  /\ \A id \in used : id < u.id
  /\ \A v \in Ids : v < u.id => v \in used
  /\ u.group = u.id \/ \E v \in rows : v.group = u.group /\ v.target # u.target
                                                       /\ v.branch = u.branch
  /\ reaper # Idle => u.id >= Cutoff /\ u.group >= Cutoff   \* not old yet
  /\ ~HasActiveRollout(Tuple(u))
  /\ u.pct # 0
  /\ used' = used \cup {u.id}
  /\ rows' = {IF u.embedded /\ v \in Tuple(u) THEN [v EXCEPT !.embedded = FALSE] ELSE v
                : v \in rows} \cup {u}
  /\ UNCHANGED <<reachable, reaper>>

\* Bound: a run is interfered with at most once.
Touch ==
  /\ reaper # Idle => ~reaper.touched
  /\ reaper' = IF reaper = Idle THEN Idle ELSE [reaper EXCEPT !.touched = TRUE]
  /\ UNCHANGED used

UpdateRollout(u, pct) ==
  /\ u \in rows /\ u.pct # pct
  /\ rows' = (rows \ {u}) \cup {[u EXCEPT !.pct = pct]}
  /\ Touch /\ UNCHANGED reachable

DeleteGroup(g) ==
  /\ \E u \in rows : u.group = g
  /\ rows' = {u \in rows : u.group # g}
  /\ Touch /\ UNCHANGED reachable

Relink(bs) ==
  /\ bs # reachable
  /\ reachable' = bs
  /\ Touch /\ UNCHANGED rows

(***************************************************************************)
(* The keep set.                                                           *)
(***************************************************************************)
Step == UNCHANGED <<rows, used, reachable>>

\* listReachableBranchIdsByProject.
Start ==
  /\ reaper = Idle
  /\ reaper' = [pc |-> "servable", reach |-> reachable, keep |-> {}, page |-> {},
                guarded |-> {}, groups |-> {}, reap |-> {}, more |-> TRUE,
                touched |-> FALSE, reaped |-> {}]
  /\ Step

At(pc) == reaper # Idle /\ reaper.pc = pc

\* Mutant: only the row that is served first is kept.
ReadServableNewest ==
  /\ At("servable")
  /\ reaper' = [reaper EXCEPT !.pc = "bases", !.reach = {},
       !.keep = IdsOf({u \in rows : u.branch \in reaper.reach /\ u = Newest(Tuple(u))})]
  /\ Step

\* Mutant: the query selects the branches of the rows.
ReadServableBranches ==
  /\ At("servable")
  /\ reaper' = [reaper EXCEPT !.pc = "bases", !.reach = {},
       !.keep = {u.branch : u \in {v \in rows : v.branch \in reaper.reach}}]
  /\ Step

\* findServableUpdateIdsForBranches: the newest two of every tuple.
ReadServable ==
  /\ At("servable")
  /\ reaper' = [reaper EXCEPT !.pc = "bases", !.reach = {},
       !.keep = IdsOf({u \in rows : u.branch \in reaper.reach /\ u \in Candidates(Tuple(u))})]
  /\ Step

\* findPatchBaseUpdateIdsByProject: the newest rows a patch may start from,
\* and the embedded baselines.
PatchBases(S) ==
  {u \in S : \/ u.embedded
             \/ /\ u.launch
                /\ Cardinality({v \in S : v.launch /\ v.branch = u.branch
                                  /\ v.target = u.target /\ v.id > u.id}) < BaseWindow}

\* Mutant: the bases are not kept.
ReadBasesNot ==
  /\ At("bases")
  /\ reaper' = [reaper EXCEPT !.pc = "page"]
  /\ Step

ReadBases ==
  /\ At("bases")
  /\ reaper' = [reaper EXCEPT !.pc = "page", !.keep = @ \cup IdsOf(PatchBases(rows))]
  /\ Step

(***************************************************************************)
(* reapOneBatch.                                                           *)
(***************************************************************************)
\* The three keep clauses of the query: embedded rows, the newest row of a
\* tuple, and its newest fully rolled out row.
Candidate(u) ==
  /\ u.id < Cutoff
  /\ ~u.embedded
  /\ u # Newest(Tuple(u))
  /\ ~(u.pct = 100 /\ u = Newest(FullyRolledOut(Tuple(u))))

\* ORDER BY created_at, id LIMIT PageSize
Page ==
  {u \in rows : /\ Candidate(u)
                /\ Cardinality({v \in rows : Candidate(v) /\ v.id < u.id}) < PageSize}

\* The rows of the page are dealt with.
Turn(pc, reaped) ==
  reaper' = [reaper EXCEPT !.pc = pc, !.page = {}, !.guarded = {}, !.groups = {},
                           !.reap = {}, !.reaped = reaped]

Leave == Turn("orphans", reaper.reaped)

FindPage ==
  /\ At("page")
  /\ LET page    == IdsOf(Page)
         guarded == page \ reaper.keep
     IN IF guarded = {} THEN Leave
        ELSE reaper' = [reaper EXCEPT !.pc = "groups", !.page = page, !.guarded = guarded,
               !.groups = {u.group : u \in {v \in rows : v.id \in guarded}}, !.reap = {}]
  /\ Step

\* After the last group: the rows to delete, if any.
Loaded(groups, reap) ==
  IF groups # {} THEN reaper' = [reaper EXCEPT !.groups = groups, !.reap = reap]
  ELSE IF reap = {} THEN Leave
  ELSE reaper' = [reaper EXCEPT !.pc = "delete", !.groups = {}, !.reap = reap,
                    !.more = Cardinality(reap) = Cardinality(reaper.page)]

\* Mutant: the candidates of a group go without its other members.
LoadGroupCandidates(g) ==
  /\ At("groups") /\ g \in reaper.groups
  /\ Loaded(reaper.groups \ {g},
            reaper.reap \cup (IdsOf({u \in rows : u.group = g}) \cap reaper.guarded))
  /\ Step

\* findByGroupId: a group goes as a whole or not at all.
LoadGroup(g) ==
  LET members == IdsOf({u \in rows : u.group = g}) IN
  /\ At("groups") /\ g \in reaper.groups
  /\ Loaded(reaper.groups \ {g},
            IF members \subseteq reaper.guarded THEN reaper.reap \cup members ELSE reaper.reap)
  /\ Step

\* One batch of runDeleteUpdateRows; after the last one, the next page or the
\* end of the loop.
DeleteChunk(ids) ==
  /\ At("delete")
  /\ ids # {} /\ ids \subseteq reaper.reap
  /\ ids = reaper.reap \/ Cardinality(ids) = ChunkSize
  /\ Cardinality(ids) <= ChunkSize
  /\ rows' = {u \in rows : u.id \notin ids}
  /\ LET reaped == reaper.reaped \cup {u.group : u \in rows \ rows'} IN
     IF ids # reaper.reap
     THEN reaper' = [reaper EXCEPT !.reap = @ \ ids, !.reaped = reaped]
     ELSE Turn(IF reaper.more THEN "page" ELSE "orphans", reaped)
  /\ UNCHANGED <<used, reachable>>

\* The orphaned assets (module AssetCollection), and the end of the run.
End ==
  /\ At("orphans")
  /\ reaper' = Idle
  /\ Step

\* A query rejects or the worker is gone: the run ends where it is.
Crash ==
  /\ reaper # Idle
  /\ reaper' = Idle
  /\ Step

Reap ==
  \/ ReadServable
  \/ ReadBases
  \/ FindPage
  \/ \E g \in Ids : LoadGroup(g)
  \/ \E ids \in SUBSET Ids : DeleteChunk(ids)
  \/ End

Manage ==
  \/ \E id \in Ids \ used, group \in Ids, b \in Branches, t \in Targets, kind \in Kinds :
       Publish([id |-> id, group |-> group, branch |-> b, target |-> t, pct |-> kind[3],
                embedded |-> kind[1], launch |-> kind[2]])
  \/ \E u \in rows, pct \in Percentages : UpdateRollout(u, pct)
  \/ \E g \in Ids : DeleteGroup(g)
  \/ \E bs \in SUBSET Branches : Relink(bs)

Next == Manage \/ Start \/ Reap \/ Crash

Spec == Init /\ [][Next]_vars

(***************************************************************************)
(* Properties.                                                             *)
(***************************************************************************)

\* What a device is sent from the rows S of its tuple; `hidden' are the
\* updates it reported as failed (module ManifestCache has the steps).
Served(S, known, enrolled, hidden) ==
  LET pick == ResolveRollout({u \in Candidates(S) : u.id \notin hidden}, known, enrolled)
  IN IF pick.fallback
     THEN IdOf({u \in FullyRolledOut(S) : u = Newest(FullyRolledOut(S)) /\ u.id \notin hidden})
     ELSE IdOf(pick.row)

Rollouts(S) == IdsOf({u \in S : Partial(u)})

\* The reaper deletes rows, and nobody has managed the project since its run
\* started; publishing goes on.
Reaping == At("delete") /\ reaper' # reaper /\ rows' # rows /\ ~reaper'.touched

\* Reaping is invisible: on every branch that a channel routes to, every
\* device is sent what it was sent before, whatever is published meanwhile.
ReapingIsInvisible ==
  [][Reaping =>
       \A b \in reachable, t \in Targets, known \in BOOLEAN, hidden \in SUBSET Ids :
         \A enrolled \in SUBSET Rollouts(On(b, t)) :
           Served(On(b, t), known, enrolled, hidden)
             = Served(On(b, t)', known, enrolled, hidden)]_vars

\* Likewise on every branch: what a device may patch from is neither reaped
\* nor made to look too old.
ReapingKeepsBases == [][Reaping => PatchBases(rows') = PatchBases(rows)]_vars

\* "never orphan one platform of a co-published group": between two pages and
\* at the end of its loop, a run has left nothing of the groups it reaped.
GroupsGoWhole ==
  At("page") \/ At("orphans") => \A u \in rows : u.group \notin reaper.reaped

\* "either way there is nothing more this loop can make progress on": when a
\* run that nobody interfered with gives up on a page, every group still has a
\* member that the queries or the keep set protect.
NothingLeftBehind ==
  [][At("page") /\ ~reaper.touched /\ reaper'.pc = "orphans" =>
       \A u \in rows : \E v \in rows :
         v.group = u.group /\ (Candidate(v) => v.id \in reaper.keep)]_vars
=============================================================================
