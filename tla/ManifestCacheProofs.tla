------------------------- MODULE ManifestCacheProofs -------------------------
(***************************************************************************)
(* Machine-checked proofs about ManifestCache, for every set of channels,  *)
(* branches, updates, writers and requests.                                *)
(***************************************************************************)
EXTENDS ManifestHistory, UpdateRowsProofs

USE ManifestCacheAssumption

(***************************************************************************)
(* Type correctness, one lemma per family of steps.                        *)
(***************************************************************************)

\* The table always holds finitely many rows; the queries need it.
Typed == TypeOK /\ IsFiniteSet(updates)

\* What a job writes is a finite set of rows.
LEMMA WrittenType ==
  ASSUME Typed, NEW job \in Job
  PROVE  Written(job) \subseteq Row /\ IsFiniteSet(Written(job))
<1>1. Written(job) \subseteq Row
  BY DEF Typed, TypeOK, Written, Row, Job
<1>2. CASE job.op = "publish"
  <2> DEFINE row == [id |-> job.id, branch |-> job.branch, pct |-> job.pct]
  <2>1. Written(job) = updates \cup {row}
    BY <1>2 DEF Written
  <2> HIDE DEF row
  <2> QED BY <1>1, <2>1, FS_AddElement DEF Typed
<1>3. CASE job.op = "delete"
  <2>1. Written(job) \in SUBSET updates
    BY <1>3 DEF Written
  <2> QED BY <1>1, <2>1, FS_Subset DEF Typed
<1>4. CASE job.op = "edit"
  <2> DEFINE Edited(u) == IF u.id = job.id THEN [u EXCEPT !.pct = job.pct] ELSE u
             f == [u \in updates |-> Edited(u)]
  <2>1. Written(job) = {Edited(u) : u \in updates}
    BY <1>4 DEF Written
  <2> HIDE DEF Edited
  <2>2. f \in Surjection(updates, Written(job))
    BY <2>1 DEF Surjection
  <2> HIDE DEF f
  <2> QED BY <1>1, <2>2, FS_Surjection DEF Typed
<1> QED
  BY <1>1, <1>2, <1>3, <1>4 DEF Job

\* A bump makes channel rows of channel rows.
LEMMA BumpedType ==
  ASSUME Typed, NEW b
  PROVE  Bumped(b) \in [Channels -> ChannelRow]
<1>1. ASSUME NEW c \in Channels
      PROVE  [channel[c] EXCEPT !.version = @ + 1] \in ChannelRow
  <2>1. channel[c] \in ChannelRow
    BY DEF Typed, TypeOK
  <2> QED BY <2>1 DEF ChannelRow
<1> QED
  BY <1>1, Zenon DEF Bumped, Typed, TypeOK

\* The steps of a writer keep every variable in its type.
LEMMA WriterType ==
  ASSUME Typed, NEW w \in Writers, WriterStep(w)
  PROVE  Typed'
<1>1. ASSUME NEW b \in Branches, NEW id \in Ids, NEW pct \in Percentages,
             PublishCheck(w, b, id, pct)
      PROVE  Typed'
  BY <1>1 DEF Typed, TypeOK, PublishCheck, Job, routing, serving
<1>2. ASSUME NEW u \in updates, NEW pct \in Percentages, EditFind(w, u, pct)
      PROVE  Typed'
  BY <1>2 DEF Typed, TypeOK, EditFind, Job, Row, routing, serving
<1>3. ASSUME NEW u \in updates, DeleteFind(w, u)
      PROVE  Typed'
  BY <1>3 DEF Typed, TypeOK, DeleteFind, Job, Row, routing, serving
<1>4. CASE Write(w)
  <2>1. writer[w] \in Job
    BY <1>4 DEF Typed, TypeOK, Write, Idle
  <2>2. updates' \subseteq Row /\ IsFiniteSet(updates')
    BY <1>4, <2>1, WrittenType DEF Write
  <2>3. used' \subseteq Ids
    BY <1>4, <2>2 DEF Typed, TypeOK, Write, Row
  <2>4. [writer[w] EXCEPT !.pc = "bump"] \in Job
    BY <2>1 DEF Job
  <2>5. writer' \in [Writers -> Job \cup {Idle}]
    BY <1>4, <2>4 DEF Typed, TypeOK, Write
  <2> QED
    BY <1>4, <2>2, <2>3, <2>5 DEF Typed, TypeOK, Write, routing, serving
<1>5. CASE Bump(w)
  <2>1. channel' \in [Channels -> ChannelRow]
    BY <1>5, BumpedType DEF Bump
  <2>2. /\ unbumped' = unbumped \ {writer[w].branch}
        /\ writer' = [writer EXCEPT ![w] = Idle]
        /\ UNCHANGED <<updates, used, generation, cache, request>>
    BY <1>5 DEF Bump, serving
  <2> QED
    BY <2>1, <2>2 DEF Typed, TypeOK
<1>6. CASE Crash(w)
  BY <1>6 DEF Typed, TypeOK, Crash, Job, Idle, routing, serving
<1> QED
  BY <1>1, <1>2, <1>3, <1>4, <1>5, <1>6 DEF WriterStep

\* A step that changes channel rows alone, to rows.
LEMMA ChannelOnly ==
  ASSUME Typed, channel' \in [Channels -> ChannelRow], generation' \in [Channels -> Nat],
         UNCHANGED <<writing, serving>>
  PROVE  Typed'
BY DEF Typed, TypeOK, writing, serving

\* One row of a channel table is replaced by a row.
LEMMA UpdateChannelType ==
  ASSUME Typed, NEW c \in Channels, NEW row \in ChannelRow, UpdateChannel(c, row)
  PROVE  Typed'
<1>1. [row EXCEPT !.version = @ + 1] \in ChannelRow
  BY DEF ChannelRow
<1>2. channel' \in [Channels -> ChannelRow]
  BY <1>1 DEF UpdateChannel, Typed, TypeOK
<1>3. UNCHANGED <<generation, writing, serving>>
  BY DEF UpdateChannel
<1> QED
  BY <1>2, <1>3, ChannelOnly DEF Typed, TypeOK

LEMMA ChannelType ==
  ASSUME Typed, NEW c \in Channels, ChannelStep(c)
  PROVE  Typed'
<1>0. channel[c] \in ChannelRow
  BY DEF Typed, TypeOK
<1>1. ASSUME NEW b \in Branches, UpdateBranchId(c, b) PROVE Typed'
  <2>1. [channel[c] EXCEPT !.branch = b] \in ChannelRow
    BY <1>0 DEF ChannelRow
  <2> QED BY <1>1, <2>1, UpdateChannelType DEF UpdateBranchId
<1>2. ASSUME NEW p \in BOOLEAN, SetPaused(c, p) PROVE Typed'
  <2>1. [channel[c] EXCEPT !.paused = p] \in ChannelRow
    BY <1>0 DEF ChannelRow
  <2> QED BY <1>2, <2>1, UpdateChannelType DEF SetPaused
<1>3. ASSUME NEW b \in Branches, SetBranchMapping(c, b) PROVE Typed'
  <2>1. [channel[c] EXCEPT !.mapping = {b, channel[c].branch}] \in ChannelRow
    BY <1>0 DEF ChannelRow
  <2> QED BY <1>3, <2>1, UpdateChannelType DEF SetBranchMapping
<1>4. ASSUME NEW b \in Branches, CompleteBranchRollout(c, b) PROVE Typed'
  <2>1. [channel[c] EXCEPT !.branch = b, !.mapping = {}] \in ChannelRow
    BY <1>0 DEF ChannelRow
  <2> QED BY <1>4, <2>1, UpdateChannelType DEF CompleteBranchRollout
<1>5. CASE RevertBranchRollout(c)
  <2>1. [channel[c] EXCEPT !.mapping = {}] \in ChannelRow
    BY <1>0 DEF ChannelRow
  <2> QED BY <1>5, <2>1, UpdateChannelType DEF RevertBranchRollout
<1>6. CASE DeleteChannel(c)
  <2>1. [channel[c] EXCEPT !.live = FALSE] \in ChannelRow
    BY <1>0 DEF ChannelRow
  <2>2. /\ channel' = [channel EXCEPT ![c] = [channel[c] EXCEPT !.live = FALSE]]
        /\ UNCHANGED <<generation, writing, serving>>
    BY <1>6, Zenon DEF DeleteChannel
  <2>3. channel' \in [Channels -> ChannelRow]
    <3> DEFINE row == [channel[c] EXCEPT !.live = FALSE]
    <3>1. row \in ChannelRow /\ channel' = [channel EXCEPT ![c] = row]
      BY <2>1, <2>2, Zenon
    <3> HIDE DEF row
    <3> QED BY <3>1 DEF Typed, TypeOK
  <2> QED BY <2>2, <2>3, ChannelOnly DEF Typed, TypeOK
<1>7. ASSUME NEW b \in Branches, InsertChannel(c, b) PROVE Typed'
  <2>1. NewChannel(b) \in ChannelRow
    BY DEF NewChannel, ChannelRow
  <2>2. /\ channel' \in [Channels -> ChannelRow]
        /\ generation' \in [Channels -> Nat]
        /\ UNCHANGED <<writing, serving>>
    BY <1>7, <2>1 DEF InsertChannel, Typed, TypeOK
  <2> QED BY <2>2, ChannelOnly
<1> QED
  BY <1>1, <1>2, <1>3, <1>4, <1>5, <1>6, <1>7 DEF ChannelStep

(***************************************************************************)
(* Requests.                                                               *)
(***************************************************************************)

\* The values of a request slot.
Slot == Lookup \cup Fill \cup Answer \cup {Idle}

\* What a request slot holds in each place, by its pc.
LEMMA Holds ==
  ASSUME TypeOK, NEW r \in Requests
  PROVE  /\ request[r] \in Slot
         /\ request[r].pc \in {"match", "resolve", "fallback"} => request[r] \in Lookup
         /\ request[r].pc = "store" => request[r] \in Fill
         /\ request[r].pc = "answered" => request[r] \in Answer
<1>1. request[r] \in Slot
  BY DEF TypeOK, Slot
<1> QED
  BY <1>1 DEF Slot, Lookup, Fill, Answer, Idle

\* A step that changes one request slot, to a value of the type, and at most
\* the cache besides, keeps every variable in its type.
LEMMA SlotType ==
  ASSUME Typed, NEW r \in Requests, NEW slot \in Slot,
         request' = [request EXCEPT ![r] = slot],
         cache' \subseteq Entry,
         UNCHANGED <<writing, routing>>
  PROVE  Typed'
BY DEF Typed, TypeOK, Slot, writing, routing

LEMMA RespondType ==
  ASSUME Typed, NEW r \in Requests, NEW id \in Ids \cup {NoUpdate},
         NEW signed \in BOOLEAN, NEW failed \in SUBSET Ids,
         Respond(r, id, signed, failed),
         cache' \subseteq Entry,
         UNCHANGED <<writing, routing>>
  PROVE  Typed'
<1> DEFINE slot == [pc |-> "answered", id |-> id, signed |-> signed, failed |-> failed]
<1>1. slot \in Slot
  BY DEF Slot, Answer
<1>2. request' = [request EXCEPT ![r] = slot]
  BY DEF Respond
<1> HIDE DEF slot
<1> QED
  BY <1>1, <1>2, SlotType

\* The rows of a branch are rows in the sense of the queries.
LEMMA OnRows ==
  ASSUME Typed, NEW b
  PROVE  Rows(On(b)) /\ On(b) \subseteq updates
BY FS_Subset DEF Typed, TypeOK, On, Row, Rows

LEMMA ServablePart ==
  ASSUME NEW S, NEW signed, NEW failed
  PROVE  Servable(S, signed, failed) \subseteq S
BY DEF Servable

\* What a cache miss may pick: a row of the branch.
LEMMA PickType ==
  ASSUME Typed, NEW b, NEW signed, NEW failed, NEW known, NEW enrolled
  PROVE  LET pick == ResolveRollout(Servable(Candidates(On(b)), signed, failed),
                                    known, enrolled)
         IN  pick.row \subseteq On(b)
<1> DEFINE S == Servable(Candidates(On(b)), signed, failed)
<1>1. S \subseteq On(b)
  BY ServablePart DEF Candidates
<1>2. Rows(S)
  BY <1>1, OnRows, RowsSubset
<1> HIDE DEF S
<1>3. ResolveRollout(S, known, enrolled).row \subseteq S
  BY <1>2, ResolveRolloutPicks
<1> QED
  BY <1>1, <1>3 DEF S

\* Every step of a request keeps every variable in its type.
LEMMA RequestType ==
  ASSUME Typed, NEW r \in Requests, RequestStep(r)
  PROVE  Typed'
<1> USE DEF Slot
<1>0. TypeOK /\ cache \subseteq Entry
  BY DEF Typed, TypeOK
<1>h. /\ request[r].pc \in {"match", "resolve", "fallback"} => request[r] \in Lookup
      /\ request[r].pc = "store" => request[r] \in Fill
  BY <1>0, Holds
<1>1. ASSUME NEW c \in Channels, NEW signed \in SignatureModes, NEW failed \in FailureReports,
             ReadChannel(r, c, signed, failed)
      PROVE  Typed'
  <2>1. PICK b \in Targets(channel[c]) :
          request' = [request EXCEPT ![r] =
            [pc |-> "match", generation |-> generation[c], failed |-> failed,
             key |-> [channel |-> c, version |-> channel[c].version,
                      branch |-> b, signed |-> signed]]]
    BY <1>1 DEF ReadChannel
  <2>2. b \in Branches /\ channel[c].version \in Nat /\ generation[c] \in Nat
    BY <1>0 DEF TypeOK, Targets, ChannelRow
  <2> DEFINE slot == [pc |-> "match", generation |-> generation[c], failed |-> failed,
                      key |-> [channel |-> c, version |-> channel[c].version,
                               branch |-> b, signed |-> signed]]
  <2>3. slot \in Slot
    BY <2>2 DEF Lookup, Key
  <2>4. cache' = cache /\ UNCHANGED <<writing, routing>>
    BY <1>1 DEF ReadChannel
  <2>5. request' = [request EXCEPT ![r] = slot]
    BY <2>1
  <2> HIDE DEF slot
  <2> QED BY <1>0, <2>3, <2>4, <2>5, SlotType
<1>2. ASSUME NEW c \in Channels, NEW signed \in SignatureModes, NEW failed \in FailureReports,
             ReadChannelClosed(r, c, signed, failed)
      PROVE  Typed'
  <2>1. signed \in BOOLEAN /\ failed \in SUBSET Ids
    OBVIOUS
  <2>2. Respond(r, NoUpdate, signed, failed) /\ cache' = cache /\ UNCHANGED <<writing, routing>>
    BY <1>2 DEF ReadChannelClosed
  <2>3. PICK id \in Ids \cup {NoUpdate} : Respond(r, id, signed, failed)
    BY <2>2
  <2> QED BY <1>0, <2>1, <2>2, <2>3, RespondType
<1>3. CASE MatchHit(r)
  <2>1. PICK e \in Hits(r), id \in Ids \cup {NoUpdate} :
          Respond(r, id, request[r].key.signed, request[r].failed)
    BY <1>3 DEF MatchHit
  <2>2. request[r] \in Lookup /\ cache' = cache /\ UNCHANGED <<writing, routing>>
    BY <1>3, <1>h DEF MatchHit
  <2>3. request[r].key.signed \in BOOLEAN /\ request[r].failed \in SUBSET Ids
    BY <2>2 DEF Lookup, Key
  <2> QED BY <1>0, <2>1, <2>2, <2>3, RespondType
<1>4. CASE MatchMiss(r)
  <2>1. /\ request[r] \in Lookup /\ cache' = cache /\ UNCHANGED <<writing, routing>>
        /\ request' = [request EXCEPT ![r].pc = "resolve"]
    BY <1>4, <1>h DEF MatchMiss, Step
  <2>2. [request[r] EXCEPT !.pc = "resolve"] \in Lookup
    BY <2>1 DEF Lookup
  <2> QED BY <1>0, <2>1, <2>2, SlotType
<1>5. ASSUME NEW known \in BOOLEAN, NEW enrolled \in SUBSET used, Resolve(r, known, enrolled)
      PROVE  Typed'
  <2> DEFINE b == request[r].key.branch
             signed == request[r].key.signed
             failed == request[r].failed
             pick == ResolveRollout(Servable(Candidates(On(b)), signed, failed), known, enrolled)
  <2>1. /\ request[r] \in Lookup /\ cache' = cache /\ UNCHANGED <<writing, routing>>
        /\ \/ Step(r, "fallback")
           \/ Reply(r, NoUpdate)
           \/ \E u \in pick.row : Reply(r, u.id)
           \/ \E u \in pick.row :
                request' = [request EXCEPT ![r] =
                  [pc |-> "store", key |-> request[r].key,
                   generation |-> request[r].generation, id |-> u.id]]
    BY <1>5, <1>h DEF Resolve
  <2>2. \A u \in pick.row : u.id \in Ids
    BY PickType, OnRows DEF Typed, TypeOK, Row
  <2>3. signed \in BOOLEAN /\ failed \in SUBSET Ids
    BY <2>1 DEF Lookup, Key
  <2> HIDE DEF pick
  <2>4. CASE Step(r, "fallback")
    <3>1. [request[r] EXCEPT !.pc = "fallback"] \in Lookup
      BY <2>1 DEF Lookup
    <3> QED BY <1>0, <2>1, <2>4, <3>1, SlotType DEF Step
  <2>5. CASE Reply(r, NoUpdate)
    BY <1>0, <2>1, <2>3, <2>5, RespondType DEF Reply
  <2>6. ASSUME NEW u \in pick.row, Reply(r, u.id) PROVE Typed'
    BY <1>0, <2>1, <2>2, <2>3, <2>6, RespondType DEF Reply
  <2>7. ASSUME NEW u \in pick.row,
               request' = [request EXCEPT ![r] =
                 [pc |-> "store", key |-> request[r].key,
                  generation |-> request[r].generation, id |-> u.id]]
        PROVE Typed'
    <3> DEFINE slot == [pc |-> "store", key |-> request[r].key,
                        generation |-> request[r].generation, id |-> u.id]
    <3>1. slot \in Slot
      BY <2>1, <2>2 DEF Lookup, Fill
    <3>2. request' = [request EXCEPT ![r] = slot]
      BY <2>7
    <3> HIDE DEF slot
    <3> QED BY <1>0, <2>1, <3>1, <3>2, SlotType
  <2> QED BY <2>1, <2>4, <2>5, <2>6, <2>7
<1>6. CASE ResolveFallback(r)
  <2> DEFINE full == FullyRolledOut(On(request[r].key.branch))
             signed == request[r].key.signed
             failed == request[r].failed
             pick == IF full = {} THEN {} ELSE Servable({Newest(full)}, signed, failed)
  <2>1. /\ request[r] \in Lookup /\ cache' = cache /\ UNCHANGED <<writing, routing>>
        /\ \E id \in OrCurrent(IdOf(pick)) : Reply(r, id)
    BY <1>6, <1>h DEF ResolveFallback
  <2>2. IdOf(pick) \in Ids \cup {NoUpdate}
    <3>1. Rows(full) /\ full \subseteq updates
      BY OnRows, RowsSubset DEF FullyRolledOut
    <3>2. pick \subseteq full
      <4>1. full # {} => Newest(full) \in full
        BY <3>1, NewestExists
      <4> QED BY <4>1 DEF Servable
    <3> HIDE DEF pick, full
    <3>3. Rows(pick)
      BY <3>1, <3>2, RowsSubset
    <3>4. pick # {} => Newest(pick) \in updates
      BY <3>1, <3>2, <3>3, NewestExists
    <3> QED BY <3>4 DEF IdOf, Typed, TypeOK, Row
  <2>3. signed \in BOOLEAN /\ failed \in SUBSET Ids
    BY <2>1 DEF Lookup, Key
  <2> HIDE DEF pick
  <2>4. PICK id \in Ids \cup {NoUpdate} : Respond(r, id, signed, failed)
    BY <2>1, <2>2 DEF Reply, OrCurrent
  <2> QED BY <1>0, <2>1, <2>3, <2>4, RespondType
<1>7. CASE Store(r)
  <2>1. /\ request[r] \in Fill /\ UNCHANGED <<writing, routing>>
        /\ cache' = {e \in cache : e.key # request[r].key} \cup
             {[key |-> request[r].key, generation |-> request[r].generation,
               id |-> request[r].id]}
        /\ Respond(r, request[r].id, request[r].key.signed, {})
    BY <1>7, <1>h DEF Store
  <2>2. cache' \subseteq Entry
    BY <1>0, <2>1 DEF Fill, Entry
  <2>3. request[r].id \in Ids /\ request[r].key.signed \in BOOLEAN
    BY <2>1 DEF Fill, Key
  <2> DEFINE slot == [pc |-> "answered", id |-> request[r].id,
                      signed |-> request[r].key.signed, failed |-> {}]
  <2>4. slot \in Slot
    BY <2>3 DEF Answer
  <2>5. request' = [request EXCEPT ![r] = slot] /\ UNCHANGED <<writing, routing>>
    BY <2>1 DEF Respond
  <2> HIDE DEF slot
  <2> QED BY <2>2, <2>4, <2>5, SlotType
<1>8. CASE Done(r)
  BY <1>0, <1>8, SlotType DEF Done
<1> QED
  BY <1>1, <1>2, <1>3, <1>4, <1>5, <1>6, <1>7, <1>8 DEF RequestStep

\* Every state the specification reaches has every variable in its type, for
\* any number of channels, branches, updates, writers and requests.
THEOREM TypeCorrect == Spec => []TypeOK
<1>1. Init => Typed
  BY FS_EmptySet DEF Init, Typed, TypeOK, NewChannel, ChannelRow
<1>2. Typed /\ [Next]_vars => Typed'
  <2> SUFFICES ASSUME Typed, [Next]_vars PROVE Typed'
    OBVIOUS
  <2>1. ASSUME NEW e \in cache, Evict(e) PROVE Typed'
    BY <2>1 DEF Evict, Typed, TypeOK, writing, routing
  <2>2. CASE UNCHANGED vars
    BY <2>2 DEF vars, Typed, TypeOK
  <2> QED
    BY <2>1, <2>2, WriterType, ChannelType, RequestType DEF Next
<1> QED
  BY <1>1, <1>2, PTL DEF Spec, Typed

(***************************************************************************)
(* Coherence.  The inductive invariant adds to CacheCoherent and           *)
(* FillCoherent what makes a bump reach every entry it has to: the version *)
(* and incarnation of a key are never ahead of the channel, and a key that *)
(* is current names a branch the channel references.  The writers' part    *)
(* says that a job touches rows of its own branch only.                    *)
(***************************************************************************)

\* An entry or a request was read for the channel as it is or as it was.
Behind(x) ==
  LET c == x.key.channel IN
  /\ x.generation <= generation[c]
  /\ x.generation = generation[c] => x.key.version <= channel[c].version

\* The branch of a key read from the current row is one a bump looks for.
Routed(x) == Current(x) => x.key.branch \in References(channel[x.key.channel])

Sound(x) == Behind(x) /\ Routed(x)

Coherent(x) == Current(x) => FreshOrOwed(x)

\* Ids are never given twice, and a job that edits or deletes finds its row,
\* if it is still there, on the branch it read.
JobsApart ==
  /\ Keyed(updates)
  /\ \A u \in updates : u.id \in used
  /\ \A w \in Writers : writer[w] # Idle =>
       IF writer[w].op = "publish" /\ writer[w].pc = "write"
       THEN /\ writer[w].id \notin used
            /\ \A v \in Writers : v # w /\ writer[v] # Idle => writer[v].id # writer[w].id
       ELSE /\ writer[w].id \in used
            /\ \A u \in updates : u.id = writer[w].id => u.branch = writer[w].branch

Holding(r) == request[r].pc \in {"match", "resolve", "fallback", "store"}

CacheInv == \A e \in cache : Sound(e) /\ Coherent(e)

RequestInv ==
  \A r \in Requests : /\ Holding(r) => Sound(request[r])
                      /\ request[r].pc = "store" => Coherent(request[r])

IInv == Typed /\ JobsApart /\ CacheInv /\ RequestInv

\* What an entry and a holding request have in common.
HasKey(x) == x.key \in Key /\ x.generation \in Nat

LEMMA JobType ==
  ASSUME Typed, NEW w \in Writers
  PROVE  /\ writer[w] \in Job \cup {Idle}
         /\ writer[w] \in Job <=> writer[w] # Idle
         /\ writer[w].pc \in {"write", "bump"} <=> writer[w] \in Job
         /\ Idle \notin Job
BY DEF Typed, TypeOK, Job, Idle

\* A job's write leaves the rows of every other branch as they are.
LEMMA WrittenElsewhere ==
  ASSUME Typed, JobsApart, NEW w \in Writers, Write(w),
         NEW b, b # writer[w].branch
  PROVE  On(b)' = On(b)
<1>1. writer[w] \in Job /\ writer[w] # Idle /\ writer[w].pc = "write"
  BY JobType DEF Write
<1>2. updates' = Written(writer[w])
  BY DEF Write
<1>3. \A u \in updates : u.id = writer[w].id /\ writer[w].op # "publish" => u.branch = writer[w].branch
  BY <1>1 DEF JobsApart
<1>4. CASE writer[w].op = "publish"
  BY <1>2, <1>4 DEF On, Written
<1>5. CASE writer[w].op = "delete"
  BY <1>2, <1>3, <1>5 DEF On, Written
<1>6. CASE writer[w].op = "edit"
  <2> DEFINE Edited(u) == IF u.id = writer[w].id THEN [u EXCEPT !.pct = writer[w].pct] ELSE u
  <2>1. updates' = {Edited(u) : u \in updates}
    BY <1>2, <1>6 DEF Written
  <2>2. \A u \in updates : Edited(u).branch = u.branch /\ (u.branch = b => Edited(u) = u)
    BY <1>3, <1>6 DEF Typed, TypeOK, Row
  <2> HIDE DEF Edited
  <2> QED BY <2>1, <2>2 DEF On
<1> QED
  BY <1>1, <1>4, <1>5, <1>6 DEF Job

\* Writers keep their jobs apart.
LEMMA WriterJobs ==
  ASSUME Typed, JobsApart, NEW w \in Writers, WriterStep(w)
  PROVE  JobsApart'
<1> USE DEF JobsApart, Keyed
<1>0. \A v \in Writers : writer[v] # Idle <=> writer[v] \in Job
  BY JobType
<1>1. ASSUME NEW b \in Branches, NEW id \in Ids, NEW pct \in Percentages,
             PublishCheck(w, b, id, pct)
      PROVE  JobsApart'
  <2>1. /\ id \notin used
        /\ \A v \in Writers : writer[v] # Idle => writer[v].id # id
        /\ UNCHANGED <<updates, used>>
    BY <1>1 DEF PublishCheck, Reserved
  <2> DEFINE job == [pc |-> "write", op |-> "publish", branch |-> b, id |-> id, pct |-> pct]
  <2>2. job.op = "publish" /\ job.pc = "write" /\ job.id = id /\ job # Idle
    BY DEF Idle
  <2>3. \A v \in Writers : writer'[v] = IF v = w THEN job ELSE writer[v]
    BY <1>1 DEF PublishCheck, Typed, TypeOK
  <2> HIDE DEF job
  <2> QED BY <2>1, <2>2, <2>3
<1>2. ASSUME NEW u \in updates, NEW op \in {"edit", "delete"}, NEW pct \in 0..100,
             writer' = [writer EXCEPT ![w] =
               [pc |-> "write", op |-> op, branch |-> u.branch, id |-> u.id, pct |-> pct]],
             UNCHANGED <<updates, used>>
      PROVE  JobsApart'
  <2> DEFINE job == [pc |-> "write", op |-> op, branch |-> u.branch, id |-> u.id, pct |-> pct]
  <2>1. job.op # "publish" /\ job.id = u.id /\ job.branch = u.branch
    OBVIOUS
  <2>2. \A v \in Writers : writer'[v] = IF v = w THEN job ELSE writer[v]
    BY <1>2 DEF Typed, TypeOK
  <2> HIDE DEF job
  <2> QED BY <1>2, <2>1, <2>2
<1>3. CASE Write(w)
  <2> DEFINE job == writer[w]
  <2>1. /\ job \in Job /\ job # Idle /\ job.pc = "write"
        /\ updates' = Written(job) /\ used' = used \cup {u.id : u \in updates'}
    BY <1>3, JobType DEF Write
  <2>2. /\ writer'[w].op = job.op /\ writer'[w].id = job.id /\ writer'[w].branch = job.branch
        /\ writer'[w].pc = "bump"
        /\ \A v \in Writers : v # w => writer'[v] = writer[v]
    BY <1>3, <2>1 DEF Write, Typed, TypeOK, Job
  <2>3. \A u \in updates' : \/ \E t \in updates : u.id = t.id /\ u.branch = t.branch
                            \/ job.op = "publish" /\ u.id = job.id /\ u.branch = job.branch
    BY <2>1 DEF Written, Typed, TypeOK, Row, Job
  <2>4. job.op = "publish" => job.id \in used'
    <3> DEFINE row == [id |-> job.id, branch |-> job.branch, pct |-> job.pct]
    <3>1. job.op = "publish" => row \in updates'
      BY <2>1 DEF Written
    <3>2. row.id = job.id
      OBVIOUS
    <3> HIDE DEF row
    <3> QED BY <2>1, <3>1, <3>2
  <2>5. \A v \in Writers : v # w /\ writer[v] # Idle /\ writer[v].op = "publish"
                            /\ writer[v].pc = "write"
          => writer[v].id \notin used'
    BY <2>1, <2>3
  <2>6. \A v \in Writers : v # w /\ writer[v] # Idle
                            /\ ~(writer[v].op = "publish" /\ writer[v].pc = "write")
          => /\ writer[v].id \in used'
             /\ \A u \in updates' : u.id = writer[v].id => u.branch = writer[v].branch
    BY <2>1, <2>3
  <2>7. Keyed(updates')
    BY <2>1 DEF Written, Typed, TypeOK, Row, Job
  <2> QED
    BY <2>1, <2>2, <2>3, <2>4, <2>5, <2>6, <2>7
<1>4. ASSUME writer' = [writer EXCEPT ![w] = Idle], UNCHANGED <<updates, used>>
      PROVE  JobsApart'
  <2>1. \A v \in Writers : writer'[v] = IF v = w THEN Idle ELSE writer[v]
    BY <1>4 DEF Typed, TypeOK
  <2> QED BY <1>4, <2>1
<1>5. ASSUME NEW u \in updates, NEW pct \in Percentages, EditFind(w, u, pct) PROVE JobsApart'
  BY <1>2, <1>5 DEF EditFind
<1>6. ASSUME NEW u \in updates, DeleteFind(w, u) PROVE JobsApart'
  <2>1. PICK pct \in 0..100 : writer' = [writer EXCEPT ![w] =
          [pc |-> "write", op |-> "delete", branch |-> u.branch, id |-> u.id, pct |-> pct]]
    BY <1>6 DEF DeleteFind
  <2> QED BY <1>2, <1>6, <2>1 DEF DeleteFind
<1>7. CASE Bump(w)
  BY <1>4, <1>7 DEF Bump
<1>8. CASE Crash(w)
  BY <1>4, <1>8 DEF Crash
<1> QED
  BY <1>1, <1>3, <1>5, <1>6, <1>7, <1>8 DEF WriterStep

(***************************************************************************)
(* What the steps of writers and channels leave of an entry that was sound *)
(* and coherent.  x stands for any entry of the cache and any request.     *)
(***************************************************************************)

\* A row set on the branch that is the same before and after is resolved to
\* the same answers.
LEMMA FreshSame ==
  ASSUME NEW b, NEW signed, NEW id, On(b)' = On(b), FreshForAll(b, signed, id)
  PROVE  FreshForAll(b, signed, id)'
BY DEF FreshForAll

\* A step that leaves the channel rows alone keeps what is current.
LEMMA ChannelsSame ==
  ASSUME NEW x, UNCHANGED <<channel, generation>>
  PROVE  /\ Current(x)' = Current(x)
         /\ Sound(x)' = Sound(x)
BY DEF Current, Sound, Behind, Routed, References

\* A writer's steps keep an entry sound.
LEMMA WriterSound ==
  ASSUME Typed, NEW w \in Writers, WriterStep(w), NEW x, HasKey(x), Sound(x)
  PROVE  Sound(x)' /\ (Current(x)' => Current(x))
<1>1. CASE UNCHANGED <<channel, generation>>
  BY <1>1, ChannelsSame
<1>2. CASE Bump(w)
  <2> DEFINE c == x.key.channel
             b == writer[w].branch
  <2>1. /\ c \in Channels /\ x.key.version \in Nat /\ x.generation \in Nat
        /\ channel[c] \in ChannelRow /\ channel[c].version \in Nat /\ generation[c] \in Nat
    BY DEF HasKey, Key, Typed, TypeOK, ChannelRow
  <2>2. generation' = generation /\ channel'[c] = IF channel[c].live /\ b \in References(channel[c])
                      THEN [channel[c] EXCEPT !.version = @ + 1]
                      ELSE channel[c]
    BY <1>2, <2>1 DEF Bump, Bumped
  <2>3. /\ channel'[c].version \in {channel[c].version, channel[c].version + 1}
        /\ channel'[c].version = channel[c].version => channel'[c] = channel[c]
    BY <2>1, <2>2 DEF ChannelRow
  <2> HIDE DEF c, b
  <2> QED
    BY <2>1, <2>2, <2>3 DEF c, Sound, Behind, Routed, Current, References
<1> QED
  BY <1>1, <1>2 DEF WriterStep, PublishCheck, EditFind, DeleteFind, Write, Crash, routing

\* A writer's steps keep an entry coherent: a write owes the bump, and the
\* bump makes every entry of the branch outdated.
LEMMA WriterCoherent ==
  ASSUME Typed, JobsApart, NEW w \in Writers, WriterStep(w),
         NEW x, HasKey(x), Sound(x), Coherent(x)
  PROVE  Coherent(x)'
<1> DEFINE b == x.key.branch
<1> SUFFICES ASSUME Current(x)' PROVE FreshOrOwed(x)'
  BY DEF Coherent
<1>0. Current(x) /\ FreshOrOwed(x)
  BY WriterSound DEF Coherent
<1>1. ASSUME UNCHANGED updates, Owed(b) => Owed(b)' PROVE FreshOrOwed(x)'
  <2>1. On(b)' = On(b)
    BY <1>1 DEF On
  <2> QED BY <1>0, <1>1, <2>1 DEF FreshOrOwed, FreshForAll
<1>2. ASSUME NEW job, writer[w] = Idle, writer' = [writer EXCEPT ![w] = job],
             UNCHANGED <<updates, unbumped>>
      PROVE  FreshOrOwed(x)'
  <2>1. Owed(b) => Owed(b)'
    BY <1>2 DEF Owed, Idle, Typed, TypeOK
  <2> QED BY <1>1, <1>2, <2>1
<1>3. CASE Write(w)
  <2>1. writer[w] \in Job /\ writer'[w].pc = "bump" /\ writer'[w].branch = writer[w].branch
    BY <1>3, JobType DEF Write, Typed, TypeOK, Job
  <2>2. CASE b = writer[w].branch
    BY <2>1, <2>2 DEF FreshOrOwed, Owed
  <2>3. CASE b # writer[w].branch
    <3>1. On(b)' = On(b)
      BY <1>3, <2>3, WrittenElsewhere
    <3>2. Owed(b) => Owed(b)'
      BY <1>3, <2>1 DEF Write, Owed, Typed, TypeOK
    <3> QED BY <1>0, <3>1, <3>2 DEF FreshOrOwed, FreshForAll
  <2> QED BY <2>2, <2>3
<1>4. CASE Bump(w)
  <2>1. writer[w] \in Job /\ writer[w].pc = "bump" /\ b \in Branches
    BY <1>4, JobType DEF Bump, HasKey, Key
  <2>2. b # writer[w].branch
    <3> DEFINE c == x.key.channel
    <3> SUFFICES ASSUME b = writer[w].branch PROVE FALSE
      OBVIOUS
    <3>1. c \in Channels /\ channel[c] \in ChannelRow /\ channel[c].live /\ b \in References(channel[c])
      BY <1>0 DEF Sound, Routed, Current, HasKey, Key, Typed, TypeOK
    <3>2. channel'[c] = [channel[c] EXCEPT !.version = @ + 1] /\ generation' = generation
      BY <1>4, <3>1 DEF Bump, Bumped
    <3>3. channel'[c].version = channel[c].version + 1 /\ channel[c].version \in Nat
      BY <3>1, <3>2 DEF ChannelRow
    <3>4. x.key.version = channel[c].version
      BY <1>0 DEF Current
    <3>5. x.key.version = channel'[c].version
      BY DEF Current
    <3> QED BY <3>3, <3>4, <3>5
  <2>3. Owed(b) => Owed(b)'
    BY <1>4, <2>1, <2>2 DEF Bump, Owed, Typed, TypeOK
  <2> QED BY <1>1, <1>4, <2>3 DEF Bump
<1>5. CASE Crash(w)
  <2>1. Owed(b) => Owed(b)'
    BY <1>5 DEF Crash, Owed, Typed, TypeOK
  <2> QED BY <1>1, <1>5, <2>1 DEF Crash
<1>6. ASSUME NEW c \in Branches, NEW id \in Ids, NEW pct \in Percentages, PublishCheck(w, c, id, pct)
      PROVE  FreshOrOwed(x)'
  BY <1>2, <1>6 DEF PublishCheck
<1>7. ASSUME NEW u \in updates, NEW pct \in Percentages, EditFind(w, u, pct)
      PROVE  FreshOrOwed(x)'
  BY <1>2, <1>7 DEF EditFind
<1>8. ASSUME NEW u \in updates, DeleteFind(w, u)
      PROVE  FreshOrOwed(x)'
  BY <1>2, <1>8 DEF DeleteFind
<1> QED
  BY <1>3, <1>4, <1>5, <1>6, <1>7, <1>8 DEF WriterStep

\* What a statement on a channel does to its row: the version moves on, or
\* the row is gone, or it is a new row.
Outdates(c) ==
  \/ generation'[c] = generation[c] /\ channel'[c].version = channel[c].version + 1
  \/ /\ generation'[c] = generation[c] /\ channel'[c].version = channel[c].version
     /\ ~channel'[c].live
  \/ generation'[c] = generation[c] + 1

LEMMA ChannelOutdates ==
  ASSUME Typed, NEW c \in Channels, ChannelStep(c)
  PROVE  /\ Outdates(c)
         /\ UNCHANGED <<updates, unbumped, writer, cache, request>>
         /\ \A d \in Channels \ {c} : channel'[d] = channel[d] /\ generation'[d] = generation[d]
<1> DEFINE Goal == /\ Outdates(c)
                   /\ UNCHANGED <<updates, unbumped, writer, cache, request>>
                   /\ \A d \in Channels \ {c} : channel'[d] = channel[d] /\ generation'[d] = generation[d]
<1>0. channel[c] \in ChannelRow
  BY DEF Typed, TypeOK
<1>1. ASSUME NEW row \in ChannelRow, row.version = channel[c].version, UpdateChannel(c, row)
      PROVE  Goal
  <2>1. channel'[c].version = channel[c].version + 1
    BY <1>1 DEF UpdateChannel, Typed, TypeOK, ChannelRow
  <2>2. /\ generation' = generation /\ UNCHANGED <<updates, unbumped, writer, cache, request>>
        /\ \A d \in Channels \ {c} : channel'[d] = channel[d]
    BY <1>1 DEF UpdateChannel, Typed, TypeOK, writing, serving
  <2> QED BY <2>1, <2>2 DEF Outdates
<1>2. ASSUME NEW b \in Branches, UpdateBranchId(c, b) PROVE Goal
  <2> DEFINE row == [channel[c] EXCEPT !.branch = b]
  <2>1. row \in ChannelRow /\ row.version = channel[c].version
    BY <1>0 DEF ChannelRow
  <2>2. UpdateChannel(c, row)
    BY <1>2 DEF UpdateBranchId
  <2> HIDE DEF row, Goal
  <2> QED BY <1>1, <2>1, <2>2
<1>3. ASSUME NEW p \in BOOLEAN, SetPaused(c, p) PROVE Goal
  <2> DEFINE row == [channel[c] EXCEPT !.paused = p]
  <2>1. row \in ChannelRow /\ row.version = channel[c].version
    BY <1>0 DEF ChannelRow
  <2>2. UpdateChannel(c, row)
    BY <1>3 DEF SetPaused
  <2> HIDE DEF row, Goal
  <2> QED BY <1>1, <2>1, <2>2
<1>4. ASSUME NEW b \in Branches, SetBranchMapping(c, b) PROVE Goal
  <2> DEFINE row == [channel[c] EXCEPT !.mapping = {b, channel[c].branch}]
  <2>1. row \in ChannelRow /\ row.version = channel[c].version
    BY <1>0 DEF ChannelRow
  <2>2. UpdateChannel(c, row)
    BY <1>4 DEF SetBranchMapping
  <2> HIDE DEF row, Goal
  <2> QED BY <1>1, <2>1, <2>2
<1>5. ASSUME NEW b \in Branches, CompleteBranchRollout(c, b) PROVE Goal
  <2> DEFINE row == [channel[c] EXCEPT !.branch = b, !.mapping = {}]
  <2>1. row \in ChannelRow /\ row.version = channel[c].version
    BY <1>0 DEF ChannelRow
  <2>2. UpdateChannel(c, row)
    BY <1>5 DEF CompleteBranchRollout
  <2> HIDE DEF row, Goal
  <2> QED BY <1>1, <2>1, <2>2
<1>6. ASSUME RevertBranchRollout(c) PROVE Goal
  <2> DEFINE row == [channel[c] EXCEPT !.mapping = {}]
  <2>1. row \in ChannelRow /\ row.version = channel[c].version
    BY <1>0 DEF ChannelRow
  <2>2. UpdateChannel(c, row)
    BY <1>6 DEF RevertBranchRollout
  <2> HIDE DEF row, Goal
  <2> QED BY <1>1, <2>1, <2>2
<1>7. ASSUME DeleteChannel(c) PROVE Goal
  <2> DEFINE row == [channel[c] EXCEPT !.live = FALSE]
  <2>1. row.version = channel[c].version /\ ~row.live
    BY <1>0 DEF ChannelRow
  <2>2. /\ channel' = [channel EXCEPT ![c] = row]
        /\ UNCHANGED <<generation, writing, serving>>
    BY <1>7, Zenon DEF DeleteChannel
  <2> HIDE DEF row
  <2>3. channel'[c] = row /\ \A d \in Channels \ {c} : channel'[d] = channel[d]
    BY <2>2 DEF Typed, TypeOK
  <2> QED BY <2>1, <2>2, <2>3 DEF Outdates, writing, serving
<1>8. ASSUME NEW b \in Branches, InsertChannel(c, b) PROVE Goal
  <2>1. generation'[c] = generation[c] + 1
    BY <1>8 DEF InsertChannel, Typed, TypeOK
  <2> QED BY <1>8, <2>1 DEF InsertChannel, Outdates, writing, serving, Typed, TypeOK
<1> QED
  BY <1>2, <1>3, <1>4, <1>5, <1>6, <1>7, <1>8 DEF ChannelStep

\* A statement on a channel keeps every entry sound, and makes those read for
\* the channel outdated.
LEMMA ChannelSound ==
  ASSUME Typed, NEW c \in Channels, ChannelStep(c), NEW x, HasKey(x), Sound(x)
  PROVE  Sound(x)' /\ (Coherent(x) => Coherent(x)')
<1> DEFINE d == x.key.channel
<1>0. /\ d \in Channels /\ x.key.version \in Nat /\ x.generation \in Nat
      /\ channel[d].version \in Nat /\ generation[d] \in Nat
  BY DEF HasKey, Key, Typed, TypeOK, ChannelRow
<1>1. /\ Outdates(c)
      /\ UNCHANGED <<updates, unbumped, writer>>
      /\ d # c => channel'[d] = channel[d] /\ generation'[d] = generation[d]
  BY <1>0, ChannelOutdates
<1>2. FreshOrOwed(x)' = FreshOrOwed(x)
  BY <1>1 DEF FreshOrOwed, FreshForAll, On, Owed
<1>3. CASE d # c
  <2>1. Sound(x)' /\ (Current(x)' => Current(x))
    BY <1>1, <1>3 DEF Sound, Behind, Routed, Current, References
  <2> QED BY <1>2, <2>1 DEF Coherent
<1>4. CASE d = c
  <2>1. Behind(x)' /\ ~Current(x)'
    BY <1>0, <1>1, <1>4 DEF Sound, Behind, Current, Outdates
  <2> QED BY <2>1 DEF Sound, Routed, Coherent
<1> QED
  BY <1>3, <1>4

(***************************************************************************)
(* Requests.  Their steps leave tables and channels alone, so an entry     *)
(* stays what it was; what is new is the slot, and in Store the entry.     *)
(***************************************************************************)

LEMMA TablesSame ==
  ASSUME UNCHANGED <<writing, routing>>, NEW x
  PROVE  Sound(x)' = Sound(x) /\ Coherent(x)' = Coherent(x)
<1>1. UNCHANGED <<updates, writer, unbumped, channel, generation>>
  BY DEF writing, routing
<1> QED
  BY <1>1 DEF Sound, Behind, Routed, References, Coherent, Current, FreshOrOwed,
              FreshForAll, On, Owed

\* A request and an entry that hold the same key are equally sound.
LEMMA SameKey ==
  ASSUME NEW x, NEW y, x.key = y.key, x.generation = y.generation
  PROVE  /\ Sound(x) = Sound(y)
         /\ x.id = y.id => Coherent(x) = Coherent(y)
BY DEF Sound, Behind, Routed, Current, Coherent, FreshOrOwed

\* The value of a slot after a step, as a constant.
LEMMA SlotInv ==
  ASSUME Typed, JobsApart, CacheInv, RequestInv, NEW r \in Requests, NEW slot,
         request' = [request EXCEPT ![r] = slot],
         UNCHANGED <<writing, routing>>,
         slot.pc \in {"match", "resolve", "fallback", "store"} => Sound(slot),
         slot.pc = "store" => Coherent(slot)
  PROVE  JobsApart' /\ RequestInv'
<1>1. JobsApart'
  BY DEF JobsApart, writing
<1>2. ASSUME NEW q \in Requests, NEW x, x = request'[q]
      PROVE  /\ x.pc \in {"match", "resolve", "fallback", "store"} => Sound(x)'
             /\ x.pc = "store" => Coherent(x)'
  <2>1. CASE q = r
    BY <1>2, <2>1, TablesSame DEF Typed, TypeOK
  <2>2. CASE q # r
    <3>1. x = request[q]
      BY <1>2, <2>2 DEF Typed, TypeOK
    <3> QED BY <3>1, TablesSame DEF RequestInv, Holding
  <2> QED BY <2>1, <2>2
<1>3. RequestInv'
  BY ZenonT(60), <1>2 DEF RequestInv, Holding, Sound, Behind, Routed, References, Coherent, Current,
              FreshOrOwed, FreshForAll, On, Owed
<1> QED BY <1>1, <1>3

\* The cache after a step that stores nothing.
LEMMA CacheSame ==
  ASSUME CacheInv, cache' \subseteq cache, UNCHANGED <<writing, routing>>
  PROVE  CacheInv'
<1>1. ASSUME NEW e \in cache' PROVE Sound(e)' /\ Coherent(e)'
  BY <1>1, TablesSame DEF CacheInv
<1> QED BY <1>1 DEF CacheInv

\* Requests after a step that touches none of them.
LEMMA RequestsSame ==
  ASSUME JobsApart, RequestInv, UNCHANGED <<request, writing, routing>>
  PROVE  JobsApart' /\ RequestInv'
<1>1. JobsApart'
  BY DEF JobsApart, writing
<1>2. ASSUME NEW q \in Requests, NEW x, x = request'[q]
      PROVE  /\ x.pc \in {"match", "resolve", "fallback", "store"} => Sound(x)'
             /\ x.pc = "store" => Coherent(x)'
  BY <1>2, TablesSame DEF RequestInv, Holding
<1>3. RequestInv'
  BY <1>2 DEF RequestInv, Holding, Sound, Behind, Routed, References, Coherent, Current,
              FreshOrOwed, FreshForAll, On, Owed
<1> QED BY <1>1, <1>3

\* Rows that are all fully rolled out are resolved to one row, whatever the
\* device's rollout standing.
LEMMA CacheableForAll ==
  ASSUME Typed, NEW b, NEW signed, NEW known, NEW enrolled,
         IsCacheable(Candidates(On(b))),
         NEW u \in ResolveRollout(Servable(Candidates(On(b)), signed, {}), known, enrolled).row
  PROVE  FreshForAll(b, signed, u.id)
<1> DEFINE S == Servable(Candidates(On(b)), signed, {})
<1>1. S \subseteq Candidates(On(b)) /\ S \subseteq On(b)
  BY ServablePart DEF Candidates
<1>2. Rows(S)
  BY <1>1, OnRows, RowsSubset
<1>3. S # {}
  BY DEF ResolveRollout, Nothing
<1>4. Newest(S).pct = 100
  BY <1>1, <1>2, <1>3, NewestExists DEF IsCacheable
<1> HIDE DEF S
<1>5. \A k, n : ResolveRollout(S, k, n).row = {Newest(S)}
  BY <1>3, <1>4, ResolveRolloutFull DEF Chosen
<1>6. u = Newest(S)
  BY <1>5 DEF S
<1> QED
  BY <1>5, <1>6 DEF FreshForAll, S

LEMMA RequestCoherent ==
  ASSUME Typed, JobsApart, CacheInv, RequestInv, NEW r \in Requests, RequestStep(r)
  PROVE  JobsApart' /\ CacheInv' /\ RequestInv'
<1>0. request[r].pc \in {"match", "resolve", "fallback", "store"} => Sound(request[r])
  BY DEF RequestInv, Holding
<1>r. ASSUME NEW id, NEW signed, NEW failed, Respond(r, id, signed, failed),
             UNCHANGED <<writing, routing>>
      PROVE  JobsApart' /\ RequestInv'
  <2> DEFINE slot == [pc |-> "answered", id |-> id, signed |-> signed, failed |-> failed]
  <2>1. slot.pc = "answered" /\ request' = [request EXCEPT ![r] = slot]
    BY <1>r DEF Respond
  <2> HIDE DEF slot
  <2> QED BY <1>r, <2>1, SlotInv
<1>s. ASSUME NEW pc \in {"resolve", "fallback"}, request[r].pc \in {"match", "resolve"}, Step(r, pc),
             UNCHANGED <<writing, routing>>
      PROVE  JobsApart' /\ RequestInv'
  <2>1. request[r] \in Lookup
    BY <1>s, Holds DEF Typed
  <2> DEFINE slot == [request[r] EXCEPT !.pc = pc]
  <2>2. slot.pc = pc /\ slot.key = request[r].key /\ slot.generation = request[r].generation
    BY <2>1 DEF Lookup
  <2>3. request' = [request EXCEPT ![r] = slot]
    BY <1>s DEF Step
  <2> HIDE DEF slot
  <2>4. Sound(slot)
    BY <1>s, <1>0, <2>2, SameKey
  <2> QED BY <1>s, <2>2, <2>3, <2>4, SlotInv
<1>1. ASSUME NEW c \in Channels, NEW signed \in SignatureModes, NEW failed \in FailureReports,
             ReadChannel(r, c, signed, failed)
      PROVE  JobsApart' /\ CacheInv' /\ RequestInv'
  <2>1. PICK b \in Targets(channel[c]) :
          request' = [request EXCEPT ![r] =
            [pc |-> "match", generation |-> generation[c], failed |-> failed,
             key |-> [channel |-> c, version |-> channel[c].version,
                      branch |-> b, signed |-> signed]]]
    BY <1>1 DEF ReadChannel
  <2> DEFINE slot == [pc |-> "match", generation |-> generation[c], failed |-> failed,
                      key |-> [channel |-> c, version |-> channel[c].version,
                               branch |-> b, signed |-> signed]]
  <2>2. /\ slot.pc = "match" /\ slot.generation = generation[c] /\ slot.key.channel = c
        /\ slot.key.version = channel[c].version /\ slot.key.branch = b
    OBVIOUS
  <2>3. request' = [request EXCEPT ![r] = slot]
    BY <2>1
  <2>4. UNCHANGED <<cache, writing, routing>>
    BY <1>1 DEF ReadChannel
  <2> HIDE DEF slot
  <2>5. generation[c] \in Nat /\ channel[c].version \in Nat /\ channel[c] \in ChannelRow
    BY DEF Typed, TypeOK, ChannelRow
  <2>6. Behind(slot)
    BY <2>2, <2>5 DEF Behind
  <2>7. Routed(slot)
    BY <2>1, <2>2, <2>5 DEF Routed, References, Targets
  <2> QED BY <2>2, <2>3, <2>4, <2>6, <2>7, SlotInv, CacheSame DEF Sound
<1>2. ASSUME NEW c \in Channels, NEW signed \in SignatureModes, NEW failed \in FailureReports,
             ReadChannelClosed(r, c, signed, failed)
      PROVE  JobsApart' /\ CacheInv' /\ RequestInv'
  BY <1>2, <1>r, CacheSame DEF ReadChannelClosed
<1>3. CASE MatchHit(r)
  BY <1>3, <1>r, CacheSame DEF MatchHit
<1>4. CASE MatchMiss(r)
  BY <1>4, <1>s, CacheSame DEF MatchMiss
<1>5. ASSUME NEW known \in BOOLEAN, NEW enrolled \in SUBSET used, Resolve(r, known, enrolled)
      PROVE  JobsApart' /\ CacheInv' /\ RequestInv'
  <2> DEFINE b == request[r].key.branch
             signed == request[r].key.signed
             failed == request[r].failed
             pick == ResolveRollout(Servable(Candidates(On(b)), signed, failed), known, enrolled)
  <2>1. /\ request[r].pc = "resolve" /\ UNCHANGED <<cache, writing, routing>>
        /\ \/ Step(r, "fallback")
           \/ \E id : Respond(r, id, signed, failed)
           \/ \E u \in pick.row :
                /\ IsCacheable(Candidates(On(b))) /\ failed = {}
                /\ request' = [request EXCEPT ![r] =
                     [pc |-> "store", key |-> request[r].key,
                      generation |-> request[r].generation, id |-> u.id]]
    BY <1>5 DEF Resolve, Reply
  <2>2. CASE Step(r, "fallback")
    BY <1>s, <2>1, <2>2, CacheSame
  <2>3. ASSUME NEW id, Respond(r, id, signed, failed) PROVE JobsApart' /\ CacheInv' /\ RequestInv'
    BY <1>r, <2>1, <2>3, CacheSame
  <2>4. ASSUME NEW u \in pick.row, IsCacheable(Candidates(On(b))), failed = {},
               request' = [request EXCEPT ![r] =
                 [pc |-> "store", key |-> request[r].key,
                  generation |-> request[r].generation, id |-> u.id]]
        PROVE  JobsApart' /\ CacheInv' /\ RequestInv'
    <3> DEFINE slot == [pc |-> "store", key |-> request[r].key,
                        generation |-> request[r].generation, id |-> u.id]
    <3>1. /\ slot.pc = "store" /\ slot.key = request[r].key /\ slot.id = u.id
          /\ slot.generation = request[r].generation
          /\ request' = [request EXCEPT ![r] = slot]
      BY <2>4
    <3>2. FreshForAll(b, signed, u.id)
      BY <2>4, CacheableForAll
    <3> HIDE DEF slot, pick
    <3>3. Coherent(slot)
      BY <3>1, <3>2 DEF Coherent, FreshOrOwed
    <3>4. Sound(slot)
      BY <1>0, <2>1, <3>1, SameKey
    <3> QED BY <2>1, <3>1, <3>3, <3>4, SlotInv, CacheSame
  <2> HIDE DEF pick
  <2> QED BY <2>1, <2>2, <2>3, <2>4
<1>6. CASE ResolveFallback(r)
  BY <1>6, <1>r, CacheSame DEF ResolveFallback, Reply
<1>7. CASE Store(r)
  <2> DEFINE entry == [key |-> request[r].key, generation |-> request[r].generation,
                       id |-> request[r].id]
  <2>1. /\ request[r].pc = "store" /\ UNCHANGED <<writing, routing>>
        /\ cache' \subseteq cache \cup {entry}
        /\ Respond(r, request[r].id, request[r].key.signed, {})
    BY <1>7 DEF Store
  <2>2. /\ entry.key = request[r].key /\ entry.generation = request[r].generation
        /\ entry.id = request[r].id
    OBVIOUS
  <2> HIDE DEF entry
  <2>3. Sound(request[r]) /\ Coherent(request[r])
    BY <2>1 DEF RequestInv, Holding
  <2>4. Sound(entry) /\ Coherent(entry)
    BY <2>2, <2>3, SameKey
  <2>5. ASSUME NEW e \in cache' PROVE Sound(e)' /\ Coherent(e)'
    BY <2>1, <2>4, <2>5, TablesSame DEF CacheInv
  <2> QED BY <1>r, <2>1, <2>5 DEF CacheInv
<1>8. CASE Done(r)
  <2>1. Idle.pc = "idle"
    BY DEF Idle
  <2> QED BY <1>8, <2>1, SlotInv, CacheSame DEF Done
<1> QED
  BY <1>1, <1>2, <1>3, <1>4, <1>5, <1>6, <1>7, <1>8 DEF RequestStep

\* The invariant is inductive.
LEMMA InitInv == Init => IInv
<1> SUFFICES ASSUME Init PROVE IInv
  OBVIOUS
<1>1. Typed
  BY FS_EmptySet DEF Init, Typed, TypeOK, NewChannel, ChannelRow
<1> QED
  BY <1>1 DEF Init, IInv, JobsApart, Keyed, CacheInv, RequestInv, Holding, Idle

LEMMA NextInv == IInv /\ [Next]_vars => IInv'
<1> SUFFICES ASSUME IInv, [Next]_vars PROVE IInv'
  OBVIOUS
<1> USE DEF IInv
<1>h. /\ \A e \in cache : HasKey(e)
      /\ \A r \in Requests : Holding(r) => HasKey(request[r])
  <2>1. \A r \in Requests : Holding(r) => request[r] \in Lookup \cup Fill
    BY Holds DEF Typed, Holding
  <2> QED BY <2>1 DEF Typed, TypeOK, HasKey, Entry, Lookup, Fill
<1>k. ASSUME Typed', JobsApart', UNCHANGED <<cache, request>>,
             ASSUME NEW x, HasKey(x), Sound(x) PROVE Sound(x)',
             ASSUME NEW x, HasKey(x), Sound(x), Coherent(x) PROVE Coherent(x)'
      PROVE  IInv'
  <2>1. \A e \in cache : Sound(e)' /\ Coherent(e)'
    BY <1>h, <1>k DEF CacheInv
  <2>2. CacheInv'
    BY <1>k, <2>1 DEF CacheInv
  <2>3. ASSUME NEW r \in Requests, NEW x, x = request[r]
        PROVE  /\ Holding(r) => Sound(x)'
               /\ request[r].pc = "store" => Coherent(x)'
    BY <1>h, <1>k, <2>3 DEF RequestInv, Holding
  <2>4. RequestInv'
    BY ZenonT(60), <1>k, <2>3 DEF RequestInv, Holding, Sound, Behind, Routed, References, Coherent,
                      Current, FreshOrOwed, FreshForAll, On, Owed
  <2> QED BY <1>k, <2>2, <2>4
<1>1. ASSUME NEW w \in Writers, WriterStep(w) PROVE IInv'
  <2>1. UNCHANGED <<cache, request>>
    BY <1>1 DEF WriterStep, PublishCheck, EditFind, DeleteFind, Write, Bump, Crash, serving
  <2>2. Typed' /\ JobsApart'
    BY <1>1, WriterType, WriterJobs
  <2> QED BY <1>1, <1>k, <2>1, <2>2, WriterSound, WriterCoherent
<1>2. ASSUME NEW c \in Channels, ChannelStep(c) PROVE IInv'
  <2>1. UNCHANGED <<updates, used, writer, cache, request>>
    BY <1>2 DEF ChannelStep, UpdateBranchId, SetPaused, SetBranchMapping, CompleteBranchRollout,
         RevertBranchRollout, UpdateChannel, DeleteChannel, InsertChannel, writing, serving
  <2>2. Typed' /\ JobsApart'
    BY <1>2, <2>1, ChannelType DEF JobsApart
  <2> QED BY <1>2, <1>k, <2>1, <2>2, ChannelSound
<1>3. ASSUME NEW r \in Requests, RequestStep(r) PROVE IInv'
  BY <1>3, RequestType, RequestCoherent
<1>4. ASSUME NEW e \in cache, Evict(e) PROVE IInv'
  <2>1. cache' \subseteq cache /\ UNCHANGED <<request, writing, routing>>
    BY <1>4 DEF Evict
  <2>2. Typed'
    BY <2>1 DEF Typed, TypeOK, writing, routing
  <2> QED BY <2>1, <2>2, CacheSame, RequestsSame
<1>5. CASE UNCHANGED vars
  <2>1. cache' \subseteq cache /\ UNCHANGED <<request, writing, routing>>
    BY <1>5 DEF vars, writing, routing
  <2>2. Typed'
    BY <2>1, <1>5 DEF Typed, TypeOK, vars
  <2> QED BY <2>1, <2>2, CacheSame, RequestsSame
<1> QED
  BY <1>1, <1>2, <1>3, <1>4, <1>5 DEF Next

\* For any number of channels, branches, updates, writers and requests: an
\* entry that a request reading the channel now would hit is what resolving
\* the rows now gives every device, unless the bump of a write is still owed.
THEOREM CacheCoherence == Spec => []CacheCoherent
<1>1. IInv => CacheCoherent
  BY DEF IInv, CacheInv, Coherent, CacheCoherent
<1> QED
  BY <1>1, InitInv, NextInv, PTL DEF Spec

\* The same of what a request is about to store.
THEOREM FillCoherence == Spec => []FillCoherent
<1>1. IInv => FillCoherent
  BY DEF IInv, RequestInv, Coherent, FillCoherent
<1> QED
  BY <1>1, InitInv, NextInv, PTL DEF Spec

(***************************************************************************)
(* What a device is answered.  The signature expectation is part of the    *)
(* cache key, the failures a device reports are not.                       *)
(***************************************************************************)

\* An id found for a key is signed when the key asks for it.
Deserved(x) == x.key.signed => x.id \in SignedIds

SafeAnswer(x) ==
  x.id # NoUpdate => x.id \notin x.failed /\ (x.signed => x.id \in SignedIds)

DeviceInv ==
  /\ \A e \in cache : Deserved(e)
  /\ \A r \in Requests : /\ request[r].pc = "store" => Deserved(request[r])
                         /\ request[r].pc = "answered" => SafeAnswer(request[r])

\* A step that changes one slot.
LEMMA SlotSafe ==
  ASSUME Typed, DeviceInv, NEW r \in Requests, NEW slot,
         request' = [request EXCEPT ![r] = slot],
         slot.pc = "store" => Deserved(slot),
         slot.pc = "answered" => SafeAnswer(slot),
         \A e \in cache' : Deserved(e)
  PROVE  DeviceInv'
<1>1. ASSUME NEW q \in Requests, NEW x, x = request'[q]
      PROVE  /\ x.pc = "store" => Deserved(x)
             /\ x.pc = "answered" => SafeAnswer(x)
  BY <1>1 DEF DeviceInv, Typed, TypeOK
<1> QED
  BY <1>1 DEF DeviceInv, Deserved, SafeAnswer

LEMMA RespondSafe ==
  ASSUME Typed, DeviceInv, NEW r \in Requests, NEW id, NEW signed, NEW failed,
         Respond(r, id, signed, failed),
         id # NoUpdate => id \notin failed /\ (signed => id \in SignedIds),
         \A e \in cache' : Deserved(e)
  PROVE  DeviceInv'
<1> DEFINE slot == [pc |-> "answered", id |-> id, signed |-> signed, failed |-> failed]
<1>1. slot.pc = "answered" /\ SafeAnswer(slot)
  BY DEF SafeAnswer
<1>2. request' = [request EXCEPT ![r] = slot]
  BY DEF Respond
<1> HIDE DEF slot
<1> QED
  BY <1>1, <1>2, SlotSafe

\* A pick among servable rows deserves its place.
LEMMA PickSafe ==
  ASSUME Typed, NEW b, NEW signed, NEW failed, NEW known, NEW enrolled,
         NEW u \in ResolveRollout(Servable(Candidates(On(b)), signed, failed),
                                  known, enrolled).row
  PROVE  u.id \notin failed /\ (signed => u.id \in SignedIds)
<1> DEFINE S == Servable(Candidates(On(b)), signed, failed)
<1>1. Rows(S)
  BY ServablePart, OnRows, RowsSubset DEF Candidates
<1>2. \A v \in S : v.id \notin failed /\ (signed => v.id \in SignedIds)
  BY DEF Servable
<1> HIDE DEF S
<1>3. ResolveRollout(S, known, enrolled).row \subseteq S
  BY <1>1, ResolveRolloutPicks
<1> QED
  BY <1>2, <1>3 DEF S

LEMMA RequestSafe ==
  ASSUME Typed, DeviceInv, NEW r \in Requests, RequestStep(r)
  PROVE  DeviceInv'
<1>0. \A e \in cache : Deserved(e)
  BY DEF DeviceInv
<1>1. ASSUME NEW c \in Channels, NEW signed \in SignatureModes, NEW failed \in FailureReports,
             ReadChannel(r, c, signed, failed)
      PROVE  DeviceInv'
  <2>1. PICK b \in Targets(channel[c]) :
          request' = [request EXCEPT ![r] =
            [pc |-> "match", generation |-> generation[c], failed |-> failed,
             key |-> [channel |-> c, version |-> channel[c].version,
                      branch |-> b, signed |-> signed]]]
    BY <1>1 DEF ReadChannel
  <2> DEFINE slot == [pc |-> "match", generation |-> generation[c], failed |-> failed,
                      key |-> [channel |-> c, version |-> channel[c].version,
                               branch |-> b, signed |-> signed]]
  <2>2. slot.pc = "match" /\ request' = [request EXCEPT ![r] = slot] /\ cache' = cache
    BY <1>1, <2>1 DEF ReadChannel
  <2> HIDE DEF slot
  <2> QED BY <1>0, <2>2, SlotSafe
<1>2. ASSUME NEW c \in Channels, NEW signed \in SignatureModes, NEW failed \in FailureReports,
             ReadChannelClosed(r, c, signed, failed)
      PROVE  DeviceInv'
  BY <1>0, <1>2, RespondSafe DEF ReadChannelClosed
<1>3. CASE MatchHit(r)
  <2>1. PICK e \in Hits(r), id \in Ids \cup {NoUpdate} :
          /\ id \in OrCurrent(e.id)
          /\ Respond(r, id, request[r].key.signed, request[r].failed)
          /\ cache' = cache
    BY <1>3 DEF MatchHit
  <2>2. e.id \notin request[r].failed /\ (request[r].key.signed => e.id \in SignedIds)
    BY <1>0 DEF Hits, Deserved
  <2> QED BY <1>0, <2>1, <2>2, RespondSafe DEF OrCurrent
<1>4. CASE MatchMiss(r)
  <2>1. /\ request[r] \in Lookup /\ cache' = cache
        /\ request' = [request EXCEPT ![r].pc = "resolve"]
    BY <1>4, Holds DEF MatchMiss, Step, Typed
  <2> DEFINE slot == [request[r] EXCEPT !.pc = "resolve"]
  <2>2. slot.pc = "resolve" /\ request' = [request EXCEPT ![r] = slot]
    BY <2>1 DEF Lookup
  <2> HIDE DEF slot
  <2> QED BY <1>0, <2>1, <2>2, SlotSafe
<1>5. ASSUME NEW known \in BOOLEAN, NEW enrolled \in SUBSET used, Resolve(r, known, enrolled)
      PROVE  DeviceInv'
  <2> DEFINE b == request[r].key.branch
             signed == request[r].key.signed
             failed == request[r].failed
             pick == ResolveRollout(Servable(Candidates(On(b)), signed, failed), known, enrolled)
  <2>1. /\ request[r].pc = "resolve" /\ cache' = cache
        /\ \/ Step(r, "fallback")
           \/ Respond(r, NoUpdate, signed, failed)
           \/ \E u \in pick.row : Respond(r, u.id, signed, failed)
           \/ \E u \in pick.row :
                request' = [request EXCEPT ![r] =
                  [pc |-> "store", key |-> request[r].key,
                   generation |-> request[r].generation, id |-> u.id]]
    BY <1>5 DEF Resolve, Reply
  <2>2. \A u \in pick.row : u.id \notin failed /\ (signed => u.id \in SignedIds)
    BY PickSafe
  <2> HIDE DEF pick
  <2>3. CASE Step(r, "fallback")
    <3>1. request[r] \in Lookup
      BY <2>1, Holds DEF Typed
    <3> DEFINE slot == [request[r] EXCEPT !.pc = "fallback"]
    <3>2. slot.pc = "fallback" /\ request' = [request EXCEPT ![r] = slot]
      BY <2>3, <3>1 DEF Lookup, Step
    <3> HIDE DEF slot
    <3> QED BY <1>0, <2>1, <3>2, SlotSafe
  <2>4. CASE Respond(r, NoUpdate, signed, failed)
    BY <1>0, <2>1, <2>4, RespondSafe
  <2>5. ASSUME NEW u \in pick.row, Respond(r, u.id, signed, failed) PROVE DeviceInv'
    BY <1>0, <2>1, <2>2, <2>5, RespondSafe
  <2>6. ASSUME NEW u \in pick.row,
               request' = [request EXCEPT ![r] =
                 [pc |-> "store", key |-> request[r].key,
                  generation |-> request[r].generation, id |-> u.id]]
        PROVE  DeviceInv'
    <3> DEFINE slot == [pc |-> "store", key |-> request[r].key,
                        generation |-> request[r].generation, id |-> u.id]
    <3>1. /\ slot.pc = "store" /\ slot.key = request[r].key /\ slot.id = u.id
          /\ request' = [request EXCEPT ![r] = slot]
      BY <2>6
    <3> HIDE DEF slot
    <3>2. Deserved(slot)
      BY <2>2, <3>1 DEF Deserved
    <3> QED BY <1>0, <2>1, <3>1, <3>2, SlotSafe
  <2> QED BY <2>1, <2>3, <2>4, <2>5, <2>6
<1>6. CASE ResolveFallback(r)
  <2> DEFINE signed == request[r].key.signed
             failed == request[r].failed
             full == FullyRolledOut(On(request[r].key.branch))
             pick == IF full = {} THEN {} ELSE Servable({Newest(full)}, signed, failed)
  <2>1. PICK id \in OrCurrent(IdOf(pick)) : Respond(r, id, signed, failed) /\ cache' = cache
    BY <1>6 DEF ResolveFallback, Reply
  <2>2. pick # {} => Newest(pick).id \notin failed /\ (signed => Newest(pick).id \in SignedIds)
    <3>1. Rows(full)
      BY OnRows, RowsSubset DEF FullyRolledOut
    <3>2. pick \subseteq full
      <4>1. full # {} => Newest(full) \in full
        BY <3>1, NewestExists
      <4> QED BY <4>1 DEF Servable
    <3>3. \A v \in pick : v.id \notin failed /\ (signed => v.id \in SignedIds)
      BY DEF Servable
    <3> HIDE DEF pick, full
    <3> QED BY <3>1, <3>2, <3>3, RowsSubset, NewestExists
  <2> HIDE DEF pick
  <2> QED BY <1>0, <2>1, <2>2, RespondSafe DEF OrCurrent, IdOf
<1>7. CASE Store(r)
  <2> DEFINE entry == [key |-> request[r].key, generation |-> request[r].generation,
                       id |-> request[r].id]
  <2>1. /\ request[r].pc = "store"
        /\ cache' \subseteq cache \cup {entry}
        /\ Respond(r, request[r].id, request[r].key.signed, {})
    BY <1>7 DEF Store
  <2>2. entry.key = request[r].key /\ entry.id = request[r].id
    OBVIOUS
  <2> HIDE DEF entry
  <2>3. Deserved(request[r])
    BY <2>1 DEF DeviceInv
  <2>4. \A e \in cache' : Deserved(e)
    BY <1>0, <2>1, <2>2, <2>3 DEF Deserved
  <2> QED BY <2>1, <2>3, <2>4, RespondSafe DEF Deserved
<1>8. CASE Done(r)
  <2>1. Idle.pc = "idle"
    BY DEF Idle
  <2> QED BY <1>0, <1>8, <2>1, SlotSafe DEF Done
<1> QED
  BY <1>1, <1>2, <1>3, <1>4, <1>5, <1>6, <1>7, <1>8 DEF RequestStep

\* For any devices, failure reports and interleaving: no answer, from the
\* cache, the candidates or the fallback query, is an update the device
\* reported as failed or, when it expects a signature, an unsigned one.
THEOREM DeviceSafety == Spec => []DeviceSafe
<1>1. Init => DeviceInv
  BY DEF Init, DeviceInv, Idle
<1>2. ASSUME IInv, DeviceInv, [Next]_vars PROVE DeviceInv'
  <2>1. ASSUME request' = request, cache' \subseteq cache PROVE DeviceInv'
    BY <1>2, <2>1 DEF DeviceInv, Deserved, SafeAnswer
  <2>2. ASSUME NEW w \in Writers, WriterStep(w) PROVE DeviceInv'
    BY <2>1, <2>2 DEF WriterStep, PublishCheck, EditFind, DeleteFind, Write, Bump, Crash, serving
  <2>3. ASSUME NEW c \in Channels, ChannelStep(c) PROVE DeviceInv'
    BY <2>1, <2>3 DEF ChannelStep, UpdateBranchId, SetPaused, SetBranchMapping,
       CompleteBranchRollout, RevertBranchRollout, UpdateChannel, DeleteChannel,
       InsertChannel, serving
  <2>4. ASSUME NEW r \in Requests, RequestStep(r) PROVE DeviceInv'
    BY <1>2, <2>4, RequestSafe DEF IInv
  <2>5. ASSUME NEW e \in cache, Evict(e) PROVE DeviceInv'
    BY <2>1, <2>5 DEF Evict
  <2>6. CASE UNCHANGED vars
    BY <2>1, <2>6 DEF vars
  <2> QED BY <1>2, <2>2, <2>3, <2>4, <2>5, <2>6 DEF Next
<1>3. DeviceInv => DeviceSafe
  BY DEF DeviceInv, SafeAnswer, DeviceSafe
<1> QED
  BY <1>1, <1>2, <1>3, InitInv, NextInv, PTL DEF Spec

(***************************************************************************)
(* Timeliness.  The invariant says of a request at its lookup that what the *)
(* cache holds under its key, and what another request is about to store   *)
(* there, is in its history: it was when the request read the channel row, *)
(* by the coherence of both, and what is resolved later is right then.     *)
(***************************************************************************)

SameLookup(r, x) == x.key = request[r].key /\ x.generation = request[r].generation

TimelyInv ==
  \A r \in Requests : request[r].pc = "match" =>
    /\ \A e \in cache : SameLookup(r, e) => e.id \in seen[r]
    /\ \A q \in Requests : request[q].pc = "store" /\ SameLookup(r, request[q]) =>
         request[q].id \in seen[r]

\* A request's step gives its own slot a value and leaves the others.
LEMMA OneSlot ==
  ASSUME NEW r \in Requests, RequestStep(r)
  PROVE  \E slot : request' = [request EXCEPT ![r] = slot]
<1>1. ASSUME NEW id, NEW signed, NEW failed, Respond(r, id, signed, failed)
      PROVE  \E slot : request' = [request EXCEPT ![r] = slot]
  BY <1>1 DEF Respond
<1>2. ASSUME NEW pc, Step(r, pc) PROVE \E slot : request' = [request EXCEPT ![r] = slot]
  BY <1>2 DEF Step
<1>3. ASSUME NEW known \in BOOLEAN, NEW enrolled \in SUBSET used, Resolve(r, known, enrolled)
      PROVE  \E slot : request' = [request EXCEPT ![r] = slot]
  <2>1. \/ Step(r, "fallback")
        \/ \E id, signed, failed : Respond(r, id, signed, failed)
        \/ \E slot : request' = [request EXCEPT ![r] = slot]
    BY <1>3, Zenon DEF Resolve, Reply
  <2> QED BY <1>1, <1>2, <2>1
<1>4. CASE MatchHit(r) \/ ResolveFallback(r) \/ Store(r)
  BY <1>1, <1>4, Zenon DEF MatchHit, ResolveFallback, Store, Reply
<1>5. CASE \E c \in Channels, signed \in SignatureModes, failed \in FailureReports :
             ReadChannel(r, c, signed, failed) \/ ReadChannelClosed(r, c, signed, failed)
  BY <1>1, <1>5, Zenon DEF ReadChannel, ReadChannelClosed
<1>6. CASE MatchMiss(r) \/ Done(r)
  BY <1>2, <1>6 DEF MatchMiss, Done
<1> QED BY <1>3, <1>4, <1>5, <1>6 DEF RequestStep

\* Only a request's own steps change its slot.
LEMMA OwnSteps ==
  ASSUME Typed, [Next]_vars, NEW q \in Requests, request'[q] # request[q]
  PROVE  RequestStep(q)
<1>1. ASSUME NEW r \in Requests, RequestStep(r) PROVE r = q
  <2>1. PICK slot : request' = [request EXCEPT ![r] = slot]
    BY <1>1, OneSlot
  <2> QED BY <2>1 DEF Typed, TypeOK
<1>2. UNCHANGED request \/ \E r \in Requests : RequestStep(r)
  <2>1. ASSUME NEW w \in Writers, WriterStep(w) PROVE UNCHANGED request
    BY <2>1 DEF WriterStep, PublishCheck, EditFind, DeleteFind, Write, Bump, Crash, serving
  <2>2. ASSUME NEW c \in Channels, ChannelStep(c) PROVE UNCHANGED request
    BY <2>2, ChannelOutdates
  <2> QED BY <2>1, <2>2 DEF Next, Evict, vars
<1> QED BY <1>1, <1>2

\* A request at its lookup was there before the step or has just read the
\* channel row.
LEMMA LookupBegins ==
  ASSUME TypeOK, NEW r \in Requests, RequestStep(r), request'[r].pc = "match"
  PROVE  \E c \in Channels, signed \in SignatureModes, failed \in FailureReports :
           ReadChannel(r, c, signed, failed)
<1>1. ASSUME NEW id, NEW signed, NEW failed, Respond(r, id, signed, failed) PROVE FALSE
  BY <1>1 DEF Respond, TypeOK
<1>p. ASSUME NEW pc, pc # "match", Step(r, pc), request[r] \in Lookup PROVE FALSE
  BY <1>p DEF Step, TypeOK, Lookup
<1>2. ASSUME NEW known \in BOOLEAN, NEW enrolled \in SUBSET used, Resolve(r, known, enrolled)
      PROVE  FALSE
  <2>1. /\ request[r] \in Lookup
        /\ \/ Step(r, "fallback")
           \/ \E id, signed, failed : Respond(r, id, signed, failed)
           \/ \E key, born, id : request' = [request EXCEPT ![r] =
                [pc |-> "store", key |-> key, generation |-> born, id |-> id]]
    BY <1>2, Holds, Zenon DEF Resolve, Reply
  <2> QED BY <1>1, <1>p, <2>1 DEF TypeOK
<1>3. ASSUME MatchMiss(r) PROVE FALSE
  BY <1>3, <1>p, Holds DEF MatchMiss
<1>4. ASSUME MatchHit(r) \/ ResolveFallback(r) \/ Store(r) PROVE FALSE
  BY <1>1, <1>4 DEF MatchHit, ResolveFallback, Store, Reply
<1>5. ASSUME Done(r) PROVE FALSE
  BY <1>5 DEF Done, Idle, TypeOK
<1> QED BY <1>1, <1>2, <1>3, <1>4, <1>5 DEF RequestStep, ReadChannelClosed

\* What is new in the cache was about to be stored.
LEMMA Stored ==
  ASSUME Typed, [Next]_vars, NEW e \in cache', e \notin cache
  PROVE  \E q \in Requests :
           /\ request[q].pc = "store"
           /\ e.key = request[q].key /\ e.generation = request[q].generation
           /\ e.id = request[q].id
<1>1. ASSUME NEW w \in Writers, WriterStep(w) PROVE UNCHANGED cache
  BY <1>1 DEF WriterStep, PublishCheck, EditFind, DeleteFind, Write, Bump, Crash, serving
<1>2. ASSUME NEW c \in Channels, ChannelStep(c) PROVE UNCHANGED cache
  BY <1>2, ChannelOutdates
<1>3. ASSUME NEW r \in Requests, RequestStep(r), ~Store(r) PROVE UNCHANGED cache
  BY <1>3 DEF RequestStep, ReadChannel, ReadChannelClosed, MatchHit, MatchMiss, Resolve,
              ResolveFallback, Done
<1>4. PICK q \in Requests : Store(q)
  BY <1>1, <1>2, <1>3 DEF Next, Evict, vars
<1> DEFINE entry == [key |-> request[q].key, generation |-> request[q].generation,
                     id |-> request[q].id]
<1>5. e = entry /\ request[q].pc = "store"
  BY <1>4 DEF Store
<1>6. /\ entry.key = request[q].key /\ entry.generation = request[q].generation
      /\ entry.id = request[q].id
  OBVIOUS
<1> QED BY <1>5, <1>6

LEMMA RightSame ==
  ASSUME NEW key, UNCHANGED <<updates, writer, unbumped>>
  PROVE  Right(key)' = Right(key)
BY DEF Right, FreshForAll, On, Owed

\* What a request comes to be about to store is right.
LEMMA ResolvedRight ==
  ASSUME Typed, NEW q \in Requests, RequestStep(q), request'[q].pc = "store"
  PROVE  /\ request'[q].key = request[q].key /\ request'[q].generation = request[q].generation
         /\ request'[q].id \in Right(request[q].key)
         /\ UNCHANGED <<updates, writer, unbumped>>
<1>1. ASSUME NEW id, NEW signed, NEW failed, Respond(q, id, signed, failed) PROVE FALSE
  BY <1>1 DEF Respond, Typed, TypeOK
<1>2. ASSUME NEW pc, pc # "store", Step(q, pc), request[q] \in Lookup PROVE FALSE
  BY <1>2 DEF Step, Typed, TypeOK, Lookup
<1>3. ASSUME NEW c \in Channels, NEW signed \in SignatureModes, NEW failed \in FailureReports,
             ReadChannel(q, c, signed, failed) \/ ReadChannelClosed(q, c, signed, failed)
      PROVE  FALSE
  BY <1>1, <1>3 DEF ReadChannel, ReadChannelClosed, Typed, TypeOK
<1>4. ASSUME MatchHit(q) \/ ResolveFallback(q) \/ Store(q) PROVE FALSE
  BY <1>1, <1>4 DEF MatchHit, ResolveFallback, Store, Reply
<1>5. ASSUME MatchMiss(q) PROVE FALSE
  BY <1>2, <1>5, Holds DEF MatchMiss, Typed
<1>6. ASSUME Done(q) PROVE FALSE
  BY <1>6 DEF Done, Idle, Typed, TypeOK
<1>7. PICK known \in BOOLEAN, enrolled \in SUBSET used : Resolve(q, known, enrolled)
  BY <1>3, <1>4, <1>5, <1>6 DEF RequestStep
<1> DEFINE b == request[q].key.branch
           signed == request[q].key.signed
           failed == request[q].failed
           pick == ResolveRollout(Servable(Candidates(On(b)), signed, failed), known, enrolled)
<1>8. /\ request[q] \in Lookup /\ UNCHANGED <<updates, writer, unbumped>>
      /\ \/ Step(q, "fallback")
         \/ \E id : Respond(q, id, signed, failed)
         \/ \E u \in pick.row :
              /\ IsCacheable(Candidates(On(b))) /\ failed = {}
              /\ request' = [request EXCEPT ![q] =
                   [pc |-> "store", key |-> request[q].key,
                    generation |-> request[q].generation, id |-> u.id]]
  BY <1>7, Holds DEF Resolve, Reply, writing, Typed
<1>9. PICK u \in pick.row :
         /\ IsCacheable(Candidates(On(b))) /\ failed = {}
         /\ request' = [request EXCEPT ![q] =
              [pc |-> "store", key |-> request[q].key,
               generation |-> request[q].generation, id |-> u.id]]
  BY <1>1, <1>2, <1>8
<1>10. FreshForAll(b, signed, u.id)
  BY <1>9, CacheableForAll
<1>11. u.id \in Ids
  BY <1>9, PickType, OnRows DEF Typed, TypeOK, Row
<1> HIDE DEF pick
<1> QED BY <1>8, <1>9, <1>10, <1>11 DEF Right, Typed, TypeOK

\* One step of the history keeps it complete.
LEMMA TimelyStep ==
  ASSUME IInv, IInv', TimelyInv, HistoryNext
  PROVE  TimelyInv'
<1> SUFFICES ASSUME NEW r \in Requests, request'[r].pc = "match"
             PROVE  /\ \A e \in cache' : SameLookup(r, e)' => e.id \in seen'[r]
                    /\ \A q \in Requests :
                         request'[q].pc = "store" /\ SameLookup(r, request[q])' =>
                           request'[q].id \in seen'[r]
  BY DEF TimelyInv
<1> PICK now : now = request'[r]
  OBVIOUS
<1>0. /\ Typed /\ Typed' /\ [Next]_vars /\ seen'[r] = seen[r] \cup Right(now.key)'
  BY DEF IInv, HistoryNext, Right, FreshForAll, On, Owed
<1>1. /\ \A x : SameLookup(r, x)' <=> x.key = now.key /\ x.generation = now.generation
      /\ \A q : SameLookup(r, request[q])' <=>
                  request'[q].key = now.key /\ request'[q].generation = now.generation
  BY DEF SameLookup
<1>2. \A e \in cache' : e.id \in Ids
  BY <1>0 DEF Typed, TypeOK, Entry
<1>3. \A q \in Requests : request'[q].pc = "store" => request'[q].id \in Ids
  BY <1>0 DEF Typed, TypeOK, Lookup, Fill, Answer, Idle
<1>4. CASE request'[r] # request[r]
  <2>1. RequestStep(r)
    BY <1>0, <1>4, OwnSteps
  <2>2. PICK c \in Channels, signed \in SignatureModes, failed \in FailureReports :
          ReadChannel(r, c, signed, failed)
    BY <1>0, <2>1, LookupBegins DEF Typed
  <2>3. /\ now.key.channel = c /\ now.key.version = channel[c].version
        /\ now.generation = generation[c] /\ channel[c].live
        /\ UNCHANGED <<channel, generation>>
    BY <2>2 DEF ReadChannel, routing, Typed, TypeOK, IInv
  <2>4. \A x : x.key = now.key /\ x.generation = now.generation => Current(x)'
    BY <2>3 DEF Current
  <2>5. \A x : Current(x)' /\ FreshOrOwed(x)' /\ x.id \in Ids /\ x.key = now.key => x.id \in Right(now.key)'
    BY DEF FreshOrOwed, Right
  <2>6. ASSUME NEW e \in cache', SameLookup(r, e)' PROVE e.id \in Right(now.key)'
    BY <1>1, <1>2, <2>4, <2>5, <2>6 DEF IInv, CacheInv, Coherent
  <2>7. ASSUME NEW q \in Requests, request'[q].pc = "store", SameLookup(r, request[q])'
        PROVE  request'[q].id \in Right(now.key)'
    <3>1. request'[q].key = now.key /\ request'[q].generation = now.generation
      BY <1>1, <2>7
    <3>2. Current(request[q])'
      BY <2>3, <3>1 DEF Current
    <3>3. FreshOrOwed(request[q])'
      BY <2>7, <3>2 DEF IInv, RequestInv, Coherent
    <3> QED BY <1>3, <2>7, <3>1, <3>3 DEF FreshOrOwed, Right
  <2> QED BY <1>0, <2>6, <2>7
<1>5. CASE request'[r] = request[r]
  <2>1. \A x : SameLookup(r, x)' <=> SameLookup(r, x)
    BY <1>5 DEF SameLookup
  <2>2. ASSUME NEW e \in cache', SameLookup(r, e)' PROVE e.id \in seen[r]
    <3>1. CASE e \in cache
      BY <1>5, <2>1, <2>2, <3>1 DEF TimelyInv
    <3>2. CASE e \notin cache
      <4>1. PICK q \in Requests : /\ request[q].pc = "store"
                                  /\ e.key = request[q].key
                                  /\ e.generation = request[q].generation
                                  /\ e.id = request[q].id
        BY <1>0, <3>2, Stored
      <4>2. SameLookup(r, request[q])
        BY <1>1, <1>5, <2>2, <4>1 DEF SameLookup
      <4> QED BY <1>5, <4>1, <4>2 DEF TimelyInv
    <3> QED BY <3>1, <3>2
  <2>3. ASSUME NEW q \in Requests, request'[q].pc = "store", SameLookup(r, request[q])'
        PROVE  request'[q].id \in seen[r] \cup Right(now.key)'
    <3>1. CASE request'[q] = request[q]
      BY <1>1, <1>5, <2>3, <3>1 DEF TimelyInv, SameLookup
    <3>2. CASE request'[q] # request[q]
      <4>1. RequestStep(q)
        BY <1>0, <3>2, OwnSteps
      <4>2. /\ request'[q].key = request[q].key
            /\ request'[q].id \in Right(request[q].key)
            /\ UNCHANGED <<updates, writer, unbumped>>
        BY <1>0, <2>3, <4>1, ResolvedRight
      <4>3. request[q].key = now.key
        BY <1>1, <2>3, <4>2
      <4> QED BY <4>2, <4>3, RightSame
    <3> QED BY <3>1, <3>2
  <2> QED BY <1>0, <2>2, <2>3
<1> QED BY <1>4, <1>5

\* For any number of writers, channels and requests: whatever the cache may
\* answer a request was right at some moment since it read the channel row, or
\* the bump of a write was still owed then, unless the channel was created
\* again under its name.  One device never learns of a release by a stale
\* answer that another one's fill put in its way: the key is built before the rows are
\* read and used to store after (handlers/manifest.ts:226, manifest-cache.ts:80-84).
THEOREM AnswersAreTimely == HistorySpec => []HitsAreTimely
<1>1. HistoryInit => IInv /\ TimelyInv
  BY InitInv DEF HistoryInit, Init, TimelyInv, Idle
<1>2. IInv /\ [HistoryNext]_historyVars => IInv'
  BY NextInv DEF HistoryNext, historyVars
<1>3. IInv /\ IInv' /\ TimelyInv /\ [HistoryNext]_historyVars => TimelyInv'
  <2>1. TimelyInv /\ UNCHANGED historyVars => TimelyInv'
    BY DEF TimelyInv, SameLookup, historyVars, vars
  <2> QED BY <2>1, TimelyStep
<1>4. TimelyInv => HitsAreTimely
  BY DEF TimelyInv, HitsAreTimely, Hits, SameLookup
<1> QED BY <1>1, <1>2, <1>3, <1>4, PTL DEF HistorySpec
=============================================================================
