---------------------------- MODULE ManifestCache ----------------------------
(***************************************************************************)
(* The release path of the server around its one cache: writers that       *)
(* change a branch's update rows and THEN, in a second D1 statement, bump  *)
(* the cache version of every channel that references the branch; channel  *)
(* statements that change routing and version together; and manifest       *)
(* requests that read the channel row, look the edge cache up under the    *)
(* version they read, resolve the rows on a miss, and store the result     *)
(* under that same, possibly outdated, key.                                *)
(*                                                                         *)
(* One (platform, runtimeVersion) pair and one edge location are           *)
(* modelled: both are fixed per request and neither interacts with another *)
(* one.  Every D1 statement and every cache call is a step of its own.     *)
(* Embedded baselines are left out, and with them the row a publish of one *)
(* deletes before its insert (reconcileEmbeddedBaselineId): a publish that *)
(* dies in between owes a bump that `unbumped' does not record.            *)
(***************************************************************************)
EXTENDS UpdateRows, FiniteSets

CONSTANTS
  Channels,       \* channel names of the project
  Branches,
  Ids,            \* update ids, as ranks in (created_at, id) order
  SignedIds,      \* the updates that carry a code signature
  Percentages,    \* rollout percentages in use
  FailureReports, \* values of the Expo-Recent-Failed-Update-IDs header
  SignatureModes, \* whether devices send expo-expect-signature
  Writers,        \* concurrent management requests that write update rows
  Requests,       \* concurrent manifest requests
  MaxVersion,     \* bound: versions a channel row reaches
  MaxGeneration   \* bound: times a channel name is created again

ASSUME ManifestCacheAssumption ==
  /\ Ids \subseteq Nat
  /\ NoUpdate \notin Ids
  /\ SignedIds \subseteq Ids
  /\ Percentages \subseteq 0..100
  /\ FailureReports \subseteq SUBSET Ids
  /\ SignatureModes \subseteq BOOLEAN
  /\ Branches # {}

VARIABLES
  updates,    \* rows of the updates table
  used,       \* every id ever inserted (ids are UUIDs, never reused)
  channel,    \* channel rows, by name; an absent row is a row with live = FALSE
  generation, \* how often each channel name was created (history)
  cache,      \* entries of the edge cache
  writer,     \* what each management request is about to do
  unbumped,   \* branches whose writer died between its write and its bump
  request     \* what each manifest request is about to do, or its answer

vars == <<updates, used, channel, generation, cache, writer, unbumped,
          request>>

Row == [id : Ids, branch : Branches, pct : 0..100]

\* The rows of the tuple on a branch.
On(b) == {u \in updates : u.branch = b}

(***************************************************************************)
(* Routing.  A channel row routes to its branch_id, or, while its          *)
(* branch_mapping_json is set, to one of the mapping's branches (which one *)
(* is the device's hash).                                                  *)
(***************************************************************************)
Targets(row) == IF row.mapping = {} THEN {row.branch} ELSE row.mapping

\* The branches the bump predicate finds in a channel row.
References(row) == {row.branch} \cup row.mapping

ChannelRow == [branch : Branches, mapping : SUBSET Branches, live : BOOLEAN,
               paused : BOOLEAN, version : Nat]

Idle == [pc |-> "idle"]

Job == [id : Ids, branch : Branches, pct : 0..100, pc : {"write", "bump"},
        op : {"publish", "edit", "delete"}]

\* What buildCacheKey distinguishes.  Scope, project, platform, runtime
\* version and multipart are fixed in a model of one tuple.
Key == [channel : Channels, branch : Branches, version : Nat, signed : BOOLEAN]

\* `generation' is history: which incarnation of the channel the data was
\* read for.  The code keeps no such thing, and no guard looks at it.
Entry == [generation : Nat, id : Ids, key : Key]

Lookup == [generation : Nat, pc : {"match", "resolve", "fallback"}, key : Key,
           failed : SUBSET Ids]

Fill == [generation : Nat, id : Ids, pc : {"store"}, key : Key]

Answer == [id : Ids \cup {NoUpdate}, pc : {"answered"}, signed : BOOLEAN,
           failed : SUBSET Ids]

TypeOK ==
  /\ updates \subseteq Row
  /\ used \subseteq Ids
  /\ channel \in [Channels -> ChannelRow]
  /\ generation \in [Channels -> Nat]
  /\ cache \subseteq Entry
  /\ writer \in [Writers -> Job \cup {Idle}]
  /\ unbumped \subseteq Branches
  /\ request \in [Requests -> Lookup \cup Fill \cup Answer \cup {Idle}]

NewChannel(b) == [live |-> TRUE, branch |-> b, mapping |-> {},
                  paused |-> FALSE, version |-> 0]

Init ==
  /\ updates = {}
  /\ used = {}
  /\ \E b \in Branches : channel = [c \in Channels |-> NewChannel(b)]
  /\ generation = [c \in Channels |-> 0]
  /\ cache = {}
  /\ writer = [w \in Writers |-> Idle]
  /\ unbumped = {}
  /\ request = [r \in Requests |-> Idle]

(***************************************************************************)
(* Management requests that write update rows.                             *)
(***************************************************************************)
writing   == <<updates, used, writer, unbumped>>
routing   == <<channel, generation>>
serving   == <<cache, request>>

\* The publish Durable Object of a branch admits one operation at a time.
PublishLocked(b) ==
  \E w \in Writers : writer[w].pc # "idle" /\ writer[w].op = "publish"
                                       /\ writer[w].branch = b

Reserved == used \cup {writer[w].id : w \in {v \in Writers : writer[v] # Idle}}

\* publishUpdate / republishUpdate up to the insert: no active rollout on the
\* newest row, and a signed update must be newer than the row served now.
PublishCheck(w, b, id, pct) ==
  /\ writer[w] = Idle
  /\ ~PublishLocked(b)
  /\ id \notin Reserved
  /\ pct # 0
  /\ ~HasActiveRollout(On(b))
  /\ id \in SignedIds => \A u \in On(b) : u.id < id
  /\ writer' = [writer EXCEPT ![w] =
       [pc |-> "write", op |-> "publish", branch |-> b, id |-> id, pct |-> pct]]
  /\ UNCHANGED <<updates, used, unbumped, routing, serving>>

\* editRollout, completeRollout (100), revertRollout (0): the update is read
\* for its branch, whatever its place among the branch's updates.
EditFind(w, u, pct) ==
  /\ writer[w] = Idle
  /\ writer' = [writer EXCEPT ![w] =
       [pc |-> "write", op |-> "edit", branch |-> u.branch, id |-> u.id, pct |-> pct]]
  /\ UNCHANGED <<updates, used, unbumped, routing, serving>>

\* deleteGroup: the group's rows are read first.  A group is one update here.
DeleteFind(w, u) ==
  /\ writer[w] = Idle
  /\ writer' = [writer EXCEPT ![w] =
       [pc |-> "write", op |-> "delete", branch |-> u.branch, id |-> u.id, pct |-> 0]]
  /\ UNCHANGED <<updates, used, unbumped, routing, serving>>

\* Mutant: the edit adds to the percentage instead of setting it.
WrittenAdding(job) ==
  CASE job.op = "publish" -> updates \cup {[id |-> job.id, branch |-> job.branch, pct |-> job.pct]}
    [] job.op = "edit"    -> {IF u.id = job.id THEN [u EXCEPT !.pct = @ + job.pct] ELSE u : u \in updates}
    [] job.op = "delete"  -> {u \in updates : u.id # job.id}

\* What the write statement of a job makes of the update rows.
Written(job) ==
  CASE job.op = "publish" -> updates \cup {[id |-> job.id, branch |-> job.branch, pct |-> job.pct]}
    [] job.op = "edit"    -> {IF u.id = job.id THEN [u EXCEPT !.pct = job.pct] ELSE u : u \in updates}
    [] job.op = "delete"  -> {u \in updates : u.id # job.id}

Write(w) ==
  /\ writer[w].pc = "write"
  /\ updates' = Written(writer[w])
  /\ used' = used \cup {u.id : u \in updates'}
  /\ writer' = [writer EXCEPT ![w].pc = "bump"]
  /\ UNCHANGED <<unbumped, routing, serving>>

\* bumpCacheVersionByBranch: one UPDATE over every channel of any project
\* that references the branch.
Bumped(b) ==
  [c \in Channels |-> IF channel[c].live /\ b \in References(channel[c])
                      THEN [channel[c] EXCEPT !.version = @ + 1]
                      ELSE channel[c]]

Bump(w) ==
  /\ writer[w].pc = "bump"
  /\ \A c \in Channels : Bumped(writer[w].branch)[c].version <= MaxVersion
  /\ channel' = Bumped(writer[w].branch)
  /\ unbumped' = unbumped \ {writer[w].branch}
  /\ writer' = [writer EXCEPT ![w] = Idle]
  /\ UNCHANGED <<updates, used, generation, serving>>

\* The Worker or Durable Object dies, or its next D1 call fails.
Crash(w) ==
  /\ writer[w] # Idle
  /\ unbumped' = IF writer[w].pc = "bump" THEN unbumped \cup {writer[w].branch} ELSE unbumped
  /\ writer' = [writer EXCEPT ![w] = Idle]
  /\ UNCHANGED <<updates, used, routing, serving>>

(***************************************************************************)
(* Statements on channel rows.  Each of them moves the version in the same *)
(* UPDATE.  What the handlers check before them is read separately and may *)
(* be out of date, so here they come in any order.                         *)
(***************************************************************************)
UpdateChannel(c, row) ==
  /\ channel[c].live
  /\ channel[c].version < MaxVersion
  /\ channel' = [channel EXCEPT ![c] = [row EXCEPT !.version = @ + 1]]
  /\ UNCHANGED <<generation, writing, serving>>

UpdateBranchId(c, b) == UpdateChannel(c, [channel[c] EXCEPT !.branch = b])

SetPaused(c, p) == UpdateChannel(c, [channel[c] EXCEPT !.paused = p])

\* buildBranchMapping: the new branch, and the channel's own as the last entry.
SetBranchMapping(c, new) ==
  /\ new # channel[c].branch
  /\ UpdateChannel(c, [channel[c] EXCEPT !.mapping = {new, channel[c].branch}])

CompleteBranchRollout(c, new) ==
  /\ new \in channel[c].mapping
  /\ UpdateChannel(c, [channel[c] EXCEPT !.branch = new, !.mapping = {}])

RevertBranchRollout(c) == UpdateChannel(c, [channel[c] EXCEPT !.mapping = {}])

DeleteChannel(c) ==
  /\ channel[c].live
  /\ channel' = [channel EXCEPT ![c].live = FALSE]
  /\ UNCHANGED <<generation, writing, serving>>

\* A new row under the same name starts over at cache_version 0.
InsertChannel(c, b) ==
  /\ ~channel[c].live
  /\ generation[c] < MaxGeneration
  /\ channel' = [channel EXCEPT ![c] = NewChannel(b)]
  /\ generation' = [generation EXCEPT ![c] = @ + 1]
  /\ UNCHANGED <<writing, serving>>

(***************************************************************************)
(* Manifest requests.                                                      *)
(***************************************************************************)
Respond(r, id, signed, failed) ==
  request' = [request EXCEPT ![r] =
    [pc |-> "answered", id |-> id, signed |-> signed, failed |-> failed]]

\* The slot is free for another device.
Done(r) ==
  /\ request[r].pc = "answered"
  /\ request' = [request EXCEPT ![r] = Idle]
  /\ UNCHANGED <<cache, writing, routing>>

Step(r, pc) == request' = [request EXCEPT ![r].pc = pc]

\* What is left of a pick when the device may already run it (304-like 204).
OrCurrent(id) == {id, NoUpdate}

\* serveRequest: read the channel row, route, build the cache key.
ReadChannel(r, c, signed, failed) ==
  /\ request[r] = Idle
  /\ channel[c].live
  /\ ~channel[c].paused
  /\ \E b \in Targets(channel[c]) :
       request' = [request EXCEPT ![r] =
         [pc |-> "match", generation |-> generation[c], failed |-> failed,
          key |-> [channel |-> c, version |-> channel[c].version,
                   branch |-> b, signed |-> signed]]]
  /\ UNCHANGED <<cache, writing, routing>>

\* An unknown or paused channel answers at once.
ReadChannelClosed(r, c, signed, failed) ==
  /\ request[r] = Idle
  /\ channel[c].live => channel[c].paused
  /\ Respond(r, NoUpdate, signed, failed)
  /\ UNCHANGED <<cache, writing, routing>>

Hits(r) == {e \in cache : e.key = request[r].key /\ e.id \notin request[r].failed}

MatchHit(r) ==
  /\ request[r].pc = "match"
  /\ \E e \in Hits(r), id \in Ids \cup {NoUpdate} :
       /\ id \in OrCurrent(e.id)
       /\ Respond(r, id, request[r].key.signed, request[r].failed)
  /\ UNCHANGED <<cache, writing, routing>>

MatchMiss(r) ==
  /\ request[r].pc = "match"
  /\ Hits(r) = {}
  /\ Step(r, "resolve")
  /\ UNCHANGED <<cache, writing, routing>>

\* dropUnsignedWhenExpected after skipFailedUpdates.
Servable(S, signed, failed) ==
  {u \in S : u.id \notin failed /\ (signed => u.id \in SignedIds)}

\* Mutant: one fully rolled out candidate is enough to cache the pick.
IsCacheableAny(S) == \E u \in S : u.pct = 100

IsCacheable(S) == \A u \in S : u.pct = 100

Reply(r, id) == Respond(r, id, request[r].key.signed, request[r].failed)

\* handleCacheMiss: read the candidates, narrow them, pick one.  `known' and
\* `enrolled' are the device's rollout standing.
Resolve(r, known, enrolled) ==
  LET candidates == Candidates(On(request[r].key.branch))
      servable   == Servable(candidates, request[r].key.signed, request[r].failed)
      pick       == ResolveRollout(servable, known, enrolled)
  IN
  /\ request[r].pc = "resolve"
  /\ \/ pick.fallback /\ Step(r, "fallback")
     \/ ~pick.fallback /\ pick.row = {} /\ Reply(r, NoUpdate)
     \/ \E u \in pick.row :
          \/ Reply(r, NoUpdate)   \* expo-current-update-id is the pick
          \/ /\ ~(IsCacheable(candidates) /\ request[r].failed = {})
             /\ Reply(r, u.id)
          \/ /\ IsCacheable(candidates) /\ request[r].failed = {}
             /\ request' = [request EXCEPT ![r] =
                  [pc |-> "store", key |-> request[r].key,
                   generation |-> request[r].generation, id |-> u.id]]
  /\ UNCHANGED <<cache, writing, routing>>

\* Mutant: the fallback pick is served without the final guard.
ResolveFallbackUnguarded(r) ==
  /\ request[r].pc = "fallback"
  /\ \E id \in OrCurrent(IdOf(FullyRolledOut(On(request[r].key.branch)))) : Reply(r, id)
  /\ UNCHANGED <<cache, writing, routing>>

\* resolveFullyRolledOutUpdate, then the final guard.
ResolveFallback(r) ==
  LET full == FullyRolledOut(On(request[r].key.branch))
      pick == IF full = {} THEN {}
              ELSE Servable({Newest(full)}, request[r].key.signed, request[r].failed)
  IN
  /\ request[r].pc = "fallback"
  /\ \E id \in OrCurrent(IdOf(pick)) : Reply(r, id)
  /\ UNCHANGED <<cache, writing, routing>>

\* Mutant: the key is built when storing, from the channel's version by then.
StoreUnderCurrentVersion(r) ==
  LET key == [request[r].key EXCEPT !.version = channel[request[r].key.channel].version] IN
  /\ request[r].pc = "store"
  /\ cache' = {e \in cache : e.key # key} \cup
              {[key |-> key, generation |-> request[r].generation, id |-> request[r].id]}
  /\ Respond(r, request[r].id, request[r].key.signed, {})
  /\ UNCHANGED <<writing, routing>>

\* storeCachedResponse under the key built at the start, and the response.
Store(r) ==
  /\ request[r].pc = "store"
  /\ cache' = {e \in cache : e.key # request[r].key} \cup
              {[key |-> request[r].key, generation |-> request[r].generation,
                id |-> request[r].id]}
  /\ Respond(r, request[r].id, request[r].key.signed, {})
  /\ UNCHANGED <<writing, routing>>

\* The edge drops an entry: its TTL of a day, or LRU pressure.
Evict(e) ==
  /\ cache' = cache \ {e}
  /\ UNCHANGED <<request, writing, routing>>

WriterStep(w) ==
  \/ \E b \in Branches, id \in Ids, pct \in Percentages : PublishCheck(w, b, id, pct)
  \/ \E u \in updates, pct \in Percentages : EditFind(w, u, pct)
  \/ \E u \in updates : DeleteFind(w, u)
  \/ Write(w)
  \/ Bump(w)
  \/ Crash(w)

ChannelStep(c) ==
  \/ \E b \in Branches : UpdateBranchId(c, b)
  \/ \E p \in BOOLEAN : SetPaused(c, p)
  \/ \E b \in Branches : SetBranchMapping(c, b)
  \/ \E b \in Branches : CompleteBranchRollout(c, b)
  \/ RevertBranchRollout(c)
  \/ DeleteChannel(c)
  \/ \E b \in Branches : InsertChannel(c, b)

RequestStep(r) ==
  \/ \E c \in Channels, signed \in SignatureModes, failed \in FailureReports :
       ReadChannel(r, c, signed, failed) \/ ReadChannelClosed(r, c, signed, failed)
  \/ MatchHit(r)
  \/ MatchMiss(r)
  \/ \E known \in BOOLEAN, enrolled \in SUBSET used : Resolve(r, known, enrolled)
  \/ ResolveFallback(r)
  \/ Store(r)
  \/ Done(r)

Next ==
  \/ \E w \in Writers : WriterStep(w)
  \/ \E c \in Channels : ChannelStep(c)
  \/ \E r \in Requests : RequestStep(r)
  \/ \E e \in cache : Evict(e)

Spec == Init /\ [][Next]_vars

(***************************************************************************)
(* Properties.                                                             *)
(***************************************************************************)

\* A bump is owed to the branch's channels: a writer is between its two
\* statements, or died there.
Owed(b) ==
  \/ b \in unbumped
  \/ \E w \in Writers : writer[w].pc = "bump" /\ writer[w].branch = b

\* Resolving the branch's rows now serves `id' to every device that reports
\* no failures, whatever its rollout standing: the only thing a shared cache
\* may hold.
FreshForAll(b, signed, id) ==
  \A known \in BOOLEAN, enrolled \in SUBSET Ids :
    \E u \in ResolveRollout(Servable(Candidates(On(b)), signed, {}), known, enrolled).row :
      u.id = id

\* Read for the channel as it is now: same incarnation, same version.
Current(x) ==
  LET row == channel[x.key.channel] IN
  /\ row.live
  /\ x.generation = generation[x.key.channel]
  /\ x.key.version = row.version

FreshOrOwed(x) ==
  FreshForAll(x.key.branch, x.key.signed, x.id) \/ Owed(x.key.branch)

\* Every cache entry that a request reading the channel row now would hit is
\* what resolving the rows now would give, except while a writer of that
\* branch has written and not bumped.  In particular no interleaving of
\* lookups, fills and writers stores an outdated answer under the current
\* version, and a reverted or partially rolled out update is not there.
CacheCoherent == \A e \in cache : Current(e) => FreshOrOwed(e)

\* What a request holds and is about to store is coherent in the same way:
\* the version it read BEFORE the rows is no longer current once a write it
\* did not see has been bumped.
FillCoherent ==
  \A r \in Requests : request[r].pc = "store" =>
                        (Current(request[r]) => FreshOrOwed(request[r]))

\* A request that reads the channel row now may look this entry up.
Matchable(e) ==
  LET row == channel[e.key.channel] IN
  /\ row.live /\ ~row.paused
  /\ e.key.version = row.version
  /\ e.key.branch \in Targets(row)

\* What docs/specs/server/10-caching.md promises of the version in the key:
\* "stale entries are never matched".  The code moves the version in a second
\* statement, so it does not hold between the two, nor after a writer died
\* there.
StaleNeverMatched ==
  \A e \in cache : Matchable(e) => FreshForAll(e.key.branch, e.key.signed, e.id)

\* A device is never answered with an update it just reported as failed, nor,
\* when it expects a signature, with an unsigned one: from the cache, from
\* the candidates or from the fallback query.
DeviceSafe ==
  \A r \in Requests :
    request[r].pc = "answered" /\ request[r].id # NoUpdate =>
      /\ request[r].id \notin request[r].failed
      /\ request[r].signed => request[r].id \in SignedIds
=============================================================================
