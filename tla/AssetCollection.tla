--------------------------- MODULE AssetCollection ---------------------------
(***************************************************************************)
(* The life of an asset, keyed by its hash: its row in D1, its object in   *)
(* R2 and the rows of update_assets that refer to it.  Publishers register *)
(* an asset, upload it, finalize it and then insert an update that refers  *)
(* to it; collectors (the deletion of an update group and the OTA reaper)  *)
(* delete updates and then the assets nobody refers to any more.  Others   *)
(* delete updates and leave the assets: the deletion of a branch or of a   *)
(* project, and the replacement of an embedded baseline.  Every statement  *)
(* to D1 and every call to R2 is a step of its own, and nothing locks the  *)
(* assets.                                                                 *)
(***************************************************************************)
EXTENDS Naturals, FiniteSets

CONSTANTS
  Hashes,       \* content hashes of the assets
  Updates,      \* ids of updates; a client may pin one that was used before
  Publishers,   \* concurrent runs of the publishing command
  Collectors,   \* concurrent deletions of groups and runs of the reaper
  ChunkSize     \* hashes in one DELETE FROM assets (IN_CHUNK)

ASSUME AssetCollectionAssumption == ChunkSize \in Nat \ {0}

VARIABLES
  asset,      \* the row: none, pending (byte_size 0) or ready
  object,     \* hashes with an R2 object
  refs,       \* update_assets: pairs of an update and a hash
  pub,        \* what each publisher is about to do
  col,        \* what each collector is about to do
  late,       \* history: references inserted while a collector was deleting their asset
  unread,     \* history: references inserted under an id that a collector had read
  tracked,    \* history: referred-to hashes that collection answers for
  bare        \* history: hashes whose object is missing since an actor failed

refVars == <<refs, late, unread>>
assetVars == <<asset, object, refVars, pub, col, tracked, bare>>

Idle == [pc |-> "idle"]

\* `stage' is what is left to do for each hash of the update to be published.
Uploader == [hashes : SUBSET Hashes, pc : {"register", "upload"},
             stage : [Hashes -> {"new", "put", "find", "head", "size", "done"}]]

\* A create request or a republish at the server; "write" is past the look-up of
\* a pinned id.
Creator == [update : Updates, hashes : SUBSET Hashes, pc : {"insert", "write"}]

Collector == [us : SUBSET Updates, hashes : SUBSET Hashes, keys : SUBSET Hashes,
              pc : {"hashes", "rows", "orphans", "keys", "objects", "assets"}]

AssetTypeOK ==
  /\ asset \in [Hashes -> {"none", "pending", "ready"}]
  /\ object \subseteq Hashes
  /\ refs \subseteq Updates \X Hashes
  /\ pub \in [Publishers -> Uploader \cup Creator \cup {Idle}]
  /\ col \in [Collectors -> Collector \cup {Idle}]
  /\ late \cup unread \subseteq refs
  /\ tracked \cup bare \subseteq Hashes

AssetInit ==
  /\ asset = [h \in Hashes |-> "none"]
  /\ object = {}
  /\ pub = [p \in Publishers |-> Idle]
  /\ col = [c \in Collectors |-> Idle]
  /\ refs = {} /\ late = {} /\ unread = {}
  /\ tracked = {} /\ bare = {}

Referrers(h) == {r[1] : r \in {q \in refs : q[2] = h}}
HashesOf(us) == {r[2] : r \in {q \in refs : q[1] \in us}}
Live(u) == \E r \in refs : r[1] = u

\* One batch: the rows of update_assets and of updates.
RemoveReferences(us) ==
  /\ refs' = {r \in refs : r[1] \notin us}
  /\ late' = {r \in late : r[1] \notin us}
  /\ unread' = {r \in unread : r[1] \notin us}

\* Hashes that lose their last referrer with these updates.
LastOf(us) == {h \in HashesOf(us) : Referrers(h) \subseteq us}

\* Updates are deleted by somebody who does not look for orphans afterwards.
Abandon(us) == RemoveReferences(us) /\ tracked' = tracked \ LastOf(us)

ColAt(c, pc) == col[c] # Idle /\ col[c].pc = pc

\* A collector has found the hash an orphan and is deleting its asset.
Condemned(h) ==
  \E c \in Collectors : /\ ColAt(c, "keys") \/ ColAt(c, "objects") \/ ColAt(c, "assets")
                        /\ h \in col[c].hashes

\* A collector has read what the update referred to and is about to delete it.
Noted(u) == \E c \in Collectors : ColAt(c, "rows") /\ u \in col[c].us

\* What a failure leaves behind: rows without an object.
Bare(hs) == {h \in hs \ object : asset[h] # "none"}

(***************************************************************************)
(* Publishing.                                                             *)
(***************************************************************************)
PubUnchanged == UNCHANGED <<refVars, col, tracked, bare>>

Mark(p, h, stage) == pub' = [pub EXCEPT ![p].stage[h] = stage]

\* The hashes this publisher has been told to upload and has not.
Owed(p) ==
  IF pub[p] = Idle \/ pub[p].pc # "upload" THEN {}
  ELSE {h \in pub[p].hashes : pub[p].stage[h] = "put"}

\* The command fails, is killed, or a request of it is refused.
QuitPublishing(p) ==
  /\ pub[p] # Idle
  /\ pub' = [pub EXCEPT ![p] = Idle]
  /\ bare' = bare \cup Bare(Owed(p))
  /\ UNCHANGED <<asset, object, refVars, col, tracked>>

\* upload: read the rows; everything that is not ready is to be uploaded.
Upload(p, hs) ==
  /\ pub[p] = Idle
  /\ pub' = [pub EXCEPT ![p] =
       [hashes |-> hs, pc |-> "register",
        stage |-> [h \in Hashes |->
                     CASE h \notin hs \/ asset[h] = "ready" -> "done"
                       [] h \in hs /\ asset[h] = "pending" -> "put"
                       [] h \in hs /\ asset[h] = "none" -> "new"]]]
  /\ UNCHANGED <<asset, object>> /\ PubUnchanged

\* insertBatch, ON CONFLICT DO NOTHING, and the presigned URLs.
Register(p) ==
  /\ pub[p] # Idle /\ pub[p].pc = "register"
  /\ asset' = [h \in Hashes |->
       IF asset[h] = "none" /\ pub[p].stage[h] = "new" THEN "pending" ELSE asset[h]]
  /\ pub' = [pub EXCEPT ![p].pc = "upload",
       ![p].stage = [h \in Hashes |-> IF @[h] = "new" THEN "put" ELSE @[h]]]
  /\ UNCHANGED object /\ PubUnchanged

PutAsset(p, h) ==
  /\ h \in Owed(p)
  /\ object' = object \cup {h}
  /\ bare' = bare \ {h}
  /\ Mark(p, h, "find")
  /\ UNCHANGED <<asset, refVars, col, tracked>>

At(p, h, stage) ==
  pub[p] # Idle /\ pub[p].pc = "upload" /\ h \in pub[p].hashes /\ pub[p].stage[h] = stage

\* finalize: read the row.
FinalizeFind(p, h) ==
  /\ At(p, h, "find")
  /\ \/ asset[h] = "none" /\ QuitPublishing(p)
     \/ asset[h] = "ready" /\ Mark(p, h, "done") /\ UNCHANGED <<asset, object>> /\ PubUnchanged
     \/ asset[h] = "pending" /\ Mark(p, h, "head") /\ UNCHANGED <<asset, object>> /\ PubUnchanged

\* finalize: the HEAD request to R2.
FinalizeHead(p, h) ==
  /\ At(p, h, "head")
  /\ IF h \in object
     THEN Mark(p, h, "size") /\ UNCHANGED <<asset, object>> /\ PubUnchanged
     ELSE QuitPublishing(p)

\* finalize: updateByteSize, which changes nothing when the row is gone.
FinalizeSize(p, h) ==
  /\ At(p, h, "size")
  /\ asset' = [asset EXCEPT ![h] = IF @ = "none" THEN @ ELSE "ready"]
  /\ Mark(p, h, "done")
  /\ UNCHANGED object /\ PubUnchanged

\* The request that creates the update, under an id the client may have pinned:
\* assertAssetsExist.
CheckAssets(p, u) ==
  /\ pub[p] # Idle /\ pub[p].pc = "upload"
  /\ \A h \in pub[p].hashes : pub[p].stage[h] = "done"
  /\ IF \A h \in pub[p].hashes : asset[h] = "ready"
     THEN /\ pub' = [pub EXCEPT ![p] = [update |-> u, hashes |-> @.hashes, pc |-> "insert"]]
          /\ UNCHANGED <<asset, object>> /\ PubUnchanged
     ELSE QuitPublishing(p)

\* republish: the assets of an existing update, which are not looked at again,
\* under an id made up by the server.
Republish(p, u, source) ==
  /\ pub[p] = Idle
  /\ ~Live(u)
  /\ \A q \in Publishers : pub[q] \in Creator => pub[q].update # u
  /\ \A c \in Collectors : col[c] # Idle => u \notin col[c].us
  /\ Live(source)
  /\ pub' = [pub EXCEPT ![p] =
       [update |-> u, hashes |-> HashesOf({source}), pc |-> "write"]]
  /\ UNCHANGED <<asset, object>> /\ PubUnchanged

\* reconcileEmbeddedBaselineId: a baseline registered again under its id
\* replaces its row, in a batch of its own; any other duplicate is refused.
ReplaceBaseline(p) ==
  /\ pub[p] # Idle /\ pub[p].pc = "insert"
  /\ Live(pub[p].update)
  /\ Abandon({pub[p].update})
  /\ pub' = [pub EXCEPT ![p].pc = "write"]
  /\ UNCHANGED <<asset, object, col, bare>>

\* The batch of the publish; its foreign keys want a row for every asset, its
\* primary key a new id.
InsertUpdate(p) ==
  /\ pub[p] # Idle /\ pub[p].pc \in {"insert", "write"}
  /\ ~Live(pub[p].update)
  /\ \A h \in pub[p].hashes : asset[h] # "none"
  /\ LET Rows(hs) == {pub[p].update} \X hs
     IN  /\ refs' = refs \cup Rows(pub[p].hashes)
         /\ late' = late \cup Rows({h \in pub[p].hashes : Condemned(h)})
         /\ unread' = unread \cup Rows({h \in pub[p].hashes : Noted(pub[p].update)})
  /\ tracked' = tracked \cup pub[p].hashes
  /\ pub' = [pub EXCEPT ![p] = Idle]
  /\ UNCHANGED <<asset, object, col, bare>>

\* The deletion of a branch, or of a project with its branches.
DeleteBranch(us) ==
  /\ us # {} /\ \A u \in us : Live(u)
  /\ Abandon(us)
  /\ UNCHANGED <<asset, object, pub, col, bare>>

(***************************************************************************)
(* Collecting: deleteGroup and reapProjectUpdates.                         *)
(***************************************************************************)

\* The updates of a group, or of the first batch of the reaper.
Pick(c, us) ==
  /\ col[c] = Idle
  /\ us # {} /\ \A u \in us : Live(u)
  /\ col' = [col EXCEPT ![c] =
       [us |-> us, hashes |-> {}, keys |-> {}, pc |-> "hashes"]]
  /\ UNCHANGED <<asset, object, refVars, pub, tracked, bare>>

\* Mutant: only the hashes of the last batch are remembered.
ReadHashesLast(c) ==
  /\ ColAt(c, "hashes")
  /\ col' = [col EXCEPT ![c].pc = "rows", ![c].hashes = HashesOf(col[c].us)]
  /\ UNCHANGED <<asset, object, refVars, pub, tracked, bare>>

\* findAssetHashesForUpdates, added to what earlier batches found.
ReadHashes(c) ==
  /\ ColAt(c, "hashes")
  /\ col' = [col EXCEPT ![c].pc = "rows", ![c].hashes = @ \cup HashesOf(col[c].us)]
  /\ UNCHANGED <<asset, object, refVars, pub, tracked, bare>>

\* What came back under an id of the collector after it had read the hashes.
Missed(c) == {r[2] : r \in {q \in unread : q[1] \in col[c].us}} \ col[c].hashes

DeleteUpdateRows(c) ==
  /\ ColAt(c, "rows")
  /\ RemoveReferences(col[c].us)
  /\ col' = [col EXCEPT ![c].pc = "orphans", ![c].us = {}]
  /\ tracked' = tracked \ (LastOf(col[c].us) \cap Missed(c))
  /\ UNCHANGED <<asset, object, pub, bare>>

\* The reaper's loop: another batch before the orphans.
PickMore(c, us) ==
  /\ ColAt(c, "orphans")
  /\ us # {} /\ \A u \in us : Live(u)
  /\ col' = [col EXCEPT ![c].us = us, ![c].pc = "hashes"]
  /\ UNCHANGED <<asset, object, refVars, pub, tracked, bare>>

\* Mutant: whatever a deleted update referred to counts as an orphan.
FindOrphansAll(c) ==
  /\ ColAt(c, "orphans")
  /\ col' = [col EXCEPT ![c].pc = "keys"]
  /\ UNCHANGED <<asset, object, refVars, pub, tracked, bare>>

\* findUnreferencedAssetHashes.
FindOrphans(c) ==
  /\ ColAt(c, "orphans")
  /\ col' = [col EXCEPT ![c].pc = "keys",
                        ![c].hashes = {h \in @ : Referrers(h) = {}}]
  /\ UNCHANGED <<asset, object, refVars, pub, tracked, bare>>

\* Mutant: a hash without a row gives a null key.
FindKeysNull(c) ==
  /\ ColAt(c, "keys")
  /\ col' = [col EXCEPT ![c].pc = "objects",
       ![c].keys = {IF asset[h] = "none" THEN "null" ELSE h : h \in col[c].hashes}]
  /\ UNCHANGED <<asset, object, refVars, pub, tracked, bare>>

\* findAssetR2KeysByHashes: only hashes that still have a row have a key.
FindKeys(c) ==
  /\ ColAt(c, "keys")
  /\ col' = [col EXCEPT ![c].pc = "objects",
                        ![c].keys = {h \in col[c].hashes : asset[h] # "none"}]
  /\ UNCHANGED <<asset, object, refVars, pub, tracked, bare>>

DeleteObjects(c) ==
  /\ ColAt(c, "objects")
  /\ object' = object \ col[c].keys
  /\ col' = [col EXCEPT ![c].pc = "assets", ![c].keys = {}]
  /\ UNCHANGED <<asset, refVars, pub, tracked, bare>>

\* Mutant: the rows of the deleted objects are left.
DeleteAssetRowsNot(c, chunk) ==
  /\ ColAt(c, "assets")
  /\ chunk = col[c].hashes
  /\ col' = [col EXCEPT ![c] = Idle]
  /\ UNCHANGED <<asset, object, refVars, pub, tracked, bare>>

\* deleteAssetRows: a chunk at a time; the foreign key refuses a chunk with a
\* hash that is referred to again, and the collector fails.
DeleteAssetRows(c, chunk) ==
  /\ ColAt(c, "assets")
  /\ chunk \subseteq col[c].hashes /\ Cardinality(chunk) <= ChunkSize
  /\ chunk = {} => col[c].hashes = {}
  /\ \A h \in chunk : Referrers(h) = {}
  /\ asset' = [h \in Hashes |-> IF h \in chunk THEN "none" ELSE asset[h]]
  /\ tracked' = tracked \ chunk /\ bare' = bare \ chunk
  /\ \/ chunk = col[c].hashes /\ col' = [col EXCEPT ![c] = Idle]
     \/ chunk # col[c].hashes /\ col' = [col EXCEPT ![c].hashes = @ \ chunk]
  /\ UNCHANGED <<object, refVars, pub>>

\* A call of the collector fails, or the worker is gone.
QuitCollecting(c) ==
  /\ col[c] # Idle
  /\ bare' = bare \cup Bare(col[c].hashes)
  /\ tracked' = tracked \ {h \in col[c].hashes : Referrers(h) = {}}
  /\ col' = [col EXCEPT ![c] = Idle]
  /\ UNCHANGED <<asset, object, refVars, pub>>

Publish(p) ==
  \/ \E hs \in SUBSET Hashes \ {{}} : Upload(p, hs)
  \/ \E u \in Updates : CheckAssets(p, u) \/ \E source \in Updates : Republish(p, u, source)
  \/ \E h \in Hashes : \/ PutAsset(p, h)
                       \/ FinalizeFind(p, h)
                       \/ FinalizeHead(p, h)
                       \/ FinalizeSize(p, h)
  \/ Register(p)
  \/ ReplaceBaseline(p)
  \/ InsertUpdate(p)
  \/ QuitPublishing(p)

Collect(c) ==
  \/ \E us \in SUBSET Updates : Pick(c, us) \/ PickMore(c, us)
  \/ ReadHashes(c)
  \/ DeleteUpdateRows(c)
  \/ FindOrphans(c)
  \/ FindKeys(c)
  \/ DeleteObjects(c)
  \/ \E chunk \in SUBSET Hashes : DeleteAssetRows(c, chunk)
  \/ QuitCollecting(c)

AssetNext ==
  \/ \E p \in Publishers : Publish(p)
  \/ \E c \in Collectors : Collect(c)
  \/ \E us \in SUBSET Updates : DeleteBranch(us)

AssetSpec == AssetInit /\ [][AssetNext]_assetVars

(***************************************************************************)
(* Properties.                                                             *)
(***************************************************************************)

Carried == UNION {col[c].hashes : c \in {d \in Collectors : col[d] # Idle}}

\* A finalized row, on whose strength later uploads are deduplicated, has its
\* object, save while a collector is between its two deletions, a publisher
\* still has to upload it, or one of them failed.
ReadyHasObject ==
  \A h \in Hashes : asset[h] = "ready" /\ h \notin object =>
    h \in Carried \cup bare \cup UNION {Owed(p) : p \in Publishers}

\* "keep-when-in-doubt (a surviving referrer keeps the asset)": whatever else
\* is collected meanwhile, an update keeps the objects it refers to, save one
\* whose collector had found it an orphan before the reference was inserted, one
\* that failed actors left missing, and one a publisher has still to upload.
SurvivorKeepsAsset ==
  \A r \in refs \ late :
    r[2] \in object \cup bare \cup UNION {Owed(p) : p \in Publishers}

\* Collection loses no asset: one that has lost all its referrers is on the list
\* of a collector.  It does not answer for the lists of collectors that failed,
\* nor for what is deleted behind it: the assets of a deleted branch or project
\* (repositories/branches.ts), those of a replaced baseline
\* (reconcileEmbeddedBaselineId) and those of a baseline that came back under its
\* id after a collector had read the old one's.
NoAssetLeaks == \A h \in tracked : Referrers(h) = {} => h \in Carried

\* An asset is "never wrongly deleted" (the comment of reapUpdates): what a
\* stored update refers to can be downloaded.
StoredUpdateHasObjects == \A r \in refs : r[2] \in object
=============================================================================
