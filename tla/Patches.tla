------------------------------- MODULE Patches -------------------------------
(***************************************************************************)
(* Binary patches between the launch bundles of updates.  The publishing   *)
(* command uploads patches from recent updates to the one it has created;  *)
(* the bundle route serves one when the device asks for it and it exists,  *)
(* and the whole bundle otherwise, through a shared cache that does not    *)
(* look at the request's headers; the retention run deletes the patches    *)
(* that are old and useless.  A patch has no row: its key is all that is   *)
(* known of it.  One runtime version, platform and branch.                 *)
(***************************************************************************)
EXTENDS Naturals, Sequences, FiniteSets, SequencesExt

CONSTANTS
  Ids,          \* ids of updates, each inserted at most once
  BaseWindow,   \* recent updates that are patch bases (DEFAULT_PATCH_BASE_WINDOW)
  NoId          \* a device that runs no update it can name

ASSUME PatchesAssumption == BaseWindow \in Nat /\ NoId \notin Ids

VARIABLES
  shelf,      \* rows of updates, newest first
  kind,       \* bundle, embedded (the baseline in the binary) or rollback
  created,    \* ids inserted so far
  patches,    \* R2: the objects under patches/
  edge,       \* the shared cache: bodies of the bundle route, by requested id
  maker,      \* the patch phase of a publishing command
  device,     \* a request of the bundle route
  sweep       \* reapProjectPatches

patchVars == <<shelf, kind, created, patches, edge, maker, device, sweep>>

Still == [pc |-> "idle"]
Kinds == {"bundle", "embedded", "rollback"}

\* The key: the ids a patch leads from and to.
PatchKey(from, to) == <<from, to>>

\* `from' and `to' are the bundles the bytes lead between; `old': uploaded
\* before the cutoff of the current run of the sweep, or of the next one.
Patch == [key : Ids \X Ids, from : Ids, to : Ids, old : BOOLEAN]

Full == [form |-> "full"]
NotFound == [form |-> "missing"]
Body == [form : {"patch"}, from : Ids, to : Ids] \cup {Full, NotFound}

PatchTypeOK ==
  /\ shelf \in Seq(created) /\ IsInjective(shelf)
  /\ kind \in [created -> Kinds]
  /\ created \subseteq Ids
  /\ patches \subseteq Patch
  /\ \A p, q \in patches : p.key = q.key => p = q
  /\ edge \subseteq [id : Ids, body : Body]
  /\ maker = Still \/ maker \in [pc : {"list", "diff"}, to : Ids, bases : SUBSET Ids,
                                 made : SUBSET Ids]
  /\ device = Still \/ device \in [pc : {"probe", "full", "answered"}, aim : BOOLEAN,
                                   id : Ids, current : Ids \cup {NoId}, body : Body]
  /\ sweep = Still \/ sweep \in [pc : {"bases", "list", "delete"}, survivors : SUBSET Ids,
                                 bases : SUBSET Ids, listed : SUBSET (Ids \X Ids),
                                 keys : SUBSET (Ids \X Ids)]

PatchInit ==
  /\ shelf = <<>>
  /\ kind = [i \in {} |-> "bundle"]
  /\ created = {}
  /\ patches = {}
  /\ edge = {}
  /\ maker = Still
  /\ device = Still
  /\ sweep = Still

OnShelf == Range(shelf)

HasBundle(n) == kind[shelf[n]] # "rollback"

\* The newest updates with a launch bundle, and the embedded baseline.
Bases ==
  {shelf[n] : n \in {m \in DOMAIN shelf :
                      HasBundle(m) /\ Cardinality({k \in 1..m : HasBundle(k)}) <= BaseWindow}}
    \cup {i \in OnShelf : kind[i] = "embedded"}

(***************************************************************************)
(* Publishing and the patch phase that follows it.                         *)
(***************************************************************************)

\* The insert of an update; a new baseline unmarks the one before it.  With
\* `patching' the command goes on to the patch phase.
CreateUpdate(u, k, patching) ==
  /\ u \notin created
  /\ patching => maker = Still /\ k = "bundle"
  /\ created' = created \cup {u}
  /\ shelf' = <<u>> \o shelf
  /\ kind' = [i \in created' |->
       CASE i = u -> k
         [] i # u /\ k = "embedded" /\ kind[i] = "embedded" -> "bundle"
         [] OTHER -> kind[i]]
  /\ maker' = IF patching THEN [pc |-> "list", to |-> u, bases |-> {}, made |-> {}] ELSE maker
  /\ UNCHANGED <<patches, edge, device, sweep>>

\* Deleted with its group, or reaped.
DeleteUpdate(u) ==
  /\ \E n \in DOMAIN shelf : shelf[n] = u /\ shelf' = RemoveAt(shelf, n)
  /\ UNCHANGED <<kind, created, patches, edge, maker, device, sweep>>

MakerOnly == UNCHANGED <<shelf, kind, created, edge, device, sweep>>

\* selectBaseWindow: never the update itself.
BasesFor(u) == Bases \ {u}

\* listPatchBases.
ListBases ==
  /\ maker # Still /\ maker.pc = "list"
  /\ maker' = [maker EXCEPT !.pc = "diff", !.bases = BasesFor(maker.to)]
  /\ UNCHANGED patches /\ MakerOnly

\* Through the bundle route, without patches; the hash is compared.
CanDownload(base) == base \in OnShelf \/ [id |-> base, body |-> Full] \in edge

\* A base is downloaded and the patch made.
DiffBase(base) ==
  /\ maker # Still /\ maker.pc = "diff" /\ base \in maker.bases
  /\ CanDownload(base)
  /\ maker' = [maker EXCEPT !.bases = @ \ {base}, !.made = @ \cup {base}]
  /\ UNCHANGED patches /\ MakerOnly

\* The PUT to the presigned URL of the key.
UploadPatch(base) ==
  /\ maker # Still /\ base \in maker.made
  /\ LET key == PatchKey(base, maker.to) IN
       patches' = {p \in patches : p.key # key}
                    \cup {[key |-> key, from |-> base, to |-> maker.to, old |-> FALSE]}
  /\ maker' = [maker EXCEPT !.made = @ \ {base}]
  /\ MakerOnly

\* A base that fails is skipped, and so is the phase; the command may be killed.
SkipBases ==
  /\ maker # Still
  /\ maker' = Still
  /\ UNCHANGED patches /\ MakerOnly

(***************************************************************************)
(* The bundle route.                                                       *)
(***************************************************************************)
DeviceOnly == UNCHANGED <<shelf, kind, created, patches, maker, sweep>>

\* A device asks for the bundle of an update it has a manifest of.  Of a request
\* without `aim' the current update is not looked at.
Request(id, current, aim) ==
  /\ device = Still
  /\ id \in created /\ current \in created \cup {NoId} /\ current # id
  /\ ~aim => current = NoId

Asked(pc, id, current, aim, body) ==
  device' = [pc |-> pc, aim |-> aim, id |-> id, current |-> current, body |-> body]

\* The cache in front of the worker answers, whatever the headers say.
AnswerFromEdge(id, current, aim) ==
  /\ Request(id, current, aim)
  /\ \E entry \in edge : entry.id = id /\ Asked("answered", id, current, aim, entry.body)
  /\ UNCHANGED edge /\ DeviceOnly

\* findLaunchAssetForUpdate; a device that asks for patches is looked for one.
\* `matches': the request's runtime version is absent or the update's.
FindLaunchAsset(id, current, aim, matches) ==
  /\ Request(id, current, aim)
  /\ \A entry \in edge : entry.id # id
  /\ LET found == id \in OnShelf /\ kind[id] # "rollback" /\ matches IN
       Asked(CASE ~found -> "answered"
               [] found /\ aim /\ current # NoId -> "probe"
               [] OTHER -> "full", id, current, aim, NotFound)
  /\ UNCHANGED edge /\ DeviceOnly

Answer(body) == device' = [device EXCEPT !.pc = "answered", !.body = body]

\* Mutant: the answer with a patch may be kept, like the whole bundle.
ProbePatchCached ==
  /\ device # Still /\ device.pc = "probe"
  /\ LET found == {p \in patches : p.key = PatchKey(device.current, device.id)} IN
       \/ \E p \in found :
            LET body == [form |-> "patch", from |-> p.from, to |-> p.to] IN
            Answer(body) /\ edge' = edge \cup {[id |-> device.id, body |-> body]}
       \/ found = {} /\ device' = [device EXCEPT !.pc = "full"] /\ UNCHANGED edge
  /\ DeviceOnly

\* resolvePatch: the key of the device's current update; `no-store'.
ProbePatch ==
  /\ device # Still /\ device.pc = "probe"
  /\ LET found == {p \in patches : p.key = PatchKey(device.current, device.id)} IN
       \/ \E p \in found : Answer([form |-> "patch", from |-> p.from, to |-> p.to])
       \/ found = {} /\ device' = [device EXCEPT !.pc = "full"]
  /\ UNCHANGED edge /\ DeviceOnly

\* getFullBundle: the object may be gone.  What is served may be kept for good.
GetFullBundle(stored) ==
  /\ device # Still /\ device.pc = "full"
  /\ Answer(IF stored THEN Full ELSE NotFound)
  /\ \/ stored /\ edge' = edge \cup {[id |-> device.id, body |-> Full]}
     \/ UNCHANGED edge
  /\ DeviceOnly

TakeBundle ==
  /\ device # Still /\ device.pc = "answered"
  /\ device' = Still
  /\ UNCHANGED edge /\ DeviceOnly

(***************************************************************************)
(* The sweep.                                                              *)
(***************************************************************************)
SweepOnly == UNCHANGED <<shelf, kind, created, edge, maker, device>>

\* Time passes between two runs: patches leave the retention window.
PassRetention ==
  /\ sweep = Still
  /\ \E p \in patches : ~p.old
  /\ patches' = {[p EXCEPT !.old = TRUE] : p \in patches}
  /\ UNCHANGED sweep /\ SweepOnly

\* findSurvivingUpdateIdsByProject.
ReadSurvivors ==
  /\ sweep = Still /\ patches # {}
  /\ sweep' = [pc |-> "bases", survivors |-> OnShelf, bases |-> {}, listed |-> {}, keys |-> {}]
  /\ UNCHANGED patches /\ SweepOnly

\* findPatchBaseUpdateIdsByProject.
ReadPatchBases ==
  /\ sweep # Still /\ sweep.pc = "bases"
  /\ sweep' = [sweep EXCEPT !.pc = "list", !.bases = Bases]
  /\ UNCHANGED patches /\ SweepOnly

Unreachable(key) ==
  \/ key[2] \notin sweep.survivors
  \/ key[1] \notin sweep.survivors
  \/ key[1] \notin sweep.bases

\* Mutant: the age of the patch is not asked.
EligibleAnyAge(p) == Unreachable(p.key)

\* isPatchReapEligible.
Eligible(p) == p.old /\ Unreachable(p.key)

\* A page of listObjects, not yet listed; the last page ends the sweep.
ListPage ==
  /\ sweep # Still /\ sweep.pc = "list"
  /\ LET left == {p \in patches : p.key \notin sweep.listed} IN
       IF left = {} THEN sweep' = Still
       ELSE \E p \in left :
              sweep' = [sweep EXCEPT !.pc = "delete", !.listed = @ \cup {p.key},
                                     !.keys = IF Eligible(p) THEN {p.key} ELSE {}]
  /\ UNCHANGED patches /\ SweepOnly

\* deleteInChunks.
DeletePage ==
  /\ sweep # Still /\ sweep.pc = "delete"
  /\ patches' = {p \in patches : p.key \notin sweep.keys}
  /\ sweep' = [sweep EXCEPT !.pc = "list", !.keys = {}]
  /\ SweepOnly

\* A call fails, or the scheduled invocation ends.
StopSweep ==
  /\ sweep # Still
  /\ sweep' = Still
  /\ UNCHANGED patches /\ SweepOnly

\* What a publishing command and the deletions of updates do.
Patching ==
  \/ \E u \in Ids :
       \/ \E k \in Kinds, patching \in BOOLEAN : CreateUpdate(u, k, patching)
       \/ DeleteUpdate(u) \/ DiffBase(u) \/ UploadPatch(u)
  \/ ListBases \/ SkipBases

Serving ==
  \/ \E id \in Ids, current \in Ids \cup {NoId}, aim \in BOOLEAN :
       \/ AnswerFromEdge(id, current, aim)
       \/ \E matches \in BOOLEAN : FindLaunchAsset(id, current, aim, matches)
  \/ \E stored \in BOOLEAN : GetFullBundle(stored)
  \/ ProbePatch \/ TakeBundle

Sweeping ==
  \/ PassRetention
  \/ ReadSurvivors \/ ReadPatchBases \/ ListPage \/ DeletePage \/ StopSweep

PatchNext == Patching \/ Serving \/ Sweeping

PatchSpec == PatchInit /\ [][PatchNext]_patchVars

(***************************************************************************)
(* Properties.                                                             *)
(***************************************************************************)

\* The note above BUNDLE_VARY (handlers/bundle.ts): no device is handed a patch
\* it did not ask for, or one that does not lead from the bundle it runs to the
\* one it wants, whoever asked for the same URL before it and whatever caches
\* keep; it "would treat the bsdiff patch as a full bundle".
BodySuitsDevice ==
  device # Still /\ device.body.form = "patch" =>
    /\ device.aim
    /\ device.body.from = device.current
    /\ device.body.to = device.id

Usable(key) == {key[1], key[2]} \subseteq OnShelf /\ key[1] \in Bases

\* The sweep is conservative (domain/ota-reaper.ts): although it works from
\* what it read at its start, it deletes no patch whose two updates exist and
\* whose base is one, unless the base was outside the window when it read.
SweepSparesUsable ==
  [][\A p \in patches \ patches' : Usable(p.key) /\ sweep # Still /\ p.key \in sweep.keys =>
       p.key[1] \in sweep.survivors \ sweep.bases]_patchVars
=============================================================================
