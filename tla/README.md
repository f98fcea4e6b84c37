# TLA+ models of better-update

better-update delivers over-the-air updates to Expo applications. A command
line publishes an update (a manifest and its assets, or a signed directive) to
a branch; channels route devices to branches, possibly by percentage; the
server (`apps/server`, TypeScript and Effect on Cloudflare Workers) answers
each device with the update it should run. The same server keeps an
organization's signing credentials, sealed under a key it never sees.

State lives in five stores with different guarantees, and that is where most of
the difficulty is:

| store | used for | what the code can rely on |
| --- | --- | --- |
| D1 (SQLite) | every row | a statement, or a `batch`, is atomic and serialized; nothing spans two calls |
| R2 | assets, bundles, patches, artifacts, credential blobs | single-object operations |
| KV | reservations of builds | an entry expires, and a read may return one that was deleted |
| the edge cache | rendered manifests | best effort: an entry may vanish, a `put` may land late |
| a Durable Object per branch | serializing publishes | one semaphore in memory, lost with the object |

A request is a sequence of awaited calls to these stores, other requests run
between any two of them, and a worker may end after any of them. Throughout the
models **one action is what happens between two awaits**: the reads a handler
makes early are kept in its slot and used later, as the code does.

## Inventory

What each part keeps, does, and must get right. "Hard" names the behaviour that
earned it a model.

### Manifest serving and its edge cache
`handlers/manifest.ts`, `handlers/manifest-cache.ts`, `repositories/manifest.ts`,
`domain/rollout.ts`, `domain/branch-mapping.ts`

* State: the `updates` and `channels` rows; `channels.cache_version`; the cache,
  keyed by channel, platform, runtime version, branch and cache version.
* Operations: a device's request (channel → branch → rows → per-update rollout →
  filters of the device → store the answer when it does not depend on the
  device); every management write that bumps `cache_version`.
* Hard: the key is built from a channel row read first and the value from update
  rows read later; writers write rows and bump in separate statements.
* Correct when: an answer under the current version is what resolving now would
  give; a device never gets an update it failed, or cannot verify.

### Publishing
`application/publish-coordination.ts`, `application/clock-skew-guard.ts`,
`durable-objects/*`, `handlers/updates.ts`

* State: `updates` rows, the coordinator's queue of callers.
* Operations: create and republish (serialized per branch); rollout edit,
  completion, revert and deletion (not serialized at all).
* Hard: checks (no active rollout, no newer signed update, the pinned embedded
  id) are separate reads before the insert; two branches have two locks and one
  primary key.
* Correct when: the embedded slot is free at the insert, a signed update that
  was accepted is the newest of its tuple, every request is answered.

### Assets
`handlers/assets.ts`, `repositories/assets.ts`, `application/ota-reaper.ts`,
`handlers/updates.ts`

* State: `assets` rows (pending or ready, global, by content hash), R2 objects,
  `update_assets` references.
* Operations: register, upload, finalize, refer; collect orphans after a
  deletion or a reaper's run.
* Hard: collection decides, deletes objects and deletes rows in three calls,
  while another command is told that the hash is already there.
* Correct when: a ready row has its object, no unreferenced asset is forgotten,
  an asset of a surviving update survives.

### OTA reaper
`application/ota-reaper.ts`, `repositories/update-reaper-sql.ts`,
`domain/gc-utils.ts`

* State: nothing of its own but the cursor of a run.
* Operations: per project, compute the keep set, then page through old rows and
  delete them in chunks.
* Hard: the keep set is computed once and used for a whole run; groups span
  platforms; pages are limited before they are filtered.
* Correct when: no device sees a difference, groups go whole, the bases needed
  for patches stay, the run reaches everything it may delete.

### Channels, branches and branch rollouts
`handlers/channels.ts`, `handlers/branches.ts`, `domain/branch-mapping.ts`

* State: `channels` (linked branch, paused, branch mapping JSON), `branches`.
* Operations: create, relink, start, edit, complete and revert a rollout, pause,
  delete channels and branches.
* Hard: the mapping is read, edited in memory and written back; relinking and
  rollouts check each other without a lock; three functions interpret a mapping
  (routing, reachability for the reaper, invalidation).
* Correct when: every branch a device can be routed to is one the other two
  functions know of; raising a percentage moves only devices that should move.

### Credential vault
`handlers/org-vault.ts`, `repositories/org-vault.ts`,
`application/reconcile-vault-recipients.ts`, the clients in
`apps/cli/src/application/vault-*.ts`

* State: `org_vaults` (version, rotation_pending), key wraps, revoked keys,
  credentials with the version of the key that seals them.
* Operations: bootstrap, grant, rotate, upload, delete; departures that revoke
  and drop wraps.
* Hard: clients prepare rotations offline; the server compares versions it
  cannot check the contents of; access changes are several statements.
* Correct when: every recipient and every credential stays with the current
  key, a departure blocks downloads until a rotation, a recovery key remains.

### Patches and bundle negotiation
`application/resolve-bundle.ts`, `handlers/bundle.ts`, `application/ota-reaper.ts`
(`reapPatches`), and in `apps/cli/src`: `application/update-patch-phase.ts`,
`services/patch-uploader.ts`

* State: R2 objects whose key is all that is known of them (from, to).
* Operations: after a publish the command downloads recent launch bundles, makes
  patches and uploads them; the bundle route serves one, or the whole bundle; the
  daily sweep deletes old and useless ones.
* Hard: one URL has two kinds of answer, told apart by request headers that a
  shared cache does not look at; the sweep works from lists read before it.
* Correct when: nobody is handed a patch that is not for the bundle it runs, and
  the sweep spares what can still be used.

### Builds
`handlers/builds.ts`, `handlers/build-gc.ts`, `repositories/builds.ts`,
`apps/cli/src/application/upload-workflow.ts`, `services/api-client.ts`

* State: a reservation in KV (with a TTL), the artifact in R2, the rows in D1.
* Operations: reserve, upload, complete, delete, collect after retention.
* Hard: three stores without a transaction; the client repeats calls whose answer
  it lost, so one completion runs twice.
* Correct when: a listed artifact is stored, and no object is forgotten.

### Environment variables
`handlers/env-vars*.ts`, `handlers/environments.ts`, `repositories/env-vars*.ts`

* State: `env_vars` (a pointer to the current revision), `env_var_revisions`,
  user-defined `environments`, which variables name without a foreign key.
* Operations: create, update, roll back, import, delete, export; create, rename
  and delete environments.
* Hard: every request looks up in some statements and writes in a later batch;
  updates prune the history that a rollback is about to point into.
* Correct when: an export misses no key, no variable is in an unknown
  environment, the history stays near its cap.

### Submissions
`handlers/submissions.ts`, `apps/cli/src/application/submit-flow.ts`,
`build-auto-submit.ts`

* State: one row per submission; the store is not ours.
* Operations: create, report, poll, cancel, delete; altool and the Play API run on
  the user's machine.
* Hard: the status is written unconditionally by calls that are repeated and may
  be late, beside cancellations.
* Correct when: the status tells what the store has, and a terminal status stands.

### Signing credentials and devices
`application/resolve-build-credentials.ts`, `handlers/apple-*.ts`,
`handlers/ios-bundle-configurations.ts`, `handlers/devices.ts`,
`application/sync-apple-devices.ts`, and in `apps/cli/src`:
`application/credentials-interactive*.ts`, `lib/credentials-*.ts`

* State: certificates and one managed profile per bundle (a row and an object), the
  configuration that binds them, the roster of devices; and Apple's portal.
* Operations: check, set up, regenerate and download for a build; revoke; sync
  devices; edit from the dashboard.
* Hard: two systems without a transaction, a few certificates at Apple, a private
  key that exists once, and a hash that says which devices a profile covers.
* Correct when: the profile row has its object, a build's profile covers the
  devices its check required, no live certificate is without its key.

### Left out
* **Policies and authorization**: a pure evaluation at the start of a request; its
  effect on the vault is `LoseAccess`.
* **Organizations, projects, invitations, API keys, webhooks, audit log,
  analytics, fingerprints**: single-row operations, or append-only.
* **Rendering, multipart bodies, signature verification, shared packages**:
  conversions and cryptography of one request.
* **Web dashboard, documentation site**: a user interface over the same endpoints.
* **Command line**: what it calls, in its order and with its retries, is in the
  component it calls; see "Not modelled" below for its own commands.

## Modules

```
UpdateRows            the update rows, their rank, the newest of a set
  `- ManifestCache      - MCManifestCache - MCRelease   gap; release
       `- ManifestHistory      what was right since a request asked
            `- ManifestCacheProofs  (with UpdateRowsProofs)
PublishCoordinator    - MCPublishCoordinator      publish, reconciled
  |= PublishFeed        the abstract feed it implements
  `- PublishCoordinatorProofs
OtaReaper             - MCOtaReaper               retention, starved
  `- OtaReaperProofs      (with UpdateRowsProofs)
OrgVault              - MCOrgVault                vault, resurrected
  |= SharedSecret       the abstract vault it implements
  `- OrgVaultProofs
AssetCollection       - MCAssetCollection         dangling
AssetCollection, Builds, Signing, Patches  - MCStored       stored
  `- StoredProofs         (with BuildsProofs, which has the part about Builds)
Submissions           - MCSubmissions             autosubmit
ChannelRouting, EnvVars, Submissions       - MCManagement   management
  `- ManagementProofs
```

Each module takes its actors and data as CONSTANTS with a named assumption, has
one action per step between two awaits, and quantifies requests over small sets.
Operators ending in a variation of another's name and marked `Mutant:` are
plausible bugs; each property is known to be violated by one of them. Variables
marked *history* are not state of the program: they record what happened so that
a property can say "unless".

`MCStored` and `MCManagement` check components that share no state together, to
explore them with one set of model values: a variable `part` is chosen at the
start, the component it names takes every step, and the others stay where they
start. They are disjoint unions of behaviours, not compositions, and
`StoredIsItsParts` and `ManagementIsItsParts` prove it: each of their behaviours is
one of every component's own specification.

### ManifestCache
`updates`, `channel` and `cache` are the stores, `writer[w]` a management request
between its row statement and its bump, `request[r]` a device request between
its reads. `unbumped` (history) holds the branches whose bump a dead writer owes,
`generation` (history) tells a channel from a later one of that name.

| action | code |
| --- | --- |
| `WriterStep` (write rows, then bump, or die) | `publishUpdate`, `handlers/updates.ts` edits and deletions, `bumpCacheVersionByBranchId` |
| `ChannelStep` | relink, pause, rollout and deletion of a channel, which bump in the statement that writes |
| `RequestStep` (read channel, look up, read rows, fall back, store) | `handlers/manifest.ts`, `manifest-cache.ts` |
| `Evict` | the cache drops an entry |

Simplified: one platform and runtime version per run, one point of presence; a
group is one update; the `waitUntil` put is the last step of the request;
`matchesFilters` is true because nothing in the server writes filters.

### PublishCoordinator
`rows`, `queue` (per branch, its head holds the permit), `job[p]`, `now`.
`Request` enqueues, `Advance` runs the next statement of the head, `Fail` lets a
call reject (the permit is released), `Evict` loses the object and everyone in
its queue; `UpdateRollout` and `DeleteRows` are the handlers that take no lock;
`Tick` moves the clock, which signed updates carry from another machine.

### AssetCollection
`asset`, `object`, `refs` are the stores; `pub[p]` a publishing command in
register / upload / finalize / insert, `col[c]` a collector in decide / delete
objects / delete rows. References go in four ways: `DeleteUpdateRows` of a
collector (`deleteGroup`, the reaper), and, with no collection after them,
`DeleteBranch` (a branch, or a project with its branches) and `ReplaceBaseline` (an
embedded baseline registered again under its id, in a batch before its insert). An
id may therefore be inserted more than once, also between a collector's reading of
its hashes and its deletion. Four histories record what the properties except:
`tracked`, the hashes collection still answers for; `late`, references inserted when
a collector already had the hash for an orphan; `unread`, references inserted under
an id whose hashes a collector had read; `bare`, rows a failure left without object.

### OtaReaper
`rows`, `reachable` (branches some channel reaches) and `reaper` (the run's keep
set, page and chunk). What other requests do meanwhile is `Publish`, edits,
deletions and relinks. Assumed: what is published during a run is not older
than the retention cutoff, and does not join an old group. Bound: edits,
deletions and relinks interfere with a run at most once; `touched` (history)
records that they did, and `ReapingIsInvisible` is about the runs they left alone
and about publishing, which goes on in all of them.

### ChannelRouting
`branches`, `channel` (with its mapping as a sequence of entries) and
`request[r]`, a management request between its reads and its write. A mapping
node is an optional runtime test and an optional `hash_lt` test. `ResolveBranchId`,
`ReachableBranchIds` and `ReferencedBranchIds` are translated from the three
functions that interpret a mapping, and `RoutesAreKnown` compares them over every
shape of a stored row. Pausing and the cache version of a channel are in
ManifestCache, renaming is left out; EAS statements with `or`, `not`, regular
expressions and extra parameters are too. `torn` and
`orphans` are histories of the check-then-write races listed below.

### OrgVault
`vault`, `wraps`, `creds`, `access`, `revoked`, and `session[s]`, a client with
what it read and the request it has at the server. A key is named by the version
it was made for and the session that made it, so that two rotations from one
version make two keys. `leaving`, `slipped` and `stranded` are histories: a
departure under way, a wrap given to somebody without access, a credential
written beside a rotation. Environment variable revisions are credentials here,
as they are to a rotation. `CheckRotate` takes the reads of the version and of
the credentials to cover as one: a rotation that lands between them makes the
final compare-and-swap lose, as one that lands after both does.

### Patches
`shelf`, `kind` and `created` are the update rows of one tuple, `patches` the R2
objects, `edge` what a shared cache in front of the worker has kept, `maker` a
patch phase, `device` a request of the bundle route, `sweep` a run of
`reapProjectPatches`. `ListBases`, `DiffBase` and `UploadPatch` are the phase,
`FindLaunchAsset`, `ProbePatch` and `GetFullBundle` the route, `ReadSurvivors`,
`ReadPatchBases`, `ListPage` and `DeletePage` the sweep. The cache keeps whatever
the route marks as public and never looks at headers. Every id is inserted
once; a baseline uploaded again under its own id is left out.

### Signing
`portal` is Apple's side; `certRow`, `profile`, `config` and `roster` are tables and
`file` the R2 objects; `signer[s]` is a build or a regeneration between two calls,
`revocation` and `sync` are the other two commands. One team is modelled, and
a device linked here is assumed to be one Apple lists for that team: `devices.update`
(`handlers/devices.ts:140`) can also move a device to another team, although the
dashboard only renames. `KeepCertificate` takes the upload of a certificate (object,
then row) as one step. A lost answer to the insert, after which the object is removed
and the row stays (`handlers/apple-distribution-certificates.ts:70-71`), is modelled for
profiles (`UpsertUnheard`) and not for certificates; the command ends there in both.

### Builds
`upload[u]` is a command in reserve / put / complete, `completion[u][n]` the handler
that its n-th attempt started; `reservation` and `lingering` are the KV entries and
the deleted ones a read may still return; `artifact` is R2 and `build` D1;
`deletion` and `collection` are the user's and the daily one. A completion is
repeated while the first still runs, because that is what a broken connection
does. `abandoned` and `revived` are histories.

### EnvVars
`environments`, `variables` and `revisions` are the tables, `envRequest[r]` a request
between its look-up and its batch. `ReviseBatch` is insert, pointer and prune in
one atomic batch; an import counts a page of rows, then looks up and writes its
variables, `ImportConcurrency` at a time (the code: 5). `strayed` and `clobbered` are histories. Values,
visibility tiers (`updateVisibility`) and permissions are left out.

### Submissions
`submission[i]` is the row, `submitter[s]` the command that created it, `delayed` the
PATCH calls whose connection broke and that may still land, `canceling` the cancel
handler between read and write, `published` what the store has, `unheard`
(history) what the store took without an answer.

### Signing
`portal` is Apple's side; `certRow`, `profile`, `file` and `config` are ours; `roster`
says of each device whether it is absent, known here, or linked to Apple's id.
`signer[s]` is a build (or `regenerate-profile`) that loads the configuration,
checks it, and if need be keeps or issues a certificate, lists Apple's devices,
creates a profile, uploads and binds it, and then downloads what it signs with.
`revocation`, `sync` and the dashboard's edits run beside it; `keyless` and
`unanswered` are histories. Left out: the Apple-ID route, push keys, the choice of
an App Store Connect key, extension targets, Android, registration links.

## Runs

Every run is exhaustive. Sizes are distinct states.

| run | instance | states | what it shows |
| --- | --- | --- | --- |
| `release` | two scenes on 1 channel, 1 request, 3 updates (2 signed), versions up to 2. *routing*: 2 branches, 2 writers, 1 fully rolled out or reverted update, a channel recreated once. *rollouts*: 1 branch, 1 writer at a time, percentages 0, 50, 100, devices that failed an update or expect signatures | 2.3 M | `CacheCoherent`: under the current version no entry differs from resolving now, unless a bump is owed; `FillCoherent`; `DeviceSafe` |
| `gap` | 1 channel, 1 writer, 1 request | violated | `StaleNeverMatched`: the write and the bump are two statements |
| `publish` | 2 publishers on one branch and tuple, 2 ids, clock 0..2 | 0.4 M | `EmbeddedSlotFree`, `AcceptedPrecomputedIsNewest`, `AtomicPublishing`, `EveryRequestAnswered` |
| `reconciled` | 2 branches, one pinned id | violated | `ReplacesOwnTupleOnly` |
| `retention` | 4 ids, 1 branch, 2 targets, pages of 2, chunks of 1, a crash anywhere | 2.8 M | `GroupsGoWhole`, `ReapingIsInvisible`, `ReapingKeepsBases` |
| `starved` | as `retention` | violated | `NothingLeftBehind` |
| `vault` | 2 sessions, 1 user with 2 devices, 1 recovery key, 1 credential, 3 versions | 2.3 M | `WrapsOpenTheVault`, `CredentialsOpen`, `DepartureFailsClosed`, `RecoveryKept`, `SharesOneSecret` |
| `resurrected` | as `vault` | violated | `RevokedStaysOut` |
| `stored` | five parts, see below | 3.2 M | `ReadyHasObject`, `NoAssetLeaks`, `SurvivorKeepsAsset`; `ListedArtifactStored`, `ObjectsAccounted`; `ProfileStored`, `BuildCoversRoster`, `LiveCertificateHasKey`; `BodySuitsDevice`, `SweepSparesUsable` |
| `dangling` | 2 hashes, 2 updates, 1 command, 1 collector | violated | `StoredUpdateHasObjects` |
| `management` | three parts, see below | 1.4 M | `RoutesAreKnown`, `RolloutHangsTogether`, `RoutedBranchesExist`, `PercentageMovesOnlyItsDevices`; `ExportComplete`, `EnvironmentsKnown`, `HistoryBounded`; `OutcomeTruthful`, `EndStands` |
| `autosubmit` | 1 command, 2 ids | violated | `AutoSubmitEnds` |

The parts of `stored`:

* *assets* (1.5 M): 2 hashes, 2 updates, 2 commands, 2 collectors, chunks of 1, so
  that an upload is told "already there" by a row that a collector will delete. All
  four actors meet over one asset; while two are in play (two stored, or one command
  with both), `MaxActors` lets two of them run at once;
* *builds* (51 k): 1 command, 2 ids, 3 attempts of each call (the client: 5; three
  let a late first completion meet a second one and leave one to fail), 1 deletion,
  1 collection;
* *signing* (1.2 M): 2 builds, 1 project, 2 certificates where Apple allows 1, 2
  uploads, 2 devices, and one edit, revocation or sync beside them (`MaxEdits`).
  Builds start from nothing or from a finished setup with any roster;
* *serving* (0.4 M) and *sweeping* (0.1 M): 3 updates, 1 patch phase, a base window of
  1 (one update is outside it), 1 request or 1 sweep with pages of one object.
  The device and the sweep are explored separately, because the sweep reads and
  writes nothing that the route reads but the presence of patches, which the
  route reads in one call. Three ids tell a patch from the wrong base, a patch to
  the wrong target and the right one apart.

The parts of `management`:

* *channels* (0.9 M): 1 channel, 3 branches, 2 requests, stored mappings of every shape;
* *env* (0.5 M): 2 requests, 1 key in 2 scopes and 2 environments, a cap of
  2 variables per scope, a history of 1, an import page of 1 whose items are written
  one at a time, 5 ids ever minted: two variables and one revision, or one variable
  and three. Several items at a time matter when a renaming brings two of them to one
  variable; that takes more ids than can be explored, and the theorem covers it;
* *submissions* (15 k): 1 command, 2 ids (a lost answer to the creation leaves
  one behind), each call sent at most twice (the client: 5).

Why the bounds are enough. The hazards are races between two requests over one
row, so two actors of each kind that can race are used, and each handler's
steps are separate. A second branch is needed for relinks, a third for a
relink during a rollout. Percentages 0, 50 and 100 are the three regimes the
code tells apart; the routing scene uses the two extremes, because its question is
the order of the statements, and the rollout scene all three. Channels need an
operand strictly between 0 and `Full`, and clients on both sides of it. A vault
needs three versions for a session to be two rotations behind; the laptop is a
recipient elsewhere because such a key is not revoked. The reaper's pages of two
and chunks of one let a page and a chunk end inside a group. Clocks, versions
and generations are capped in the guards by named constants; beyond the cap the
same interleavings recur with larger numbers.

Symmetry is over actors and names that no operator orders (writers, requests,
sessions, commands, collectors, hashes); ids that rank updates are numbers and are
not permuted. In `stored` and `management` the parts name their actors with the
same model values, so that one small group serves them all: only one part of a
state moves, and every part's specification is symmetric in them.
`publish` and `autosubmit` check liveness and use no symmetry. Deadlock is checked
for the vault, where somebody can always come or go; in the other models ids,
versions, edits or clock ticks run out, so the system may stop there.

**Fairness.** `EveryRequestAnswered` assumes weak fairness of `Advance(p)` only:
a D1 call returns or rejects, and the semaphore serves its queue in order, so
the head of a queue keeps moving. `AutoSubmitEnds` assumes that a command that is
not killed takes its next step. Nothing is assumed of clients, edits, the clock or
eviction. All other properties are safety properties of the specifications
without fairness.

**Refinement.** `PublishFeed` is what publishing promises: per branch, a queue of
requests each of which lands whole, at one instant and in order, or leaves no row.
`PublishCoordinator!AtomicPublishing` maps the requests that have not inserted yet
to `pending` and the rows to `feed`; the reads before the insert and the cache bump
after it are stuttering steps. `SharedSecret` is what a vault promises: a secret
that is renewed, shared and withdrawn by atomic operations.
`OrgVault!SharesOneSecret` maps the wraps that open the current version to `members`
and `rotation_pending` to `due`; a request's checks are stuttering steps, and so is a
rotation that lost its compare-and-swap.

## Proofs

TLAPS checks these for every value of the constants that meets the modules'
assumptions, without the bounds of the runs.

**ManifestCacheProofs**: `TypeCorrect`, `CacheCoherence` (`CacheCoherent`) and
`FillCoherence` (`FillCoherent`). Coherence is not inductive: what a request
stores was read under a key it read earlier still. The invariant is
`IInv == Typed /\ JobsApart /\ CacheInv /\ RequestInv`. `CacheInv` and `RequestInv`
add to coherence, for entries and for what requests hold, that a key is never
ahead of its channel (`Behind`), so that a bump leaves every earlier key behind,
and that a current key names a branch the channel references (`Routed`), so that
the bump of a branch finds every channel it must. `JobsApart` says that ids are
never given twice and that a writer edits or deletes rows of the branch whose
channels it will bump. `UpdateRowsProofs`
has the facts about ranks they rest on: a non-empty finite set of rows has a
newest one, and only one.

**OrgVaultProofs**: `TypeCorrect`, `WrapsAgree`, `CredentialsAgree`,
`DepartureBlocks`, `RecoveryStays`: every safety invariant of the `vault` run.
The invariant adds to them `SessionInv` (what a session read is of an earlier
version, or of this one with this key; a checked rotation covers what it read;
a departure that found wraps found them in a vault), `CredentialsInv` (no
credential before a vault), `OutsidersInv` and `HoldersInv`, which split
`DepartureFailsClosed` into who has a wrap and who holds the key. `MovesOn` says
that the vault's version never falls and keeps its key, and `SlotKeeps` derives
from it that the sessions a step does not move stay good: that lemma carries the interleavings,
and leaves one lemma per action. `LostRotation` is the case worth reading: a
rotation that lost its compare-and-swap still runs the rest of its batch, and it
is `CredentialsOpen` that makes its updates match nothing but stranded rows.

`SecretShared` proves the refinement, `Spec => SharesOneSecret`. Two facts are added
to the invariant: `KeyInv`, that the vault's key was made for its version, so that a
renewal never keeps the secret, and `MembersAre`, that under the invariant the
mapped members are just the keys with a wrap. Each action is then shown to map to
a renewal, an admission, an expulsion or a stutter.

`DeviceSafety` adds to `IInv` what is known of the update an entry or a request
holds: if its key asks for signatures, the update has one (`Deserved`), because the
key was read before the rows and the rows were filtered by it. Who failed what is
compared with the request, which brought it, and needs nothing of the stores.

`AnswersAreTimely` (`HitsAreTimely`, of ManifestHistory) is about the code as a whole
rather than about one state. Coherence says what an entry under a *current* key is
worth, but a request looks its key up later than it read the channel row, when the
version may have moved on. `ManifestHistory` adds a variable that no action reads,
`seen[r]`: the ids that were right for `r`'s key at some moment from its read of the
row until now, where anything counts as right while a bump of the branch is owed.
Every entry that the lookup may hit is in it, so that a device is never sent back
behind a release in force when it asked, unless its channel was deleted and created
again and the versions of the two meet. `TimelyInv` carries it: an entry under a
waiting request's key, and what another request is about to store under it, has been
right since. The step to check is the store, and `FillCoherence` answers for it when
the key is current; when it is not, the request that stores had read its answer
before the version moved. It is a theorem and no run's property; TLC finds no
counterexample with 2 requests, 1 writer, 1 branch, 2 ids and one bump (601,173
states), and finds one as soon as the exception is dropped, or entries are stored under the version of the moment
(`StoreUnderCurrentVersion`).

**PublishCoordinatorProofs**: `TypeCorrect`, `SlotStaysFree` (`EmbeddedSlotFree`),
`AcceptedIsNewest` and `PublishingIsAtomic` (`AtomicPublishing`). What the reads
of a request established has to survive until its insert. `JobsInv` is the
exclusion: requests stand once each in the queue of their branch, and whoever is
past its first read is at the head of one. `Checks` is what it protects: the
request at the head has a free slot (`SlotFree`) and beats every row of the tuples
it has checked (`Recent`). Edits and deletions take no lock, but they add no row,
which is all that `Checks` needs of them. The refinement follows: a request's
insert is the one step that is not a stutter of `PublishFeed`, and a rejection or an
eviction is a request dropped from `pending`.

`EveryRequestAnswered` needs fairness and stays with TLC, but what it rests on is safety
and is proved. `NobodyIsForgotten` (`NobodyWaitsInVain`): every request in flight
stands in the queue of its branch, and the head of every queue holds the permit and has a
statement to execute, which is the guard of `Advance`. `NobodyIsOvertaken`
(`NobodyFallsBack`): no step puts anyone before a waiting request, and every `Advance`
answers the request or takes it to a later phase or to fewer updates left (`Further`), which
no other step undoes. So under `WF_vars(Advance(p))` a head is answered after finitely
many statements, and with it everyone behind; that last, temporal step is the one
that is not machine-checked.

**OtaReaperProofs**: `TypeCorrect`, `GroupsAreReapedWhole` (`GroupsGoWhole`),
`DevicesSeeNoReaping` (`ReapingIsInvisible`) and `BasesOutliveReaping`
(`ReapingKeepsBases`). `Batch` says of the rows that a run is about to delete that they
are old and not kept, and that the rest of their groups, begun or not, is among
them, however chunks cut it. `Kept` is for runs that nobody interfered with: an old
row that is not kept has two newer kept ones in its tuple, if its branch is reachable
(`ServableKept`), and a full window of kept rows with a bundle above it (`BasesKept`); a
fully rolled out row on a page has a newer one that is not on it
(`FullyRolledOutKept`). The keep set is computed once, so
these facts have to survive everything published later, which only adds rows
above. `ServedWithout` then shows that a device's answer depends on the newest
two rows and the newest fully rolled out one only.

**StoredProofs**: of AssetCollection, `AssetTypeCorrect`, `ReadyRowsHaveObjects`
(`ReadyHasObject`), `AssetsDoNotLeak` (`NoAssetLeaks`) and `SurvivorsKeepAssets`
(`SurvivorKeepsAsset`); of Patches, `PatchesSuitDevices` (`BodySuitsDevice`) and
`SweepIsConservative` (`SweepSparesUsable`); of Signing, `SigningTypeCorrect`,
`ProfilesAreStored` (`ProfileStored`), `BuildsCoverTheirDevices` (`BuildCoversRoster`)
and `LiveCertificatesHaveKeys` (`LiveCertificateHasKey`). With BuildsProofs they are carried
to the `stored` run's specification by `StoredIsItsParts`, and its `ComponentsTyped` is
`StoredTypeCorrect`. The assets' invariant says what each
actor knows at each of its steps (`PubFit`, `ColFit`): a collector has read whatever
it is about to delete, but for what came back `unread`. `RowsBacked` strengthens
`ReadyHasObject` to rows that are still pending: one without its object is about to be
deleted or still owed its upload, which is what makes a late finalization harmless.
With the foreign key (`RefsHaveRows`) and the fact that a condemned hash has only
`late` referrers (`OrphansUnreferenced`) it gives `SurvivorKeepsAsset`.
That of Patches says that a key tells what its bytes are (`KeysTell`), that
no patch is ever in the shared cache (`AnswersFit`), and that the sweep has seen
every update that a key it may delete names (`SweepFit`). That of Signing says what
a command knows at each of its steps (`SignerFit`): Apple still lists every device
its check required, and the profile it approved or made was uploaded with them.
Uploads overlap without harm because of `Apart`: an upload that is not in the row yet
has an object nobody else holds the key of or is about to delete, and what a command
deletes was read before its own upload took the row's place, so it is never what the
row holds now. `PortalFits` has the order of a revocation, Apple first: a certificate
that is forgotten here is not live there, nor will it be, since Apple never
issues it again.

**BuildsProofs**: `BuildTypeCorrect`, `ListedArtifactsAreStored`
(`ListedArtifactStored`) and `EveryObjectAccounted` (`ObjectsAccounted`). A
completion may run at any number of attempts at once, each between its reads and
its writes. `Ownership` ties an id to the one command that drew it; `RowsFit` says that
nothing more is put under the id of a row, and that no completion of an expired one is
under way; `DeletionFit` and `CollectionFit` say what those two have found, and
`CompletedKept` that an attempt that inserted its row leaves the object answered for.

**ManagementProofs**: of Submissions, `SubmissionTypeCorrect`, `OutcomesAreTruthful`
(`OutcomeTruthful`) and `EndsStand` (`EndStands`); the invariant says that a report
that was cut off says what the store did (`DelayedTruthful`), whenever it lands. Of
EnvVars, `EnvTypeCorrect`, `VariablesStayReachable` (`EnvironmentsKnown`),
`ExportsAreComplete` (`ExportComplete`) and `HistoriesAreBounded` (`HistoryBounded`).
The bound is the hard one: `Window` says that the numbers within the cap of the newest
are all taken, so that whatever else is in a history was written late, and `FewLate`
counts, for each variable, those late revisions together with the ones still under way
that are already overtaken: writing one of these only moves it from one count to the
other. The proof
also corrected the model: the bound was first stated without the number of items
an import writes at a time. Of ChannelRouting, `ChannelTypeCorrect`, `EveryRouteIsKnown`
(`RoutesAreKnown`), `RolloutsHangTogether` (`RolloutHangsTogether`),
`RoutesLeadSomewhere` (`RoutedBranchesExist`) and `PercentagesMoveOnlyTheirDevices`
(`PercentageMovesOnlyItsDevices`). `ManagementIsItsParts` carries them to the
`management` run's specification, and its `ComponentsTyped` is `ManagementTypeCorrect`. The
invariant of ChannelRouting adds what a request under way has
found (`CallsFit`): the mapping its check was about, and, for a rollout, a branch that
exists or was deleted since.

**Assumptions.** The ASSUMEs of the modules: constant sets are disjoint where model
values name things of different kinds, bounds are positive, sets that a bound
counts are finite. One is about data: `RowsAssumption` of ChannelRouting takes stored
rollouts to end with the channel's own branch, as every mapping that
`buildBranchMapping` writes does; what a percentage edit makes of them is proved.

**Only model-checked.** `EveryRequestAnswered` (liveness needs fairness, which is
out of the provers' reach). The
six violated properties are counterexamples and have nothing to prove.
`Spec` in the theorems is the safety part of each specification; `ReleaseSpec` of the
`release` run is `Spec` of ManifestCache held to its two scenes.

## Where the code and its documents differ

Shown by a run (the run's counterexample is the trace):

* `gap`: a stale manifest can be matched between the row statement and its bump,
  and for good when the writer dies there; the caching document says the bump is
  in the same write.
* `reconciled`: replacing an embedded baseline can delete another branch's row.
* `dangling`: collection can delete the object of an asset that a publish or a
  republish refers to meanwhile.
* `starved`: a page of kept rows ends every later run of the reaper.
* `resurrected`: a revoked key can come back through a grant already checked, or
  a rotation prepared before the departure.
* `autosubmit`: `build --auto-submit` waits without end for a submission that
  nothing uploads.

Seen while modelling, and kept out of the properties by the named histories or
by an assumption; no run asks for them:

* a rollout started while a channel is relinked falls back to a branch that is
  not the linked one; a percentage edit that began before a rollout was
  completed brings it back; a branch deleted while a rollout to it starts leaves
  a mapping to a branch that is gone (`torn`, `orphans`);
* an upload whose version check precedes a rotation is sealed under the old key
  (`stranded`); a lost rotation then reseals such a credential under its own key,
  although `repositories/org-vault.ts:78-79` says it changes nothing;
* a member removal that ends between its statements leaves the wraps until some
  later change of policies reconciles them (`leaving`);
* a registration racing a stale collector leaves an R2 object without a row;
* the deletion of a branch or a project (`repositories/branches.ts:240-250`,
  `repositories/projects.ts:353-376`) and the replacement of an embedded baseline
  (`publish-coordination.ts:238`) remove references and look for no orphans: assets
  referred to by nothing else keep their row and object, and no later collection
  lists them. So does a baseline that is replaced after a collector read the old
  one's hashes and before it deletes the row (`tracked`, `unread`);
* a publish that has replaced its baseline and dies before its insert
  (`publish-coordination.ts:238`) has changed rows without a bump; ManifestCache
  has no baselines, its `unbumped` covers a writer that dies after its one write;
* an edit, deletion or relink between the reaper's choice of a page and its
  deletion can take the newest row of a tuple (`touched`);
* a channel is created with cache version 0 (`handlers/channels.ts:154`), so one
  that is deleted and created again can match entries of its predecessor until
  they expire (`generation`), where `docs/specs/server/10-caching.md:18` speaks of
  a monotonic counter;
* `docs/specs/server/19-bundle-diffing.md` has the server probe patches from the
  device's current and from its embedded update; the code probes the current one
  only (`protocol/patch-negotiation.ts:94`);
* the CLI may ask for up to 50 patch bases (`handlers/updates-helpers.ts:24-31`), the
  sweep protects the newest 10;
* an environment variable written while its environment is deleted names one that
  is gone (`strayed`); a rollback overtaken by an update points at a pruned
  revision, and the key is missing from exports until the next one (`clobbered`);
* an import counts what exists from one page of at most 1000 rows
  (`env-vars-helpers.ts:25-26`), so a larger project passes its cap;
* a completion does not ask whether the artifact was uploaded
  (`handlers/builds.ts:253`), and one that runs again after the build was deleted
  lists it again without its artifact (`revived`); the daily collection covers the
  profiles production, preview and development only;
* a submission may be cancelled while in progress, although
  `packages/api/src/groups/submissions.ts:75` names two earlier states only, and any
  row may be deleted, not only "a terminal submission record"; a command that fails
  before its first report leaves a row that never ends; a creation whose answer is
  lost is repeated and leaves two;
* a build's download step ignores `profileStale`, and a profile is not checked again
  after it was regenerated; a regeneration embeds every device Apple lists, while
  staleness compares the ones linked here;
* setting up may bind a certificate to a reused profile that was made for another
  one; revoking a certificate to make room leaves stored rows bound to it;
  overlapping uploads of a profile leave an object without a row.

**Read replicas.** A request's D1 session starts "first-unconstrained"
(`cloudflare/context.ts:69`), so its reads may come from a replica that lags. A
lagging read is a read the request made earlier, which a slow request can do in
these models too. The exception is the coordinator: each operation opens a
session of its own, so a publish may not see the previous one. PublishCoordinator
has no replicas.

## Not modelled

The modules stand for the server's stateful core and the client calls around it.
Most of the repository's lines are elsewhere: the dashboard and its components, the
prompts and output of the command line, native builds, schemas of endpoints,
rendering, parsing and cryptography. None of it has states that interleave.

Behaviour that a model could still take up:

* `publish` for several platforms publishes one after the other, and a failure
  leaves a part of the group; `update revert --platform` picks the previous group
  by platform and republishes all of it (`commands/update/revert.ts:37-96`); `update
  republish --rollout-percentage` publishes first and sets the percentage later
  (`commands/update/republish.ts:214-238`);
* a registration link consumed twice at once; deletion of an organization, a
  project or a user beside requests that use them;
* what follows an overtaken read in the publish coordinator: a rollout edited
  without the lock (`publish-coordination.ts:299`), a baseline unmarked before an
  insert that then collides (`:329`), a signed update older than one that was
  deleted (`clock-skew-guard.ts:34`);
* the reaper's rows changing between its page and its chunks
  (`ota-reaper.ts:203`, `update-reaper-sql.ts:280`), beyond what `touched` records;
* a grant between the listing of a rotation's recipients and its submission
  (`apps/cli/src/application/vault-rotation.ts:96`);
* the copy of an edge cache per point of presence; D1 replicas in the coordinator;
* a baseline uploaded again under its own id while a sweep runs: the sweep may
  then delete patches to it that are new again.

## Plan

Done, most important first: ManifestCache, PublishCoordinator, AssetCollection,
OtaReaper, ChannelRouting, OrgVault, EnvVars, Builds, Submissions, Signing, Patches;
the abstract specifications PublishFeed and SharedSecret, with their refinements
proved; the safety properties of every component, and of the two unions, proved;
what progress in PublishCoordinator rests on.

Next, as models: replica reads in PublishCoordinator, as a lagging copy of `rows`;
the release commands of the CLI, as a client of PublishCoordinator.
