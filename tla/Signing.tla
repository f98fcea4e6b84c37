-------------------------------- MODULE Signing --------------------------------
(***************************************************************************)
(* iOS signing credentials of one bundle under one Apple team: the          *)
(* certificates live at Apple (which allows a few) and those stored here,   *)
(* the one provisioning profile (a D1 row and an R2 object), the bundle   *)
(* configuration of each project that binds a certificate and the profile,  *)
(* and the device roster a managed profile is made for.  Builds check the   *)
(* credentials, set them up or regenerate the profile, and then download    *)
(* what they sign with; each D1, R2 and Apple call is a step, and several   *)
(* builds, a revocation, a device sync and the dashboard's edits interleave.*)
(*                                                                          *)
(* The distribution is one with devices (ad hoc or development), the key    *)
(* that talks to Apple is there, and one Apple team is modelled: a device   *)
(* linked here is one Apple lists for it (devices.update, which could move  *)
(* a device of another team here, is left out).                             *)
(***************************************************************************)
EXTENDS Naturals, FiniteSets

CONSTANTS
  Signers,    \* builds, and regenerate-profile commands
  Projects,   \* projects with this bundle identifier
  Certs,      \* certificates Apple may issue, by serial number
  CertLimit,  \* live certificates Apple allows (the service: 3)
  Uploaded,   \* ids of uploaded profiles, each also the id in its R2 key
  Udids,      \* devices
  MaxEdits,   \* bound: dashboard edits, revocations and syncs together
  NoCert, NoProfile

ASSUME SigningAssumption ==
  {CertLimit, MaxEdits} \subseteq Nat /\ CertLimit > 0 /\ NoCert \notin Certs /\ NoProfile \notin Uploaded

VARIABLES
  portal,     \* Apple's side: live certificates, registered devices
  certRow,    \* stored certificates, each with its private key
  profile,    \* the row of apple_provisioning_profiles, or none
  file,       \* profile objects in R2
  config,     \* ios_bundle_configurations, by project
  roster,     \* what is known of each device here
  signer,     \* what each command is doing
  revocation, \* the `credentials revoke' under way
  sync,       \* the `devices sync' under way
  edits,      \* how many of the bounded actions have run
  issued,     \* uploads so far, and certificates Apple issued so far
  keyless,    \* history: certificates whose private key was lost
  unanswered     \* history: uploads that were written and reported as failed

signingVars == <<portal, certRow, profile, file, config, roster, signer,
                 revocation, sync, edits, issued, keyless, unanswered>>

ProfileRow == [id : Uploaded, key : Uploaded, hash : SUBSET Udids]
Object     == [key : Uploaded, cert : Certs, devices : SUBSET Udids]
Binding    == [cert : Certs \cup {NoCert}, profile : Uploaded \cup {NoProfile}]
Stages     == {"check", "recheck", "download", "command"}
AtRest     == [pc |-> "rest"]
Over       == [pc |-> "over"]

\* `needs': the devices linked when the build last checked its profile; `key':
\* the upload that check approved, or that this build made.  They are there
\* for the properties.
Job == [project : Projects, stage : Stages, needs : SUBSET Udids,
        key : Uploaded \cup {NoProfile}]

Signer ==
  {AtRest, Over} \cup
  [pc : {"configuration", "setup", "regenerate"}, job : Job] \cup
  [pc : {"rows"}, job : Job, bound : Binding] \cup
  [pc : {"roster"}, job : Job, row : ProfileRow] \cup
  [pc : {"artifact"}, job : Job, row : ProfileRow, stale : BOOLEAN] \cup
  [pc : {"issue", "revoke"}, job : Job, again : BOOLEAN] \cup
  [pc : {"keep", "choose", "generate"}, job : Job, cert : Certs] \cup
  [pc : {"create"}, job : Job, cert : Certs, devices : SUBSET Udids] \cup
  [pc : {"previous", "bind"}, job : Job, cert : Certs, made : ProfileRow] \cup
  [pc : {"upsert", "drop"}, job : Job, cert : Certs, made : ProfileRow,
   old : SUBSET Uploaded] \cup
  [pc : {"signed"}, job : Job, row : ProfileRow, content : Object]

SigningTypeOK ==
  /\ portal \in [certs : SUBSET Certs, devices : SUBSET Udids]
  /\ Cardinality(portal.certs) <= CertLimit
  /\ certRow \subseteq issued.certs
  /\ profile \subseteq ProfileRow /\ Cardinality(profile) <= 1
  /\ file \subseteq Object
  /\ config \in [Projects -> {{}} \cup {{b} : b \in Binding}]
  /\ roster \in [Udids -> {"absent", "local", "linked"}]
  /\ signer \in [Signers -> Signer]
  /\ revocation \in {AtRest} \cup [pc : {"apple", "local"}, cert : Certs, keep : BOOLEAN]
  /\ sync \in {AtRest} \cup [pc : {"push", "read"}, apple : SUBSET Udids]
                       \cup [pc : {"write"}, known : SUBSET Udids, left : SUBSET Udids]
  /\ edits \in 0..MaxEdits
  /\ issued \in [uploads : SUBSET Uploaded, certs : SUBSET Certs]
  /\ keyless \subseteq issued.certs
  /\ unanswered \subseteq issued.uploads

\* collectDeviceAscIds: the team's devices that carry a portal id.
Linked == {d \in Udids : roster[d] = "linked"}

\* Nothing is set up yet, or a build of these projects ran before.
SigningInit ==
  /\ roster \in [Udids -> {"absent", "local", "linked"}]
  /\ \E apple \in SUBSET Udids :
       /\ Linked \subseteq apple
       /\ \/ /\ portal = [certs |-> {}, devices |-> apple]
             /\ certRow = {} /\ profile = {} /\ file = {}
             /\ config = [p \in Projects |-> {}]
             /\ issued = [uploads |-> {}, certs |-> {}]
          \/ \E c \in Certs, k \in Uploaded, hash \in SUBSET apple \ {{}} :
               /\ portal = [certs |-> {c}, devices |-> apple]
               /\ certRow = {c}
               /\ profile = {[id |-> k, key |-> k, hash |-> hash]}
               /\ file = {[key |-> k, cert |-> c, devices |-> hash]}
               /\ config = [p \in Projects |-> {[cert |-> c, profile |-> k]}]
               /\ issued = [uploads |-> {k}, certs |-> {c}]
  /\ signer = [s \in Signers |-> AtRest]
  /\ revocation = AtRest /\ sync = AtRest
  /\ edits = 0
  /\ keyless = {} /\ unanswered = {}

stored == <<certRow, profile, file, config>>
helpers == <<revocation, sync>>
traces == <<issued, keyless, unanswered>>

Signs(s, pc) == signer[s].pc = pc
Go(s, step)  == signer' = [signer EXCEPT ![s] = step]

\* A step that only moves the command on.
Turn(s, step) ==
  Go(s, step) /\ UNCHANGED <<portal, stored, roster, helpers, edits, traces>>

Edit == edits < MaxEdits /\ edits' = edits + 1

StartBuild(s, p) ==
  /\ signer[s] = AtRest
  /\ Turn(s, [pc |-> "configuration",
              job |-> [project |-> p, stage |-> "check", needs |-> {}, key |-> NoProfile]])

\* credentials regenerate-profile
StartRegenerate(s, p) ==
  /\ signer[s] = AtRest
  /\ Turn(s, [pc |-> "regenerate",
              job |-> [project |-> p, stage |-> "command", needs |-> {}, key |-> NoProfile]])

\* A call fails or the command dies: a private key not yet uploaded is lost.
SignerDies(s) ==
  /\ signer[s].pc \notin {"rest", "over", "signed"}
  /\ Go(s, Over)
  /\ keyless' = IF Signs(s, "keep") THEN keyless \cup {signer[s].cert} ELSE keyless
  /\ UNCHANGED <<portal, stored, roster, helpers, edits, issued, unanswered>>

(***************************************************************************)
(* resolveIosBuildCredentials, asked by ensureIosCredentials (and again     *)
(* after a setup), then by downloadIosCredentials.                         *)
(***************************************************************************)
\* NotFound and BadRequest: an interactive first check sets up, a later one fails.
Missing(s) ==
  Turn(s, IF signer[s].job.stage = "check"
          THEN [pc |-> "setup", job |-> [signer[s].job EXCEPT !.stage = "recheck"]]
          ELSE Over)

LoadConfiguration(s) ==
  /\ Signs(s, "configuration")
  /\ LET job  == signer[s].job
         full == {b \in config[job.project] : NoCert # b.cert /\ NoProfile # b.profile} IN
     \/ full = {} /\ Missing(s)
     \/ \E b \in full : Turn(s, [pc |-> "rows", job |-> job, bound |-> b])

LoadRows(s) ==
  /\ Signs(s, "rows")
  /\ LET bound == signer[s].bound
         rows  == {row \in profile : row.id = bound.profile /\ bound.cert \in certRow} IN
     \/ rows = {} /\ Missing(s)
     \/ \E row \in rows : Turn(s, [pc |-> "roster", job |-> signer[s].job, row |-> row])

Checked(s, stale) ==
  /\ Signs(s, "roster")
  /\ LET job == signer[s].job IN
     Turn(s, [pc    |-> "artifact",
              job   |-> IF job.stage = "download" THEN job ELSE [job EXCEPT !.needs = Linked],
              row   |-> signer[s].row,
              stale |-> stale])

\* Mutant: a profile is stale only when it holds a device that has gone.
CheckProfileStaleOneWay(s) == Checked(s, ~(signer[s].row.hash \subseteq Linked))

CheckProfileStale(s) == Checked(s, signer[s].row.hash # Linked)

\* A fresh profile is downloaded, a stale one regenerated; the download takes
\* what it is given, stale or not.
FetchArtifact(s) ==
  /\ Signs(s, "artifact")
  /\ LET job   == signer[s].job
         row   == signer[s].row
         found == {o \in file : o.key = row.key} IN
     \/ found = {} /\ Missing(s)
     \/ /\ job.stage = "download"
        /\ \E o \in found : Turn(s, [pc |-> "signed", job |-> job, row |-> row, content |-> o])
     \/ /\ job.stage # "download" /\ found # {}
        /\ LET next == [job EXCEPT !.stage = "download", !.key = row.key] IN
           Turn(s, [pc |-> IF signer[s].stale THEN "regenerate" ELSE "configuration",
                    job |-> next])

(***************************************************************************)
(* setupIosViaAscKey.                                                      *)
(***************************************************************************)
\* chooseIosCertificateId: one that is stored, or a new one.
PickCertificate(s) ==
  /\ Signs(s, "setup")
  /\ \/ \E c \in certRow : Turn(s, [pc |-> "choose", job |-> signer[s].job, cert |-> c])
     \/ Turn(s, [pc |-> "issue", job |-> signer[s].job, again |-> FALSE])

\* createCertificate.  At the limit the user picks certificates to revoke and
\* the issue is tried once more.
IssueCertificate(s) ==
  /\ Signs(s, "issue")
  /\ IF Cardinality(portal.certs) < CertLimit
     THEN \E c \in Certs \ issued.certs :
            /\ portal' = [portal EXCEPT !.certs = @ \cup {c}]
            /\ issued' = [issued EXCEPT !.certs = @ \cup {c}]
            /\ Go(s, [pc |-> "keep", job |-> signer[s].job, cert |-> c])
            /\ UNCHANGED <<stored, roster, helpers, edits, keyless, unanswered>>
     ELSE Turn(s, IF signer[s].again THEN Over
                  ELSE [pc |-> "revoke", job |-> signer[s].job, again |-> TRUE])

\* interactiveCertLimitRecover: at Apple only, the stored rows stay.
RevokeSome(s) ==
  /\ Signs(s, "revoke")
  /\ \E gone \in SUBSET portal.certs :
       /\ gone # {}
       /\ portal' = [portal EXCEPT !.certs = @ \ gone]
  /\ Go(s, [pc |-> "issue", job |-> signer[s].job, again |-> TRUE])
  /\ UNCHANGED <<stored, roster, helpers, edits, traces>>

\* The object and the row of the upload, in one step: a lost answer to the
\* insert, which removes the object and ends the command, is left out here and
\* modelled for profiles (UpsertUnheard).
KeepCertificate(s) ==
  /\ Signs(s, "keep")
  /\ certRow' = certRow \cup {signer[s].cert}
  /\ Go(s, [signer[s] EXCEPT !.pc = "choose"])
  /\ UNCHANGED <<portal, profile, file, config, roster, helpers, edits, traces>>

\* resolveIosProfileId: the profile that is there, whatever certificate it is
\* for, or a new one.
ChooseProfile(s) ==
  /\ Signs(s, "choose")
  /\ LET job == signer[s].job
         c   == signer[s].cert IN
     \/ \E row \in profile :
          Turn(s, [pc |-> "bind", job |-> job, cert |-> c, made |-> row])
     \/ Turn(s, [pc |-> "generate", job |-> job, cert |-> c])

(***************************************************************************)
(* regenerateProvisioningProfile, generateAndUploadProvisioningProfile.    *)
(***************************************************************************)
FindBoundConfig(s) ==
  /\ Signs(s, "regenerate")
  /\ LET job  == signer[s].job
         full == {b \in config[job.project] : NoCert # b.cert} IN
     \/ full = {} /\ Turn(s, Over)
     \/ \E b \in full : Turn(s, [pc |-> "generate", job |-> job, cert |-> b.cert])

\* The certificate is stored and live at Apple; every device there is taken.
ListAppleDevices(s) ==
  /\ Signs(s, "generate")
  /\ LET c == signer[s].cert IN
     Turn(s, IF c \in certRow \cap portal.certs /\ portal.devices # {}
             THEN [pc |-> "create", job |-> signer[s].job, cert |-> c,
                   devices |-> portal.devices]
             ELSE Over)

\* Apple makes the profile, the server stores it under a fresh id.
CreateProfile(s) ==
  /\ Signs(s, "create")
  /\ LET me == signer[s] IN
     IF me.cert \in portal.certs
     THEN \E k \in Uploaded \ issued.uploads :
            /\ issued' = [issued EXCEPT !.uploads = @ \cup {k}]
            /\ file' = file \cup {[key |-> k, cert |-> me.cert, devices |-> me.devices]}
            /\ Go(s, [pc |-> "previous", job |-> me.job, cert |-> me.cert,
                      made |-> [id |-> k, key |-> k, hash |-> me.devices]])
            /\ UNCHANGED <<portal, certRow, profile, config, roster, helpers, edits, keyless, unanswered>>
     ELSE Turn(s, Over)

ReadPrevious(s) ==
  /\ Signs(s, "previous")
  /\ LET me == signer[s] IN
     Turn(s, [pc |-> "upsert", job |-> me.job, cert |-> me.cert, made |-> me.made,
              old |-> {row.key : row \in profile}])

\* On conflict the row keeps its id.  A certificate deleted meanwhile breaks
\* the foreign key, and withR2Compensation removes the object.
UpsertProfile(s) ==
  /\ Signs(s, "upsert")
  /\ LET me   == signer[s]
         kept == IF profile = {} THEN {me.made}
                 ELSE {[me.made EXCEPT !.id = row.id] : row \in profile} IN
     IF me.cert \in certRow
     THEN /\ profile' = kept
          /\ \E row \in kept : Go(s, [me EXCEPT !.pc = "drop", !.made = row])
          /\ UNCHANGED <<file, keyless, unanswered, issued>>
     ELSE /\ file' = {o \in file : o.key # me.made.key}
          /\ Go(s, Over)
          /\ UNCHANGED <<profile, traces>>
  /\ UNCHANGED <<portal, certRow, config, roster, helpers, edits>>

\* The statement ran, its answer was lost: the object is removed all the same.
UpsertUnheard(s) ==
  /\ Signs(s, "upsert")
  /\ LET me == signer[s] IN
     /\ me.cert \in certRow
     /\ profile' = IF profile = {} THEN {me.made}
                   ELSE {[me.made EXCEPT !.id = row.id] : row \in profile}
     /\ file' = {o \in file : o.key # me.made.key}
     /\ unanswered' = unanswered \cup {me.made.key}
  /\ Go(s, Over)
  /\ UNCHANGED <<portal, certRow, config, roster, helpers, edits, issued, keyless>>

\* Mutant: what the row held is read only now.
DropCurrent(s) ==
  /\ Signs(s, "drop")
  /\ file' = {o \in file : o.key \notin {row.key : row \in profile}}
  /\ Go(s, [pc |-> "bind", job |-> signer[s].job, cert |-> signer[s].cert,
            made |-> signer[s].made])
  /\ UNCHANGED <<portal, certRow, profile, config, roster, helpers, edits, traces>>

DropPrevious(s) ==
  /\ Signs(s, "drop")
  /\ file' = {o \in file : o.key \notin signer[s].old}
  /\ Go(s, [pc |-> "bind", job |-> signer[s].job, cert |-> signer[s].cert,
            made |-> signer[s].made])
  /\ UNCHANGED <<portal, certRow, profile, config, roster, helpers, edits, traces>>

\* A setup binds both (upsertIosBundleConfiguration), a regeneration only the
\* profile, of a configuration that must be there; foreign keys hold.
BindConfiguration(s) ==
  /\ Signs(s, "bind")
  /\ LET me    == signer[s]
         p     == me.job.project
         bound == IF me.job.stage = "recheck"
                  THEN {[cert |-> me.cert, profile |-> me.made.id]}
                  ELSE {[b EXCEPT !.profile = me.made.id] : b \in config[p]}
         valid == /\ \E row \in profile : row.id = me.made.id
                  /\ me.job.stage = "recheck" => me.cert \in certRow IN
     IF bound # {} /\ valid
     THEN /\ config' = [config EXCEPT ![p] = bound]
          /\ Go(s, IF me.job.stage = "command" THEN Over
                   ELSE [pc |-> "configuration", job |-> [me.job EXCEPT !.key = me.made.key]])
     ELSE Go(s, Over) /\ UNCHANGED config
  /\ UNCHANGED <<portal, certRow, profile, file, roster, helpers, edits, traces>>

(***************************************************************************)
(* credentials revoke: at Apple, then here.                                *)
(***************************************************************************)
FromRevocation(step) == revocation' = step /\ UNCHANGED <<profile, file, roster, signer, sync, issued, unanswered>>

\* ON DELETE SET NULL
ForgetCert(c) ==
  /\ certRow' = certRow \ {c}
  /\ config' = [p \in Projects |->
       {IF b.cert = c THEN [b EXCEPT !.cert = NoCert] ELSE b : b \in config[p]}]

StartRevoke(c, keep) ==
  /\ revocation = AtRest /\ c \in certRow
  /\ FromRevocation([pc |-> "apple", cert |-> c, keep |-> keep])
  /\ Edit /\ UNCHANGED <<portal, certRow, config, keyless>>

\* Mutant: the stored certificate goes first.
RevokeLocalFirst ==
  /\ revocation.pc = "apple"
  /\ ForgetCert(revocation.cert)
  /\ FromRevocation([revocation EXCEPT !.pc = "local"])
  /\ UNCHANGED <<portal, edits, keyless>>

RevokeAtApple ==
  /\ revocation.pc = "apple"
  /\ portal' = [portal EXCEPT !.certs = @ \ {revocation.cert}]
  /\ FromRevocation(IF revocation.keep THEN AtRest ELSE [revocation EXCEPT !.pc = "local"])
  /\ UNCHANGED <<certRow, config, edits, keyless>>

RevokeLocally ==
  /\ revocation.pc = "local"
  /\ ForgetCert(revocation.cert)
  /\ FromRevocation(AtRest)
  /\ UNCHANGED <<portal, edits, keyless>>

RevokeDies ==
  /\ revocation # AtRest
  /\ FromRevocation(AtRest)
  /\ UNCHANGED <<portal, certRow, config, edits, keyless>>

(***************************************************************************)
(* devices sync, and syncAppleDevices.                                     *)
(***************************************************************************)
FromSync(step) == sync' = step /\ UNCHANGED <<stored, signer, revocation, traces>>

StartSync ==
  /\ sync = AtRest
  /\ FromSync([pc |-> "push", apple |-> portal.devices])
  /\ Edit /\ UNCHANGED <<portal, roster>>

\* Local devices are registered at Apple, each of which may be refused; the
\* snapshot sent on leaves out, without pull, the devices unknown here.
PushDevices(pull) ==
  /\ sync.pc = "push"
  /\ LET local == {d \in Udids : roster[d] # "absent"} IN
     \E pushed \in SUBSET (local \ portal.devices) :
       /\ portal' = [portal EXCEPT !.devices = @ \cup pushed]
       /\ LET sent == sync.apple \cup pushed IN
          FromSync([pc |-> "read", apple |-> IF pull THEN sent ELSE sent \cap local])
  /\ UNCHANGED <<roster, edits>>

\* One read up front; rows already linked are left alone.
ReadRoster ==
  /\ sync.pc = "read"
  /\ LET left == sync.apple \ Linked IN
     FromSync(IF left = {} THEN AtRest
              ELSE [pc |-> "write", known |-> {d \in Udids : roster[d] # "absent"},
                    left |-> left])
  /\ UNCHANGED <<portal, roster, edits>>

\* A device unknown then is inserted (a conflict ends the sync), one that was
\* known is linked if its row is still there.
WriteDevice(d) ==
  /\ sync.pc = "write" /\ d \in sync.left
  /\ LET rest == IF sync.left = {d} THEN AtRest ELSE [sync EXCEPT !.left = @ \ {d}] IN
     CASE (d \in sync.known) = (roster[d] # "absent") ->
            roster' = [roster EXCEPT ![d] = "linked"] /\ FromSync(rest)
       [] d \in sync.known /\ roster[d] = "absent" -> FromSync(rest) /\ UNCHANGED roster
       [] d \notin sync.known /\ roster[d] # "absent" -> FromSync(AtRest) /\ UNCHANGED roster
  /\ UNCHANGED <<portal, edits>>

SyncDies == sync # AtRest /\ FromSync(AtRest) /\ UNCHANGED <<portal, roster, edits>>

(***************************************************************************)
(* The dashboard, and Apple's portal.                                      *)
(***************************************************************************)
\* A device deleted during a sync is not registered again before it ends.
RegisterDevice(d) ==
  /\ roster[d] = "absent"
  /\ sync.pc = "write" => d \notin sync.known
  /\ roster' = [roster EXCEPT ![d] = "local"]
  /\ Edit /\ UNCHANGED <<portal, stored, signer, helpers, traces>>

DeleteDevice(d) ==
  /\ roster[d] # "absent"
  /\ roster' = [roster EXCEPT ![d] = "absent"]
  /\ Edit /\ UNCHANGED <<portal, stored, signer, helpers, traces>>

RegisterAtApple(d) ==
  /\ d \notin portal.devices
  /\ portal' = [portal EXCEPT !.devices = @ \cup {d}]
  /\ Edit /\ UNCHANGED <<stored, roster, signer, helpers, traces>>

\* The row and its key go, whatever Apple still lists.
DeleteCertificate(c) ==
  /\ c \in certRow
  /\ ForgetCert(c)
  /\ keyless' = keyless \cup {c}
  /\ Edit /\ UNCHANGED <<portal, profile, file, roster, signer, helpers, issued, unanswered>>

DeleteProfile(row) ==
  /\ profile' = {}
  /\ file' \in {file, {o \in file : o.key # row.key}}
  /\ config' = [p \in Projects |-> {[b EXCEPT !.profile = NoProfile] : b \in config[p]}]
  /\ Edit /\ UNCHANGED <<portal, certRow, roster, signer, helpers, traces>>

DeleteConfiguration(p) ==
  /\ config[p] # {}
  /\ config' = [config EXCEPT ![p] = {}]
  /\ Edit /\ UNCHANGED <<portal, certRow, profile, file, roster, signer, helpers, traces>>

SignerStep(s) ==
  \/ \E p \in Projects : StartBuild(s, p) \/ StartRegenerate(s, p)
  \/ SignerDies(s)
  \/ LoadConfiguration(s) \/ LoadRows(s)
  \/ CheckProfileStale(s)
  \/ FetchArtifact(s)
  \/ PickCertificate(s) \/ IssueCertificate(s) \/ RevokeSome(s)
  \/ KeepCertificate(s) \/ ChooseProfile(s)
  \/ FindBoundConfig(s) \/ ListAppleDevices(s) \/ CreateProfile(s)
  \/ ReadPrevious(s) \/ UpsertProfile(s) \/ UpsertUnheard(s)
  \/ DropPrevious(s)
  \/ BindConfiguration(s)

SigningNext ==
  \/ \E s \in Signers : SignerStep(s)
  \/ \E c \in Certs, keep \in BOOLEAN : StartRevoke(c, keep)
  \/ RevokeAtApple
  \/ RevokeLocally \/ RevokeDies
  \/ StartSync \/ ReadRoster \/ SyncDies
  \/ \E pull \in BOOLEAN : PushDevices(pull)
  \/ \E d \in Udids : WriteDevice(d)
  \/ \E d \in Udids : RegisterDevice(d) \/ DeleteDevice(d) \/ RegisterAtApple(d)
  \/ \E c \in Certs : DeleteCertificate(c)
  \/ \E row \in profile : DeleteProfile(row)
  \/ \E p \in Projects : DeleteConfiguration(p)

SigningSpec == SigningInit /\ [][SigningNext]_signingVars

(***************************************************************************)
(* Properties.                                                             *)
(***************************************************************************)

\* The profile row names an object that is stored and was made for the very
\* devices the row's hash stands for, however uploads overlap: only an upload
\* that was written and reported as failed has lost its object
\* (handlers/apple-provisioning-profiles.ts:79-107, lib/r2-helpers.ts:17-25).
ProfileStored ==
  \A row \in profile :
    \/ row.key \in unanswered
    \/ \E o \in file : o.key = row.key /\ o.devices = row.hash

\* A build signs with a profile that covers every device that was linked when
\* its check ran, whatever was registered, synced, regenerated or deleted
\* since: unless another upload has replaced the profile the check approved or
\* the build itself made (credentials-interactive.ts:292-334,
\* resolve-build-credentials.ts:69-98).
BuildCoversRoster ==
  \A s \in Signers :
    Signs(s, "signed") =>
      LET job == signer[s].job IN
      job.key = signer[s].row.key => job.needs \subseteq signer[s].content.devices

\* No certificate stays live at Apple, holding one of its few places, while
\* its private key is nowhere: unless a command ended between the issue and
\* the upload, or the dashboard deleted the row
\* (credentials-generator.ts:148-213, 240-292).
LiveCertificateHasKey ==
  \A c \in portal.certs :
    \/ c \in certRow \cup keyless
    \/ \E s \in Signers : Signs(s, "keep") /\ signer[s].cert = c
================================================================================
