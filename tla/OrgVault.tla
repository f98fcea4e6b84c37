-------------------------------- MODULE OrgVault --------------------------------
(* The credential vault of one organization.                                  *)
(*                                                                            *)
(* Clients hold the vault key; the server stores it wrapped to recipients     *)
(* (org_vault_key_wraps) and stores credentials whose DEK is wrapped under it,*)
(* both with the vault version they were made at.  The server never sees a    *)
(* key: what it guarantees rests on versions.  A client reads, works offline, *)
(* and submits; a handler checks in some queries and writes in a last one     *)
(* (handlers/org-vault.ts, repositories/org-vault.ts).                        *)
(*                                                                            *)
(* A vault key is named by the version it was made for and the session that   *)
(* made it.  Env var revisions are credentials here, as they are to rotation. *)
EXTENDS Integers, FiniteSets

CONSTANTS
  Users,        \* people with device keys
  DeviceKeys, RecoveryKeys,
  Owner,        \* the user of each device key
  Elsewhere,    \* device keys that are recipients in another organization too
  Creds,        \* credential ids
  Sessions,     \* a client and the request it has at the server
  MaxVersion,   \* bound: vault version reached by rotations
  NoVault, Unused, Gone, Idle, Nobody

Keys == DeviceKeys \cup RecoveryKeys

Versions == 1..MaxVersion
VaultKeys == [for : Versions, by : Sessions]
Vaults == [version : Versions, key : VaultKeys, pending : BOOLEAN, holders : SUBSET Users]

ASSUME OrgVaultAssumption ==
  /\ DeviceKeys \cap RecoveryKeys = {}
  /\ Owner \in [DeviceKeys -> Users]
  /\ Elsewhere \subseteq DeviceKeys
  /\ MaxVersion \in Nat \ {0}
  /\ Nobody \notin Users \cup Keys \cup Creds
  /\ NoVault \notin Vaults

VARIABLES
  vault,     \* the org_vaults row, with the key of its version as a ghost
  wraps,     \* org_vault_key_wraps
  creds,     \* the credential tables
  access,    \* what each user is in the organization: "reader" may read the vault
  revoked,   \* keys with revoked_at set
  session,   \* what each client and its request are doing
  leaving,   \* history: users that lost access and whose wraps were not dropped yet
  slipped,   \* history: users given a wrap when they had no access
  stranded   \* history: credentials written beside a rotation

vars == <<vault, wraps, creds, access, revoked, session, leaving, slipped, stranded>>
histories == <<leaving, slipped, stranded>>

Wraps == [version : Versions, key : Keys, holds : VaultKeys]
Ops == {"bootstrap", "grant", "upload", "rotate", "drop"}
Slots ==
  [op : Ops, step : {"client", "checked"}, target : Users \cup Keys \cup Creds \cup {Nobody},
   version : Versions, key : VaultKeys,
   recipients : SUBSET Keys, deks : SUBSET Creds, refs : SUBSET Creds]

TypeOK ==
  /\ vault \in Vaults \cup {NoVault}
  /\ wraps \subseteq Wraps
  /\ creds \in [Creds -> [version : Versions, key : VaultKeys] \cup {Unused, Gone}]
  /\ access \in [Users -> {"none", "member", "reader"}]
  /\ revoked \subseteq DeviceKeys
  /\ session \in [Sessions -> Slots \cup {Idle}]
  /\ leaving \subseteq Users /\ slipped \subseteq Users /\ stranded \subseteq Creds

Init ==
  /\ vault = NoVault
  /\ wraps = {}
  /\ creds = [c \in Creds |-> Unused]
  /\ access = [u \in Users |-> "reader"]
  /\ revoked = {}
  /\ session = [s \in Sessions |-> Idle]
  /\ leaving = {} /\ slipped = {} /\ stranded = {}

Readers == {u \in Users : access[u] = "reader"}
Stored == {c \in Creds : creds[c] \notin {Unused, Gone}}
OwnersOf(keys) == {Owner[k] : k \in keys \cap DeviceKeys}

\* Mutant: a key without an owner is everybody's.
KeysOfAnyKind(u) == {k \in Keys : k \in DeviceKeys => Owner[k] = u}

KeysOf(u) == {k \in DeviceKeys : Owner[k] = u}
Wrapped(ws) == {w.key : w \in ws}
At(s, op, step) == session[s] # Idle /\ session[s].op = op /\ session[s].step = step
NewKey(s, version) == [for |-> version, by |-> s]
Done(s) == session' = [session EXCEPT ![s] = Idle]

(* listGrantable: the org's own keys, and the devices of its members.         *)
Grantable == RecoveryKeys \cup {k \in DeviceKeys : access[Owner[k]] # "none"}

-----------------------------------------------------------------------------
(* The client: it unlocks the vault, reads what it needs and submits.         *)

Submit(s, op, target, recipients, deks) ==
  /\ session[s] = Idle
  /\ vault # NoVault
  /\ session' = [session EXCEPT ![s] =
       [op |-> op, step |-> "client", target |-> target,
        version |-> vault.version, key |-> vault.key,
        recipients |-> recipients, deks |-> deks, refs |-> {}]]
  /\ UNCHANGED <<vault, wraps, creds, access, revoked, histories>>

SubmitBootstrap(s) ==
  \E recipients \in SUBSET Grantable :
    /\ session[s] = Idle
    /\ session' = [session EXCEPT ![s] =
         [op |-> "bootstrap", step |-> "client", target |-> Nobody, version |-> 1,
          key |-> NewKey(s, 1), recipients |-> recipients, deks |-> {}, refs |-> {}]]
    /\ UNCHANGED <<vault, wraps, creds, access, revoked, histories>>

SubmitGrant(s) == \E k \in Grantable : Submit(s, "grant", k, {}, {})

SubmitUpload(s) ==
  \E c \in Creds : creds[c] = Unused /\ Submit(s, "upload", c, {}, {})

(* rotateVaultTo: the recipients kept and added; every DEK must unwrap.       *)
SubmitRotate(s) ==
  \E recipients \in SUBSET Grantable :
    /\ vault # NoVault /\ vault.version < MaxVersion
    /\ \A c \in Stored : creds[c].key = vault.key
    /\ recipients \cap DeviceKeys \subseteq Wrapped(wraps)
    /\ Submit(s, "rotate", Nobody, recipients, Stored)

-----------------------------------------------------------------------------
(* The server.                                                                *)

Refuse(s) == Done(s) /\ UNCHANGED <<vault, wraps, creds, access, revoked, histories>>

Accept(s, refs) ==
  /\ session' = [session EXCEPT ![s].step = "checked", ![s].refs = refs]
  /\ UNCHANGED <<vault, wraps, creds, access, revoked, histories>>

HasRecovery(keys) == keys \cap RecoveryKeys # {}

(* bootstrap: its checks read nothing that changes; the batch is refused when *)
(* the vault exists.                                                          *)
Bootstrap(s) ==
  LET q == session[s]
  IN  /\ At(s, "bootstrap", "client")
      /\ \/ (vault # NoVault \/ ~HasRecovery(q.recipients)) /\ Refuse(s)
         \/ /\ vault = NoVault
            /\ HasRecovery(q.recipients)
            /\ vault' = [version |-> 1, key |-> q.key, pending |-> FALSE,
                         holders |-> OwnersOf(q.recipients)]
            /\ wraps' = [version : {1}, key : q.recipients, holds : {q.key}]
            /\ slipped' = slipped \cup (OwnersOf(q.recipients) \ Readers)
            /\ Done(s)
            /\ UNCHANGED <<creds, access, revoked, leaving, stranded>>

CheckGrant(s) ==
  /\ At(s, "grant", "client")
  /\ \/ session[s].target \in revoked /\ Refuse(s)
     \/ session[s].target \notin revoked /\ Accept(s, {})

\* Mutant: a plain insert, without the version of the vault.
AddWrapUnguarded(s) ==
  LET q == session[s]
  IN  /\ At(s, "grant", "checked")
      /\ wraps' = wraps \cup {[version |-> q.version, key |-> q.target, holds |-> q.key]}
      /\ vault' = [vault EXCEPT !.holders = @ \cup OwnersOf({q.target})]
      /\ slipped' = slipped \cup (OwnersOf({q.target}) \ Readers)
      /\ Done(s)
      /\ UNCHANGED <<creds, access, revoked, leaving, stranded>>

(* insertWrapGuarded, refused for a recipient that has a wrap already.        *)
AddWrap(s) ==
  LET q == session[s]
      owners == OwnersOf({q.target})
  IN  /\ At(s, "grant", "checked")
      /\ \/ /\ vault.version # q.version \/ q.target \in Wrapped({w \in wraps : w.version = q.version})
            /\ Refuse(s)
         \/ /\ vault.version = q.version
            /\ q.target \notin Wrapped({w \in wraps : w.version = q.version})
            /\ wraps' = wraps \cup {[version |-> q.version, key |-> q.target, holds |-> q.key]}
            /\ vault' = [vault EXCEPT !.holders = @ \cup owners]
            /\ slipped' = slipped \cup (owners \ Readers)
            /\ Done(s)
            /\ UNCHANGED <<creds, access, revoked, leaving, stranded>>

(* assertVaultVersionCurrent *)
CheckUpload(s) ==
  /\ At(s, "upload", "client")
  /\ \/ vault.version # session[s].version /\ Refuse(s)
     \/ vault.version = session[s].version /\ Accept(s, {})

InsertCredential(s) ==
  LET q == session[s]
  IN  /\ At(s, "upload", "checked")
      /\ \/ creds[q.target] # Unused /\ Refuse(s)
         \/ /\ creds[q.target] = Unused
            /\ creds' = [creds EXCEPT ![q.target] = [version |-> q.version, key |-> q.key]]
            /\ stranded' = IF vault.version # q.version THEN stranded \cup {q.target} ELSE stranded
            /\ Done(s)
            /\ UNCHANGED <<vault, wraps, access, revoked, leaving, slipped>>

DeleteCredential ==
  /\ \E c \in Stored : creds' = [creds EXCEPT ![c] = Gone]
  /\ UNCHANGED <<vault, wraps, access, revoked, session, histories>>

\* Mutant: a partial rotation is accepted.
CheckRotatePartial(s) ==
  LET q == session[s]
      sound == HasRecovery(q.recipients) /\ vault.version = q.version /\ q.deks \subseteq Stored
  IN  /\ At(s, "rotate", "client")
      /\ (~sound /\ Refuse(s)) \/ (sound /\ Accept(s, Stored))

\* Mutant: the recipients are not looked at.
CheckRotateAnyRecipients(s) ==
  LET q == session[s]
      sound == vault.version = q.version /\ q.deks = Stored
  IN  /\ At(s, "rotate", "client")
      /\ (~sound /\ Refuse(s)) \/ (sound /\ Accept(s, Stored))

(* rotate up to its batch: a recovery recipient, the version, the coverage.   *)
CheckRotate(s) ==
  LET q == session[s]
      sound == HasRecovery(q.recipients) /\ vault.version = q.version /\ q.deks = Stored
  IN  /\ At(s, "rotate", "client")
      /\ (~sound /\ Refuse(s)) \/ (sound /\ Accept(s, Stored))

\* Mutant: the vault row is written whatever its version.
RotateUnguarded(s) ==
  LET q == session[s]
      fresh == NewKey(s, q.version + 1)
  IN  /\ At(s, "rotate", "checked")
      /\ Done(s)
      /\ wraps' = {w \in wraps : w.version # q.version}
                    \cup [version : {q.version + 1}, key : q.recipients, holds : {fresh}]
      /\ creds' = [c \in Creds |->
                     IF c \in q.deks \cap Stored /\ creds[c].version = q.version
                     THEN [version |-> q.version + 1, key |-> fresh]
                     ELSE creds[c]]
      /\ vault' = [version |-> q.version + 1, key |-> fresh, pending |-> FALSE,
                   holders |-> OwnersOf(q.recipients)]
      /\ slipped' = OwnersOf(q.recipients) \ Readers
      /\ stranded' = stranded \cup (Stored \ q.refs)
      /\ UNCHANGED <<access, revoked, leaving>>

(* The batch.  Only the wraps and the vault row test the vault's version; the *)
(* other statements test the version of the row they write.                   *)
Rotate(s) ==
  LET q == session[s]
      fresh == NewKey(s, q.version + 1)
      won == vault.version = q.version
  IN  /\ At(s, "rotate", "checked")
      /\ Done(s)
      /\ wraps' = {w \in wraps : w.version # q.version}
                    \cup {w \in [version : {q.version + 1}, key : q.recipients, holds : {fresh}] : won}
      /\ creds' = [c \in Creds |->
                     IF c \in q.deks \cap Stored /\ creds[c].version = q.version
                     THEN [version |-> q.version + 1, key |-> fresh]
                     ELSE creds[c]]
      /\ IF won
         THEN /\ vault' = [version |-> q.version + 1, key |-> fresh, pending |-> FALSE,
                           holders |-> OwnersOf(q.recipients)]
              /\ slipped' = OwnersOf(q.recipients) \ Readers
              /\ stranded' = stranded \cup (Stored \ q.refs)
         ELSE UNCHANGED <<vault, slipped, stranded>>
      /\ UNCHANGED <<access, revoked, leaving>>

-----------------------------------------------------------------------------
(* People.                                                                    *)

StartDrop(s, u) ==
  /\ session[s] = Idle
  /\ session' = [session EXCEPT ![s] =
       [op |-> "drop", step |-> "client", target |-> u, version |-> 1,
        key |-> NewKey(s, 1), recipients |-> {}, deks |-> {}, refs |-> {}]]
  /\ UNCHANGED <<vault, wraps, creds, revoked, slipped, stranded>>

(* members.delete up to the vault, or a change of policies that takes the     *)
(* access away (down to "member") and reconciles.                             *)
LoseAccess(s) ==
  \E u \in Readers, rest \in {"none", "member"} :
    /\ access' = [access EXCEPT ![u] = rest]
    /\ leaving' = IF vault = NoVault THEN leaving ELSE leaving \cup {u}
    /\ StartDrop(s, u)

(* A member who no longer reads the vault is removed from the organization.   *)
RemoveMember(s) ==
  \E u \in Users \ Readers :
    /\ access[u] = "member"
    /\ access' = [access EXCEPT ![u] = "none"]
    /\ StartDrop(s, u)
    /\ UNCHANGED leaving

(* reconcileVaultRecipients, run by any later change of policies.             *)
Reconcile(s) ==
  \E u \in OwnersOf(Wrapped(wraps)) \ Readers :
    StartDrop(s, u) /\ UNCHANGED <<access, leaving>>

(* Invited again, or given a policy again.                                    *)
RegainAccess ==
  /\ \E u \in Users \ Readers :
       /\ access' = [access EXCEPT ![u] = "reader"]
       /\ slipped' = slipped \ {u}
  /\ UNCHANGED <<vault, wraps, creds, revoked, session, leaving, stranded>>

(* dropDeviceWrapsForUser: which of the user's keys have a wrap here.         *)
FindWraps(s) ==
  LET u == session[s].target
      found == Wrapped(wraps) \cap KeysOf(u)
  IN  /\ At(s, "drop", "client")
      /\ session' = [session EXCEPT ![s] = IF found = {} THEN Idle
                       ELSE [session[s] EXCEPT !.step = "checked", !.recipients = found]]
      /\ leaving' = IF found = {} THEN leaving \ {u} ELSE leaving
      /\ UNCHANGED <<vault, wraps, creds, access, revoked, slipped, stranded>>

\* Mutant: the vault is not marked for rotation.
DropWrapsQuietly(s) ==
  LET q == session[s]
      left == {w \in wraps : w.key \notin q.recipients}
  IN  /\ At(s, "drop", "checked")
      /\ Done(s)
      /\ wraps' = left
      /\ revoked' = revoked \cup (q.recipients \ Elsewhere)
      /\ IF q.target \in OwnersOf(Wrapped(left))
         THEN UNCHANGED <<leaving, slipped>>
         ELSE leaving' = leaving \ {q.target} /\ slipped' = slipped \ {q.target}
      /\ UNCHANGED <<vault, creds, access, stranded>>

DropWraps(s) ==
  LET q == session[s]
      left == {w \in wraps : w.key \notin q.recipients}
  IN  /\ At(s, "drop", "checked")
      /\ Done(s)
      /\ wraps' = left
      /\ vault' = [vault EXCEPT !.pending = TRUE]
      /\ revoked' = revoked \cup (q.recipients \ Elsewhere)
      /\ IF q.target \in OwnersOf(Wrapped(left))
         THEN UNCHANGED <<leaving, slipped>>
         ELSE leaving' = leaving \ {q.target} /\ slipped' = slipped \ {q.target}
      /\ UNCHANGED <<creds, access, stranded>>

(* The request dies where it is; nobody repeats it.                           *)
Crash(s) ==
  /\ session[s] # Idle
  /\ Refuse(s)

Next ==
  \/ \E s \in Sessions :
       \/ SubmitBootstrap(s) \/ SubmitGrant(s) \/ SubmitUpload(s) \/ SubmitRotate(s)
       \/ Bootstrap(s) \/ CheckGrant(s) \/ AddWrap(s) \/ CheckUpload(s) \/ InsertCredential(s)
       \/ CheckRotate(s) \/ Rotate(s)
       \/ LoseAccess(s) \/ RemoveMember(s) \/ Reconcile(s) \/ FindWraps(s) \/ DropWraps(s) \/ Crash(s)
  \/ DeleteCredential \/ RegainAccess

Spec == Init /\ [][Next]_vars

-----------------------------------------------------------------------------
(* Every wrap is for the version the vault is at and holds the vault's key:   *)
(* whoever can unlock the vault unlocks the one everybody else uses, however  *)
(* grants and rotations interleave (the version guards of addWrap and rotate).*)
WrapsOpenTheVault ==
  \A w \in wraps : vault # NoVault /\ w.version = vault.version /\ w.holds = vault.key

(* Every credential is sealed under the vault's key at the vault's version,   *)
(* so recipients can read it and the next rotation can re-wrap it: except     *)
(* one whose upload was checked or inserted beside a rotation.                *)
CredentialsOpen ==
  \A c \in Stored \ stranded : creds[c] = [version |-> vault.version, key |-> vault.key]

(* Somebody who lost the access and whose wraps were dropped has no wrap, and *)
(* when they hold the vault's key, credential downloads are blocked until a   *)
(* rotation gives the vault a new one: except where a grant or a rotation     *)
(* gave them a wrap when they had no access.                                  *)
DepartureFailsClosed ==
  \A u \in Users \ (Readers \cup leaving \cup slipped) :
    /\ u \notin OwnersOf(Wrapped(wraps))
    /\ vault # NoVault /\ u \in vault.holders => vault.pending

(* The vault can always be opened with an offline recovery key.               *)
RecoveryKept ==
  vault # NoVault => HasRecovery(Wrapped({w \in wraps : w.version = vault.version}))

(* The checks, the guarded statements and the batches of concurrent requests  *)
(* implement SharedSecret: a grant or a rotation that lost its race changes   *)
(* nothing, one that won takes effect at one instant with everything it       *)
(* checked, and only wraps that open the vault make a member                  *)
(* (repositories/org-vault.ts:273-428).                                       *)
Age     == IF vault = NoVault THEN 0 ELSE vault.version
Current == IF vault = NoVault THEN NoVault ELSE vault.key
Members == {k \in Keys : \E w \in wraps : w.key = k /\ w.version = Age /\ w.holds = Current}
Due     == vault # NoVault /\ vault.pending

Secret == INSTANCE SharedSecret WITH
  Offline <- RecoveryKeys, Secrets <- VaultKeys,
  age <- Age, secret <- Current, members <- Members, due <- Due

SharesOneSecret == Secret!Spec

(* A revoked key never enters the recipients.                                 *)
RevokedStaysOut ==
  [][\A k \in revoked : k \in Wrapped(wraps') => k \in Wrapped(wraps)]_vars
=================================================================================
