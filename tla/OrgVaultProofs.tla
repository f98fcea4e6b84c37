----------------------------- MODULE OrgVaultProofs -----------------------------
(***************************************************************************)
(* Machine-checked proofs about OrgVault, for every set of people, keys,   *)
(* credentials and sessions, and every bound on the vault's version.       *)
(*                                                                         *)
(* None of the properties is inductive: what a handler writes was read by  *)
(* a client at an earlier version.  SessionInv says what stays true of a   *)
(* session whatever the others do meanwhile.                               *)
(***************************************************************************)
EXTENDS OrgVault, TLAPS

USE OrgVaultAssumption

\* What a client read of the vault: the version it read may be overtaken,
\* never reused for another key.
Prepared(q) ==
  /\ vault # NoVault
  /\ q.version <= vault.version
  /\ q.version = vault.version => q.key = vault.key

SlotInv(q) ==
  /\ q.op \in {"grant", "upload", "rotate"} => Prepared(q)
  /\ q.op = "grant" => q.target \in Keys
  /\ q.op = "upload" => q.target \in Creds
  /\ q.op = "rotate" =>
       /\ q.version < MaxVersion
       /\ q.step = "checked" => HasRecovery(q.recipients) /\ q.deks = q.refs
  /\ q.op = "drop" =>
       /\ q.target \in Users
       /\ q.recipients \subseteq DeviceKeys
       /\ q.step = "checked" => vault # NoVault

SessionInv == \A s \in Sessions : session[s] # Idle => SlotInv(session[s])

CredentialsInv == CredentialsOpen /\ (Stored # {} => vault # NoVault)

\* Who has a wrap and no access is on the way out, or slipped in.
OutsidersInv == OwnersOf(Wrapped(wraps)) \ Readers \subseteq leaving \cup slipped

\* Who holds the vault's key is a recipient, or a rotation is due.
HoldersInv ==
  vault # NoVault => \A u \in vault.holders : u \in OwnersOf(Wrapped(wraps)) \/ vault.pending

IInv ==
  /\ TypeOK
  /\ SessionInv
  /\ WrapsOpenTheVault
  /\ CredentialsInv
  /\ OutsidersInv
  /\ HoldersInv
  /\ RecoveryKept

-----------------------------------------------------------------------------

\* The owners of keys are people.
LEMMA OwnersAreUsers ==
  ASSUME NEW keys
  PROVE  OwnersOf(keys) \subseteq Users
BY DEF OwnersOf

\* A vault is a record, which NoVault is not.
LEMMA VaultFields ==
  ASSUME TypeOK, vault # NoVault
  PROVE  /\ vault \in Vaults
         /\ vault.version \in Versions /\ vault.key \in VaultKeys
         /\ vault.pending \in BOOLEAN /\ vault.holders \subseteq Users
BY DEF TypeOK, Vaults

\* The key a session makes for a version.
LEMMA NewKeyType ==
  ASSUME NEW s \in Sessions, NEW v \in Versions
  PROVE  NewKey(s, v) \in VaultKeys
BY DEF NewKey, VaultKeys

LEMMA SlotType ==
  ASSUME TypeOK, NEW s \in Sessions, session[s] # Idle
  PROVE  /\ session[s] \in Slots
         /\ session[s].version \in Versions /\ session[s].key \in VaultKeys
         /\ session[s].recipients \subseteq Keys
         /\ session[s].deks \subseteq Creds /\ session[s].refs \subseteq Creds
BY DEF TypeOK, Slots

\* The initial state.
LEMMA InitInv == Init => IInv
<1> SUFFICES ASSUME Init PROVE IInv
  OBVIOUS
<1>1. TypeOK
  BY DEF Init, TypeOK
<1>2. SessionInv
  BY DEF Init, SessionInv
<1>3. Stored = {}
  BY DEF Init, Stored
<1>4. WrapsOpenTheVault /\ RecoveryKept /\ HoldersInv
  BY DEF Init, WrapsOpenTheVault, RecoveryKept, HoldersInv
<1>5. OwnersOf(Wrapped(wraps)) = {}
  BY DEF Init, OwnersOf, Wrapped
<1> QED
  BY <1>1, <1>2, <1>3, <1>4, <1>5 DEF IInv, CredentialsInv, CredentialsOpen, OutsidersInv

-----------------------------------------------------------------------------
(* Sessions.                                                                *)

\* The vault only moves on: it is never lost, its version never falls, and a
\* version keeps its key.
MovesOn ==
  vault # NoVault =>
    /\ vault' # NoVault
    /\ vault'.version \in Nat
    /\ vault.version <= vault'.version
    /\ vault'.version = vault.version => vault'.key = vault.key

\* What holds of a slot goes on holding.
LEMMA SlotKeeps ==
  ASSUME TypeOK, MovesOn, NEW q \in Slots, SlotInv(q)
  PROVE  SlotInv(q)'
<1>1. ASSUME Prepared(q)
      PROVE  Prepared(q)'
  <2>1. vault.version \in Nat
    BY <1>1, VaultFields DEF Prepared, Versions
  <2>2. q.version \in Nat
    BY DEF Slots, Versions
  <2> QED BY <1>1, <2>1, <2>2 DEF Prepared, MovesOn
<1> QED
  BY <1>1 DEF SlotInv, MovesOn

\* The sessions a step leaves alone are as good after it.
LEMMA OthersKeep ==
  ASSUME TypeOK, SessionInv, MovesOn, NEW s \in Sessions, NEW slot \in Slots \cup {Idle},
         session' = [session EXCEPT ![s] = slot],
         slot # Idle => SlotInv(slot)'
  PROVE  SessionInv' /\ session' \in [Sessions -> Slots \cup {Idle}]
<1>1. session \in [Sessions -> Slots \cup {Idle}]
  BY DEF TypeOK
<1>2. ASSUME NEW t \in Sessions, session'[t] # Idle
      PROVE  SlotInv(session[t])'
  <2>1. PICK q : q = session'[t]
    OBVIOUS
  <2>2. CASE t = s
    BY <1>1, <1>2, <2>1, <2>2 DEF SlotInv, Prepared
  <2>3. CASE t # s
    <3>1. q = session[t] /\ q # Idle
      BY <1>1, <1>2, <2>1, <2>3
    <3>2. q \in Slots /\ SlotInv(q)
      BY <1>1, <3>1 DEF SessionInv
    <3>3. SlotInv(q)'
      BY <3>2, SlotKeeps
    <3> QED BY <2>1, <3>3 DEF SlotInv, Prepared
  <2> QED BY <2>2, <2>3
<1> QED
  BY <1>1, <1>2 DEF SessionInv

\* A step that only moves a session.
LEMMA SessionStep ==
  ASSUME IInv, NEW s \in Sessions, NEW slot \in Slots \cup {Idle},
         session' = [session EXCEPT ![s] = slot],
         slot # Idle => SlotInv(slot),
         UNCHANGED <<vault, wraps, creds, access, revoked, histories>>
  PROVE  IInv'
<1> USE DEF histories
<1>1. MovesOn
  <2>1. vault # NoVault => vault.version \in Nat
    BY VaultFields DEF IInv, Versions
  <2> QED BY <2>1 DEF MovesOn
<1>2. slot # Idle => SlotInv(slot)'
  BY DEF SlotInv, Prepared
<1>3. SessionInv' /\ session' \in [Sessions -> Slots \cup {Idle}]
  BY <1>1, <1>2, OthersKeep DEF IInv
<1>4. TypeOK'
  BY <1>3 DEF IInv, TypeOK
<1>5. WrapsOpenTheVault' /\ RecoveryKept' /\ HoldersInv' /\ OutsidersInv'
  BY DEF IInv, WrapsOpenTheVault, RecoveryKept, HoldersInv, OutsidersInv, Readers
<1>6. CredentialsInv'
  BY DEF IInv, CredentialsInv, CredentialsOpen, Stored
<1> QED
  BY <1>3, <1>4, <1>5, <1>6 DEF IInv

\* A submission carries the vault's version and key.
LEMMA SubmitInv ==
  ASSUME IInv, NEW s \in Sessions, NEW op \in {"grant", "upload", "rotate"},
         NEW target \in Keys \cup Creds \cup {Nobody},
         NEW recipients \in SUBSET Keys, NEW deks \in SUBSET Creds,
         op = "grant" => target \in Keys,
         op = "upload" => target \in Creds,
         op = "rotate" => vault.version < MaxVersion,
         Submit(s, op, target, recipients, deks)
  PROVE  IInv'
<1> DEFINE slot == [op |-> op, step |-> "client", target |-> target,
                    version |-> vault.version, key |-> vault.key,
                    recipients |-> recipients, deks |-> deks, refs |-> {}]
<1>1. vault # NoVault /\ session' = [session EXCEPT ![s] = slot]
      /\ UNCHANGED <<vault, wraps, creds, access, revoked, histories>>
  BY DEF Submit
<1>2. vault.version \in Versions /\ vault.key \in VaultKeys
  BY <1>1, VaultFields DEF IInv
<1>3. slot \in Slots
  BY <1>2 DEF Slots, Ops
<1>4. SlotInv(slot)
  BY <1>1, <1>2 DEF SlotInv, Prepared, Versions
<1> HIDE DEF slot
<1> QED
  BY <1>1, <1>3, <1>4, SessionStep

\* The clients' steps.
LEMMA ClientInv ==
  ASSUME IInv, NEW s \in Sessions,
         SubmitBootstrap(s) \/ SubmitGrant(s) \/ SubmitUpload(s) \/ SubmitRotate(s)
  PROVE  IInv'
<1>1. Grantable \subseteq Keys
  BY DEF Grantable, Keys
<1>2. CASE SubmitBootstrap(s)
  <2>1. PICK recipients \in SUBSET Grantable :
          /\ session' = [session EXCEPT ![s] =
               [op |-> "bootstrap", step |-> "client", target |-> Nobody, version |-> 1,
                key |-> NewKey(s, 1), recipients |-> recipients, deks |-> {}, refs |-> {}]]
          /\ UNCHANGED <<vault, wraps, creds, access, revoked, histories>>
    BY <1>2 DEF SubmitBootstrap
  <2> DEFINE slot == [op |-> "bootstrap", step |-> "client", target |-> Nobody, version |-> 1,
                      key |-> NewKey(s, 1), recipients |-> recipients, deks |-> {}, refs |-> {}]
  <2>2. 1 \in Versions
    BY DEF Versions
  <2>3. NewKey(s, 1) \in VaultKeys
    BY <2>2 DEF NewKey, VaultKeys
  <2>4. slot \in Slots
    BY <1>1, <2>2, <2>3 DEF Slots, Ops
  <2>5. SlotInv(slot)
    BY DEF SlotInv
  <2>6. session' = [session EXCEPT ![s] = slot]
    BY <2>1
  <2> HIDE DEF slot
  <2> QED BY <2>1, <2>4, <2>5, <2>6, SessionStep
<1>3. CASE SubmitGrant(s)
  <2>1. PICK k \in Grantable : Submit(s, "grant", k, {}, {})
    BY <1>3 DEF SubmitGrant
  <2> QED BY <1>1, <2>1, SubmitInv
<1>4. CASE SubmitUpload(s)
  <2>1. PICK c \in Creds : Submit(s, "upload", c, {}, {})
    BY <1>4 DEF SubmitUpload
  <2> QED BY <2>1, SubmitInv
<1>5. CASE SubmitRotate(s)
  <2>1. PICK recipients \in SUBSET Grantable :
          vault.version < MaxVersion /\ Submit(s, "rotate", Nobody, recipients, Stored)
    BY <1>5 DEF SubmitRotate
  <2>2. Stored \subseteq Creds
    BY DEF Stored
  <2> QED BY <1>1, <2>1, <2>2, SubmitInv
<1> QED
  BY <1>2, <1>3, <1>4, <1>5

\* A refusal ends the session and changes nothing else.
LEMMA RefuseInv ==
  ASSUME IInv, NEW s \in Sessions, Refuse(s)
  PROVE  IInv'
BY SessionStep DEF Refuse, Done

\* A check that passed: what it read is noted.
LEMMA AcceptInv ==
  ASSUME IInv, NEW s \in Sessions, session[s] # Idle,
         NEW refs \in SUBSET Creds,
         session[s].op = "rotate" =>
           HasRecovery(session[s].recipients) /\ session[s].deks = refs,
         session[s].op # "drop",
         Accept(s, refs)
  PROVE  IInv'
<1> DEFINE slot == [session[s] EXCEPT !.step = "checked", !.refs = refs]
<1>1. PICK q : q = session[s]
  OBVIOUS
<1>2. q \in Slots /\ SlotInv(q)
  BY <1>1, SlotType DEF IInv, SessionInv
<1>3. slot = [q EXCEPT !.step = "checked", !.refs = refs]
  BY <1>1
<1>4. slot \in Slots
  BY ZenonT(60), <1>2, <1>3 DEF Slots
<1>5. /\ slot.op = q.op /\ slot.target = q.target /\ slot.version = q.version
      /\ slot.key = q.key /\ slot.recipients = q.recipients /\ slot.deks = q.deks
      /\ slot.refs = refs
  BY ZenonT(60), <1>2, <1>3 DEF Slots
<1> HIDE DEF slot
<1>6. SlotInv(slot)
  BY <1>1, <1>2, <1>5 DEF SlotInv, Prepared
<1>7. session' = [session EXCEPT ![s] = slot]
  BY DEF Accept, slot, IInv, TypeOK
<1> QED
  BY <1>4, <1>6, <1>7, SessionStep DEF Accept

\* The checks of the handlers.
LEMMA CheckInv ==
  ASSUME IInv, NEW s \in Sessions,
         CheckGrant(s) \/ CheckUpload(s) \/ CheckRotate(s)
  PROVE  IInv'
<1>1. PICK none \in SUBSET Creds : none = {}
  OBVIOUS
<1>2. CASE CheckGrant(s)
  BY <1>1, <1>2, RefuseInv, AcceptInv DEF CheckGrant, At
<1>3. CASE CheckUpload(s)
  BY <1>1, <1>3, RefuseInv, AcceptInv DEF CheckUpload, At
<1>4. CASE CheckRotate(s)
  <2>1. Stored \in SUBSET Creds
    BY DEF Stored
  <2> QED BY <1>4, <2>1, RefuseInv, AcceptInv DEF CheckRotate, At
<1> QED
  BY <1>2, <1>3, <1>4

-----------------------------------------------------------------------------
(* The vault's steps.                                                       *)

\* An empty vault has no wraps and no credentials.
LEMMA NothingBeforeBootstrap ==
  ASSUME IInv, vault = NoVault
  PROVE  wraps = {} /\ Stored = {}
BY DEF IInv, WrapsOpenTheVault, CredentialsInv

\* A session at a step of its operation.
LEMMA AtSlot ==
  ASSUME IInv, NEW s \in Sessions, NEW op, NEW step, At(s, op, step)
  PROVE  session[s] \in Slots /\ SlotInv(session[s])
         /\ session[s].op = op /\ session[s].step = step
BY SlotType DEF At, IInv, SessionInv

\* A step that ends a session moves no other.
LEMMA DoneInv ==
  ASSUME IInv, MovesOn, NEW s \in Sessions, Done(s)
  PROVE  SessionInv' /\ session' \in [Sessions -> Slots \cup {Idle}]
BY OthersKeep DEF IInv, Done

\* The vault opens: its wraps are the ones of the request.
LEMMA BootstrapInv ==
  ASSUME IInv, NEW s \in Sessions, Bootstrap(s)
  PROVE  IInv'
<1>1. CASE Refuse(s)
  BY <1>1, RefuseInv
<1>2. CASE ~ Refuse(s)
  <2>1. PICK q : q = session[s]
    OBVIOUS
  <2>2. /\ At(s, "bootstrap", "client")
        /\ vault = NoVault
        /\ HasRecovery(q.recipients)
        /\ vault' = [version |-> 1, key |-> q.key, pending |-> FALSE,
                     holders |-> OwnersOf(q.recipients)]
        /\ wraps' = [version : {1}, key : q.recipients, holds : {q.key}]
        /\ slipped' = slipped \cup (OwnersOf(q.recipients) \ Readers)
        /\ Done(s)
        /\ UNCHANGED <<creds, access, revoked, leaving, stranded>>
    BY <1>2, <2>1 DEF Bootstrap
  <2>3. q \in Slots
    BY <2>1, <2>2, AtSlot
  <2>4. q.key \in VaultKeys /\ q.recipients \subseteq Keys
    BY <2>3 DEF Slots
  <2>5. OwnersOf(q.recipients) \subseteq Users
    BY OwnersAreUsers
  <2>6. vault' \in Vaults
    BY <2>2, <2>4, <2>5 DEF Vaults, Versions
  <2>7. SessionInv' /\ session' \in [Sessions -> Slots \cup {Idle}]
    BY <2>2, DoneInv DEF MovesOn
  <2>8. TypeOK'
    <3>1. wraps' \subseteq Wraps
      BY <2>2, <2>4 DEF Wraps, Versions
    <3> QED BY <2>2, <2>5, <2>6, <2>7, <3>1 DEF IInv, TypeOK
  <2>9. Wrapped(wraps') = q.recipients
        /\ {w \in wraps' : w.version = vault'.version} = wraps'
    <3>1. \A k \in q.recipients : \E w \in wraps' : w.key = k
      <4> TAKE k \in q.recipients
      <4> DEFINE w == [version |-> 1, key |-> k, holds |-> q.key]
      <4>1. w \in wraps' /\ w.key = k
        BY <2>2
      <4> QED BY <4>1
    <3>2. \A w \in wraps' : w.key \in q.recipients /\ w.version = vault'.version
      BY <2>2
    <3> QED BY <3>1, <3>2 DEF Wrapped
  <2>10. vault' # NoVault
    BY <2>6
  <2>11. WrapsOpenTheVault'
    BY <2>2, <2>10 DEF WrapsOpenTheVault
  <2>12. CredentialsInv'
    BY <2>2, <2>10, NothingBeforeBootstrap DEF CredentialsInv, CredentialsOpen, Stored
  <2>13. OutsidersInv'
    BY <2>2, <2>9 DEF IInv, OutsidersInv, Readers, OwnersOf, Wrapped
  <2>14. HoldersInv'
    BY <2>2, <2>9 DEF HoldersInv, OwnersOf, Wrapped
  <2>15. RecoveryKept'
    BY <2>2, <2>9 DEF RecoveryKept, HasRecovery, Wrapped
  <2> QED BY <2>7, <2>8, <2>11, <2>12, <2>13, <2>14, <2>15 DEF IInv
<1> QED
  BY <1>1, <1>2

\* The owners of more keys are more people.
LEMMA OwnersMonotone ==
  ASSUME NEW keys, NEW more, keys \subseteq more
  PROVE  OwnersOf(keys) \subseteq OwnersOf(more)
BY DEF OwnersOf

\* A grant that is inserted is for the version the vault is at, so it holds
\* the vault's key.
LEMMA AddWrapInv ==
  ASSUME IInv, NEW s \in Sessions, AddWrap(s)
  PROVE  IInv'
<1>1. CASE Refuse(s)
  BY <1>1, RefuseInv
<1>2. CASE ~ Refuse(s)
  <2>1. PICK q : q = session[s]
    OBVIOUS
  <2> DEFINE wrap == [version |-> q.version, key |-> q.target, holds |-> q.key]
             owners == OwnersOf({q.target})
  <2>2. /\ At(s, "grant", "checked")
        /\ vault.version = q.version
        /\ wraps' = wraps \cup {wrap}
        /\ vault' = [vault EXCEPT !.holders = @ \cup owners]
        /\ slipped' = slipped \cup (owners \ Readers)
        /\ Done(s)
        /\ UNCHANGED <<creds, access, revoked, leaving, stranded>>
    BY <1>2, <2>1 DEF AddWrap
  <2>3. q \in Slots /\ SlotInv(q) /\ q.op = "grant"
    BY <2>1, <2>2, AtSlot
  <2>4. q.key \in VaultKeys /\ q.version \in Versions
    BY <2>3 DEF Slots
  <2>5. q.target \in Keys /\ vault # NoVault /\ q.key = vault.key
    BY <2>2, <2>3 DEF SlotInv, Prepared
  <2>6. wrap \in Wraps /\ wrap.version = vault.version /\ wrap.holds = vault.key
        /\ wrap.key = q.target
    BY <2>2, <2>4, <2>5 DEF Wraps
  <2>7. owners \subseteq Users
    BY OwnersAreUsers
  <2>8. vault \in Vaults
    BY <2>5, VaultFields DEF IInv
  <2> HIDE DEF wrap, owners
  <2>9. /\ vault' \in Vaults /\ vault'.version = vault.version /\ vault'.key = vault.key
        /\ vault'.pending = vault.pending /\ vault'.holders = vault.holders \cup owners
    BY <2>2, <2>7, <2>8 DEF Vaults
  <2>10. vault' # NoVault
    BY <2>9
  <2>11. vault.version \in Nat
    BY <2>8 DEF Vaults, Versions
  <2>12. SessionInv' /\ session' \in [Sessions -> Slots \cup {Idle}]
    BY <2>2, <2>9, <2>10, <2>11, DoneInv DEF MovesOn
  <2>13. TypeOK'
    BY <2>2, <2>6, <2>7, <2>9, <2>12 DEF IInv, TypeOK
  <2>14. WrapsOpenTheVault'
    BY <2>2, <2>6, <2>9, <2>10 DEF IInv, WrapsOpenTheVault
  <2>15. CredentialsInv'
    BY <2>2, <2>9, <2>10 DEF IInv, CredentialsInv, CredentialsOpen, Stored
  <2>16. Wrapped(wraps') = Wrapped(wraps) \cup {q.target}
    BY <2>2, <2>6 DEF Wrapped
  <2>17. OwnersOf(Wrapped(wraps')) = OwnersOf(Wrapped(wraps)) \cup owners
    BY <2>16 DEF OwnersOf, owners
  <2>18. OutsidersInv'
    <3>1. Readers' = Readers
      BY <2>2 DEF Readers
    <3>2. OwnersOf(Wrapped(wraps))' = OwnersOf(Wrapped(wraps'))
      BY DEF OwnersOf, Wrapped
    <3> QED BY <2>2, <2>17, <3>1, <3>2 DEF IInv, OutsidersInv
  <2>19. HoldersInv'
    <3>1. OwnersOf(Wrapped(wraps))' = OwnersOf(Wrapped(wraps'))
      BY DEF OwnersOf, Wrapped
    <3> QED BY <2>5, <2>9, <2>17, <3>1 DEF IInv, HoldersInv
  <2>20. RecoveryKept'
    <3>1. Wrapped({w \in wraps : w.version = vault.version})
            \subseteq Wrapped({w \in wraps' : w.version = vault'.version})
      BY <2>2, <2>9 DEF Wrapped
    <3> QED BY <2>5, <3>1 DEF IInv, RecoveryKept, HasRecovery, Wrapped
  <2> QED BY <2>12, <2>13, <2>14, <2>15, <2>18, <2>19, <2>20 DEF IInv
<1> QED
  BY <1>1, <1>2

\* What the credentials' steps leave alone.
LEMMA CredentialStep ==
  ASSUME IInv, UNCHANGED <<vault, wraps, access, revoked, leaving, slipped>>,
         SessionInv' /\ session' \in [Sessions -> Slots \cup {Idle}],
         creds' \in [Creds -> [version : Versions, key : VaultKeys] \cup {Unused, Gone}],
         stranded' \subseteq Creds,
         CredentialsInv'
  PROVE  IInv'
<1>1. TypeOK'
  BY DEF IInv, TypeOK
<1>2. WrapsOpenTheVault' /\ RecoveryKept' /\ HoldersInv' /\ OutsidersInv'
  BY DEF IInv, WrapsOpenTheVault, RecoveryKept, HoldersInv, OutsidersInv, Readers
<1> QED
  BY <1>1, <1>2 DEF IInv

\* A credential is inserted at the vault's version, or is stranded.
LEMMA InsertInv ==
  ASSUME IInv, NEW s \in Sessions, InsertCredential(s)
  PROVE  IInv'
<1>1. CASE Refuse(s)
  BY <1>1, RefuseInv
<1>2. CASE ~ Refuse(s)
  <2>1. PICK q : q = session[s]
    OBVIOUS
  <2> DEFINE sealed == [version |-> q.version, key |-> q.key]
  <2>2. /\ At(s, "upload", "checked")
        /\ creds' = [creds EXCEPT ![q.target] = sealed]
        /\ stranded' = IF vault.version # q.version THEN stranded \cup {q.target} ELSE stranded
        /\ Done(s)
        /\ UNCHANGED <<vault, wraps, access, revoked, leaving, slipped>>
    BY <1>2, <2>1 DEF InsertCredential
  <2>3. q \in Slots /\ SlotInv(q) /\ q.op = "upload"
    BY <2>1, <2>2, AtSlot
  <2>4. sealed \in [version : Versions, key : VaultKeys]
    BY <2>3 DEF Slots
  <2>5. q.target \in Creds /\ vault # NoVault /\ (vault.version = q.version => q.key = vault.key)
    BY <2>3 DEF SlotInv, Prepared
  <2>6. vault.version = q.version => sealed = [version |-> vault.version, key |-> vault.key]
    BY <2>5
  <2> HIDE DEF sealed
  <2>7. vault.version \in Nat
    BY <2>5, VaultFields DEF IInv, Versions
  <2>8. SessionInv' /\ session' \in [Sessions -> Slots \cup {Idle}]
    BY <2>2, <2>7, DoneInv DEF MovesOn
  <2>9. creds \in [Creds -> [version : Versions, key : VaultKeys] \cup {Unused, Gone}]
        /\ stranded \subseteq Creds
    BY DEF IInv, TypeOK
  <2>10. creds' \in [Creds -> [version : Versions, key : VaultKeys] \cup {Unused, Gone}]
         /\ stranded' \subseteq Creds
    BY <2>2, <2>4, <2>5, <2>9
  <2>11. CredentialsInv'
    <3>1. SUFFICES ASSUME NEW c \in Creds, creds'[c] \notin {Unused, Gone}, c \notin stranded'
                   PROVE  creds'[c] = [version |-> vault.version, key |-> vault.key]
      BY <2>2, <2>5 DEF CredentialsInv, CredentialsOpen, Stored
    <3>2. CASE c = q.target
      BY <2>2, <2>5, <2>6, <2>9, <3>1, <3>2
    <3>3. CASE c # q.target
      <4>1. creds'[c] = creds[c] /\ c \notin stranded
        BY <2>2, <2>9, <3>1, <3>3
      <4> QED BY <3>1, <4>1 DEF IInv, CredentialsInv, CredentialsOpen, Stored
    <3> QED BY <3>2, <3>3
  <2> QED BY <2>2, <2>8, <2>10, <2>11, CredentialStep
<1> QED
  BY <1>1, <1>2

\* A deletion leaves the others as they are.
LEMMA DeleteInv ==
  ASSUME IInv, DeleteCredential
  PROVE  IInv'
<1>1. PICK gone \in Stored : creds' = [creds EXCEPT ![gone] = Gone]
  BY DEF DeleteCredential
<1>2. UNCHANGED <<vault, wraps, access, revoked, session, leaving, slipped, stranded>>
  BY DEF DeleteCredential, histories
<1>3. creds \in [Creds -> [version : Versions, key : VaultKeys] \cup {Unused, Gone}]
      /\ gone \in Creds
  BY <1>1 DEF IInv, TypeOK, Stored
<1>4. creds' \in [Creds -> [version : Versions, key : VaultKeys] \cup {Unused, Gone}]
  BY <1>1, <1>3
<1>5. \A c \in Creds : creds'[c] \notin {Unused, Gone} => creds'[c] = creds[c]
  BY <1>1, <1>3
<1>6. CredentialsInv'
  BY <1>2, <1>5 DEF IInv, CredentialsInv, CredentialsOpen, Stored
<1>7. SessionInv' /\ session' \in [Sessions -> Slots \cup {Idle}]
  BY <1>2 DEF IInv, TypeOK, SessionInv, SlotInv, Prepared
<1>8. stranded' \subseteq Creds
  BY <1>2 DEF IInv, TypeOK
<1> QED
  BY <1>2, <1>4, <1>6, <1>7, <1>8, CredentialStep

\* A rotation that lost: no wrap is at the version it replaces, and no
\* credential that is not stranded already.
LEMMA LostRotation ==
  ASSUME IInv, NEW s \in Sessions, Rotate(s), vault.version # session[s].version
  PROVE  IInv'
<1>1. PICK q : q = session[s]
  OBVIOUS
<1> DEFINE fresh == NewKey(s, q.version + 1)
           resealed == [version |-> q.version + 1, key |-> fresh]
<1>2. /\ At(s, "rotate", "checked")
      /\ Done(s)
      /\ creds' = [c \in Creds |-> IF c \in q.deks \cap Stored /\ creds[c].version = q.version
                                   THEN resealed ELSE creds[c]]
      /\ UNCHANGED <<vault, slipped, stranded, access, revoked, leaving>>
  BY <1>1 DEF Rotate
<1>3. wraps' = {w \in wraps : w.version # q.version}
  BY <1>1 DEF Rotate
<1>4. q \in Slots /\ SlotInv(q) /\ q.op = "rotate"
  BY <1>1, <1>2, AtSlot
<1>5. vault # NoVault /\ q.version < MaxVersion
  BY <1>4 DEF SlotInv, Prepared
<1>6. q.version \in Versions /\ q.version + 1 \in Versions
  BY <1>4, <1>5 DEF Slots, Versions
<1>7. resealed \in [version : Versions, key : VaultKeys]
  BY <1>6 DEF NewKey, VaultKeys
<1> HIDE DEF resealed
<1>8. wraps' = wraps
  BY <1>1, <1>3 DEF IInv, WrapsOpenTheVault
<1>9. vault.version \in Nat
  BY <1>5, VaultFields DEF IInv, Versions
<1>10. SessionInv' /\ session' \in [Sessions -> Slots \cup {Idle}]
  BY <1>2, <1>9, DoneInv DEF MovesOn
<1>11. creds' \in [Creds -> [version : Versions, key : VaultKeys] \cup {Unused, Gone}]
       /\ stranded' \subseteq Creds
  BY <1>2, <1>7 DEF IInv, TypeOK
<1>12. CredentialsInv'
  <2>1. \A c \in Stored' : c \in Stored
    BY <1>2 DEF Stored
  <2>2. \A c \in Stored \ stranded : creds[c].version = vault.version
    BY DEF IInv, CredentialsInv, CredentialsOpen
  <2>3. \A c \in Stored \ stranded : creds'[c] = creds[c]
    BY <1>1, <1>2, <2>2 DEF Stored
  <2> QED BY <1>2, <1>5, <2>1, <2>3 DEF IInv, CredentialsInv, CredentialsOpen
<1> QED
  BY <1>2, <1>8, <1>10, <1>11, <1>12, CredentialStep

\* A rotation that won: everything it checked is at its version, and what was
\* written beside it is stranded.
LEMMA WonRotation ==
  ASSUME IInv, NEW s \in Sessions, Rotate(s), vault.version = session[s].version
  PROVE  IInv'
<1>1. PICK q : q = session[s]
  OBVIOUS
<1> DEFINE fresh == NewKey(s, q.version + 1)
           resealed == [version |-> q.version + 1, key |-> fresh]
<1>2. /\ At(s, "rotate", "checked")
      /\ Done(s)
      /\ creds' = [c \in Creds |-> IF c \in q.deks \cap Stored /\ creds[c].version = q.version
                                   THEN resealed ELSE creds[c]]
      /\ vault' = [version |-> q.version + 1, key |-> fresh, pending |-> FALSE,
                   holders |-> OwnersOf(q.recipients)]
      /\ slipped' = OwnersOf(q.recipients) \ Readers
      /\ stranded' = stranded \cup (Stored \ q.refs)
      /\ UNCHANGED <<access, revoked, leaving>>
  BY <1>1 DEF Rotate
<1>3. wraps' = {w \in wraps : w.version # q.version}
                 \cup {w \in [version : {q.version + 1}, key : q.recipients, holds : {fresh}] :
                         vault.version = q.version}
  BY <1>1 DEF Rotate
<1>4. q \in Slots /\ SlotInv(q) /\ q.op = "rotate" /\ q.step = "checked"
  BY <1>1, <1>2, AtSlot
<1>5. vault # NoVault /\ q.version < MaxVersion /\ HasRecovery(q.recipients) /\ q.deks = q.refs
  BY <1>4 DEF SlotInv, Prepared
<1>6. q.version \in Versions /\ q.version + 1 \in Versions
      /\ q.recipients \subseteq Keys /\ q.refs \subseteq Creds
  BY <1>4, <1>5 DEF Slots, Versions
<1>7. fresh \in VaultKeys
  BY <1>6 DEF NewKey, VaultKeys
<1>8. wraps' = [version : {q.version + 1}, key : q.recipients, holds : {fresh}]
  BY <1>1, <1>3 DEF IInv, WrapsOpenTheVault
<1>9. OwnersOf(q.recipients) \subseteq Users
  BY OwnersAreUsers
<1> HIDE DEF fresh
<1>10. vault' \in Vaults
  BY <1>2, <1>6, <1>7, <1>9 DEF Vaults
<1>11. vault' # NoVault
  BY <1>10
<1>12. resealed \in [version : Versions, key : VaultKeys]
       /\ resealed = [version |-> vault'.version, key |-> vault'.key]
  BY <1>2, <1>6, <1>7
<1> HIDE DEF resealed
<1>13. MovesOn
  BY <1>1, <1>2, <1>6, <1>11 DEF MovesOn, Versions
<1>14. SessionInv' /\ session' \in [Sessions -> Slots \cup {Idle}]
  BY <1>2, <1>13, DoneInv
<1>15. TypeOK'
  <2>1. wraps' \subseteq Wraps
    BY <1>6, <1>7, <1>8 DEF Wraps
  <2>2. creds' \in [Creds -> [version : Versions, key : VaultKeys] \cup {Unused, Gone}]
    BY <1>2, <1>12 DEF IInv, TypeOK
  <2>3. stranded' \subseteq Creds /\ slipped' \subseteq Users
    BY <1>2, <1>9 DEF IInv, TypeOK, Stored
  <2> QED BY <1>2, <1>10, <1>14, <2>1, <2>2, <2>3 DEF IInv, TypeOK
<1>16. Wrapped(wraps') = q.recipients
       /\ {w \in wraps' : w.version = vault'.version} = wraps'
  <2>1. \A k \in q.recipients : \E w \in wraps' : w.key = k
    <3> TAKE k \in q.recipients
    <3> DEFINE w == [version |-> q.version + 1, key |-> k, holds |-> fresh]
    <3>1. w \in wraps' /\ w.key = k
      BY <1>8
    <3> QED BY <3>1
  <2>2. \A w \in wraps' : w.key \in q.recipients /\ w.version = vault'.version
    BY <1>2, <1>8
  <2> QED BY <2>1, <2>2 DEF Wrapped
<1>17. WrapsOpenTheVault'
  BY <1>2, <1>8, <1>11 DEF WrapsOpenTheVault
<1>18. CredentialsInv'
  <2>1. SUFFICES ASSUME NEW c \in Creds, creds'[c] \notin {Unused, Gone}, c \notin stranded'
                 PROVE  creds'[c] = resealed
    BY <1>11, <1>12 DEF CredentialsInv, CredentialsOpen, Stored
  <2>2. c \in Stored /\ c \notin stranded /\ c \in q.deks
    BY <1>2, <1>5, <2>1 DEF Stored
  <2>3. creds[c].version = q.version
    BY <1>1, <2>2 DEF IInv, CredentialsInv, CredentialsOpen
  <2> QED BY <1>2, <2>2, <2>3
<1>19. OutsidersInv'
  BY <1>2, <1>16 DEF OutsidersInv, Readers, OwnersOf, Wrapped
<1>20. HoldersInv'
  BY <1>2, <1>16 DEF HoldersInv, OwnersOf, Wrapped
<1>21. RecoveryKept'
  BY <1>5, <1>16 DEF RecoveryKept, HasRecovery, Wrapped
<1> QED
  BY <1>14, <1>15, <1>17, <1>18, <1>19, <1>20, <1>21 DEF IInv

-----------------------------------------------------------------------------
(* People.                                                                  *)

\* A step that leaves the vault, its wraps and its credentials alone.
LEMMA PeopleStep ==
  ASSUME IInv, NEW s \in Sessions, NEW slot \in Slots \cup {Idle},
         session' = [session EXCEPT ![s] = slot],
         slot # Idle => SlotInv(slot),
         UNCHANGED <<vault, wraps, creds, revoked, stranded>>,
         access' \in [Users -> {"none", "member", "reader"}],
         leaving' \subseteq Users, slipped' \subseteq Users,
         OutsidersInv'
  PROVE  IInv'
<1>1. MovesOn
  <2>1. vault # NoVault => vault.version \in Nat
    BY VaultFields DEF IInv, Versions
  <2> QED BY <2>1 DEF MovesOn
<1>2. slot # Idle => SlotInv(slot)'
  BY DEF SlotInv, Prepared
<1>3. SessionInv' /\ session' \in [Sessions -> Slots \cup {Idle}]
  BY <1>1, <1>2, OthersKeep DEF IInv
<1>4. TypeOK'
  BY <1>3 DEF IInv, TypeOK
<1>5. WrapsOpenTheVault' /\ RecoveryKept' /\ HoldersInv'
  BY DEF IInv, WrapsOpenTheVault, RecoveryKept, HoldersInv
<1>6. CredentialsInv'
  BY DEF IInv, CredentialsInv, CredentialsOpen, Stored
<1> QED
  BY <1>3, <1>4, <1>5, <1>6 DEF IInv

\* The request that starts a departure.
LEMMA StartDropInv ==
  ASSUME IInv, NEW s \in Sessions, NEW u \in Users, StartDrop(s, u),
         access' \in [Users -> {"none", "member", "reader"}],
         leaving' \subseteq Users,
         OutsidersInv'
  PROVE  IInv'
<1> DEFINE slot == [op |-> "drop", step |-> "client", target |-> u, version |-> 1,
                    key |-> NewKey(s, 1), recipients |-> {}, deks |-> {}, refs |-> {}]
<1>1. 1 \in Versions
  BY DEF Versions
<1>2. NewKey(s, 1) \in VaultKeys
  BY <1>1 DEF NewKey, VaultKeys
<1>3. slot \in Slots
  BY <1>1, <1>2 DEF Slots, Ops
<1>4. SlotInv(slot)
  BY DEF SlotInv
<1>5. session' = [session EXCEPT ![s] = slot]
      /\ UNCHANGED <<vault, wraps, creds, revoked, slipped, stranded>>
  BY DEF StartDrop
<1>6. slipped' \subseteq Users
  BY <1>5 DEF IInv, TypeOK
<1> HIDE DEF slot
<1> QED
  BY <1>3, <1>4, <1>5, <1>6, PeopleStep

\* Losing the access, leaving, and a later reconcile.
LEMMA DepartInv ==
  ASSUME IInv, NEW s \in Sessions, LoseAccess(s) \/ RemoveMember(s) \/ Reconcile(s)
  PROVE  IInv'
<1>1. access \in [Users -> {"none", "member", "reader"}] /\ leaving \subseteq Users
  BY DEF IInv, TypeOK
<1>2. CASE LoseAccess(s)
  <2>1. PICK u \in Readers, rest \in {"none", "member"} :
          /\ access' = [access EXCEPT ![u] = rest]
          /\ leaving' = IF vault = NoVault THEN leaving ELSE leaving \cup {u}
          /\ StartDrop(s, u)
    BY <1>2 DEF LoseAccess
  <2>2. u \in Users /\ Readers' = Readers \ {u}
    BY <1>1, <2>1 DEF Readers
  <2>3. access' \in [Users -> {"none", "member", "reader"}] /\ leaving' \subseteq Users
    BY <1>1, <2>1, <2>2
  <2>4. UNCHANGED <<wraps, slipped>>
    BY <2>1 DEF StartDrop
  <2>5. vault = NoVault => OwnersOf(Wrapped(wraps)) = {}
    BY NothingBeforeBootstrap DEF OwnersOf, Wrapped
  <2>6. OutsidersInv'
    BY <2>1, <2>2, <2>4, <2>5 DEF IInv, OutsidersInv, OwnersOf, Wrapped
  <2> QED BY <2>1, <2>2, <2>3, <2>6, StartDropInv
<1>3. CASE RemoveMember(s)
  <2>1. PICK u \in Users \ Readers :
          /\ access' = [access EXCEPT ![u] = "none"]
          /\ StartDrop(s, u)
          /\ UNCHANGED leaving
    BY <1>3 DEF RemoveMember
  <2>2. Readers' = Readers
    BY <1>1, <2>1 DEF Readers
  <2>3. access' \in [Users -> {"none", "member", "reader"}] /\ leaving' \subseteq Users
    BY <1>1, <2>1
  <2>4. OutsidersInv'
    BY <2>1, <2>2 DEF IInv, OutsidersInv, OwnersOf, Wrapped, StartDrop
  <2> QED BY <2>1, <2>3, <2>4, StartDropInv
<1>4. CASE Reconcile(s)
  <2>1. PICK u \in OwnersOf(Wrapped(wraps)) \ Readers :
          StartDrop(s, u) /\ UNCHANGED <<access, leaving>>
    BY <1>4 DEF Reconcile
  <2>2. u \in Users
    BY <2>1, OwnersAreUsers
  <2>3. OutsidersInv'
    BY <2>1 DEF IInv, OutsidersInv, OwnersOf, Wrapped, StartDrop, Readers
  <2> QED BY <1>1, <2>1, <2>2, <2>3, StartDropInv
<1> QED
  BY <1>2, <1>3, <1>4

\* Coming back.
LEMMA RegainInv ==
  ASSUME IInv, RegainAccess
  PROVE  IInv'
<1>1. PICK u \in Users \ Readers :
        access' = [access EXCEPT ![u] = "reader"] /\ slipped' = slipped \ {u}
  BY DEF RegainAccess
<1>2. UNCHANGED <<vault, wraps, creds, revoked, session, leaving, stranded>>
  BY DEF RegainAccess
<1>3. access \in [Users -> {"none", "member", "reader"}]
  BY DEF IInv, TypeOK
<1>4. Readers' = Readers \cup {u}
  BY <1>1, <1>3 DEF Readers
<1>5. TypeOK'
  BY <1>1, <1>2, <1>3 DEF IInv, TypeOK
<1>6. SessionInv'
  BY <1>2 DEF IInv, SessionInv, SlotInv, Prepared
<1>7. WrapsOpenTheVault' /\ RecoveryKept' /\ HoldersInv'
  BY <1>2 DEF IInv, WrapsOpenTheVault, RecoveryKept, HoldersInv
<1>8. CredentialsInv'
  BY <1>2 DEF IInv, CredentialsInv, CredentialsOpen, Stored
<1>9. OutsidersInv'
  BY <1>1, <1>2, <1>4 DEF IInv, OutsidersInv, OwnersOf, Wrapped
<1> QED
  BY <1>5, <1>6, <1>7, <1>8, <1>9 DEF IInv

\* The keys of a person that have a wrap, if any.
LEMMA FindWrapsInv ==
  ASSUME IInv, NEW s \in Sessions, FindWraps(s)
  PROVE  IInv'
<1>1. PICK q : q = session[s]
  OBVIOUS
<1> DEFINE found == Wrapped(wraps) \cap KeysOf(q.target)
           next == IF found = {} THEN Idle ELSE [q EXCEPT !.step = "checked", !.recipients = found]
<1>2. /\ At(s, "drop", "client")
      /\ session' = [session EXCEPT ![s] = next]
      /\ leaving' = IF found = {} THEN leaving \ {q.target} ELSE leaving
      /\ UNCHANGED <<vault, wraps, creds, access, revoked, slipped, stranded>>
  BY <1>1 DEF FindWraps
<1>3. q \in Slots /\ SlotInv(q) /\ q.op = "drop"
  BY <1>1, <1>2, AtSlot
<1>4. q.target \in Users
  BY <1>3 DEF SlotInv
<1>5. found \subseteq DeviceKeys /\ found \subseteq Keys
  BY DEF KeysOf, Keys
<1>6. found # {} => vault # NoVault
  BY DEF Wrapped, IInv, WrapsOpenTheVault
<1>7. found = {} => q.target \notin OwnersOf(Wrapped(wraps))
  BY <1>4 DEF OwnersOf, KeysOf
<1>8. access' \in [Users -> {"none", "member", "reader"}]
      /\ leaving' \subseteq Users /\ slipped' \subseteq Users
  BY <1>2 DEF IInv, TypeOK
<1>9. OutsidersInv'
  <2>1. UNCHANGED <<Readers, OwnersOf(Wrapped(wraps))>>
    BY <1>2 DEF Readers, OwnersOf, Wrapped
  <2> QED BY <1>2, <1>7, <2>1 DEF IInv, OutsidersInv
<1>10. next \in Slots \cup {Idle} /\ (next # Idle => SlotInv(next))
  <2>1. CASE found = {}
    BY <2>1
  <2>2. CASE found # {}
    <3> HIDE DEF found
    <3>1. next = [q EXCEPT !.step = "checked", !.recipients = found]
      BY <2>2
    <3>2. next \in Slots
      BY <1>3, <1>5, <3>1 DEF Slots
    <3>3. next.op = "drop" /\ next.target = q.target /\ next.recipients = found
      BY <1>3, <3>1 DEF Slots
    <3> HIDE DEF next
    <3> QED BY <1>4, <1>5, <1>6, <2>2, <3>2, <3>3 DEF SlotInv
  <2> QED BY <2>1, <2>2
<1> HIDE DEF next, found
<1> QED
  BY <1>2, <1>8, <1>9, <1>10, PeopleStep

\* The wraps of a person go and the vault is marked.
LEMMA DropWrapsInv ==
  ASSUME IInv, NEW s \in Sessions, DropWraps(s)
  PROVE  IInv'
<1>1. PICK q : q = session[s]
  OBVIOUS
<1> DEFINE left == {w \in wraps : w.key \notin q.recipients}
<1>2. /\ At(s, "drop", "checked")
      /\ Done(s)
      /\ wraps' = left
      /\ vault' = [vault EXCEPT !.pending = TRUE]
      /\ revoked' = revoked \cup (q.recipients \ Elsewhere)
      /\ IF q.target \in OwnersOf(Wrapped(left))
         THEN UNCHANGED <<leaving, slipped>>
         ELSE leaving' = leaving \ {q.target} /\ slipped' = slipped \ {q.target}
      /\ UNCHANGED <<creds, access, stranded>>
  BY <1>1 DEF DropWraps
<1>3. q \in Slots /\ SlotInv(q) /\ q.op = "drop" /\ q.step = "checked"
  BY <1>1, <1>2, AtSlot
<1>4. vault # NoVault /\ q.recipients \subseteq DeviceKeys
  BY <1>3 DEF SlotInv
<1>5. vault \in Vaults
  BY <1>4, VaultFields DEF IInv
<1>6. /\ vault' \in Vaults /\ vault'.version = vault.version /\ vault'.key = vault.key
      /\ vault'.pending = TRUE
  BY <1>2, <1>5 DEF Vaults
<1>7. vault' # NoVault /\ vault.version \in Nat
  BY <1>5, <1>6 DEF Vaults, Versions
<1>8. SessionInv' /\ session' \in [Sessions -> Slots \cup {Idle}]
  BY <1>2, <1>6, <1>7, DoneInv DEF MovesOn
<1>9. TypeOK'
  BY <1>2, <1>4, <1>6, <1>8 DEF IInv, TypeOK
<1>10. WrapsOpenTheVault'
  BY <1>2, <1>6, <1>7 DEF IInv, WrapsOpenTheVault
<1>11. CredentialsInv'
  BY <1>2, <1>6, <1>7 DEF IInv, CredentialsInv, CredentialsOpen, Stored
<1>12. OutsidersInv'
  <2>1. OwnersOf(Wrapped(left)) \subseteq OwnersOf(Wrapped(wraps))
    BY DEF OwnersOf, Wrapped
  <2>2. Readers' = Readers /\ OwnersOf(Wrapped(wraps))' = OwnersOf(Wrapped(left))
    BY <1>2 DEF Readers, OwnersOf, Wrapped
  <2> HIDE DEF left
  <2> QED BY <1>2, <2>1, <2>2 DEF IInv, OutsidersInv
<1>13. HoldersInv'
  BY <1>6 DEF HoldersInv
<1>14. RecoveryKept'
  <2>1. PICK k \in RecoveryKeys : k \in Wrapped({w \in wraps : w.version = vault.version})
    BY <1>4 DEF IInv, RecoveryKept, HasRecovery
  <2>2. k \notin q.recipients
    BY <1>4
  <2>3. PICK w \in wraps : w.version = vault.version /\ w.key = k
    BY <2>1 DEF Wrapped
  <2>4. w \in wraps' /\ w.version = vault'.version
    BY <1>2, <1>6, <2>2, <2>3
  <2> QED BY <2>1, <2>3, <2>4 DEF RecoveryKept, HasRecovery, Wrapped
<1> QED
  BY <1>8, <1>9, <1>10, <1>11, <1>12, <1>13, <1>14 DEF IInv

-----------------------------------------------------------------------------

\* Every step keeps the invariant.
LEMMA StepInv == IInv /\ [Next]_vars => IInv'
<1> SUFFICES ASSUME IInv, [Next]_vars PROVE IInv'
  OBVIOUS
<1>1. CASE UNCHANGED vars
  <2>1. TypeOK' /\ SessionInv'
    BY <1>1 DEF vars, IInv, TypeOK, SessionInv, SlotInv, Prepared
  <2>2. WrapsOpenTheVault' /\ RecoveryKept' /\ HoldersInv' /\ OutsidersInv'
    BY <1>1 DEF vars, IInv, WrapsOpenTheVault, RecoveryKept, HoldersInv, OutsidersInv, Readers
  <2>3. CredentialsInv'
    BY <1>1 DEF vars, IInv, CredentialsInv, CredentialsOpen, Stored
  <2> QED BY <2>1, <2>2, <2>3 DEF IInv
<1>2. CASE DeleteCredential
  BY <1>2, DeleteInv
<1>3. CASE RegainAccess
  BY <1>3, RegainInv
<1>4. ASSUME NEW s \in Sessions,
             \/ SubmitBootstrap(s) \/ SubmitGrant(s) \/ SubmitUpload(s) \/ SubmitRotate(s)
             \/ Bootstrap(s) \/ CheckGrant(s) \/ AddWrap(s) \/ CheckUpload(s) \/ InsertCredential(s)
             \/ CheckRotate(s) \/ Rotate(s)
             \/ LoseAccess(s) \/ RemoveMember(s) \/ Reconcile(s) \/ FindWraps(s) \/ DropWraps(s) \/ Crash(s)
      PROVE  IInv'
  <2>1. CASE SubmitBootstrap(s) \/ SubmitGrant(s) \/ SubmitUpload(s) \/ SubmitRotate(s)
    BY <2>1, ClientInv
  <2>2. CASE CheckGrant(s) \/ CheckUpload(s) \/ CheckRotate(s)
    BY <2>2, CheckInv
  <2>3. CASE Bootstrap(s)
    BY <2>3, BootstrapInv
  <2>4. CASE AddWrap(s)
    BY <2>4, AddWrapInv
  <2>5. CASE InsertCredential(s)
    BY <2>5, InsertInv
  <2>6. CASE Rotate(s)
    BY <2>6, LostRotation, WonRotation
  <2>7. CASE LoseAccess(s) \/ RemoveMember(s) \/ Reconcile(s)
    BY <2>7, DepartInv
  <2>8. CASE FindWraps(s)
    BY <2>8, FindWrapsInv
  <2>9. CASE DropWraps(s)
    BY <2>9, DropWrapsInv
  <2>10. CASE Crash(s)
    BY <2>10, RefuseInv DEF Crash
  <2> QED BY <1>4, <2>1, <2>2, <2>3, <2>4, <2>5, <2>6, <2>7, <2>8, <2>9, <2>10
<1> QED
  BY <1>1, <1>2, <1>3, <1>4 DEF Next

\* Every reachable state satisfies the invariant.
THEOREM VaultInvariant == Spec => []IInv
BY InitInv, StepInv, PTL DEF Spec

\* Type correctness.
THEOREM TypeCorrect == Spec => []TypeOK
BY VaultInvariant, PTL DEF IInv

\* However grants, rotations and departures interleave, every wrap holds the
\* key the vault has: the version guards of addWrap and rotate are enough.
THEOREM WrapsAgree == Spec => []WrapsOpenTheVault
BY VaultInvariant, PTL DEF IInv

\* Every credential can be opened with the vault's key, but for those whose
\* upload overlapped a rotation.
THEOREM CredentialsAgree == Spec => []CredentialsOpen
BY VaultInvariant, PTL DEF IInv, CredentialsInv

\* A departure that is through leaves no wrap, and blocks downloads until the
\* vault has a key the person never held.
THEOREM DepartureBlocks == Spec => []DepartureFailsClosed
<1>1. IInv => DepartureFailsClosed
  BY VaultFields DEF IInv, OutsidersInv, HoldersInv, DepartureFailsClosed
<1> QED
  BY VaultInvariant, <1>1, PTL

\* An offline recovery key stays a recipient of the vault.
THEOREM RecoveryStays == Spec => []RecoveryKept
BY VaultInvariant, PTL DEF IInv

-----------------------------------------------------------------------------
(* The vault implements SharedSecret.                                       *)

\* The vault's key was made for the vault's version.
KeyInv ==
  /\ vault # NoVault => vault.key.for = vault.version
  /\ \A s \in Sessions :
       session[s] # Idle /\ session[s].op = "bootstrap" => session[s].key.for = 1

\* A step that moves one session, to a slot of another operation or to one
\* with the key it had, and leaves the vault's key alone.
LEMMA KeyKeeps ==
  ASSUME IInv, KeyInv, NEW s \in Sessions, NEW slot,
         session' = [session EXCEPT ![s] = slot],
         slot # Idle /\ slot.op = "bootstrap" => slot.key.for = 1,
         vault' # NoVault => vault'.key.for = vault'.version
  PROVE  KeyInv'
<1>1. session \in [Sessions -> Slots \cup {Idle}]
  BY DEF IInv, TypeOK
<1> QED
  BY <1>1 DEF KeyInv

\* A step that ends a session and leaves the vault's key alone.
LEMMA DoneKeyKeeps ==
  ASSUME IInv, KeyInv, NEW s \in Sessions, Done(s),
         vault' # NoVault => vault'.key.for = vault'.version
  PROVE  KeyInv'
BY KeyKeeps DEF Done

LEMMA SubmitKey ==
  ASSUME IInv, KeyInv, NEW s \in Sessions, NEW op \in {"grant", "upload", "rotate"},
         NEW target, NEW recipients, NEW deks, Submit(s, op, target, recipients, deks)
  PROVE  KeyInv'
BY KeyKeeps DEF Submit, KeyInv

LEMMA AcceptKey ==
  ASSUME IInv, KeyInv, NEW s \in Sessions, session[s] # Idle, NEW refs, Accept(s, refs)
  PROVE  KeyInv'
<1> DEFINE slot == [session[s] EXCEPT !.step = "checked", !.refs = refs]
<1>1. session[s] \in Slots
  BY SlotType DEF IInv
<1>2. slot.op = session[s].op /\ slot.key = session[s].key
  BY <1>1 DEF Slots
<1>3. session' = [session EXCEPT ![s] = slot] /\ UNCHANGED vault
  BY DEF Accept, IInv, TypeOK
<1> HIDE DEF slot
<1> QED
  BY <1>2, <1>3, KeyKeeps DEF KeyInv

\* The requests that write the vault.
LEMMA WriteKey ==
  ASSUME IInv, KeyInv, NEW s \in Sessions,
         Bootstrap(s) \/ AddWrap(s) \/ InsertCredential(s) \/ Rotate(s) \/ DropWraps(s)
  PROVE  KeyInv'
<1>1. PICK q : q = session[s]
  OBVIOUS
<1>2. CASE Refuse(s)
  BY <1>2, DoneKeyKeeps DEF Refuse, KeyInv
<1>3. CASE Bootstrap(s) /\ ~ Refuse(s)
  <2>1. /\ At(s, "bootstrap", "client") /\ Done(s)
        /\ vault' = [version |-> 1, key |-> q.key, pending |-> FALSE,
                     holders |-> OwnersOf(q.recipients)]
    BY <1>1, <1>3 DEF Bootstrap
  <2>2. q.key.for = 1
    BY <1>1, <2>1 DEF KeyInv, At
  <2> QED BY <2>1, <2>2, DoneKeyKeeps
<1>4. CASE AddWrap(s) /\ ~ Refuse(s)
  <2>1. At(s, "grant", "checked") /\ Done(s)
        /\ vault' = [vault EXCEPT !.holders = @ \cup OwnersOf({q.target})]
    BY <1>1, <1>4 DEF AddWrap
  <2>2. vault \in Vaults /\ vault # NoVault
    BY <2>1, AtSlot, VaultFields DEF SlotInv, Prepared, IInv
  <2>3. vault'.version = vault.version /\ vault'.key = vault.key
    BY <2>1, <2>2 DEF Vaults
  <2> QED BY <2>1, <2>2, <2>3, DoneKeyKeeps DEF KeyInv
<1>5. CASE InsertCredential(s) /\ ~ Refuse(s)
  BY <1>5, DoneKeyKeeps DEF InsertCredential, KeyInv
<1>6. CASE Rotate(s)
  <2>1. /\ Done(s)
        /\ IF vault.version = q.version
           THEN vault' = [version |-> q.version + 1, key |-> NewKey(s, q.version + 1),
                          pending |-> FALSE, holders |-> OwnersOf(q.recipients)]
           ELSE UNCHANGED vault
    BY <1>1, <1>6 DEF Rotate
  <2>2. NewKey(s, q.version + 1).for = q.version + 1
    BY DEF NewKey
  <2>3. vault' # NoVault => vault'.key.for = vault'.version
    BY <2>1, <2>2 DEF KeyInv
  <2> QED BY <2>1, <2>3, DoneKeyKeeps
<1>7. CASE DropWraps(s)
  <2>1. At(s, "drop", "checked") /\ Done(s) /\ vault' = [vault EXCEPT !.pending = TRUE]
    BY <1>7 DEF DropWraps
  <2>2. vault \in Vaults /\ vault # NoVault
    BY <2>1, AtSlot, VaultFields DEF SlotInv, IInv
  <2>3. vault'.version = vault.version /\ vault'.key = vault.key
    BY <2>1, <2>2 DEF Vaults
  <2> QED BY <2>1, <2>2, <2>3, DoneKeyKeeps DEF KeyInv
<1> QED
  BY <1>2, <1>3, <1>4, <1>5, <1>6, <1>7

\* The steps that leave the vault alone.
LEMMA PeopleKey ==
  ASSUME IInv, KeyInv, NEW s \in Sessions,
         LoseAccess(s) \/ RemoveMember(s) \/ Reconcile(s) \/ FindWraps(s)
  PROVE  KeyInv'
<1>1. CASE FindWraps(s)
  <2>1. PICK q : q = session[s]
    OBVIOUS
  <2> DEFINE found == Wrapped(wraps) \cap KeysOf(q.target)
             next == IF found = {} THEN Idle ELSE [q EXCEPT !.step = "checked", !.recipients = found]
  <2>2. At(s, "drop", "client") /\ session' = [session EXCEPT ![s] = next] /\ UNCHANGED vault
    BY <1>1, <2>1 DEF FindWraps
  <2>3. q \in Slots /\ q.op = "drop"
    BY <2>1, <2>2, AtSlot
  <2>4. next # Idle => next.op = "drop"
    BY <2>3 DEF Slots
  <2> HIDE DEF next
  <2> QED BY <2>2, <2>4, KeyKeeps DEF KeyInv
<1>2. ASSUME NEW u, StartDrop(s, u)
      PROVE  KeyInv'
  BY <1>2, KeyKeeps DEF StartDrop, KeyInv
<1> QED
  BY <1>1, <1>2 DEF LoseAccess, RemoveMember, Reconcile

LEMMA KeyStep == IInv /\ KeyInv /\ [Next]_vars => KeyInv'
<1> SUFFICES ASSUME IInv, KeyInv, [Next]_vars PROVE KeyInv'
  OBVIOUS
<1>1. CASE UNCHANGED vars \/ DeleteCredential \/ RegainAccess
  BY <1>1 DEF vars, KeyInv, DeleteCredential, RegainAccess
<1>2. ASSUME NEW s \in Sessions,
             \/ SubmitBootstrap(s) \/ SubmitGrant(s) \/ SubmitUpload(s) \/ SubmitRotate(s)
             \/ Bootstrap(s) \/ CheckGrant(s) \/ AddWrap(s) \/ CheckUpload(s) \/ InsertCredential(s)
             \/ CheckRotate(s) \/ Rotate(s)
             \/ LoseAccess(s) \/ RemoveMember(s) \/ Reconcile(s) \/ FindWraps(s) \/ DropWraps(s) \/ Crash(s)
      PROVE  KeyInv'
  <2>1. CASE SubmitBootstrap(s)
    <3>1. PICK recipients :
            /\ session' = [session EXCEPT ![s] =
                 [op |-> "bootstrap", step |-> "client", target |-> Nobody, version |-> 1,
                  key |-> NewKey(s, 1), recipients |-> recipients, deks |-> {}, refs |-> {}]]
            /\ UNCHANGED vault
      BY <2>1 DEF SubmitBootstrap
    <3>2. NewKey(s, 1).for = 1
      BY DEF NewKey
    <3> QED BY <3>1, <3>2, KeyKeeps DEF KeyInv
  <2>2. CASE SubmitGrant(s) \/ SubmitUpload(s) \/ SubmitRotate(s)
    BY <2>2, SubmitKey DEF SubmitGrant, SubmitUpload, SubmitRotate
  <2>3. CASE CheckGrant(s) \/ CheckUpload(s) \/ CheckRotate(s) \/ Crash(s)
    <3>1. CASE Refuse(s)
      BY <3>1, DoneKeyKeeps DEF Refuse, KeyInv
    <3>2. CASE ~ Refuse(s)
      <4>1. session[s] # Idle /\ \E refs \in {{}, Stored} : Accept(s, refs)
        BY <2>3, <3>2 DEF CheckGrant, CheckUpload, CheckRotate, Crash, At
      <4> QED BY <4>1, AcceptKey
    <3> QED BY <3>1, <3>2
  <2>4. CASE Bootstrap(s) \/ AddWrap(s) \/ InsertCredential(s) \/ Rotate(s) \/ DropWraps(s)
    BY <2>4, WriteKey
  <2>5. CASE LoseAccess(s) \/ RemoveMember(s) \/ Reconcile(s) \/ FindWraps(s)
    BY <2>5, PeopleKey
  <2> QED BY <1>2, <2>1, <2>2, <2>3, <2>4, <2>5
<1> QED
  BY <1>1, <1>2 DEF Next

\* The members of the secret are the recipients: every wrap opens the vault.
LEMMA MembersAre ==
  ASSUME IInv
  PROVE  Members = Wrapped(wraps)
<1>1. \A w \in wraps : w.key \in Keys /\ w.version = Age /\ w.holds = Current
  BY DEF IInv, TypeOK, Wraps, WrapsOpenTheVault, Age, Current
<1> QED
  BY <1>1 DEF Members, Wrapped

LEMMA MembersWillBe ==
  ASSUME IInv'
  PROVE  Members' = Wrapped(wraps')
<1>1. \A w \in wraps' : w.key \in Keys /\ w.version = Age' /\ w.holds = Current'
  BY DEF IInv, TypeOK, Wraps, WrapsOpenTheVault, Age, Current
<1> QED
  BY <1>1 DEF Members, Wrapped

\* What moves neither the vault nor its wraps is a stutter.
LEMMA SecretStutters ==
  ASSUME UNCHANGED <<vault, wraps>>
  PROVE  UNCHANGED <<Age, Current, Members, Due>>
BY DEF Age, Current, Members, Due

\* The next version of the vault, or the first, is a renewal.
LEMMA SecretRenewed ==
  ASSUME IInv, IInv', KeyInv, KeyInv',
         vault' # NoVault, vault'.version = Age + 1, vault'.pending = FALSE
  PROVE  Secret!Renew
<1>1. vault' \in Vaults
  BY DEF IInv, TypeOK
<1>2. Age' = Age + 1 /\ Current' \in VaultKeys /\ Due' = FALSE
  BY <1>1 DEF Age, Current, Due, Vaults
<1>3. Age > 0 => Current' # Current
  <2>1. vault' # NoVault => vault'.key.for = vault'.version
    BY DEF KeyInv
  <2>2. SUFFICES ASSUME Age > 0, vault # NoVault
                 PROVE  vault'.key # vault.key
    BY DEF Age, Current
  <2>3. vault.version \in Nat /\ vault.key.for = vault.version /\ Age = vault.version
    BY <2>2, VaultFields DEF IInv, KeyInv, Versions, Age
  <2> QED BY <2>1, <2>3
<1>4. Members' = Wrapped(wraps')
  BY MembersWillBe
<1>5. Members' \subseteq Keys
  BY DEF Members
<1>6. Members' \cap RecoveryKeys # {}
  BY <1>4 DEF IInv, RecoveryKept, HasRecovery, Wrapped
<1> QED
  BY <1>2, <1>3, <1>5, <1>6 DEF Secret!Renew, Secret!Admitted

\* Every step of the vault is an operation on the secret, or a stutter.
LEMMA SecretStep ==
  ASSUME IInv, IInv', KeyInv, KeyInv', [Next]_vars
  PROVE  Secret!Next \/ UNCHANGED <<Age, Current, Members, Due>>
<1>1. CASE UNCHANGED <<vault, wraps>>
  BY <1>1, SecretStutters
<1>2. ASSUME NEW s \in Sessions,
             Bootstrap(s) \/ AddWrap(s) \/ Rotate(s) \/ DropWraps(s),
             ~ Refuse(s)
      PROVE  Secret!Next \/ UNCHANGED <<Age, Current, Members, Due>>
  <2>1. PICK q : q = session[s]
    OBVIOUS
  <2>2. CASE Bootstrap(s)
    <3>1. /\ vault = NoVault
          /\ vault' = [version |-> 1, key |-> q.key, pending |-> FALSE,
                       holders |-> OwnersOf(q.recipients)]
      BY <1>2, <2>1, <2>2 DEF Bootstrap
    <3>2. At(s, "bootstrap", "client") /\ q \in Slots
      BY <1>2, <2>1, <2>2, AtSlot DEF Bootstrap
    <3>3. vault' \in Vaults
      BY <3>1, <3>2, OwnersAreUsers DEF Vaults, Slots, Versions
    <3>4. vault' # NoVault
      BY <3>3
    <3> QED BY <3>1, <3>4, SecretRenewed DEF Age, Secret!Next
  <2>3. CASE AddWrap(s)
    <3>1. /\ At(s, "grant", "checked")
          /\ vault' = [vault EXCEPT !.holders = @ \cup OwnersOf({q.target})]
          /\ wraps' = wraps \cup {[version |-> q.version, key |-> q.target, holds |-> q.key]}
      BY <1>2, <2>1, <2>3 DEF AddWrap
    <3>2. vault # NoVault /\ vault \in Vaults
      BY <3>1, AtSlot, VaultFields DEF SlotInv, Prepared, IInv
    <3>3. vault' \in Vaults \cup {NoVault}
      BY DEF IInv, TypeOK
    <3>4. vault'.version = vault.version /\ vault'.key = vault.key /\ vault'.pending = vault.pending
      BY <3>1, <3>2 DEF Vaults
    <3>5. vault' # NoVault
      BY <3>1, <3>2, OwnersAreUsers DEF Vaults
    <3>6. Age' = Age /\ Current' = Current /\ Due' = Due /\ Age > 0
      BY <3>2, <3>4, <3>5 DEF Age, Current, Due, Vaults, Versions
    <3>7. Members \subseteq Members' /\ Members' \subseteq Keys
      BY <3>1, <3>6 DEF Members
    <3> QED BY <3>6, <3>7 DEF Secret!Next, Secret!Admit
  <2>4. CASE Rotate(s)
    <3>1. CASE vault.version = q.version
      <4>1. At(s, "rotate", "checked")
            /\ vault' = [version |-> q.version + 1, key |-> NewKey(s, q.version + 1),
                         pending |-> FALSE, holders |-> OwnersOf(q.recipients)]
        BY <2>1, <2>4, <3>1 DEF Rotate
      <4>2. q \in Slots /\ vault # NoVault /\ q.version < MaxVersion
        BY <2>1, <4>1, AtSlot DEF SlotInv, Prepared
      <4>3. q.version + 1 \in Versions
        BY <4>2 DEF Slots, Versions
      <4>4. vault' \in Vaults
        BY <4>1, <4>3, NewKeyType, OwnersAreUsers DEF Vaults
      <4>5. vault' # NoVault
        BY <4>4
      <4> QED BY <3>1, <4>1, <4>2, <4>5, SecretRenewed DEF Age, Secret!Next
    <3>2. CASE vault.version # q.version
      <4>1. UNCHANGED vault /\ wraps' = {w \in wraps : w.version # q.version}
        BY <2>1, <2>4, <3>2 DEF Rotate
      <4>2. wraps' = wraps
        BY <3>2, <4>1 DEF IInv, WrapsOpenTheVault
      <4> QED BY <4>1, <4>2, SecretStutters
    <3> QED BY <3>1, <3>2
  <2>5. CASE DropWraps(s)
    <3>1. /\ At(s, "drop", "checked")
          /\ wraps' = {w \in wraps : w.key \notin q.recipients}
          /\ vault' = [vault EXCEPT !.pending = TRUE]
      BY <2>1, <2>5 DEF DropWraps
    <3>2. vault # NoVault /\ vault \in Vaults /\ q.recipients \subseteq DeviceKeys
      BY <2>1, <3>1, AtSlot, VaultFields DEF SlotInv, IInv
    <3>3. vault'.version = vault.version /\ vault'.key = vault.key /\ vault'.pending = TRUE
      BY <3>1, <3>2 DEF Vaults
    <3>4. vault' # NoVault
      BY <3>1, <3>2 DEF Vaults
    <3>5. Age' = Age /\ Current' = Current /\ Due' = TRUE /\ Age > 0
      BY <3>2, <3>3, <3>4 DEF Age, Current, Due, Vaults, Versions
    <3>6. Members' \subseteq Members
      BY <3>1, <3>5 DEF Members
    <3>7. Members \cap RecoveryKeys \subseteq Members'
      BY <3>1, <3>2, <3>5 DEF Members
    <3> QED BY <3>5, <3>6, <3>7 DEF Secret!Next, Secret!Expel
  <2> QED BY <1>2, <2>2, <2>3, <2>4, <2>5
<1>3. ASSUME NEW s \in Sessions,
             ~ UNCHANGED <<vault, wraps>>,
             \/ SubmitBootstrap(s) \/ SubmitGrant(s) \/ SubmitUpload(s) \/ SubmitRotate(s)
             \/ CheckGrant(s) \/ CheckUpload(s) \/ InsertCredential(s) \/ CheckRotate(s)
             \/ LoseAccess(s) \/ RemoveMember(s) \/ Reconcile(s) \/ FindWraps(s) \/ Crash(s)
      PROVE  FALSE
  BY <1>3 DEF SubmitBootstrap, SubmitGrant, SubmitUpload, SubmitRotate, Submit,
     CheckGrant, CheckUpload, InsertCredential, CheckRotate, Accept, Refuse,
     LoseAccess, RemoveMember, Reconcile, StartDrop, FindWraps, Crash
<1>4. CASE UNCHANGED vars \/ DeleteCredential \/ RegainAccess
  BY <1>1, <1>4 DEF vars, DeleteCredential, RegainAccess
<1> QED
  BY <1>1, <1>2, <1>3, <1>4 DEF Next, Refuse

\* The vault implements the abstract secret: whatever the interleaving of
\* checks, guarded statements and batches, what clients see is one secret
\* changed by atomic operations, renewed with members chosen at once and due
\* for renewal from an expulsion on.
THEOREM SecretShared == Spec => SharesOneSecret
<1>1. Init => KeyInv /\ Secret!Init
  BY DEF Init, KeyInv, Secret!Init, Age, Members, Due
<1>2. ASSUME IInv, IInv', KeyInv, KeyInv', [Next]_vars
      PROVE  [Secret!Next]_<<Age, Current, Members, Due>>
  BY <1>2, SecretStep
<1>3. Spec => []KeyInv
  BY <1>1, VaultInvariant, KeyStep, PTL DEF Spec
<1> QED
  BY <1>1, <1>2, <1>3, VaultInvariant, PTL DEF Spec, SharesOneSecret, Secret!Spec

================================================================================
