---------------------------- MODULE StoredProofs ----------------------------
(***************************************************************************)
(* Machine-checked proofs about components whose rows refer to objects in   *)
(* R2: AssetCollection, Patches and Signing.  They share no state, so each *)
(* part of the module is about one of them, for every value of its         *)
(* constants.                                                              *)
(***************************************************************************)
EXTENDS MCStored, BuildsProofs, SequenceTheorems, FiniteSetTheorems, TLAPS

USE AssetCollectionAssumption, PatchesAssumption

(***************************************************************************)
(* Patches: the inductive invariant.                                       *)
(***************************************************************************)

\* A key says which bundles the bytes of its patch lead between; both updates
\* were inserted before anything was made of them.
KeysTell == \A p \in patches : p.key = <<p.from, p.to>> /\ p.from \in created /\ p.to \in created

MakerFit == maker # Still => {maker.to} \cup maker.bases \cup maker.made \subseteq created

\* A patch is answered privately and only to a device that was looked one for.
AnswersFit ==
  /\ \A entry \in edge : entry.body.form # "patch"
  /\ device # Still /\ device.pc = "probe" => device.aim
  /\ BodySuitsDevice

\* Both updates of the key were on the shelf when the sweep read it, if they
\* are there at all.
Surveyed(key) ==
  \A i \in {key[1], key[2]} : i \in created /\ (i \in OnShelf => i \in sweep.survivors)

\* What the sweep may delete was eligible by what it read at its start, and
\* no patch has become old since.
SweepFit ==
  sweep # Still =>
    /\ \A p \in patches : p.old => Surveyed(p.key)
    /\ \A key \in sweep.keys : Unreachable(key) /\ Surveyed(key)
    /\ sweep.pc = "bases" => sweep.keys = {}

PatchesInv == PatchTypeOK /\ KeysTell /\ MakerFit /\ AnswersFit /\ SweepFit

LEMMA PatchesInitInv == PatchInit => PatchesInv
  BY DEF PatchInit, PatchesInv, PatchTypeOK, KeysTell, MakerFit, AnswersFit, SweepFit,
         BodySuitsDevice, Still, Kinds, IsInjective

(***************************************************************************)
(* Patches: the shelf.                                                     *)
(***************************************************************************)

\* A new update in front.
LEMMA Shelved ==
  ASSUME NEW C, NEW s \in Seq(C), IsInjective(s), NEW u, u \notin C
  PROVE  /\ <<u>> \o s \in Seq(C \cup {u})
         /\ IsInjective(<<u>> \o s)
         /\ Range(<<u>> \o s) = Range(s) \cup {u}
<1> DEFINE t == <<u>> \o s
<1>1. t \in Seq(C \cup {u}) /\ Len(t) = Len(s) + 1
  OBVIOUS
<1>2. t[1] = u /\ \A n \in 2..Len(t) : t[n] = s[n - 1]
  OBVIOUS
<1>3. \A n \in 1..Len(s) : s[n] = t[n + 1] /\ s[n] \in C
  OBVIOUS
<1>4. DOMAIN t = 1..Len(t) /\ DOMAIN s = 1..Len(s) /\ Len(s) \in Nat
  OBVIOUS
<1> HIDE DEF t
<1>5. IsInjective(t)
  <2> SUFFICES ASSUME NEW m \in 1..Len(t), NEW n \in 1..Len(t), t[m] = t[n] PROVE m = n
    BY <1>4 DEF IsInjective
  <2>1. CASE m = 1 \/ n = 1
    BY <1>1, <1>2, <1>3, <1>4, <2>1
  <2>2. CASE m # 1 /\ n # 1
    <3>1. m - 1 \in 1..Len(s) /\ n - 1 \in 1..Len(s) /\ s[m - 1] = s[n - 1]
      BY <1>1, <1>2, <1>4, <2>2
    <3>2. m - 1 = n - 1
      BY <1>4, <3>1 DEF IsInjective
    <3> QED BY <1>1, <1>4, <3>2
  <2> QED BY <2>1, <2>2
<1>6. Range(t) = Range(s) \cup {u}
  <2> DEFINE front == <<u>>
             D == C \cup {u}
  <2>1. front \in Seq(D) /\ s \in Seq(D) /\ Range(front) = {u}
    BY DEF Range
  <2>2. t = front \o s
    BY DEF t
  <2> HIDE DEF front, t, D
  <2>3. Range(front \o s) = Range(front) \cup Range(s)
    BY <2>1, RangeConcatenation
  <2> QED BY <2>1, <2>2, <2>3
<1> QED BY <1>1, <1>5, <1>6 DEF t

\* An update taken off.
LEMMA Unshelved ==
  ASSUME NEW C, NEW s \in Seq(C), IsInjective(s), NEW k \in DOMAIN s
  PROVE  /\ RemoveAt(s, k) \in Seq(C)
         /\ IsInjective(RemoveAt(s, k))
         /\ Range(RemoveAt(s, k)) \subseteq Range(s)
<1> DEFINE t == RemoveAt(s, k)
           from(n) == IF n < k THEN n ELSE n + 1
<1>1. k \in 1..Len(s) /\ Len(s) \in Nat /\ DOMAIN s = 1..Len(s)
  OBVIOUS
<1>2. t \in Seq(C) /\ Len(t) = Len(s) - 1 /\ DOMAIN t = 1..Len(t)
  BY <1>1 DEF RemoveAt
<1>3. \A n \in 1..Len(t) : from(n) \in 1..Len(s) /\ t[n] = s[from(n)]
  <2> DEFINE before == SubSeq(s, 1, k - 1)
             after == SubSeq(s, k + 1, Len(s))
  <2>1. /\ before \in Seq(C) /\ Len(before) = k - 1
        /\ \A n \in 1..(k - 1) : before[n] = s[n]
    BY <1>1
  <2>2. /\ after \in Seq(C) /\ Len(after) = Len(s) - k
        /\ \A n \in 1..(Len(s) - k) : after[n] = s[k + n]
    BY <1>1
  <2>3. t = before \o after /\ Len(t) = Len(s) - 1
    BY <1>2 DEF RemoveAt
  <2> HIDE DEF t, before, after
  <2>6. \A n \in 1..Len(t) : t[n] = IF n <= k - 1 THEN before[n] ELSE after[n - (k - 1)]
    BY <1>1, <2>1, <2>2, <2>3, ConcatProperties
  <2> TAKE n \in 1..Len(t)
  <2>4. CASE n < k
    <3>1. n \in 1..(k - 1) /\ n <= k - 1 /\ n \in 1..Len(s)
      BY <1>1, <2>3, <2>4
    <3> QED BY <2>1, <2>4, <2>6, <3>1
  <2>5. CASE ~(n < k)
    <3>1. n - (k - 1) \in 1..(Len(s) - k) /\ k + (n - (k - 1)) = n + 1
      BY <1>1, <1>2, <2>5
    <3>2. t[n] = after[n - (k - 1)]
      <4>1. ~(n <= k - 1)
        BY <1>1, <2>3, <2>5
      <4> QED BY <2>6, <4>1
    <3> QED BY SMTT(30), <1>1, <2>2, <2>3, <2>5, <3>1, <3>2
  <2> QED BY <2>4, <2>5
<1>4. \A m, n \in 1..Len(t) : from(m) = from(n) => m = n
  BY <1>1, <1>2
<1> HIDE DEF t, from
<1>5. IsInjective(t)
  BY <1>1, <1>2, <1>3, <1>4 DEF IsInjective
<1>6. Range(t) \subseteq Range(s)
  BY <1>1, <1>2, <1>3 DEF Range
<1> QED BY <1>2, <1>5, <1>6 DEF t

LEMMA BasesOnShelf == ASSUME PatchTypeOK PROVE Bases \subseteq OnShelf /\ OnShelf \subseteq created
<1>1. OnShelf \subseteq created
  <2>1. \A n \in DOMAIN shelf : shelf[n] \in created
    BY DEF PatchTypeOK
  <2> QED BY <2>1 DEF OnShelf, Range
<1>2. Bases \subseteq OnShelf
  <2>1. \A n \in DOMAIN shelf : shelf[n] \in OnShelf
    BY DEF OnShelf, Range
  <2> QED BY <2>1 DEF Bases
<1> QED BY <1>1, <1>2

(***************************************************************************)
(* Patches: publishing.                                                    *)
(***************************************************************************)

\* The sweep is not disturbed by an update that was not there when it read.
LEMMA CreateUpdateInv ==
  ASSUME PatchesInv, NEW u \in Ids, NEW k \in Kinds, NEW patching \in BOOLEAN,
         CreateUpdate(u, k, patching)
  PROVE  PatchesInv'
<1> USE DEF PatchesInv
<1> DEFINE order == [pc |-> "list", to |-> u, bases |-> {}, made |-> {}]
<1>1. /\ u \notin created /\ created' = created \cup {u}
      /\ shelf' = <<u>> \o shelf
      /\ maker' = order \/ maker' = maker
      /\ UNCHANGED <<patches, edge, device, sweep>>
  BY DEF CreateUpdate
<1>2. /\ order \in [pc : {"list", "diff"}, to : Ids, bases : SUBSET Ids, made : SUBSET Ids]
      /\ order.to = u /\ order.bases = {} /\ order.made = {}
  OBVIOUS
<1> HIDE DEF order
<1>3. /\ shelf' \in Seq(created') /\ IsInjective(shelf')
      /\ OnShelf' = OnShelf \cup {u}
  <2>1. shelf \in Seq(created) /\ IsInjective(shelf) /\ u \notin created
    BY <1>1 DEF PatchTypeOK
  <2>2. /\ <<u>> \o shelf \in Seq(created \cup {u})
        /\ IsInjective(<<u>> \o shelf)
        /\ Range(<<u>> \o shelf) = Range(shelf) \cup {u}
    BY <2>1, Shelved, Zenon
  <2> QED BY <1>1, <2>2, Zenon DEF OnShelf
<1>4. kind' \in [created' -> Kinds]
  BY <1>1 DEF CreateUpdate, PatchTypeOK, Kinds
<1>5. PatchTypeOK'
  BY <1>1, <1>2, <1>3, <1>4 DEF PatchTypeOK
<1>6. KeysTell' /\ MakerFit'
  BY <1>1, <1>2 DEF KeysTell, MakerFit
<1>7. AnswersFit'
  BY <1>1 DEF AnswersFit, BodySuitsDevice
<1>8. \A key \in Ids \X Ids : Surveyed(key) => Surveyed(key)'
  BY <1>1, <1>3 DEF Surveyed
<1>9. SweepFit'
  <2>1. sweep # Still => sweep.keys \subseteq Ids \X Ids
    BY DEF PatchTypeOK
  <2>2. \A p \in patches : p.key \in Ids \X Ids
    BY DEF PatchTypeOK, Patch
  <2> QED BY <1>1, <1>8, <2>1, <2>2 DEF SweepFit, Unreachable
<1> QED BY <1>5, <1>6, <1>7, <1>9

LEMMA DeleteUpdateInv ==
  ASSUME PatchesInv, NEW u \in Ids, DeleteUpdate(u)
  PROVE  PatchesInv'
<1> USE DEF PatchesInv
<1>1. UNCHANGED <<kind, created, patches, edge, maker, device, sweep>>
  BY DEF DeleteUpdate
<1>2. /\ shelf' \in Seq(created') /\ IsInjective(shelf')
      /\ OnShelf' \subseteq OnShelf
  BY <1>1, Unshelved DEF DeleteUpdate, PatchTypeOK, OnShelf
<1>3. PatchTypeOK'
  BY <1>1, <1>2 DEF PatchTypeOK
<1>4. KeysTell' /\ MakerFit' /\ AnswersFit'
  BY <1>1 DEF KeysTell, MakerFit, AnswersFit, BodySuitsDevice
<1>5. SweepFit'
  BY <1>1, <1>2 DEF SweepFit, Unreachable, Surveyed
<1> QED BY <1>3, <1>4, <1>5

\* A step of the patch phase alone: what it keeps are ids that were created.
LEMMA MakerMovesOn ==
  ASSUME PatchesInv, UNCHANGED patches, MakerOnly,
         \/ maker' = Still
         \/ /\ maker' \in [pc : {"list", "diff"}, to : Ids, bases : SUBSET Ids, made : SUBSET Ids]
            /\ {maker'.to} \cup maker'.bases \cup maker'.made \subseteq created
  PROVE  PatchesInv'
<1> USE DEF PatchesInv
<1>1. UNCHANGED <<shelf, kind, created, patches, edge, device, sweep>>
  BY DEF MakerOnly
<1>2. PatchTypeOK'
  BY <1>1 DEF PatchTypeOK
<1>3. KeysTell' /\ MakerFit' /\ AnswersFit'
  BY <1>1 DEF KeysTell, MakerFit, AnswersFit, BodySuitsDevice
<1>4. SweepFit'
  BY <1>1 DEF SweepFit, Unreachable, Surveyed, OnShelf
<1> QED BY <1>2, <1>3, <1>4

LEMMA ListBasesInv ==
  ASSUME PatchesInv, ListBases
  PROVE  PatchesInv'
<1> DEFINE next == [maker EXCEPT !.pc = "diff", !.bases = BasesFor(maker.to)]
<1>1. /\ maker \in [pc : {"list", "diff"}, to : Ids, bases : SUBSET Ids, made : SUBSET Ids]
      /\ {maker.to} \cup maker.made \subseteq created /\ created \subseteq Ids
  BY DEF PatchesInv, ListBases, PatchTypeOK, MakerFit
<1>2. BasesFor(maker.to) \subseteq created
  BY BasesOnShelf DEF BasesFor, PatchesInv
<1>3. /\ next \in [pc : {"list", "diff"}, to : Ids, bases : SUBSET Ids, made : SUBSET Ids]
      /\ next.to = maker.to /\ next.bases = BasesFor(maker.to) /\ next.made = maker.made
  BY <1>1, <1>2
<1>4. maker' = next /\ UNCHANGED patches /\ MakerOnly
  BY DEF ListBases
<1> HIDE DEF next
<1> QED BY <1>1, <1>2, <1>3, <1>4, MakerMovesOn

LEMMA DiffBaseInv ==
  ASSUME PatchesInv, NEW base \in Ids, DiffBase(base)
  PROVE  PatchesInv'
<1> DEFINE next == [maker EXCEPT !.bases = @ \ {base}, !.made = @ \cup {base}]
<1>1. /\ maker \in [pc : {"list", "diff"}, to : Ids, bases : SUBSET Ids, made : SUBSET Ids]
      /\ {maker.to} \cup maker.bases \cup maker.made \subseteq created
      /\ base \in maker.bases
  BY DEF PatchesInv, DiffBase, PatchTypeOK, MakerFit
<1>2. /\ next \in [pc : {"list", "diff"}, to : Ids, bases : SUBSET Ids, made : SUBSET Ids]
      /\ next.to = maker.to /\ next.bases \subseteq maker.bases
      /\ next.made = maker.made \cup {base}
  BY <1>1
<1>3. maker' = next /\ UNCHANGED patches /\ MakerOnly
  BY DEF DiffBase
<1> HIDE DEF next
<1> QED BY <1>1, <1>2, <1>3, MakerMovesOn

LEMMA SkipBasesInv ==
  ASSUME PatchesInv, SkipBases
  PROVE  PatchesInv'
  BY MakerMovesOn DEF SkipBases

\* The upload is of a patch that is not old, which the sweep leaves alone
\* unless it has listed the key already.
LEMMA UploadPatchInv ==
  ASSUME PatchesInv, NEW base \in Ids, UploadPatch(base)
  PROVE  PatchesInv'
<1> USE DEF PatchesInv
<1> DEFINE key == <<base, maker.to>>
           patch == [key |-> key, from |-> base, to |-> maker.to, old |-> FALSE]
           next == [maker EXCEPT !.made = @ \ {base}]
<1>1. /\ maker # Still
      /\ maker \in [pc : {"list", "diff"}, to : Ids, bases : SUBSET Ids, made : SUBSET Ids]
      /\ maker.to \in created /\ maker.bases \cup maker.made \subseteq created /\ base \in maker.made
      /\ created \subseteq Ids
  BY DEF UploadPatch, PatchTypeOK, MakerFit
<1>2. /\ patches' = {p \in patches : p.key # key} \cup {patch}
      /\ maker' = next
      /\ UNCHANGED <<shelf, kind, created, edge, device, sweep>>
  BY DEF UploadPatch, PatchKey, MakerOnly
<1>3. /\ patch \in Patch /\ patch.key = key /\ patch.key = <<patch.from, patch.to>> /\ ~patch.old
      /\ patch.from \in created /\ patch.to \in created
  BY <1>1 DEF Patch
<1>4. /\ next \in [pc : {"list", "diff"}, to : Ids, bases : SUBSET Ids, made : SUBSET Ids]
      /\ next.to = maker.to /\ next.bases = maker.bases /\ next.made \subseteq maker.made
  BY <1>1
<1> HIDE DEF patch, key, next
<1>5. PatchTypeOK'
  BY <1>2, <1>3, <1>4 DEF PatchTypeOK
<1>6. KeysTell' /\ MakerFit'
  BY <1>1, <1>2, <1>3, <1>4 DEF KeysTell, MakerFit
<1>7. AnswersFit'
  BY <1>2 DEF AnswersFit, BodySuitsDevice
<1>8. SweepFit'
  BY <1>2, <1>3 DEF SweepFit, Unreachable, Surveyed, OnShelf
<1> QED BY <1>5, <1>6, <1>7, <1>8

(***************************************************************************)
(* Patches: the bundle route.                                              *)
(***************************************************************************)

\* A step of a request: what it is answered suits it, and what the cache keeps
\* is no patch.
LEMMA DeviceMovesOn ==
  ASSUME PatchesInv, DeviceOnly,
         edge' \subseteq [id : Ids, body : Body],
         \A entry \in edge' : entry.body.form # "patch",
         \/ device' = Still
         \/ /\ device' \in [pc : {"probe", "full", "answered"}, aim : BOOLEAN, id : Ids,
                            current : Ids \cup {NoId}, body : Body]
            /\ device'.pc = "probe" => device'.aim
            /\ device'.body.form = "patch" =>
                 device'.aim /\ device'.body.from = device'.current
                             /\ device'.body.to = device'.id
  PROVE  PatchesInv'
<1> USE DEF PatchesInv
<1>1. UNCHANGED <<shelf, kind, created, patches, maker, sweep>>
  BY DEF DeviceOnly
<1>2. PatchTypeOK'
  BY <1>1 DEF PatchTypeOK
<1>3. KeysTell' /\ MakerFit'
  BY <1>1 DEF KeysTell, MakerFit
<1>4. AnswersFit'
  BY DEF AnswersFit, BodySuitsDevice
<1>5. SweepFit'
  BY <1>1 DEF SweepFit, Unreachable, Surveyed, OnShelf
<1> QED BY <1>2, <1>3, <1>4, <1>5

LEMMA Bodies == Full \in Body /\ NotFound \in Body /\ Full.form # "patch" /\ NotFound.form # "patch"
  BY DEF Full, NotFound, Body

\* What a new request is remembered by.
LEMMA AskedDevice ==
  ASSUME NEW pc \in {"probe", "full", "answered"}, NEW id \in Ids, NEW current \in Ids \cup {NoId},
         NEW aim \in BOOLEAN, NEW body \in Body, Asked(pc, id, current, aim, body)
  PROVE  /\ device' \in [pc : {"probe", "full", "answered"}, aim : BOOLEAN, id : Ids,
                         current : Ids \cup {NoId}, body : Body]
         /\ device'.pc = pc /\ device'.aim = aim /\ device'.id = id
         /\ device'.current = current /\ device'.body = body
  BY DEF Asked

\* What the shared cache keeps is no patch, so it suits whoever asks.
LEMMA AnswerFromEdgeInv ==
  ASSUME PatchesInv, NEW id \in Ids, NEW current \in Ids \cup {NoId}, NEW aim \in BOOLEAN,
         AnswerFromEdge(id, current, aim)
  PROVE  PatchesInv'
<1>1. PICK entry \in edge : Asked("answered", id, current, aim, entry.body)
  BY DEF AnswerFromEdge
<1>2. entry.body \in Body /\ entry.body.form # "patch"
  BY DEF PatchesInv, PatchTypeOK, AnswersFit
<1>3. edge' = edge /\ DeviceOnly
  BY DEF AnswerFromEdge
<1>4. edge \subseteq [id : Ids, body : Body] /\ \A e \in edge : e.body.form # "patch"
  BY DEF PatchesInv, PatchTypeOK, AnswersFit
<1>5. /\ device' \in [pc : {"probe", "full", "answered"}, aim : BOOLEAN, id : Ids,
                      current : Ids \cup {NoId}, body : Body]
      /\ device'.pc = "answered" /\ device'.body = entry.body
  BY <1>1, <1>2, AskedDevice
<1> QED BY <1>2, <1>3, <1>4, <1>5, DeviceMovesOn

LEMMA FindLaunchAssetInv ==
  ASSUME PatchesInv, NEW id \in Ids, NEW current \in Ids \cup {NoId}, NEW aim \in BOOLEAN,
         NEW matches \in BOOLEAN, FindLaunchAsset(id, current, aim, matches)
  PROVE  PatchesInv'
<1> DEFINE found == id \in OnShelf /\ kind[id] # "rollback" /\ matches
           pc == CASE ~found -> "answered"
                   [] found /\ aim /\ current # NoId -> "probe"
                   [] OTHER -> "full"
<1>1. Asked(pc, id, current, aim, NotFound) /\ edge' = edge /\ DeviceOnly
  BY DEF FindLaunchAsset
<1>2. pc \in {"probe", "full", "answered"} /\ (pc = "probe" => aim)
  OBVIOUS
<1>3. edge \subseteq [id : Ids, body : Body] /\ \A e \in edge : e.body.form # "patch"
  BY DEF PatchesInv, PatchTypeOK, AnswersFit
<1> HIDE DEF pc
<1>4. /\ device' \in [pc : {"probe", "full", "answered"}, aim : BOOLEAN, id : Ids,
                      current : Ids \cup {NoId}, body : Body]
      /\ device'.pc = pc /\ device'.aim = aim /\ device'.body = NotFound
  BY <1>1, <1>2, Bodies, AskedDevice
<1> QED BY <1>1, <1>2, <1>3, <1>4, Bodies, DeviceMovesOn

LEMMA AnsweredDevice ==
  ASSUME PatchTypeOK, device # Still, NEW body \in Body, Answer(body)
  PROVE  /\ device' \in [pc : {"probe", "full", "answered"}, aim : BOOLEAN, id : Ids,
                         current : Ids \cup {NoId}, body : Body]
         /\ device'.pc = "answered" /\ device'.aim = device.aim /\ device'.id = device.id
         /\ device'.current = device.current /\ device'.body = body
<1>1. device \in [pc : {"probe", "full", "answered"}, aim : BOOLEAN, id : Ids,
                  current : Ids \cup {NoId}, body : Body]
  BY DEF PatchTypeOK
<1> QED BY <1>1 DEF Answer

\* The patch found is the one of the key that was asked for.
LEMMA ProbePatchInv ==
  ASSUME PatchesInv, ProbePatch
  PROVE  PatchesInv'
<1> DEFINE body(p) == [form |-> "patch", from |-> p.from, to |-> p.to]
<1>1. /\ device # Still /\ device.pc = "probe" /\ device.aim
      /\ device \in [pc : {"probe", "full", "answered"}, aim : BOOLEAN, id : Ids,
                     current : Ids \cup {NoId}, body : Body]
      /\ edge' = edge /\ DeviceOnly
      /\ edge \subseteq [id : Ids, body : Body] /\ \A e \in edge : e.body.form # "patch"
  BY DEF ProbePatch, PatchesInv, PatchTypeOK, AnswersFit
<1>2. \/ \E p \in patches : p.key = <<device.current, device.id>> /\ Answer(body(p))
      \/ device' = [device EXCEPT !.pc = "full"]
  BY DEF ProbePatch, PatchKey
<1>3. ASSUME NEW p \in patches, p.key = <<device.current, device.id>>, Answer(body(p))
      PROVE  PatchesInv'
  <2>1. /\ p.from \in Ids /\ p.to \in Ids
        /\ p.from = device.current /\ p.to = device.id
    BY <1>3 DEF PatchesInv, KeysTell, PatchTypeOK
  <2>2. body(p) \in Body /\ body(p).from = device.current /\ body(p).to = device.id
    BY <2>1 DEF Body
  <2> HIDE DEF body
  <2>3. /\ device' \in [pc : {"probe", "full", "answered"}, aim : BOOLEAN, id : Ids,
                        current : Ids \cup {NoId}, body : Body]
        /\ device'.pc = "answered" /\ device'.aim = device.aim /\ device'.id = device.id
        /\ device'.current = device.current /\ device'.body = body(p)
    BY <1>1, <1>3, <2>2, AnsweredDevice DEF PatchesInv
  <2> QED BY <1>1, <2>2, <2>3, DeviceMovesOn
<1>4. CASE device' = [device EXCEPT !.pc = "full"]
  <2>1. /\ device' \in [pc : {"probe", "full", "answered"}, aim : BOOLEAN, id : Ids,
                        current : Ids \cup {NoId}, body : Body]
        /\ device'.pc = "full" /\ device'.aim = device.aim /\ device'.id = device.id
        /\ device'.current = device.current /\ device'.body = device.body
    BY <1>1, <1>4
  <2> QED BY <1>1, <2>1, DeviceMovesOn DEF PatchesInv, AnswersFit, BodySuitsDevice
<1> QED BY <1>2, <1>3, <1>4

LEMMA GetFullBundleInv ==
  ASSUME PatchesInv, NEW kept \in BOOLEAN, GetFullBundle(kept)
  PROVE  PatchesInv'
<1> DEFINE body == IF kept THEN Full ELSE NotFound
           entry == [id |-> device.id, body |-> Full]
<1>1. body \in Body /\ body.form # "patch"
  BY Bodies
<1>2. /\ device # Still /\ DeviceOnly /\ Answer(body)
      /\ edge' = edge \cup {entry} \/ edge' = edge
  BY DEF GetFullBundle
<1> HIDE DEF body
<1>3. /\ device' \in [pc : {"probe", "full", "answered"}, aim : BOOLEAN, id : Ids,
                      current : Ids \cup {NoId}, body : Body]
      /\ device'.pc = "answered" /\ device'.body = body
  BY <1>1, <1>2, AnsweredDevice DEF PatchesInv
<1>4. device.id \in Ids
  BY <1>2 DEF PatchesInv, PatchTypeOK
<1>5. entry \in [id : Ids, body : Body] /\ entry.body = Full
  BY <1>4, Bodies
<1> HIDE DEF entry
<1>6. edge' \subseteq [id : Ids, body : Body] /\ \A e \in edge' : e.body.form # "patch"
  BY <1>2, <1>5, Bodies DEF PatchesInv, PatchTypeOK, AnswersFit
<1> QED BY <1>1, <1>2, <1>3, <1>6, DeviceMovesOn

LEMMA TakeBundleInv ==
  ASSUME PatchesInv, TakeBundle
  PROVE  PatchesInv'
  BY DeviceMovesOn DEF TakeBundle, PatchesInv, PatchTypeOK, AnswersFit

(***************************************************************************)
(* Patches: the sweep.                                                     *)
(***************************************************************************)
\* A sweep under way, as PatchTypeOK has it.
SweepType == [pc : {"bases", "list", "delete"}, survivors : SUBSET Ids, bases : SUBSET Ids,
              listed : SUBSET (Ids \X Ids), keys : SUBSET (Ids \X Ids)]

\* A step of the sweep that only takes patches away keeps what is known of the
\* rest.
LEMMA SweepMovesOn ==
  ASSUME PatchesInv, SweepOnly, patches' \subseteq patches,
         sweep' = Still \/ sweep' \in SweepType,
         sweep' # Still =>
           /\ \A p \in patches : p.old => Surveyed(p.key)'
           /\ \A key \in sweep'.keys : Unreachable(key)' /\ Surveyed(key)'
           /\ sweep'.pc = "bases" => sweep'.keys = {}
  PROVE  PatchesInv'
<1> USE DEF PatchesInv
<1>1. UNCHANGED <<shelf, kind, created, edge, maker, device>>
  BY DEF SweepOnly
<1>2. PatchTypeOK'
  BY <1>1 DEF PatchTypeOK, SweepType
<1>3. KeysTell' /\ MakerFit' /\ AnswersFit'
  BY <1>1 DEF KeysTell, MakerFit, AnswersFit, BodySuitsDevice
<1>4. SweepFit'
  BY DEF SweepFit
<1> QED BY <1>2, <1>3, <1>4

\* Patches only become old while no sweep is under way.
LEMMA PassRetentionInv ==
  ASSUME PatchesInv, PassRetention
  PROVE  PatchesInv'
<1> USE DEF PatchesInv
<1> DEFINE aged(p) == [p EXCEPT !.old = TRUE]
<1>1. /\ sweep = Still /\ patches' = {aged(p) : p \in patches}
      /\ UNCHANGED <<shelf, kind, created, edge, maker, device, sweep>>
  BY DEF PassRetention, SweepOnly
<1>2. \A p \in patches : /\ aged(p) \in Patch /\ aged(p).key = p.key
                         /\ aged(p).from = p.from /\ aged(p).to = p.to
  <2> TAKE p \in patches
  <2>1. p \in [key : Ids \X Ids, from : Ids, to : Ids, old : BOOLEAN]
    BY DEF PatchTypeOK, Patch
  <2> QED BY <2>1 DEF Patch
<1> HIDE DEF aged
<1>3. PatchTypeOK'
  <2>1. patches' \subseteq Patch /\ \A p, q \in patches' : p.key = q.key => p = q
    BY <1>1, <1>2 DEF PatchTypeOK
  <2> QED BY <1>1, <2>1 DEF PatchTypeOK
<1>4. KeysTell' /\ MakerFit' /\ AnswersFit' /\ SweepFit'
  BY <1>1, <1>2 DEF KeysTell, MakerFit, AnswersFit, BodySuitsDevice, SweepFit
<1> QED BY <1>3, <1>4

LEMMA ReadSurvivorsInv ==
  ASSUME PatchesInv, ReadSurvivors
  PROVE  PatchesInv'
<1> DEFINE next == [pc |-> "bases", survivors |-> OnShelf, bases |-> {}, listed |-> {},
                    keys |-> {}]
<1>1. sweep' = next /\ patches' = patches /\ SweepOnly
  BY DEF ReadSurvivors
<1>2. OnShelf \subseteq Ids
  BY BasesOnShelf DEF PatchesInv, PatchTypeOK
<1>3. next \in SweepType /\ next.survivors = OnShelf /\ next.keys = {}
  BY <1>2 DEF SweepType
<1> HIDE DEF next
<1>4. \A p \in patches : Surveyed(p.key)'
  BY <1>1, <1>3 DEF Surveyed, PatchesInv, KeysTell, SweepOnly, OnShelf
<1> QED BY <1>1, <1>3, <1>4, SweepMovesOn

LEMMA ReadPatchBasesInv ==
  ASSUME PatchesInv, ReadPatchBases
  PROVE  PatchesInv'
<1> DEFINE next == [sweep EXCEPT !.pc = "list", !.bases = Bases]
<1>1. /\ sweep # Still /\ sweep.pc = "bases" /\ sweep \in SweepType
      /\ sweep' = next /\ patches' = patches /\ SweepOnly
  BY DEF ReadPatchBases, PatchesInv, PatchTypeOK, SweepType
<1>2. Bases \subseteq Ids
  BY BasesOnShelf DEF PatchesInv, PatchTypeOK
<1>3. /\ next \in SweepType /\ next.survivors = sweep.survivors /\ next.keys = sweep.keys
      /\ next.pc = "list"
  BY <1>1, <1>2 DEF SweepType
<1> HIDE DEF next
<1>4. sweep.keys = {} /\ \A p \in patches : p.old => Surveyed(p.key)
  BY <1>1 DEF PatchesInv, SweepFit
<1>5. \A p \in patches : p.old => Surveyed(p.key)'
  BY <1>1, <1>3, <1>4 DEF Surveyed, SweepOnly, OnShelf
<1> QED BY <1>1, <1>3, <1>4, <1>5, SweepMovesOn

\* What is listed for deletion is old and unreachable.
LEMMA ListPageInv ==
  ASSUME PatchesInv, ListPage
  PROVE  PatchesInv'
<1>1. /\ sweep # Still /\ sweep \in SweepType /\ patches' = patches /\ SweepOnly
      /\ \A p \in patches : p.old => Surveyed(p.key)
  BY DEF ListPage, PatchesInv, PatchTypeOK, SweepType, SweepFit
<1>2. CASE sweep' = Still
  BY <1>1, <1>2, SweepMovesOn
<1>3. ASSUME NEW p \in patches, NEW keys \in {{}, {p.key}},
             keys # {} => Eligible(p),
             sweep' = [sweep EXCEPT !.pc = "delete", !.listed = @ \cup {p.key}, !.keys = keys]
      PROVE  PatchesInv'
  <2> DEFINE next == [sweep EXCEPT !.pc = "delete", !.listed = @ \cup {p.key}, !.keys = keys]
  <2>1. p.key \in Ids \X Ids
    BY DEF PatchesInv, PatchTypeOK, Patch
  <2>2. /\ next \in SweepType /\ next.survivors = sweep.survivors /\ next.bases = sweep.bases
        /\ next.keys = keys /\ next.pc = "delete"
    BY <1>1, <2>1 DEF SweepType
  <2>3. sweep' = next
    BY <1>3
  <2> HIDE DEF next
  <2>4. \A q \in patches : q.old => Surveyed(q.key)'
    BY <1>1, <2>2, <2>3 DEF Surveyed, SweepOnly, OnShelf
  <2>5. \A key \in keys : Unreachable(key)' /\ Surveyed(key)'
    BY <1>3, <2>2, <2>3, <2>4 DEF Eligible, Unreachable
  <2> QED BY <1>1, <2>2, <2>3, <2>4, <2>5, SweepMovesOn
<1> QED BY <1>2, <1>3 DEF ListPage

LEMMA DeletePageInv ==
  ASSUME PatchesInv, DeletePage
  PROVE  PatchesInv'
<1> DEFINE next == [sweep EXCEPT !.pc = "list", !.keys = {}]
<1>1. /\ sweep # Still /\ sweep \in SweepType /\ patches' \subseteq patches /\ SweepOnly
      /\ sweep' = next
      /\ \A p \in patches : p.old => Surveyed(p.key)
  BY DEF DeletePage, PatchesInv, PatchTypeOK, SweepType, SweepFit
<1>2. next \in SweepType /\ next.survivors = sweep.survivors /\ next.keys = {}
  BY <1>1 DEF SweepType
<1> HIDE DEF next
<1>3. \A p \in patches : p.old => Surveyed(p.key)'
  BY <1>1, <1>2 DEF Surveyed, SweepOnly, OnShelf
<1> QED BY <1>1, <1>2, <1>3, SweepMovesOn

LEMMA StopSweepInv ==
  ASSUME PatchesInv, StopSweep
  PROVE  PatchesInv'
  BY SweepMovesOn DEF StopSweep

LEMMA PatchesStutterInv == PatchesInv /\ UNCHANGED patchVars => PatchesInv'
  BY DEF PatchesInv, patchVars, PatchTypeOK, KeysTell, MakerFit, AnswersFit, BodySuitsDevice,
         SweepFit, Unreachable, Surveyed, OnShelf

LEMMA PatchesNextInv == PatchesInv /\ [PatchNext]_patchVars => PatchesInv'
<1> SUFFICES ASSUME PatchesInv, [PatchNext]_patchVars PROVE PatchesInv'
  OBVIOUS
<1>1. CASE Patching
  BY <1>1, CreateUpdateInv, DeleteUpdateInv, DiffBaseInv, UploadPatchInv, ListBasesInv,
     SkipBasesInv DEF Patching
<1>2. CASE Serving
  BY <1>2, AnswerFromEdgeInv, FindLaunchAssetInv, GetFullBundleInv, ProbePatchInv,
     TakeBundleInv DEF Serving
<1>3. CASE Sweeping
  BY <1>3, PassRetentionInv, ReadSurvivorsInv, ReadPatchBasesInv, ListPageInv, DeletePageInv,
     StopSweepInv DEF Sweeping
<1> QED BY <1>1, <1>2, <1>3, PatchesStutterInv DEF PatchNext

LEMMA PatchesInvariant == PatchSpec => []PatchesInv
  BY PatchesInitInv, PatchesNextInv, PTL DEF PatchSpec

(***************************************************************************)
(* Patches: the theorems.                                                  *)
(***************************************************************************)

\* Rows, patches, what the shared cache holds and what a device was answered
\* keep their types.
THEOREM PatchTypeCorrect == PatchSpec => []PatchTypeOK
<1>1. PatchesInv => PatchTypeOK
  BY DEF PatchesInv
<1> QED BY <1>1, PatchesInvariant, PTL

\* No device is handed a patch it did not ask for or that does not lead from
\* its bundle to the one it wants, for every history of publishing, deleting,
\* sweeping and shared caching (handlers/bundle.ts, above BUNDLE_VARY).
THEOREM PatchesSuitDevices == PatchSpec => []BodySuitsDevice
<1>1. PatchesInv => BodySuitsDevice
  BY DEF PatchesInv, AnswersFit
<1> QED BY <1>1, PatchesInvariant, PTL

\* The action of SweepSparesUsable.
SparesUsable ==
  \A p \in patches \ patches' : Usable(p.key) /\ sweep # Still /\ p.key \in sweep.keys =>
    p.key[1] \in sweep.survivors \ sweep.bases

\* A sweep that works from what it read at its start still deletes no usable
\* patch but one whose base it read to be outside the window
\* (domain/ota-reaper.ts, isPatchReapEligible).
THEOREM SweepIsConservative == PatchSpec => SweepSparesUsable
<1>1. PatchesInv => [SparesUsable]_patchVars
  <2> SUFFICES ASSUME PatchesInv, NEW p \in patches, Usable(p.key), sweep # Still,
                      p.key \in sweep.keys
               PROVE  p.key[1] \in sweep.survivors \ sweep.bases
    BY DEF SparesUsable
  <2>1. Unreachable(p.key) /\ Surveyed(p.key)
    BY DEF PatchesInv, SweepFit
  <2> QED BY <2>1 DEF Unreachable, Surveyed, Usable
<1> QED BY <1>1, PatchesInvariant, PTL DEF SparesUsable, SweepSparesUsable

(***************************************************************************)
(* AssetCollection: the inductive invariant.                               *)
(***************************************************************************)

\* A run of the publishing command works on the hashes of its update.
PubFit ==
  \A p \in Publishers : pub[p] \in Uploader =>
    \A h \in Hashes : pub[p].stage[h] # "done" => h \in pub[p].hashes

\* A collector has on its list what the updates it is about to delete refer to,
\* but for what came back under their ids.
ColFit ==
  \A c \in Collectors : col[c] # Idle =>
    /\ col[c].pc = "rows" =>
         \A r \in refs : r[1] \in col[c].us => r[2] \in col[c].hashes \/ r \in unread
    /\ col[c].pc = "objects" => col[c].keys \subseteq col[c].hashes

\* The foreign key of update_assets.
RefsHaveRows == \A r \in refs : asset[r[2]] # "none"

\* An orphan stays one, but for the references that come too late.
OrphansUnreferenced == \A r \in refs \ late : ~Condemned(r[2])

\* A collector has deleted the object and is about to delete the row.
Doomed(h) == \E c \in Collectors : ColAt(c, "assets") /\ h \in col[c].hashes

Promised(h) == \E p \in Publishers : h \in Owed(p)

\* Every row, finalized or not, has its object or somebody who sees to it: this
\* is what makes a late finalization harmless.
RowsBacked ==
  \A h \in Hashes : asset[h] # "none" /\ h \notin object =>
    Doomed(h) \/ Promised(h) \/ h \in bare

AssetsInv ==
  /\ AssetTypeOK /\ PubFit /\ ColFit /\ RefsHaveRows /\ OrphansUnreferenced
  /\ RowsBacked /\ NoAssetLeaks

LEMMA AssetsInitInv == AssetInit => AssetsInv
  BY DEF AssetInit, AssetsInv, AssetTypeOK, PubFit, ColFit, RefsHaveRows, OrphansUnreferenced,
         RowsBacked, NoAssetLeaks, Uploader, Idle

LEMMA AssetsTyped ==
  ASSUME AssetsInv
  PROVE  /\ asset \in [Hashes -> {"none", "pending", "ready"}]
         /\ object \subseteq Hashes /\ bare \subseteq Hashes /\ tracked \subseteq Hashes
         /\ refs \subseteq Updates \X Hashes
         /\ \A hs : Bare(hs) \subseteq hs
  BY DEF AssetsInv, AssetTypeOK, Bare

(***************************************************************************)
(* AssetCollection: publishing.                                            *)
(***************************************************************************)

\* A step of a publisher, up to the insertion of its update: no row or object
\* it leaves unmatched was matched by it alone, unless it fails on it.
LEMMA PublisherMovesOn ==
  ASSUME AssetsInv, NEW p \in Publishers, NEW slot \in Uploader \cup Creator \cup {Idle},
         pub' = [pub EXCEPT ![p] = slot],
         slot \in Uploader => \A h \in Hashes : slot.stage[h] # "done" => h \in slot.hashes,
         asset' \in [Hashes -> {"none", "pending", "ready"}],
         \A h \in Hashes : asset[h] # "none" => asset'[h] # "none",
         object \subseteq object', object' \subseteq Hashes, bare' \subseteq Hashes,
         \A h \in bare : h \in bare' \cup object',
         \A h \in Hashes : asset'[h] # "none" =>
           asset[h] # "none" \/ h \in Owed(p)',
         \A h \in Owed(p) : asset'[h] # "none" => h \in Owed(p)' \cup bare' \cup object',
         UNCHANGED <<refs, late, unread, col, tracked>>
  PROVE  AssetsInv'
<1> USE DEF AssetsInv
<1>1. /\ pub' \in [Publishers -> Uploader \cup Creator \cup {Idle}] /\ pub'[p] = slot
      /\ \A q \in Publishers \ {p} : pub'[q] = pub[q]
  BY DEF AssetTypeOK
<1>2. AssetTypeOK'
  BY <1>1 DEF AssetTypeOK
<1>3. PubFit'
  BY <1>1 DEF PubFit
<1>4. ColFit' /\ OrphansUnreferenced' /\ NoAssetLeaks'
  BY DEF ColFit, OrphansUnreferenced, Condemned, ColAt, NoAssetLeaks, Referrers, Carried
<1>5. RefsHaveRows'
  BY DEF RefsHaveRows, AssetTypeOK
<1>6. RowsBacked'
  <2>1. \A h : Doomed(h) => Doomed(h)'
    BY DEF Doomed, ColAt
  <2>2. \A q \in Publishers \ {p} : Owed(q)' = Owed(q)
    BY <1>1 DEF Owed
  <2>3. \A h \in Hashes :
          asset'[h] # "none" /\ h \notin object' /\ Promised(h) => Promised(h)' \/ h \in bare'
    BY <2>2 DEF Promised
  <2>4. \A h : h \in Owed(p)' => Promised(h)'
    BY DEF Promised
  <2> QED BY <2>1, <2>3, <2>4 DEF RowsBacked
<1> QED BY <1>2, <1>3, <1>4, <1>5, <1>6

\* What the stages of the command find in its slot.
LEMMA PublisherState ==
  ASSUME AssetsInv, NEW p \in Publishers, pub[p] # Idle
  PROVE  /\ pub[p].hashes \subseteq Hashes
         /\ pub[p].pc \in {"register", "upload"} =>
              /\ pub[p] \in Uploader
              /\ pub[p].stage \in [Hashes -> {"new", "put", "find", "head", "size", "done"}]
              /\ \A h \in Hashes : pub[p].stage[h] # "done" => h \in pub[p].hashes
         /\ pub[p].pc \in {"insert", "write"} => pub[p] \in Creator /\ pub[p].update \in Updates
<1>1. pub[p] \in Uploader \/ pub[p] \in Creator
  BY DEF AssetsInv, AssetTypeOK
<1>2. CASE pub[p] \in Uploader
  <2>1. /\ pub[p].hashes \subseteq Hashes /\ pub[p].pc \in {"register", "upload"}
        /\ pub[p].stage \in [Hashes -> {"new", "put", "find", "head", "size", "done"}]
    BY <1>2 DEF Uploader
  <2> QED BY <1>2, <2>1 DEF AssetsInv, PubFit
<1>3. CASE pub[p] \in Creator
  <2>1. /\ pub[p].hashes \subseteq Hashes /\ pub[p].pc \in {"insert", "write"}
        /\ pub[p].update \in Updates
    BY <1>3 DEF Creator
  <2> QED BY <1>3, <2>1
<1> QED BY <1>1, <1>2, <1>3

LEMMA OwedHashes ==
  ASSUME AssetsInv, NEW p \in Publishers
  PROVE  Owed(p) \subseteq Hashes
  BY PublisherState DEF Owed

LEMMA CreatorIsNoUploader ==
  ASSUME NEW slot \in Creator
  PROVE  slot \notin Uploader /\ slot # Idle
<1>1. slot.pc \in {"insert", "write"}
  BY DEF Creator
<1>2. \A s \in Uploader : s.pc \in {"register", "upload"}
  BY DEF Uploader
<1> QED BY <1>1, <1>2 DEF Idle

LEMMA IdleIsNoUploader == Idle \notin Uploader
<1>1. \A s \in Uploader : s.pc \in {"register", "upload"}
  BY DEF Uploader
<1> QED BY <1>1 DEF Idle

LEMMA QuitPublishingInv ==
  ASSUME AssetsInv, NEW p \in Publishers, QuitPublishing(p)
  PROVE  AssetsInv'
<1>1. Owed(p) \subseteq Hashes
  BY OwedHashes
<1>2. /\ pub' = [pub EXCEPT ![p] = Idle] /\ bare' = bare \cup Bare(Owed(p))
      /\ UNCHANGED <<asset, object, refs, late, unread, col, tracked>>
  BY DEF QuitPublishing, refVars
<1>3. bare' \subseteq Hashes
  BY <1>1, <1>2, AssetsTyped
<1>4. \A h \in Owed(p) : asset'[h] # "none" => h \in bare' \cup object'
  BY <1>2 DEF Bare
<1>5. \A h \in bare : h \in bare' \cup object'
  BY <1>2
<1>6. \A h \in Owed(p) : asset'[h] # "none" => h \in Owed(p)' \cup bare' \cup object'
  BY <1>4
<1>7. \A h \in Hashes : /\ asset[h] # "none" => asset'[h] # "none"
                        /\ asset'[h] # "none" => asset[h] # "none"
  BY <1>2
<1>8. asset' \in [Hashes -> {"none", "pending", "ready"}] /\ object \subseteq object' /\ object' \subseteq Hashes
  BY <1>2, AssetsTyped
<1> QED BY <1>2, <1>3, <1>5, <1>6, <1>7, <1>8, IdleIsNoUploader, PublisherMovesOn

\* A step in which one hash that is not owed any more moves on.
LEMMA MarkInv ==
  ASSUME AssetsInv, NEW p \in Publishers, NEW h \in Hashes,
         NEW stage \in {"find", "head", "size", "done"},
         pub[p] # Idle, pub[p].pc = "upload", h \in pub[p].hashes, Mark(p, h, stage),
         asset' \in [Hashes -> {"none", "pending", "ready"}],
         \A g \in Hashes : asset'[g] # "none" <=> asset[g] # "none",
         object \subseteq object', object' \subseteq Hashes,
         h \in Owed(p) => h \in object',
         bare' \subseteq bare, \A g \in bare : g \in bare' \cup object',
         UNCHANGED <<refs, late, unread, col, tracked>>
  PROVE  AssetsInv'
<1> DEFINE slot == [pub[p] EXCEPT !.stage = [@ EXCEPT ![h] = stage]]
<1>1. /\ pub' = [pub EXCEPT ![p] = slot]
      /\ slot \in Uploader /\ slot # Idle
      /\ slot.hashes = pub[p].hashes /\ slot.pc = pub[p].pc
      /\ slot.stage = [pub[p].stage EXCEPT ![h] = stage]
  <2>1. pub[p] \in Uploader
    BY PublisherState
  <2>2. /\ slot \in Uploader /\ slot.hashes = pub[p].hashes
        /\ slot.pc = pub[p].pc /\ slot.stage = [pub[p].stage EXCEPT ![h] = stage]
    BY <2>1 DEF Uploader
  <2>3. slot # Idle
    BY <2>2, IdleIsNoUploader
  <2>4. pub' = [pub EXCEPT ![p] = slot]
    BY DEF Mark
  <2> QED BY <2>2, <2>3, <2>4
<1> HIDE DEF slot
<1>2. pub'[p] = slot
  BY <1>1 DEF AssetsInv, AssetTypeOK
<1>3. pub[p].stage \in [Hashes -> {"new", "put", "find", "head", "size", "done"}]
      /\ pub[p].hashes \subseteq Hashes
  BY PublisherState
<1>4. \A g \in Hashes : slot.stage[g] = IF g = h THEN stage ELSE pub[p].stage[g]
  BY <1>1, <1>3
<1>5. \A g \in Owed(p) : g \in Owed(p)' \cup object'
  BY <1>1, <1>2, <1>3, <1>4 DEF Owed
<1>6. \A g \in Hashes : slot.stage[g] # "done" => g \in slot.hashes
  BY <1>1, <1>4, PublisherState
<1>7. \A g \in Owed(p) : asset'[g] # "none" => g \in Owed(p)' \cup bare' \cup object'
  BY <1>5
<1>8. bare' \subseteq Hashes
  BY AssetsTyped
<1>9. \A g \in Hashes : /\ asset[g] # "none" => asset'[g] # "none"
                        /\ asset'[g] # "none" => asset[g] # "none" \/ g \in Owed(p)'
  OBVIOUS
<1> QED BY <1>1, <1>6, <1>7, <1>8, <1>9, PublisherMovesOn

LEMMA PutAssetInv ==
  ASSUME AssetsInv, NEW p \in Publishers, NEW h \in Hashes, PutAsset(p, h)
  PROVE  AssetsInv'
<1>1. /\ pub[p] # Idle /\ pub[p].pc = "upload" /\ h \in pub[p].hashes
      /\ Mark(p, h, "find") /\ object' = object \cup {h} /\ bare' = bare \ {h}
      /\ UNCHANGED <<asset, refs, late, unread, col, tracked>>
  BY DEF PutAsset, Owed, refVars
<1>2. /\ asset' \in [Hashes -> {"none", "pending", "ready"}]
      /\ \A g \in Hashes : asset'[g] # "none" <=> asset[g] # "none"
      /\ object \subseteq object' /\ object' \subseteq Hashes /\ h \in object'
      /\ bare' \subseteq bare /\ \A g \in bare : g \in bare' \cup object'
  BY <1>1, AssetsTyped
<1> QED BY <1>1, <1>2, MarkInv

\* The steps of finalize: no request to R2 changes anything.
LEMMA FinalizeInv ==
  ASSUME AssetsInv, NEW p \in Publishers, NEW h \in Hashes,
         FinalizeFind(p, h) \/ FinalizeHead(p, h) \/ FinalizeSize(p, h), ~QuitPublishing(p)
  PROVE  AssetsInv'
<1>1. PICK stage \in {"find", "head", "size", "done"} : Mark(p, h, stage)
  BY DEF FinalizeFind, FinalizeHead, FinalizeSize
<1>2. /\ pub[p] # Idle /\ pub[p].pc = "upload" /\ h \in pub[p].hashes /\ h \notin Owed(p)
      /\ UNCHANGED <<object, refs, late, unread, col, tracked, bare>>
  BY DEF FinalizeFind, FinalizeHead, FinalizeSize, At, Owed, PubUnchanged, refVars
<1>3. /\ asset' \in [Hashes -> {"none", "pending", "ready"}]
      /\ \A g \in Hashes : asset'[g] # "none" <=> asset[g] # "none"
  BY AssetsTyped DEF FinalizeFind, FinalizeHead, FinalizeSize
<1>4. /\ object \subseteq object' /\ object' \subseteq Hashes
      /\ bare' \subseteq bare /\ \A g \in bare : g \in bare' \cup object'
  BY <1>2, AssetsTyped
<1> QED BY <1>1, <1>2, <1>3, <1>4, MarkInv

\* A step of a publisher that touches nothing but its own slot.
LEMMA SlotInv ==
  ASSUME AssetsInv, NEW p \in Publishers, NEW slot \in Uploader \cup Creator,
         pub' = [pub EXCEPT ![p] = slot],
         slot \in Uploader => \A h \in Hashes : slot.stage[h] # "done" => h \in slot.hashes,
         Owed(p) = {},
         UNCHANGED <<asset, object, refs, late, unread, col, tracked, bare>>
  PROVE  AssetsInv'
<1>1. /\ asset' \in [Hashes -> {"none", "pending", "ready"}]
      /\ object' \subseteq Hashes /\ bare' \subseteq Hashes
  BY AssetsTyped
<1> QED BY <1>1, PublisherMovesOn

LEMMA UploadInv ==
  ASSUME AssetsInv, NEW p \in Publishers, NEW hs \in SUBSET Hashes, Upload(p, hs)
  PROVE  AssetsInv'
<1> DEFINE first(h) == CASE h \notin hs \/ asset[h] = "ready" -> "done"
                         [] h \in hs /\ asset[h] = "pending" -> "put"
                         [] h \in hs /\ asset[h] = "none" -> "new"
           stage == [h \in Hashes |-> first(h)]
           slot == [hashes |-> hs, pc |-> "register", stage |-> stage]
<1>1. /\ pub[p] = Idle
      /\ pub' = [pub EXCEPT ![p] = slot]
      /\ UNCHANGED <<asset, object, refs, late, unread, col, tracked, bare>>
  BY DEF Upload, PubUnchanged, refVars
<1>2. \A h \in Hashes : /\ first(h) \in {"new", "put", "find", "head", "size", "done"}
                        /\ first(h) # "done" => h \in hs
  <2> TAKE h \in Hashes
  <2>1. asset[h] \in {"none", "pending", "ready"}
    BY AssetsTyped
  <2> QED BY <2>1
<1> HIDE DEF first
<1>3. /\ stage \in [Hashes -> {"new", "put", "find", "head", "size", "done"}]
      /\ \A h \in Hashes : stage[h] # "done" => h \in hs
  BY <1>2
<1> HIDE DEF stage
<1>4. slot \in Uploader /\ slot.hashes = hs /\ slot.stage = stage
  BY <1>3 DEF Uploader
<1>5. Owed(p) = {}
  BY <1>1 DEF Owed
<1> HIDE DEF slot
<1> QED BY <1>1, <1>3, <1>4, <1>5, SlotInv

LEMMA RegisterInv ==
  ASSUME AssetsInv, NEW p \in Publishers, Register(p)
  PROVE  AssetsInv'
<1> DEFINE stage == [h \in Hashes |-> IF pub[p].stage[h] = "new" THEN "put" ELSE pub[p].stage[h]]
           slot == [pub[p] EXCEPT !.pc = "upload", !.stage = stage]
<1>1. /\ pub[p] # Idle /\ pub[p].pc = "register"
      /\ asset' = [h \in Hashes |->
             IF asset[h] = "none" /\ pub[p].stage[h] = "new" THEN "pending" ELSE asset[h]]
      /\ pub' = [pub EXCEPT ![p] = slot]
      /\ UNCHANGED <<object, refs, late, unread, col, tracked, bare>>
  BY DEF Register, PubUnchanged, refVars
<1>2. /\ pub[p] \in Uploader
      /\ pub[p].stage \in [Hashes -> {"new", "put", "find", "head", "size", "done"}]
  BY <1>1, PublisherState
<1>3. /\ stage \in [Hashes -> {"new", "put", "find", "head", "size", "done"}]
      /\ \A h \in Hashes : /\ stage[h] # "done" => pub[p].stage[h] # "done"
                           /\ pub[p].stage[h] = "new" => stage[h] = "put"
  BY <1>2
<1> HIDE DEF stage
<1>4. /\ slot \in Uploader /\ slot.hashes = pub[p].hashes
      /\ slot.pc = "upload" /\ slot.stage = stage
  BY <1>2, <1>3 DEF Uploader
<1>5. slot # Idle
  BY <1>4 DEF Idle
<1> HIDE DEF slot
<1>6. /\ asset' \in [Hashes -> {"none", "pending", "ready"}]
      /\ \A h \in Hashes : asset[h] # "none" => asset'[h] # "none"
  BY <1>1, AssetsTyped
<1>7. pub'[p] = slot
  BY <1>1 DEF AssetsInv, AssetTypeOK
<1>8. \A h \in Hashes : asset'[h] # "none" => asset[h] # "none" \/ h \in Owed(p)'
  BY <1>1, <1>3, <1>4, <1>5, <1>7, PublisherState DEF Owed
<1>9. Owed(p) = {}
  BY <1>1 DEF Owed
<1>10. \A h \in Hashes : slot.stage[h] # "done" => h \in slot.hashes
  BY <1>1, <1>3, <1>4, PublisherState
<1>11. /\ pub' = [pub EXCEPT ![p] = slot]
       /\ UNCHANGED <<refs, late, unread, col, tracked>>
       /\ object \subseteq object' /\ object' \subseteq Hashes
       /\ bare' \subseteq Hashes /\ \A h \in bare : h \in bare' \cup object'
  BY <1>1, AssetsTyped
<1> QED BY <1>4, <1>6, <1>8, <1>9, <1>10, <1>11, PublisherMovesOn

LEMMA CheckAssetsInv ==
  ASSUME AssetsInv, NEW p \in Publishers, NEW u \in Updates, CheckAssets(p, u)
  PROVE  AssetsInv'
<1> DEFINE slot == [update |-> u, hashes |-> pub[p].hashes, pc |-> "insert"]
<1>1. /\ pub[p] # Idle /\ pub[p].pc = "upload"
      /\ \A h \in pub[p].hashes : pub[p].stage[h] = "done"
  BY DEF CheckAssets
<1>2. CASE QuitPublishing(p)
  BY <1>2, QuitPublishingInv
<1>3. CASE ~QuitPublishing(p)
  <2>1. slot \in Creator
    BY <1>1, PublisherState DEF Creator
  <2>2. /\ pub' = [pub EXCEPT ![p] = slot]
        /\ UNCHANGED <<asset, object, refs, late, unread, col, tracked, bare>>
    BY <1>3 DEF CheckAssets, PubUnchanged, refVars
  <2>3. Owed(p) = {}
    BY <1>1 DEF Owed
  <2> HIDE DEF slot
  <2> QED BY <2>1, <2>2, <2>3, CreatorIsNoUploader, SlotInv
<1> QED BY <1>2, <1>3

LEMMA RepublishInv ==
  ASSUME AssetsInv, NEW p \in Publishers, NEW u \in Updates, NEW source \in Updates,
         Republish(p, u, source)
  PROVE  AssetsInv'
<1> DEFINE hs == HashesOf({source})
           slot == [update |-> u, hashes |-> hs, pc |-> "write"]
<1>1. /\ pub[p] = Idle
      /\ pub' = [pub EXCEPT ![p] = slot]
      /\ UNCHANGED <<asset, object, refs, late, unread, col, tracked, bare>>
  BY DEF Republish, PubUnchanged, refVars
<1>2. hs \subseteq Hashes
  BY AssetsTyped DEF HashesOf
<1> HIDE DEF hs
<1>3. slot \in Creator
  BY <1>2 DEF Creator
<1>4. Owed(p) = {}
  BY <1>1 DEF Owed
<1> HIDE DEF slot
<1> QED BY <1>1, <1>3, <1>4, CreatorIsNoUploader, SlotInv

\* The references inserted are marked when a collector knows the hash for an
\* orphan, or the update for read.
LEMMA InsertUpdateInv ==
  ASSUME AssetsInv, NEW p \in Publishers, InsertUpdate(p)
  PROVE  AssetsInv'
<1> USE DEF AssetsInv
<1> DEFINE u == pub[p].update
           hs == pub[p].hashes
<1>1. /\ pub[p] # Idle /\ pub[p].pc \in {"insert", "write"}
      /\ \A h \in hs : asset[h] # "none"
      /\ refs' = refs \cup ({u} \X hs)
      /\ late' = late \cup ({u} \X {h \in hs : Condemned(h)})
      /\ unread' = unread \cup ({u} \X {h \in hs : Noted(u)})
      /\ tracked' = tracked \cup hs
      /\ pub' = [pub EXCEPT ![p] = Idle]
      /\ UNCHANGED <<asset, object, col, bare>>
  BY DEF InsertUpdate
<1>2. u \in Updates /\ hs \subseteq Hashes
  BY <1>1, PublisherState
<1> HIDE DEF u, hs
<1>3. /\ pub' \in [Publishers -> Uploader \cup Creator \cup {Idle}] /\ pub'[p] = Idle
      /\ \A q \in Publishers \ {p} : pub'[q] = pub[q]
  BY <1>1 DEF AssetTypeOK
<1>4. AssetTypeOK'
  BY <1>1, <1>2, <1>3 DEF AssetTypeOK
<1>5. PubFit'
  BY <1>1, <1>3, IdleIsNoUploader DEF PubFit
<1>6. \A r \in refs' : r \in refs \/ (r[1] = u /\ r[2] \in hs /\ r = <<u, r[2]>>)
  BY <1>1
<1>7. ColFit'
  <2> SUFFICES ASSUME NEW c \in Collectors, col[c] # Idle PROVE ColFit!(c)'
    BY <1>1 DEF ColFit
  <2>1. col'[c] = col[c]
    BY <1>1
  <2>2. ASSUME col[c].pc = "rows", NEW r \in refs', r[1] \in col[c].us
        PROVE  r[2] \in col[c].hashes \/ r \in unread'
    <3>1. CASE r \in refs
      BY <1>1, <2>2, <3>1 DEF ColFit
    <3>2. CASE r \notin refs
      <4>1. r[1] = u /\ r[2] \in hs /\ r = <<u, r[2]>>
        BY <1>6, <3>2
      <4>2. Noted(u)
        BY <2>2, <4>1 DEF Noted, ColAt
      <4> QED BY <1>1, <4>1, <4>2
    <3> QED BY <3>1, <3>2
  <2> QED BY <2>1, <2>2 DEF ColFit
<1>8. RefsHaveRows'
  BY <1>1, <1>6 DEF RefsHaveRows
<1>9. OrphansUnreferenced'
  <2> SUFFICES ASSUME NEW r \in refs' \ late' PROVE ~Condemned(r[2])'
    BY DEF OrphansUnreferenced
  <2>1. ~Condemned(r[2])
    <3>1. CASE r \in refs
      BY <1>1, <3>1 DEF OrphansUnreferenced
    <3>2. CASE r \notin refs
      BY <1>1, <1>6, <3>2
    <3> QED BY <3>1, <3>2
  <2> QED BY <1>1, <2>1 DEF Condemned, ColAt
<1>10. RowsBacked'
  <2>1. \A h : Doomed(h) => Doomed(h)'
    BY <1>1 DEF Doomed, ColAt
  <2>2. Owed(p) = {} /\ \A q \in Publishers \ {p} : Owed(q)' = Owed(q)
    BY <1>1, <1>3 DEF Owed
  <2>3. \A h : Promised(h) => Promised(h)'
    BY <2>2 DEF Promised
  <2> QED BY <1>1, <2>1, <2>3 DEF RowsBacked
<1>11. NoAssetLeaks'
  <2>1. \A h : Referrers(h) \subseteq Referrers(h)'
    BY <1>1 DEF Referrers
  <2>2. \A h \in hs : u \in Referrers(h)'
    <3> TAKE h \in hs
    <3>1. <<u, h>> \in refs' /\ <<u, h>>[1] = u /\ <<u, h>>[2] = h
      BY <1>1
    <3> QED BY <3>1 DEF Referrers
  <2>3. Carried' = Carried
    BY <1>1 DEF Carried
  <2> QED BY <1>1, <2>1, <2>2, <2>3 DEF NoAssetLeaks
<1> QED BY <1>4, <1>5, <1>7, <1>8, <1>9, <1>10, <1>11

(***************************************************************************)
(* AssetCollection: deleting updates.                                      *)
(***************************************************************************)

\* Fewer references: what depends on them one by one is kept.
LEMMA RemoveReferencesKeeps ==
  ASSUME AssetsInv, NEW us, RemoveReferences(us), UNCHANGED asset
  PROVE  /\ refs' \subseteq refs /\ late' \cup unread' \subseteq refs'
         /\ refs' \ late' \subseteq refs \ late
         /\ \A r \in refs' : r \in unread => r \in unread'
         /\ RefsHaveRows'
         /\ \A h : Referrers(h)' = {} /\ Referrers(h) # {} => h \in LastOf(us)
<1>1. /\ refs' = {r \in refs : r[1] \notin us}
      /\ late' = {r \in late : r[1] \notin us}
      /\ unread' = {r \in unread : r[1] \notin us}
  BY DEF RemoveReferences
<1>2. late \cup unread \subseteq refs /\ RefsHaveRows
  BY DEF AssetsInv, AssetTypeOK
<1>3. /\ refs' \subseteq refs /\ late' \cup unread' \subseteq refs'
      /\ refs' \ late' \subseteq refs \ late
      /\ \A r \in refs' : r \in unread => r \in unread'
  BY <1>1, <1>2
<1>4. RefsHaveRows'
  BY <1>2, <1>3 DEF RefsHaveRows
<1>5. ASSUME NEW h, Referrers(h)' = {}, Referrers(h) # {} PROVE h \in LastOf(us)
  <2>1. \A r \in refs : r[2] = h => r[1] \in us
    BY <1>1, <1>5 DEF Referrers
  <2>2. \E r \in refs : r[2] = h
    BY <1>5 DEF Referrers
  <2>3. h \in HashesOf(us)
    BY <2>1, <2>2 DEF HashesOf
  <2>4. Referrers(h) \subseteq us
    BY <2>1 DEF Referrers
  <2> QED BY <2>3, <2>4 DEF LastOf
<1> QED BY <1>3, <1>4, <1>5

\* A deletion without a collection: collection stops answering for the hashes
\* that lose their last referrer.
LEMMA AbandonInv ==
  ASSUME AssetsInv, NEW us, Abandon(us),
         pub' \in [Publishers -> Uploader \cup Creator \cup {Idle}],
         \A p \in Publishers : pub'[p] = pub[p] \/ pub'[p] \in Creator,
         \A p \in Publishers : Owed(p)' = Owed(p),
         UNCHANGED <<asset, object, col, bare>>
  PROVE  AssetsInv'
<1> USE DEF AssetsInv
<1>1. RemoveReferences(us) /\ tracked' = tracked \ LastOf(us)
  BY DEF Abandon
<1>2. /\ refs' \subseteq refs /\ late' \cup unread' \subseteq refs'
      /\ refs' \ late' \subseteq refs \ late
      /\ \A r \in refs' : r \in unread => r \in unread'
      /\ RefsHaveRows'
      /\ \A h : Referrers(h)' = {} /\ Referrers(h) # {} => h \in LastOf(us)
  BY <1>1, RemoveReferencesKeeps
<1>3. AssetTypeOK'
  BY <1>1, <1>2 DEF AssetTypeOK
<1>4. PubFit'
  BY CreatorIsNoUploader DEF PubFit
<1>5. ColFit'
  BY <1>2 DEF ColFit
<1>6. OrphansUnreferenced'
  BY <1>2 DEF OrphansUnreferenced, Condemned, ColAt
<1>7. RowsBacked'
  BY DEF RowsBacked, Doomed, ColAt, Promised
<1>8. NoAssetLeaks'
  BY <1>1, <1>2 DEF NoAssetLeaks, Carried
<1> QED BY <1>2, <1>3, <1>4, <1>5, <1>6, <1>7, <1>8

LEMMA DeleteBranchInv ==
  ASSUME AssetsInv, NEW us \in SUBSET Updates, DeleteBranch(us)
  PROVE  AssetsInv'
<1>1. Abandon(us) /\ UNCHANGED <<asset, object, pub, col, bare>>
  BY DEF DeleteBranch
<1>2. /\ \A p \in Publishers : Owed(p)' = Owed(p)
      /\ pub' \in [Publishers -> Uploader \cup Creator \cup {Idle}]
      /\ \A p \in Publishers : pub'[p] = pub[p]
  BY <1>1 DEF Owed, AssetsInv, AssetTypeOK
<1> QED BY <1>1, <1>2, AbandonInv

LEMMA ReplaceBaselineInv ==
  ASSUME AssetsInv, NEW p \in Publishers, ReplaceBaseline(p)
  PROVE  AssetsInv'
<1> DEFINE slot == [pub[p] EXCEPT !.pc = "write"]
<1>1. /\ pub[p] # Idle /\ pub[p].pc = "insert" /\ Abandon({pub[p].update})
      /\ pub' = [pub EXCEPT ![p] = slot]
      /\ UNCHANGED <<asset, object, col, bare>>
  BY DEF ReplaceBaseline
<1>2. slot \in Creator /\ slot.pc = "write"
  BY <1>1, PublisherState DEF Creator
<1> HIDE DEF slot
<1>3. /\ pub' \in [Publishers -> Uploader \cup Creator \cup {Idle}] /\ pub'[p] = slot
      /\ \A q \in Publishers \ {p} : pub'[q] = pub[q]
  BY <1>1, <1>2 DEF AssetsInv, AssetTypeOK
<1>4. Owed(p)' = Owed(p)
  BY <1>1, <1>2, <1>3 DEF Owed
<1>5. /\ \A q \in Publishers : Owed(q)' = Owed(q)
      /\ \A q \in Publishers : pub'[q] = pub[q] \/ pub'[q] \in Creator
  BY <1>2, <1>3, <1>4 DEF Owed
<1> QED BY <1>1, <1>3, <1>5, AbandonInv

(***************************************************************************)
(* AssetCollection: collecting.                                            *)
(***************************************************************************)

\* What ColFit says of one collector.
Fits(slot) ==
  /\ slot.pc = "rows" =>
       \A r \in refs : r[1] \in slot.us => r[2] \in slot.hashes \/ r \in unread
  /\ slot.pc = "objects" => slot.keys \subseteq slot.hashes

Collecting(slot) == slot.pc \in {"keys", "objects", "assets"}

\* A step of a collector: what it takes off its list has no row any more, or
\* is remembered as missing; what it deletes stays on the list.
LEMMA CollectorMovesOn ==
  ASSUME AssetsInv, NEW c \in Collectors, NEW slot \in Collector \cup {Idle},
         col' = [col EXCEPT ![c] = slot],
         slot # Idle => Fits(slot),
         slot # Idle /\ Collecting(slot) =>
           \A h \in slot.hashes : Referrers(h) = {}
             \/ (col[c] # Idle /\ Collecting(col[c]) /\ h \in col[c].hashes),
         asset' \in [Hashes -> {"none", "pending", "ready"}],
         \A h \in Hashes : asset'[h] # "none" => asset[h] # "none",
         \A h \in Hashes : Referrers(h) # {} => asset'[h] = asset[h],
         object' \subseteq object,
         \A h \in object \ object' : slot # Idle /\ slot.pc = "assets" /\ h \in slot.hashes,
         bare' \subseteq Hashes, \A h \in bare : asset'[h] # "none" => h \in bare',
         tracked' \subseteq tracked,
         ColAt(c, "assets") =>
           \A h \in col[c].hashes :
             \/ asset'[h] = "none" \/ h \in bare' \cup object'
             \/ slot # Idle /\ slot.pc = "assets" /\ h \in slot.hashes,
         col[c] # Idle =>
           \A h \in col[c].hashes \cap tracked' :
             Referrers(h) # {} \/ (slot # Idle /\ h \in slot.hashes),
         UNCHANGED <<refs, late, unread, pub>>
  PROVE  AssetsInv'
<1> USE DEF AssetsInv
<1>1. /\ col' \in [Collectors -> Collector \cup {Idle}] /\ col'[c] = slot
      /\ \A d \in Collectors \ {c} : col'[d] = col[d]
  BY DEF AssetTypeOK
<1>2. AssetTypeOK'
  BY <1>1 DEF AssetTypeOK
<1>3. PubFit'
  BY DEF PubFit
<1>4. \A h : Referrers(h)' = Referrers(h)
  BY DEF Referrers
<1>5. ColFit'
  <2> SUFFICES ASSUME NEW d \in Collectors, col'[d] # Idle PROVE ColFit!(d)'
    BY DEF ColFit
  <2>1. CASE d = c
    BY <1>1, <2>1 DEF Fits
  <2>2. CASE d # c
    BY <1>1, <2>2 DEF ColFit
  <2> QED BY <2>1, <2>2
<1>6. \A r \in refs : r[1] \in Referrers(r[2])
  BY DEF Referrers
<1>7. RefsHaveRows'
  BY <1>6 DEF RefsHaveRows, AssetTypeOK
<1>8. OrphansUnreferenced'
  <2> SUFFICES ASSUME NEW r \in refs \ late, Condemned(r[2])' PROVE FALSE
    BY DEF OrphansUnreferenced
  <2>1. PICK d \in Collectors : col'[d] # Idle /\ Collecting(col'[d]) /\ r[2] \in col'[d].hashes
    BY DEF Condemned, ColAt, Collecting
  <2>2. ~Condemned(r[2]) /\ Referrers(r[2]) # {}
    BY <1>6 DEF OrphansUnreferenced
  <2>3. CASE d = c
    BY <1>1, <2>1, <2>2, <2>3 DEF Condemned, ColAt, Collecting
  <2>4. CASE d # c
    BY <1>1, <2>1, <2>2, <2>4 DEF Condemned, ColAt, Collecting
  <2> QED BY <2>3, <2>4
<1>9. \A h : slot # Idle /\ slot.pc = "assets" /\ h \in slot.hashes => Doomed(h)'
  BY <1>1 DEF Doomed, ColAt
<1>10. RowsBacked'
  <2>1. \A h : Promised(h)' = Promised(h)
    BY DEF Promised, Owed
  <2>2. ASSUME NEW h \in Hashes, Doomed(h), asset'[h] # "none", h \notin bare' \cup object'
        PROVE  Doomed(h)'
    <3>1. PICK d \in Collectors : ColAt(d, "assets") /\ h \in col[d].hashes
      BY <2>2 DEF Doomed
    <3>2. CASE d = c
      BY <1>9, <2>2, <3>1, <3>2
    <3>3. CASE d # c
      BY <1>1, <3>1, <3>3 DEF Doomed, ColAt
    <3> QED BY <3>2, <3>3
  <2> QED BY <1>9, <2>1, <2>2 DEF RowsBacked
<1>11. NoAssetLeaks'
  <2> SUFFICES ASSUME NEW h \in tracked', Referrers(h) = {} PROVE h \in Carried'
    BY <1>4 DEF NoAssetLeaks
  <2>1. \A g : slot # Idle /\ g \in slot.hashes => g \in Carried'
    BY <1>1 DEF Carried
  <2>2. PICK d \in Collectors : col[d] # Idle /\ h \in col[d].hashes
    BY DEF NoAssetLeaks, Carried
  <2>3. CASE d = c
    BY <2>1, <2>2, <2>3
  <2>4. CASE d # c
    BY <1>1, <2>2, <2>4 DEF Carried
  <2> QED BY <2>3, <2>4
<1> QED BY <1>2, <1>3, <1>5, <1>7, <1>8, <1>10, <1>11

LEMMA CollectorState ==
  ASSUME AssetsInv, NEW c \in Collectors, col[c] # Idle
  PROVE  /\ col[c] \in Collector /\ Fits(col[c])
         /\ col[c].us \subseteq Updates /\ col[c].hashes \subseteq Hashes
  BY DEF AssetsInv, AssetTypeOK, ColFit, Fits, Collector

\* A step in which a collector changes nothing but its own slot, and its list
\* loses only what still has referrers.
LEMMA ListInv ==
  ASSUME AssetsInv, NEW c \in Collectors, NEW slot \in Collector,
         col' = [col EXCEPT ![c] = slot], slot # Idle, Fits(slot),
         slot.pc # "assets", col[c] # Idle => col[c].pc # "assets",
         Collecting(slot) =>
           \A h \in slot.hashes : Referrers(h) = {}
             \/ (col[c] # Idle /\ Collecting(col[c]) /\ h \in col[c].hashes),
         col[c] # Idle => \A h \in col[c].hashes : Referrers(h) # {} \/ h \in slot.hashes,
         UNCHANGED <<asset, object, refs, late, unread, pub, tracked, bare>>
  PROVE  AssetsInv'
<1>1. asset' \in [Hashes -> {"none", "pending", "ready"}] /\ bare' \subseteq Hashes
  BY AssetsTyped
<1>2. ~ColAt(c, "assets")
  BY DEF ColAt
<1> QED BY <1>1, <1>2, CollectorMovesOn

LEMMA PickInv ==
  ASSUME AssetsInv, NEW c \in Collectors, NEW us \in SUBSET Updates, Pick(c, us)
  PROVE  AssetsInv'
<1> DEFINE slot == [us |-> us, hashes |-> {}, keys |-> {}, pc |-> "hashes"]
<1>1. /\ col[c] = Idle /\ col' = [col EXCEPT ![c] = slot]
      /\ UNCHANGED <<asset, object, refs, late, unread, pub, tracked, bare>>
  BY DEF Pick, refVars
<1>2. slot \in Collector /\ Fits(slot) /\ slot # Idle /\ slot.pc = "hashes"
  BY DEF Collector, Fits, Idle
<1> HIDE DEF slot
<1> QED BY <1>1, <1>2, ListInv DEF Collecting

LEMMA ReadHashesInv ==
  ASSUME AssetsInv, NEW c \in Collectors, ReadHashes(c)
  PROVE  AssetsInv'
<1> DEFINE slot == [col[c] EXCEPT !.pc = "rows", !.hashes = @ \cup HashesOf(col[c].us)]
<1>1. /\ col[c] # Idle /\ col[c].pc = "hashes"
      /\ UNCHANGED <<asset, object, refs, late, unread, pub, tracked, bare>>
  BY DEF ReadHashes, refVars, ColAt
<1>2. col' = [col EXCEPT ![c] = slot]
  BY DEF ReadHashes
<1>3. HashesOf(col[c].us) \subseteq Hashes
  BY AssetsTyped DEF HashesOf
<1>4. /\ slot \in Collector /\ slot.us = col[c].us
      /\ slot.pc = "rows" /\ slot.hashes = col[c].hashes \cup HashesOf(col[c].us)
  BY <1>1, <1>3, CollectorState DEF Collector
<1> HIDE DEF slot
<1>5. slot # Idle
  BY <1>4 DEF Idle
<1>6. \A r \in refs : r[1] \in col[c].us => r[2] \in HashesOf(col[c].us)
  BY DEF HashesOf
<1>7. Fits(slot)
  BY <1>4, <1>6 DEF Fits
<1> QED BY <1>1, <1>2, <1>4, <1>5, <1>7, ListInv DEF Collecting

\* What the deleted updates referred to is on the list, or came back unread.
LEMMA DeleteUpdateRowsInv ==
  ASSUME AssetsInv, NEW c \in Collectors, DeleteUpdateRows(c)
  PROVE  AssetsInv'
<1> USE DEF AssetsInv
<1> DEFINE us == col[c].us
           slot == [col[c] EXCEPT !.pc = "orphans", !.us = {}]
<1>1. /\ col[c] # Idle /\ col[c].pc = "rows" /\ RemoveReferences(us)
      /\ tracked' = tracked \ (LastOf(us) \cap Missed(c))
      /\ UNCHANGED <<asset, object, pub, bare>>
  BY DEF DeleteUpdateRows, ColAt
<1>2. col' = [col EXCEPT ![c] = slot]
  BY DEF DeleteUpdateRows
<1>3. slot \in Collector /\ slot.pc = "orphans" /\ slot.hashes = col[c].hashes
  BY <1>1, CollectorState DEF Collector
<1> HIDE DEF slot, us
<1>4. slot # Idle
  BY <1>3 DEF Idle
<1>5. /\ refs' \subseteq refs /\ late' \cup unread' \subseteq refs'
      /\ refs' \ late' \subseteq refs \ late
      /\ \A r \in refs' : r \in unread => r \in unread'
      /\ RefsHaveRows'
      /\ \A h : Referrers(h)' = {} /\ Referrers(h) # {} => h \in LastOf(us)
  BY <1>1, RemoveReferencesKeeps
<1>6. /\ col' \in [Collectors -> Collector \cup {Idle}] /\ col'[c] = slot
      /\ \A d \in Collectors \ {c} : col'[d] = col[d]
  BY <1>2, <1>3 DEF AssetTypeOK
<1>7. AssetTypeOK'
  BY <1>1, <1>5, <1>6 DEF AssetTypeOK
<1>8. PubFit'
  BY <1>1 DEF PubFit
<1>9. ColFit'
  <2> SUFFICES ASSUME NEW d \in Collectors, col'[d] # Idle PROVE ColFit!(d)'
    BY DEF ColFit
  <2>1. CASE d = c
    BY <1>3, <1>6, <2>1
  <2>2. CASE d # c
    BY <1>5, <1>6, <2>2 DEF ColFit
  <2> QED BY <2>1, <2>2
<1>10. OrphansUnreferenced'
  <2> SUFFICES ASSUME NEW r \in refs' \ late', Condemned(r[2])' PROVE FALSE
    BY DEF OrphansUnreferenced
  <2>1. PICK d \in Collectors : col'[d] # Idle /\ Collecting(col'[d]) /\ r[2] \in col'[d].hashes
    BY DEF Condemned, ColAt, Collecting
  <2>2. d # c
    BY <1>3, <1>6, <2>1 DEF Collecting
  <2>3. Condemned(r[2])
    BY <1>6, <2>1, <2>2 DEF Condemned, ColAt, Collecting
  <2> QED BY <1>5, <2>3 DEF OrphansUnreferenced
<1>11. RowsBacked'
  <2>1. \A h : Doomed(h) => Doomed(h)'
    BY <1>1, <1>6 DEF Doomed, ColAt
  <2>2. \A h : Promised(h)' = Promised(h)
    BY <1>1 DEF Promised, Owed
  <2> QED BY <1>1, <2>1, <2>2 DEF RowsBacked
<1>12. NoAssetLeaks'
  <2> SUFFICES ASSUME NEW h \in tracked', Referrers(h)' = {} PROVE h \in Carried'
    BY DEF NoAssetLeaks
  <2>1. \A g : g \in Carried => g \in Carried'
    BY <1>1, <1>3, <1>4, <1>6 DEF Carried
  <2>2. CASE Referrers(h) = {}
    BY <1>1, <2>1, <2>2 DEF NoAssetLeaks
  <2>3. CASE Referrers(h) # {}
    <3>1. h \in LastOf(us) /\ h \notin Missed(c)
      BY <1>1, <1>5, <2>3
    <3>2. PICK r \in refs : r[1] \in us /\ r[2] = h
      BY <3>1 DEF LastOf, HashesOf
    <3>3. h \in col[c].hashes \/ r \in unread
      BY <1>1, <3>2 DEF ColFit, us
    <3>4. h \in col[c].hashes
      BY <3>1, <3>2, <3>3 DEF Missed, us
    <3> QED BY <1>1, <2>1, <3>4 DEF Carried
  <2> QED BY <2>2, <2>3
<1> QED BY <1>5, <1>7, <1>8, <1>9, <1>10, <1>11, <1>12

LEMMA PickMoreInv ==
  ASSUME AssetsInv, NEW c \in Collectors, NEW us \in SUBSET Updates, PickMore(c, us)
  PROVE  AssetsInv'
<1> DEFINE slot == [col[c] EXCEPT !.us = us, !.pc = "hashes"]
<1>1. /\ col[c] # Idle /\ col[c].pc = "orphans"
      /\ UNCHANGED <<asset, object, refs, late, unread, pub, tracked, bare>>
  BY DEF PickMore, refVars, ColAt
<1>2. col' = [col EXCEPT ![c] = slot]
  BY DEF PickMore
<1>3. slot \in Collector /\ slot.pc = "hashes" /\ slot.hashes = col[c].hashes
  BY <1>1, CollectorState DEF Collector
<1> HIDE DEF slot
<1>4. slot # Idle /\ Fits(slot)
  BY <1>3 DEF Idle, Fits
<1> QED BY <1>1, <1>2, <1>3, <1>4, ListInv DEF Collecting

LEMMA FindOrphansInv ==
  ASSUME AssetsInv, NEW c \in Collectors, FindOrphans(c)
  PROVE  AssetsInv'
<1> DEFINE orphans == {h \in col[c].hashes : Referrers(h) = {}}
           slot == [col[c] EXCEPT !.pc = "keys", !.hashes = orphans]
<1>1. /\ col[c] # Idle /\ col[c].pc = "orphans"
      /\ UNCHANGED <<asset, object, refs, late, unread, pub, tracked, bare>>
  BY DEF FindOrphans, refVars, ColAt
<1>2. col' = [col EXCEPT ![c] = slot]
  BY DEF FindOrphans
<1>3. orphans \subseteq col[c].hashes
  OBVIOUS
<1>4. \A h \in col[c].hashes : h \in orphans <=> Referrers(h) = {}
  OBVIOUS
<1> HIDE DEF orphans
<1>5. slot \in Collector /\ slot.pc = "keys" /\ slot.hashes = orphans
  BY <1>1, <1>3, CollectorState DEF Collector
<1> HIDE DEF slot
<1>6. slot # Idle /\ Fits(slot)
  BY <1>5 DEF Idle, Fits
<1>7. /\ \A h \in slot.hashes : Referrers(h) = {}
      /\ \A h \in col[c].hashes : Referrers(h) # {} \/ h \in slot.hashes
  BY <1>3, <1>4, <1>5
<1> QED BY <1>1, <1>2, <1>5, <1>6, <1>7, ListInv

LEMMA FindKeysInv ==
  ASSUME AssetsInv, NEW c \in Collectors, FindKeys(c)
  PROVE  AssetsInv'
<1> DEFINE keys == {h \in col[c].hashes : asset[h] # "none"}
           slot == [col[c] EXCEPT !.pc = "objects", !.keys = keys]
<1>1. /\ col[c] # Idle /\ col[c].pc = "keys"
      /\ UNCHANGED <<asset, object, refs, late, unread, pub, tracked, bare>>
  BY DEF FindKeys, refVars, ColAt
<1>2. col' = [col EXCEPT ![c] = slot]
  BY DEF FindKeys
<1>3. keys \subseteq col[c].hashes
  OBVIOUS
<1> HIDE DEF keys
<1>4. /\ slot \in Collector
      /\ slot.pc = "objects" /\ slot.hashes = col[c].hashes /\ slot.keys = keys
  BY <1>1, <1>3, CollectorState DEF Collector
<1> HIDE DEF slot
<1>5. slot # Idle /\ Fits(slot)
  BY <1>3, <1>4 DEF Idle, Fits
<1> QED BY <1>1, <1>2, <1>4, <1>5, ListInv DEF Collecting

LEMMA DeleteObjectsInv ==
  ASSUME AssetsInv, NEW c \in Collectors, DeleteObjects(c)
  PROVE  AssetsInv'
<1> DEFINE slot == [col[c] EXCEPT !.pc = "assets", !.keys = {}]
<1>1. /\ col[c] # Idle /\ col[c].pc = "objects"
      /\ object' = object \ col[c].keys
      /\ UNCHANGED <<asset, refs, late, unread, pub, tracked, bare>>
  BY DEF DeleteObjects, refVars, ColAt
<1>2. col' = [col EXCEPT ![c] = slot]
  BY DEF DeleteObjects
<1>3. slot \in Collector /\ slot.pc = "assets" /\ slot.hashes = col[c].hashes
  BY <1>1, CollectorState DEF Collector
<1> HIDE DEF slot
<1>4. slot # Idle /\ Fits(slot)
  BY <1>3 DEF Idle, Fits
<1>5. \A h \in object \ object' : slot # Idle /\ slot.pc = "assets" /\ h \in slot.hashes
  BY <1>1, <1>3, <1>4, CollectorState DEF Fits
<1>6. /\ asset' \in [Hashes -> {"none", "pending", "ready"}]
      /\ object' \subseteq object /\ bare' \subseteq Hashes
      /\ ~ColAt(c, "assets") /\ Collecting(col[c])
  BY <1>1, AssetsTyped DEF ColAt, Collecting
<1> QED BY <1>1, <1>2, <1>3, <1>4, <1>5, <1>6, CollectorMovesOn

LEMMA DeleteAssetRowsInv ==
  ASSUME AssetsInv, NEW c \in Collectors, NEW chunk \in SUBSET Hashes, DeleteAssetRows(c, chunk)
  PROVE  AssetsInv'
<1> DEFINE rest == [col[c] EXCEPT !.hashes = @ \ chunk]
           slot == IF chunk = col[c].hashes THEN Idle ELSE rest
<1>1. /\ col[c] # Idle /\ col[c].pc = "assets" /\ chunk \subseteq col[c].hashes
      /\ \A h \in chunk : Referrers(h) = {}
      /\ asset' = [h \in Hashes |-> IF h \in chunk THEN "none" ELSE asset[h]]
      /\ tracked' = tracked \ chunk /\ bare' = bare \ chunk
      /\ UNCHANGED <<object, refs, late, unread, pub>>
  BY DEF DeleteAssetRows, refVars, ColAt
<1>2. col' = [col EXCEPT ![c] = slot]
  <2>1. CASE chunk = col[c].hashes
    BY <2>1 DEF DeleteAssetRows
  <2>2. CASE chunk # col[c].hashes
    BY <2>2 DEF DeleteAssetRows
  <2> QED BY <2>1, <2>2
<1>3. rest \in Collector /\ rest.pc = "assets" /\ rest.hashes = col[c].hashes \ chunk
  BY <1>1, CollectorState DEF Collector
<1> HIDE DEF rest
<1>4. rest # Idle /\ Fits(rest)
  BY <1>3 DEF Idle, Fits
<1>5. /\ slot \in Collector \cup {Idle}
      /\ slot # Idle => /\ Fits(slot) /\ slot.pc = "assets"
                        /\ \A h \in slot.hashes : h \in col[c].hashes
      /\ \A h \in col[c].hashes : h \in chunk \/ (slot # Idle /\ h \in slot.hashes)
  BY <1>1, <1>3, <1>4
<1> HIDE DEF slot
<1>6. /\ asset' \in [Hashes -> {"none", "pending", "ready"}]
      /\ \A h \in Hashes : asset'[h] # "none" => asset[h] # "none"
      /\ \A h \in Hashes : Referrers(h) # {} => asset'[h] = asset[h]
      /\ \A h \in chunk : asset'[h] = "none"
  BY <1>1, AssetsTyped
<1>7. /\ bare' \subseteq Hashes /\ tracked' \subseteq tracked
      /\ \A h \in bare : asset'[h] # "none" => h \in bare'
      /\ \A h \in col[c].hashes \cap tracked' : slot # Idle /\ h \in slot.hashes
      /\ \A h \in col[c].hashes :
           asset'[h] = "none" \/ (slot # Idle /\ slot.pc = "assets" /\ h \in slot.hashes)
  BY <1>1, <1>5, <1>6, AssetsTyped
<1>8. Collecting(col[c]) /\ object' \subseteq object /\ object \ object' = {}
  BY <1>1 DEF Collecting
<1> QED BY <1>1, <1>2, <1>5, <1>6, <1>7, <1>8, CollectorMovesOn

LEMMA QuitCollectingInv ==
  ASSUME AssetsInv, NEW c \in Collectors, QuitCollecting(c)
  PROVE  AssetsInv'
<1>1. /\ col[c] # Idle /\ col' = [col EXCEPT ![c] = Idle]
      /\ bare' = bare \cup Bare(col[c].hashes)
      /\ tracked' = tracked \ {h \in col[c].hashes : Referrers(h) = {}}
      /\ UNCHANGED <<asset, object, refs, late, unread, pub>>
  BY DEF QuitCollecting, refVars
<1>2. /\ asset' \in [Hashes -> {"none", "pending", "ready"}]
      /\ bare' \subseteq Hashes /\ bare \subseteq bare' /\ tracked' \subseteq tracked
  BY <1>1, CollectorState, AssetsTyped
<1>3. /\ \A h \in col[c].hashes : asset'[h] = "none" \/ h \in bare' \cup object'
      /\ \A h \in col[c].hashes \cap tracked' : Referrers(h) # {}
  BY <1>1 DEF Bare
<1> QED BY <1>1, <1>2, <1>3, CollectorMovesOn

LEMMA AssetsStutterInv == AssetsInv /\ UNCHANGED assetVars => AssetsInv'
<1> SUFFICES ASSUME AssetsInv, UNCHANGED assetVars PROVE AssetsInv'
  OBVIOUS
<1>1. UNCHANGED <<asset, object, refs, late, unread, pub, col, tracked, bare>>
  BY DEF assetVars, refVars
<1>2. AssetTypeOK' /\ PubFit' /\ RefsHaveRows'
  BY <1>1 DEF AssetsInv, AssetTypeOK, PubFit, RefsHaveRows
<1>3. ColFit' /\ OrphansUnreferenced'
  BY <1>1 DEF AssetsInv, ColFit, OrphansUnreferenced, Condemned, ColAt
<1>4. RowsBacked' /\ NoAssetLeaks'
  BY <1>1 DEF AssetsInv, RowsBacked, Doomed, ColAt, Promised, Owed, NoAssetLeaks, Referrers, Carried
<1> QED BY <1>2, <1>3, <1>4 DEF AssetsInv

LEMMA AssetsNextInv == AssetsInv /\ [AssetNext]_assetVars => AssetsInv'
<1> SUFFICES ASSUME AssetsInv, [AssetNext]_assetVars PROVE AssetsInv'
  OBVIOUS
<1>1. ASSUME NEW p \in Publishers, Publish(p) PROVE AssetsInv'
  BY <1>1, UploadInv, RepublishInv, PutAssetInv, FinalizeInv, RegisterInv, CheckAssetsInv,
     ReplaceBaselineInv, InsertUpdateInv, QuitPublishingInv
  DEF Publish
<1>2. ASSUME NEW c \in Collectors, Collect(c) PROVE AssetsInv'
  BY <1>2, PickInv, PickMoreInv, ReadHashesInv, DeleteUpdateRowsInv, FindOrphansInv, FindKeysInv,
     DeleteObjectsInv, DeleteAssetRowsInv, QuitCollectingInv
  DEF Collect
<1> QED BY <1>1, <1>2, DeleteBranchInv, AssetsStutterInv DEF AssetNext

LEMMA AssetsInvariant == AssetSpec => []AssetsInv
  BY AssetsInitInv, AssetsNextInv, PTL DEF AssetSpec

(***************************************************************************)
(* AssetCollection: the theorems.                                          *)
(***************************************************************************)

\* Publishers and collectors keep to their types.
THEOREM AssetTypeCorrect == AssetSpec => []AssetTypeOK
<1>1. AssetsInv => AssetTypeOK
  BY DEF AssetsInv
<1> QED BY <1>1, AssetsInvariant, PTL

\* However uploads, finalizations and collections interleave, a finalized row
\* without its object is one that a collector, a publisher or a failure of
\* theirs accounts for (handlers/assets.ts, deleteAssetRows).
THEOREM ReadyRowsHaveObjects == AssetSpec => []ReadyHasObject
<1>1. AssetsInv => ReadyHasObject
  <2> SUFFICES ASSUME AssetsInv, NEW h \in Hashes, asset[h] = "ready", h \notin object
               PROVE  h \in Carried \cup bare \cup UNION {Owed(p) : p \in Publishers}
    BY DEF ReadyHasObject
  <2>1. Doomed(h) \/ Promised(h) \/ h \in bare
    BY DEF AssetsInv, RowsBacked
  <2>2. Doomed(h) => h \in Carried
    BY DEF Doomed, ColAt, Carried
  <2>3. Promised(h) => h \in UNION {Owed(p) : p \in Publishers}
    BY DEF Promised
  <2> QED BY <2>1, <2>2, <2>3
<1> QED BY <1>1, AssetsInvariant, PTL

\* An asset collection answers for, once without a referrer, is on a collector's
\* list: concurrent collectors and publishers do not lose one between them.  A
\* deletion without collection (of a branch, of a project, of a replaced
\* baseline) ends what collection answers for, as does a collector's failure.
THEOREM AssetsDoNotLeak == AssetSpec => []NoAssetLeaks
<1>1. AssetsInv => NoAssetLeaks
  BY DEF AssetsInv
<1> QED BY <1>1, AssetsInvariant, PTL

\* "keep-when-in-doubt": an update whose references were inserted while no
\* collector was deleting their assets keeps its objects, whatever is collected
\* later, but for what failures left missing or a publisher has to upload.
THEOREM SurvivorsKeepAssets == AssetSpec => []SurvivorKeepsAsset
<1>1. AssetsInv => SurvivorKeepsAsset
  <2> SUFFICES ASSUME AssetsInv, NEW r \in refs \ late, r[2] \notin object
               PROVE  r[2] \in bare \cup UNION {Owed(p) : p \in Publishers}
    BY DEF SurvivorKeepsAsset
  <2>1. r[2] \in Hashes /\ asset[r[2]] # "none" /\ ~Condemned(r[2])
    BY DEF AssetsInv, AssetTypeOK, RefsHaveRows, OrphansUnreferenced
  <2>2. ~Doomed(r[2])
    BY <2>1 DEF Doomed, Condemned
  <2>3. Promised(r[2]) \/ r[2] \in bare
    BY <2>1, <2>2 DEF AssetsInv, RowsBacked
  <2> QED BY <2>3 DEF Promised
<1> QED BY <1>1, AssetsInvariant, PTL

(***************************************************************************)
(* Signing: the inductive invariant.                                       *)
(***************************************************************************)

USE SigningAssumption

Keys(rows) == {row.key : row \in rows}

\* The row's upload was stored with the devices that its hash stands for.
Truthful(row) ==
  /\ row.key \in issued.uploads
  /\ \A o \in file : o.key = row.key => o.devices = row.hash

\* The upload a check approved covers what the check required.
Covers(job) ==
  /\ job.key \in issued.uploads
  /\ \A o \in file : o.key = job.key => job.needs \subseteq o.devices

Pending(x) == x.pc \in {"previous", "upsert"}

\* An upload not yet written to the row has its object.
Fresh(row, objects, rows) ==
  /\ \E o \in objects : o.key = row.key
  /\ row.key \notin Keys(rows)

\* What a command knows at each of its steps.
SignerFit(x) ==
  /\ x.pc \notin {"rest", "over"} => x.job.needs \subseteq portal.devices
  /\ x.pc \in {"setup", "issue", "revoke", "keep", "choose"} => x.job.stage = "recheck"
  /\ x.pc \in {"configuration", "rows", "roster", "artifact"} /\ x.job.stage = "download" =>
       Covers(x.job)
  /\ x.pc \in {"roster", "artifact"} => Truthful(x.row)
  /\ x.pc = "artifact" /\ x.job.stage # "download" /\ ~x.stale => x.job.needs = x.row.hash
  /\ x.pc = "keep" => x.cert \in issued.certs
  /\ x.pc = "create" => x.job.needs \subseteq x.devices
  /\ x.pc \in {"previous", "upsert", "drop", "bind"} => Truthful(x.made)
  /\ \/ x.pc \in {"previous", "upsert", "drop"}
     \/ x.pc = "bind" /\ x.job.stage # "recheck"
     => x.job.needs \subseteq x.made.hash
  /\ Pending(x) => Fresh(x.made, file, profile)
  /\ x.pc \in {"upsert", "drop"} => x.old \subseteq issued.uploads
  /\ x.pc = "upsert" => x.made.key \notin x.old
  /\ x.pc = "drop" => x.old \cap Keys(profile) = {}
  /\ x.pc = "signed" /\ x.job.key = x.row.key => x.job.needs \subseteq x.content.devices

\* Nobody else holds the key of an upload that is not in the row yet, nor is
\* about to delete its object.
Apart(x, y) ==
  Pending(x) =>
    /\ Pending(y) => x.made.key # y.made.key
    /\ y.pc \in {"upsert", "drop"} => x.made.key \notin y.old

SignersFit ==
  /\ \A s \in Signers : SignerFit(signer[s])
  /\ \A s, t \in Signers : s # t => Apart(signer[s], signer[t])

ProfileFits ==
  /\ profile = {} \/ \E row \in ProfileRow : profile = {row}
  /\ \A row \in profile : Truthful(row)
  /\ \A o \in file : o.key \in issued.uploads

\* Apple's side: a certificate is revoked there before it is forgotten here, and
\* a device is linked here only after Apple has listed it.
PortalFits ==
  /\ IsFiniteSet(portal.certs) /\ portal.certs \subseteq issued.certs
  /\ revocation.pc \in {"apple", "local"} => revocation.cert \in issued.certs
  /\ revocation.pc = "local" => revocation.cert \notin portal.certs
  /\ Linked \subseteq portal.devices
  /\ sync.pc \in {"push", "read"} => sync.apple \subseteq portal.devices
  /\ sync.pc = "write" => sync.left \subseteq portal.devices

SigningInv ==
  SigningTypeOK /\ SignersFit /\ ProfileFits /\ PortalFits /\ ProfileStored /\ LiveCertificateHasKey

LEMMA SignerShape ==
  ASSUME NEW x \in Signer
  PROVE  /\ x.pc \notin {"rest", "over"} => x.job \in Job
         /\ x.pc = "rows" => x.bound \in Binding
         /\ x.pc \in {"roster", "artifact", "signed"} => x.row \in ProfileRow
         /\ x.pc = "artifact" => x.stale \in BOOLEAN
         /\ x.pc \in {"keep", "choose", "generate", "create", "previous", "bind", "upsert", "drop"} =>
              x.cert \in Certs
         /\ x.pc = "create" => x.devices \subseteq Udids
         /\ x.pc \in {"previous", "upsert", "drop", "bind"} => x.made \in ProfileRow
         /\ x.pc \in {"upsert", "drop"} => x.old \subseteq Uploaded
         /\ x.pc = "keep" =>
              x \in [pc : {"keep", "choose", "generate"}, job : Job, cert : Certs]
         /\ x.pc = "upsert" =>
              x \in [pc : {"upsert", "drop"}, job : Job, cert : Certs, made : ProfileRow,
                     old : SUBSET Uploaded]
BY DEF Signer, AtRest, Over

LEMMA SignerOf ==
  ASSUME SigningInv, NEW s \in Signers
  PROVE  signer[s] \in Signer /\ SignerFit(signer[s])
BY DEF SigningInv, SigningTypeOK, SignersFit

\* What a command knows stays so while devices and uploads are only added, and
\* nothing that is its own goes.
LEMMA SignerFitLasts ==
  ASSUME NEW x, SignerFit(x),
         portal.devices \subseteq portal'.devices,
         issued.uploads \subseteq issued'.uploads, issued.certs \subseteq issued'.certs,
         \A o \in file' : o \in file \/ o.key \notin issued.uploads,
         Pending(x) => Fresh(x.made, file', profile'),
         x.pc = "drop" => x.old \cap Keys(profile') = {}
  PROVE  SignerFit(x)'
<1>1. \A row : Truthful(row) => Truthful(row)'
  BY DEF Truthful
<1>2. \A job : Covers(job) => Covers(job)'
  BY DEF Covers
<1> QED BY <1>1, <1>2 DEF SignerFit, Pending

LEMMA SignersMove ==
  ASSUME SigningTypeOK, SignersFit, NEW s \in Signers, NEW step \in Signer, Go(s, step),
         SignerFit(step)',
         \A t \in Signers \ {s} : Apart(step, signer[t]) /\ Apart(signer[t], step),
         portal.devices \subseteq portal'.devices,
         issued.uploads \subseteq issued'.uploads, issued.certs \subseteq issued'.certs,
         \A o \in file' : o \in file \/ o.key \notin issued.uploads,
         \A t \in Signers \ {s} :
           /\ Pending(signer[t]) => Fresh(signer[t].made, file', profile')
           /\ signer[t].pc = "drop" => signer[t].old \cap Keys(profile') = {}
  PROVE  /\ SignersFit'
         /\ signer' \in [Signers -> Signer]
         /\ signer'[s] = step /\ \A t \in Signers \ {s} : signer'[t] = signer[t]
<1>1. /\ signer' \in [Signers -> Signer]
      /\ signer'[s] = step /\ \A t \in Signers \ {s} : signer'[t] = signer[t]
  BY DEF Go, SigningTypeOK
<1>2. ASSUME NEW t \in Signers, NEW x, x = signer'[t] PROVE SignerFit(x)'
  <2>1. CASE t = s
    BY <1>1, <1>2, <2>1
  <2>2. CASE t # s
    <3>1. x = signer[t] /\ SignerFit(x)
      BY <1>1, <1>2, <2>2 DEF SignersFit
    <3> QED BY <2>2, <3>1, SignerFitLasts
  <2> QED BY <2>1, <2>2
<1>3. ASSUME NEW t \in Signers, NEW u \in Signers, t # u PROVE Apart(signer'[t], signer'[u])
  BY <1>1, <1>3 DEF SignersFit
<1>4. \A t \in Signers : SignerFit(signer[t])'
  BY <1>2 DEF SignerFit, Truthful, Covers, Pending
<1>5. SignersFit'
  BY <1>3, <1>4 DEF SignersFit, Apart, Pending
<1> QED BY <1>1, <1>5

LEMMA SignersStay ==
  ASSUME SignersFit, UNCHANGED signer,
         portal.devices \subseteq portal'.devices,
         issued.uploads \subseteq issued'.uploads, issued.certs \subseteq issued'.certs,
         \A o \in file' : o \in file \/ o.key \notin issued.uploads,
         \A t \in Signers :
           /\ Pending(signer[t]) => Fresh(signer[t].made, file', profile')
           /\ signer[t].pc = "drop" => signer[t].old \cap Keys(profile') = {}
  PROVE  SignersFit'
<1>1. ASSUME NEW t \in Signers, NEW x, x = signer'[t] PROVE SignerFit(x)'
  <2>1. x = signer[t] /\ SignerFit(x)
    BY <1>1 DEF SignersFit
  <2> QED BY <2>1, SignerFitLasts
<1>2. \A t \in Signers : SignerFit(signer[t])'
  BY <1>1 DEF SignerFit, Truthful, Covers, Pending
<1> QED BY <1>2 DEF SignersFit, Apart, Pending

\* A step that only moves the command on.
LEMMA TurnInv ==
  ASSUME SigningInv, NEW s \in Signers, NEW step \in Signer, Turn(s, step), SignerFit(step),
         \A t \in Signers \ {s} : Apart(step, signer[t]) /\ Apart(signer[t], step),
         signer[s].pc # "keep"
  PROVE  SigningInv'
<1> USE DEF SigningInv
<1>1. /\ Go(s, step)
      /\ UNCHANGED <<portal, certRow, profile, file, config, roster, revocation, sync, edits,
                     issued, keyless, unanswered>>
  BY DEF Turn, stored, helpers, traces
<1>2. SignerFit(step)'
  BY <1>1, SignerFitLasts DEF SignerFit
<1>3. \A t \in Signers :
        /\ Pending(signer[t]) => Fresh(signer[t].made, file, profile)
        /\ signer[t].pc = "drop" => signer[t].old \cap Keys(profile) = {}
  BY DEF SignersFit, SignerFit
<1>4. /\ SignersFit' /\ signer' \in [Signers -> Signer]
      /\ \A t \in Signers \ {s} : signer'[t] = signer[t]
  BY <1>1, <1>2, <1>3, SignersMove
<1>5. SigningTypeOK'
  BY <1>1, <1>4 DEF SigningTypeOK
<1>6. ProfileFits' /\ PortalFits' /\ ProfileStored'
  BY <1>1 DEF ProfileFits, PortalFits, ProfileStored, Truthful, Linked
<1>7. LiveCertificateHasKey'
  BY <1>1, <1>4 DEF LiveCertificateHasKey, Signs
<1> QED BY <1>4, <1>5, <1>6, <1>7

(***************************************************************************)
(* Signing: the steps that only move a command on.                         *)
(***************************************************************************)

\* Away from the steps that hold an upload, a command disturbs no other.
LEMMA AloofTurnInv ==
  ASSUME SigningInv, NEW s \in Signers, NEW step \in Signer, Turn(s, step), SignerFit(step),
         step.pc \notin {"previous", "upsert", "drop"}, signer[s].pc # "keep"
  PROVE  SigningInv'
BY TurnInv DEF Apart, Pending

LEMMA OverInv == ASSUME SigningInv, NEW s \in Signers, Turn(s, Over), signer[s].pc # "keep"
                 PROVE  SigningInv'
<1>1. Over \in Signer /\ Over.pc = "over"
  BY DEF Signer, Over
<1>2. SignerFit(Over)
  BY <1>1 DEF SignerFit, Pending
<1> QED BY <1>1, <1>2, AloofTurnInv

LEMMA StartInv ==
  ASSUME SigningInv, NEW s \in Signers, NEW p \in Projects, StartBuild(s, p) \/ StartRegenerate(s, p)
  PROVE  SigningInv'
<1>1. PICK pc \in {"configuration", "regenerate"}, stage \in {"check", "command"} :
        /\ signer[s] = AtRest
        /\ Turn(s, [pc |-> pc, job |-> [project |-> p, stage |-> stage, needs |-> {}, key |-> NoProfile]])
  BY DEF StartBuild, StartRegenerate
<1> DEFINE job == [project |-> p, stage |-> stage, needs |-> {}, key |-> NoProfile]
           step == [pc |-> pc, job |-> job]
<1>2. job \in Job /\ job.needs = {} /\ job.stage # "download"
  BY DEF Job, Stages
<1> HIDE DEF job
<1>3. step \in Signer /\ step.pc = pc /\ step.job = job
  BY <1>2 DEF Signer
<1>4. Turn(s, step) /\ signer[s].pc = "rest"
  BY <1>1 DEF AtRest, job
<1> HIDE DEF step
<1>5. SignerFit(step)
  BY <1>2, <1>3 DEF SignerFit, Pending
<1> QED BY <1>3, <1>4, <1>5, AloofTurnInv

LEMMA MissingInv ==
  ASSUME SigningInv, NEW s \in Signers, signer[s].pc \in {"configuration", "rows", "artifact"},
         Missing(s)
  PROVE  SigningInv'
<1>1. CASE signer[s].job.stage # "check"
  BY <1>1, OverInv DEF Missing
<1>2. CASE signer[s].job.stage = "check"
  <2> DEFINE job == [signer[s].job EXCEPT !.stage = "recheck"]
             step == [pc |-> "setup", job |-> job]
  <2>1. signer[s].job \in Job /\ signer[s].job.needs \subseteq portal.devices
    BY SignerOf, SignerShape DEF SignerFit
  <2>2. job \in Job /\ job.stage = "recheck" /\ job.needs = signer[s].job.needs
    BY <2>1 DEF Job, Stages
  <2>3. Turn(s, step)
    BY <1>2 DEF Missing
  <2> HIDE DEF job
  <2>4. step \in Signer /\ step.pc = "setup" /\ step.job = job
    BY <2>2 DEF Signer
  <2> HIDE DEF step
  <2>5. SignerFit(step)
    BY <2>1, <2>2, <2>4 DEF SignerFit, Pending
  <2> QED BY <2>3, <2>4, <2>5, AloofTurnInv
<1> QED BY <1>1, <1>2

LEMMA LoadConfigurationInv ==
  ASSUME SigningInv, NEW s \in Signers, LoadConfiguration(s)
  PROVE  SigningInv'
<1>1. signer[s].pc = "configuration" /\ signer[s].job \in Job /\ SignerFit(signer[s])
  BY SignerOf, SignerShape DEF LoadConfiguration, Signs
<1>2. CASE Missing(s)
  BY <1>1, <1>2, MissingInv
<1>3. ASSUME NEW b \in config[signer[s].job.project],
             Turn(s, [pc |-> "rows", job |-> signer[s].job, bound |-> b])
      PROVE  SigningInv'
  <2> DEFINE job == signer[s].job
             step == [pc |-> "rows", job |-> job, bound |-> b]
  <2>1. b \in Binding
    BY <1>1, <1>3 DEF SigningInv, SigningTypeOK, Job
  <2>2. step \in Signer /\ step.pc = "rows" /\ step.job = job
    BY <1>1, <2>1 DEF Signer
  <2>3. SignerFit(step)
    BY <1>1, <2>2 DEF SignerFit, Pending
  <2> QED BY <1>1, <1>3, <2>2, <2>3, AloofTurnInv
<1> QED BY <1>2, <1>3 DEF LoadConfiguration

LEMMA LoadRowsInv ==
  ASSUME SigningInv, NEW s \in Signers, LoadRows(s)
  PROVE  SigningInv'
<1>1. signer[s].pc = "rows" /\ signer[s].job \in Job /\ SignerFit(signer[s])
  BY SignerOf, SignerShape DEF LoadRows, Signs
<1>2. CASE Missing(s)
  BY <1>1, <1>2, MissingInv
<1>3. ASSUME NEW row \in profile, Turn(s, [pc |-> "roster", job |-> signer[s].job, row |-> row])
      PROVE  SigningInv'
  <2> DEFINE job == signer[s].job
             step == [pc |-> "roster", job |-> job, row |-> row]
  <2>1. row \in ProfileRow /\ Truthful(row)
    BY DEF SigningInv, SigningTypeOK, ProfileFits
  <2>2. step \in Signer /\ step.pc = "roster" /\ step.job = job /\ step.row = row
    BY <1>1, <2>1 DEF Signer
  <2>3. SignerFit(step)
    BY <1>1, <2>1, <2>2 DEF SignerFit, Pending
  <2> QED BY <1>1, <1>3, <2>2, <2>3, AloofTurnInv
<1> QED BY <1>2, <1>3 DEF LoadRows

\* A profile that is not stale is for the very devices that are linked.
LEMMA CheckProfileStaleInv ==
  ASSUME SigningInv, NEW s \in Signers, CheckProfileStale(s)
  PROVE  SigningInv'
<1> DEFINE old == signer[s].job
           job == IF old.stage = "download" THEN old ELSE [old EXCEPT !.needs = Linked]
           row == signer[s].row
           stale == row.hash # Linked
           step == [pc |-> "artifact", job |-> job, row |-> row, stale |-> stale]
<1>1. /\ signer[s].pc = "roster" /\ old \in Job /\ row \in ProfileRow /\ SignerFit(signer[s])
      /\ Turn(s, step)
  BY SignerOf, SignerShape DEF CheckProfileStale, Checked, Signs
<1>2. Linked \subseteq portal.devices /\ Linked \subseteq Udids
  BY DEF SigningInv, PortalFits, Linked
<1>3. /\ job \in Job /\ job.stage = old.stage /\ job.key = old.key
      /\ job.needs = IF old.stage = "download" THEN old.needs ELSE Linked
  BY <1>1, <1>2 DEF Job
<1>4. stale \in BOOLEAN /\ (~stale => row.hash = Linked)
  OBVIOUS
<1> HIDE DEF job, stale
<1>5. /\ step \in Signer
      /\ step.pc = "artifact" /\ step.job = job /\ step.row = row /\ step.stale = stale
  BY <1>1, <1>3, <1>4 DEF Signer
<1> HIDE DEF step
<1>6. SignerFit(step)
  <2>1. step.job.needs \subseteq portal.devices /\ Truthful(step.row)
    BY <1>1, <1>2, <1>3, <1>5 DEF SignerFit
  <2>2. step.job.stage = "download" => Covers(step.job)
    BY <1>1, <1>3, <1>5 DEF SignerFit, Covers
  <2>3. step.job.stage # "download" /\ ~step.stale => step.job.needs = step.row.hash
    BY <1>3, <1>4, <1>5
  <2> QED BY <1>5, <2>1, <2>2, <2>3 DEF SignerFit, Pending
<1> QED BY <1>1, <1>5, <1>6, AloofTurnInv

\* The upload that the check approved covers what the check required, if it was
\* found fresh; what is downloaded then is that upload, or another one's.
LEMMA FetchArtifactInv ==
  ASSUME SigningInv, NEW s \in Signers, FetchArtifact(s)
  PROVE  SigningInv'
<1> DEFINE job == signer[s].job
           row == signer[s].row
<1>1. /\ signer[s].pc = "artifact" /\ job \in Job /\ row \in ProfileRow /\ SignerFit(signer[s])
      /\ signer[s].stale \in BOOLEAN
  BY SignerOf, SignerShape DEF FetchArtifact, Signs
<1>2. CASE Missing(s)
  BY <1>1, <1>2, MissingInv
<1>3. ASSUME NEW o \in file, o.key = row.key, job.stage = "download",
             Turn(s, [pc |-> "signed", job |-> job, row |-> row, content |-> o])
      PROVE  SigningInv'
  <2> DEFINE step == [pc |-> "signed", job |-> job, row |-> row, content |-> o]
  <2>1. o \in Object
    BY DEF SigningInv, SigningTypeOK
  <2>2. /\ step \in Signer /\ step.pc = "signed"
        /\ step.job = job /\ step.row = row /\ step.content = o
    BY <1>1, <2>1 DEF Signer
  <2>3. job.key = row.key => job.needs \subseteq o.devices
    BY <1>1, <1>3 DEF SignerFit, Covers
  <2>4. SignerFit(step)
    BY <1>1, <2>2, <2>3 DEF SignerFit, Pending
  <2> QED BY <1>1, <1>3, <2>2, <2>4, AloofTurnInv
<1>4. ASSUME job.stage # "download",
             Turn(s, [pc |-> IF signer[s].stale THEN "regenerate" ELSE "configuration",
                      job |-> [job EXCEPT !.stage = "download", !.key = row.key]])
      PROVE  SigningInv'
  <2> DEFINE next == [job EXCEPT !.stage = "download", !.key = row.key]
             step == [pc |-> IF signer[s].stale THEN "regenerate" ELSE "configuration",
                      job |-> next]
  <2>1. next \in Job /\ next.needs = job.needs /\ next.key = row.key
    BY <1>1 DEF Job, Stages, ProfileRow
  <2>2. Turn(s, step)
    BY <1>4
  <2> HIDE DEF next
  <2>3. /\ step \in Signer /\ step.job = next
        /\ step.pc \in {"regenerate", "configuration"}
        /\ step.pc = "configuration" => ~signer[s].stale
    BY <1>1, <2>1 DEF Signer
  <2> HIDE DEF step
  <2>4. ~signer[s].stale => Covers(next)
    BY <1>1, <1>4, <2>1 DEF SignerFit, Covers, Truthful
  <2>5. SignerFit(step)
    BY <1>1, <2>1, <2>3, <2>4 DEF SignerFit, Pending
  <2> QED BY <1>1, <2>2, <2>3, <2>5, AloofTurnInv
<1> QED BY <1>1, <1>2, <1>3, <1>4 DEF FetchArtifact

LEMMA PickCertificateInv ==
  ASSUME SigningInv, NEW s \in Signers, PickCertificate(s)
  PROVE  SigningInv'
<1> DEFINE job == signer[s].job
<1>1. /\ signer[s].pc = "setup" /\ job \in Job /\ SignerFit(signer[s])
      /\ job.stage = "recheck" /\ job.needs \subseteq portal.devices
  BY SignerOf, SignerShape DEF PickCertificate, Signs, SignerFit
<1>2. ASSUME NEW c \in certRow, Turn(s, [pc |-> "choose", job |-> job, cert |-> c])
      PROVE  SigningInv'
  <2> DEFINE step == [pc |-> "choose", job |-> job, cert |-> c]
  <2>1. c \in Certs
    BY DEF SigningInv, SigningTypeOK
  <2>2. step \in Signer /\ step.pc = "choose" /\ step.job = job
    BY <1>1, <2>1 DEF Signer
  <2>3. SignerFit(step)
    BY <1>1, <2>2 DEF SignerFit, Pending
  <2> QED BY <1>1, <1>2, <2>2, <2>3, AloofTurnInv
<1>3. ASSUME Turn(s, [pc |-> "issue", job |-> job, again |-> FALSE])
      PROVE  SigningInv'
  <2> DEFINE step == [pc |-> "issue", job |-> job, again |-> FALSE]
  <2>1. step \in Signer /\ step.pc = "issue" /\ step.job = job
    BY <1>1 DEF Signer
  <2>2. SignerFit(step)
    BY <1>1, <2>1 DEF SignerFit, Pending
  <2> QED BY <1>1, <1>3, <2>1, <2>2, AloofTurnInv
<1> QED BY <1>2, <1>3 DEF PickCertificate

\* A profile that is bound as it is was chosen by a setup, which checks again.
LEMMA ChooseProfileInv ==
  ASSUME SigningInv, NEW s \in Signers, ChooseProfile(s)
  PROVE  SigningInv'
<1> DEFINE job == signer[s].job
           c == signer[s].cert
<1>1. /\ signer[s].pc = "choose" /\ job \in Job /\ SignerFit(signer[s]) /\ c \in Certs
      /\ job.stage = "recheck" /\ job.needs \subseteq portal.devices
  BY SignerOf, SignerShape DEF ChooseProfile, Signs, SignerFit
<1>2. ASSUME NEW row \in profile, Turn(s, [pc |-> "bind", job |-> job, cert |-> c, made |-> row])
      PROVE  SigningInv'
  <2> DEFINE step == [pc |-> "bind", job |-> job, cert |-> c, made |-> row]
  <2>1. row \in ProfileRow /\ Truthful(row)
    BY DEF SigningInv, SigningTypeOK, ProfileFits
  <2>2. step \in Signer /\ step.pc = "bind" /\ step.job = job /\ step.made = row
    BY <1>1, <2>1 DEF Signer
  <2>3. SignerFit(step)
    BY <1>1, <2>1, <2>2 DEF SignerFit, Pending
  <2> QED BY <1>1, <1>2, <2>2, <2>3, AloofTurnInv
<1>3. ASSUME Turn(s, [pc |-> "generate", job |-> job, cert |-> c])
      PROVE  SigningInv'
  <2> DEFINE step == [pc |-> "generate", job |-> job, cert |-> c]
  <2>1. step \in Signer /\ step.pc = "generate" /\ step.job = job
    BY <1>1 DEF Signer
  <2>2. SignerFit(step)
    BY <1>1, <2>1 DEF SignerFit, Pending
  <2> QED BY <1>1, <1>3, <2>1, <2>2, AloofTurnInv
<1> QED BY <1>2, <1>3 DEF ChooseProfile

LEMMA FindBoundConfigInv ==
  ASSUME SigningInv, NEW s \in Signers, FindBoundConfig(s)
  PROVE  SigningInv'
<1> DEFINE job == signer[s].job
<1>1. /\ signer[s].pc = "regenerate" /\ job \in Job /\ SignerFit(signer[s])
      /\ job.needs \subseteq portal.devices
  BY SignerOf, SignerShape DEF FindBoundConfig, Signs, SignerFit
<1>2. CASE Turn(s, Over)
  BY <1>1, <1>2, OverInv
<1>3. ASSUME NEW b \in config[job.project], NoCert # b.cert,
             Turn(s, [pc |-> "generate", job |-> job, cert |-> b.cert])
      PROVE  SigningInv'
  <2> DEFINE step == [pc |-> "generate", job |-> job, cert |-> b.cert]
  <2>1. b.cert \in Certs
    BY <1>1, <1>3 DEF SigningInv, SigningTypeOK, Job, Binding
  <2>2. step \in Signer /\ step.pc = "generate" /\ step.job = job
    BY <1>1, <2>1 DEF Signer
  <2>3. SignerFit(step)
    BY <1>1, <2>2 DEF SignerFit, Pending
  <2> QED BY <1>1, <1>3, <2>2, <2>3, AloofTurnInv
<1> QED BY <1>2, <1>3 DEF FindBoundConfig

\* Apple still lists every device that the check required.
LEMMA ListAppleDevicesInv ==
  ASSUME SigningInv, NEW s \in Signers, ListAppleDevices(s)
  PROVE  SigningInv'
<1> DEFINE job == signer[s].job
           c == signer[s].cert
           step == [pc |-> "create", job |-> job, cert |-> c, devices |-> portal.devices]
<1>1. /\ signer[s].pc = "generate" /\ job \in Job /\ c \in Certs
      /\ job.needs \subseteq portal.devices /\ portal.devices \subseteq Udids
  BY SignerOf, SignerShape DEF ListAppleDevices, Signs, SignerFit, SigningInv, SigningTypeOK
<1>2. CASE Turn(s, Over)
  BY <1>1, <1>2, OverInv
<1>3. CASE Turn(s, step)
  <2>1. /\ step \in Signer /\ step.pc = "create" /\ step.job = job
        /\ step.devices = portal.devices
    BY <1>1 DEF Signer
  <2>2. SignerFit(step)
    BY <1>1, <2>1 DEF SignerFit, Pending
  <2> QED BY <1>1, <1>3, <2>1, <2>2, AloofTurnInv
<1> QED BY <1>2, <1>3 DEF ListAppleDevices

\* What the row holds now is no pending upload, this one included.
LEMMA ReadPreviousInv ==
  ASSUME SigningInv, NEW s \in Signers, ReadPrevious(s)
  PROVE  SigningInv'
<1> DEFINE me == signer[s]
           step == [pc |-> "upsert", job |-> me.job, cert |-> me.cert, made |-> me.made,
                    old |-> Keys(profile)]
<1>1. /\ me.pc = "previous" /\ me.job \in Job /\ me.cert \in Certs /\ me.made \in ProfileRow
      /\ SignerFit(me) /\ Turn(s, step)
  BY SignerOf, SignerShape DEF ReadPrevious, Signs, Keys
<1>2. Keys(profile) \subseteq issued.uploads /\ issued.uploads \subseteq Uploaded
  BY DEF SigningInv, SigningTypeOK, ProfileFits, Truthful, Keys
<1>3. /\ step \in Signer /\ step.pc = "upsert" /\ step.job = me.job
      /\ step.made = me.made /\ step.old = Keys(profile)
  BY <1>1, <1>2 DEF Signer
<1> HIDE DEF step
<1>4. SignerFit(step)
  BY <1>1, <1>2, <1>3 DEF SignerFit, Pending, Fresh
<1>5. ASSUME NEW t \in Signers \ {s} PROVE Apart(step, signer[t]) /\ Apart(signer[t], step)
  <2>1. Apart(me, signer[t]) /\ Apart(signer[t], me)
    BY DEF SigningInv, SignersFit
  <2>2. Pending(signer[t]) => signer[t].made.key \notin Keys(profile)
    BY DEF SigningInv, SignersFit, SignerFit, Fresh
  <2> QED BY <1>1, <1>3, <2>1, <2>2 DEF Apart, Pending
<1> QED BY <1>1, <1>3, <1>4, <1>5, TurnInv

(***************************************************************************)
(* Signing: certificates.                                                  *)
(***************************************************************************)

\* What the steps of the others need to know of the stores.
LEMMA OthersFit ==
  ASSUME SigningInv
  PROVE  \A t \in Signers :
           /\ Pending(signer[t]) => Fresh(signer[t].made, file, profile)
           /\ signer[t].pc = "drop" => signer[t].old \cap Keys(profile) = {}
BY DEF SigningInv, SignersFit, SignerFit

LEMMA SignerDiesInv ==
  ASSUME SigningInv, NEW s \in Signers, SignerDies(s)
  PROVE  SigningInv'
<1> USE DEF SigningInv
<1>1. /\ Go(s, Over)
      /\ keyless' = IF signer[s].pc = "keep" THEN keyless \cup {signer[s].cert} ELSE keyless
      /\ UNCHANGED <<portal, certRow, profile, file, config, roster, revocation, sync, edits,
                     issued, unanswered>>
  BY DEF SignerDies, Signs, stored, helpers
<1>2. Over \in Signer /\ Over.pc = "over"
  BY DEF Signer, Over
<1>3. SignerFit(Over)'
  BY <1>2 DEF SignerFit, Pending
<1>4. \A t \in Signers \ {s} : Apart(Over, signer[t]) /\ Apart(signer[t], Over)
  BY <1>2 DEF Apart, Pending
<1>5. /\ SignersFit' /\ signer' \in [Signers -> Signer]
      /\ \A t \in Signers \ {s} : signer'[t] = signer[t]
  BY <1>1, <1>2, <1>3, <1>4, OthersFit, SignersMove
<1>6. keyless' \subseteq issued.certs
  BY <1>1, SignerOf DEF SignerFit, SigningTypeOK
<1>7. SigningTypeOK'
  BY <1>1, <1>5, <1>6 DEF SigningTypeOK
<1>8. ProfileFits' /\ PortalFits' /\ ProfileStored'
  BY <1>1 DEF ProfileFits, PortalFits, ProfileStored, Truthful, Linked
<1>9. LiveCertificateHasKey'
  BY <1>1, <1>5 DEF LiveCertificateHasKey, Signs
<1> QED BY <1>5, <1>7, <1>8, <1>9

\* A certificate is issued to the command that keeps its key.
LEMMA IssueCertificateInv ==
  ASSUME SigningInv, NEW s \in Signers, IssueCertificate(s)
  PROVE  SigningInv'
<1> USE DEF SigningInv
<1>0. PICK job : job = signer[s].job
  OBVIOUS
<1>1. /\ signer[s].pc = "issue" /\ job \in Job /\ job.stage = "recheck"
      /\ job.needs \subseteq portal.devices
  BY <1>0, SignerOf, SignerShape DEF IssueCertificate, Signs, SignerFit
<1>2. CASE Turn(s, Over)
  BY <1>1, <1>2, OverInv
<1>3. CASE Turn(s, [pc |-> "revoke", job |-> job, again |-> TRUE])
  <2> DEFINE step == [pc |-> "revoke", job |-> job, again |-> TRUE]
  <2>1. step \in Signer /\ step.pc = "revoke" /\ step.job = job
    BY <1>1 DEF Signer
  <2>2. SignerFit(step)
    BY <1>1, <2>1 DEF SignerFit, Pending
  <2> QED BY <1>1, <1>3, <2>1, <2>2, AloofTurnInv
<1>4. ASSUME Cardinality(portal.certs) < CertLimit, NEW c \in Certs \ issued.certs,
             portal' = [portal EXCEPT !.certs = @ \cup {c}],
             issued' = [issued EXCEPT !.certs = @ \cup {c}],
             Go(s, [pc |-> "keep", job |-> job, cert |-> c]),
             UNCHANGED <<stored, roster, helpers, edits, keyless, unanswered>>
      PROVE  SigningInv'
  <2> DEFINE step == [pc |-> "keep", job |-> job, cert |-> c]
  <2>1. /\ portal' \in [certs : SUBSET Certs, devices : SUBSET Udids]
        /\ portal'.certs = portal.certs \cup {c} /\ portal'.devices = portal.devices
        /\ issued' \in [uploads : SUBSET Uploaded, certs : SUBSET Certs]
        /\ issued'.certs = issued.certs \cup {c} /\ issued'.uploads = issued.uploads
        /\ UNCHANGED <<certRow, profile, file, config, roster, revocation, sync, edits,
                       keyless, unanswered>>
    BY <1>4 DEF SigningTypeOK, stored, helpers
  <2>2. step \in Signer /\ step.pc = "keep" /\ step.job = job /\ step.cert = c
    BY <1>1 DEF Signer
  <2>3. Go(s, step)
    BY <1>4
  <2> HIDE DEF step
  <2>4. SignerFit(step)'
    BY <1>1, <2>1, <2>2 DEF SignerFit, Pending
  <2>5. \A t \in Signers \ {s} : Apart(step, signer[t]) /\ Apart(signer[t], step)
    BY <2>2 DEF Apart, Pending
  <2>6. /\ SignersFit' /\ signer' \in [Signers -> Signer]
        /\ signer'[s] = step /\ \A t \in Signers \ {s} : signer'[t] = signer[t]
    BY <2>1, <2>2, <2>3, <2>4, <2>5, OthersFit, SignersMove
  <2>7. IsFiniteSet(portal'.certs) /\ Cardinality(portal'.certs) <= CertLimit
    <3>1. /\ IsFiniteSet(portal.certs) /\ Cardinality(portal.certs) \in Nat /\ CertLimit \in Nat
          /\ c \notin portal.certs
      BY FS_CardinalityType, SigningAssumption DEF PortalFits
    <3>2. /\ IsFiniteSet(portal.certs \cup {c})
          /\ Cardinality(portal.certs \cup {c}) = Cardinality(portal.certs) + 1
      BY <3>1, FS_AddElement
    <3>3. portal'.certs = portal.certs \cup {c}
      BY <2>1
    <3> QED BY <1>4, <3>1, <3>2, <3>3
  <2>8. SigningTypeOK'
    BY <2>1, <2>6, <2>7 DEF SigningTypeOK
  <2>9. ProfileFits' /\ ProfileStored'
    BY <2>1 DEF ProfileFits, ProfileStored, Truthful
  <2>10. PortalFits'
    <3>1. /\ portal'.certs \subseteq issued'.certs
          /\ revocation'.pc \in {"apple", "local"} => revocation'.cert \in issued'.certs
          /\ revocation'.pc = "local" => revocation'.cert \notin portal'.certs
      BY <2>1 DEF PortalFits
    <3> QED BY <2>1, <2>7, <3>1 DEF PortalFits, Linked
  <2>11. LiveCertificateHasKey'
    <3>1. \A t \in Signers : signer[t].pc = "keep" => signer'[t] = signer[t]
      BY <1>1, <2>6
    <3> QED BY <2>1, <2>2, <2>6, <3>1 DEF LiveCertificateHasKey, Signs
  <2> QED BY <2>6, <2>8, <2>9, <2>10, <2>11
<1> QED BY <1>0, <1>2, <1>3, <1>4 DEF IssueCertificate

LEMMA RevokeSomeInv ==
  ASSUME SigningInv, NEW s \in Signers, RevokeSome(s)
  PROVE  SigningInv'
<1> USE DEF SigningInv
<1>0. PICK job : job = signer[s].job
  OBVIOUS
<1> DEFINE step == [pc |-> "issue", job |-> job, again |-> TRUE]
<1>1. /\ signer[s].pc = "revoke" /\ job \in Job /\ job.stage = "recheck"
      /\ job.needs \subseteq portal.devices
  BY <1>0, SignerOf, SignerShape DEF RevokeSome, Signs, SignerFit
<1>2. /\ portal' \in [certs : SUBSET Certs, devices : SUBSET Udids]
      /\ portal'.certs \subseteq portal.certs /\ portal'.devices = portal.devices
      /\ UNCHANGED <<certRow, profile, file, config, roster, revocation, sync, edits,
                     issued, keyless, unanswered>>
      /\ Go(s, step)
  BY <1>0 DEF RevokeSome, SigningTypeOK, stored, helpers, traces
<1>3. step \in Signer /\ step.pc = "issue" /\ step.job = job
  BY <1>1 DEF Signer
<1> HIDE DEF step
<1>4. SignerFit(step)'
  BY <1>1, <1>2, <1>3 DEF SignerFit, Pending
<1>5. \A t \in Signers \ {s} : Apart(step, signer[t]) /\ Apart(signer[t], step)
  BY <1>3 DEF Apart, Pending
<1>6. /\ SignersFit' /\ signer' \in [Signers -> Signer]
      /\ signer'[s] = step /\ \A t \in Signers \ {s} : signer'[t] = signer[t]
  BY <1>2, <1>3, <1>4, <1>5, OthersFit, SignersMove
<1>7. IsFiniteSet(portal'.certs) /\ Cardinality(portal'.certs) <= CertLimit
  <2>1. /\ IsFiniteSet(portal'.certs)
        /\ Cardinality(portal'.certs) <= Cardinality(portal.certs)
        /\ Cardinality(portal.certs) \in Nat /\ Cardinality(portal'.certs) \in Nat
        /\ Cardinality(portal.certs) <= CertLimit /\ CertLimit \in Nat
    BY <1>2, FS_Subset, FS_CardinalityType, SigningAssumption DEF PortalFits, SigningTypeOK
  <2> QED BY <2>1
<1>8. SigningTypeOK'
  BY <1>2, <1>6, <1>7 DEF SigningTypeOK
<1>9. ProfileFits' /\ ProfileStored'
  BY <1>2 DEF ProfileFits, ProfileStored, Truthful
<1>10. PortalFits'
  <2>1. /\ portal'.certs \subseteq issued'.certs
        /\ revocation'.pc \in {"apple", "local"} => revocation'.cert \in issued'.certs
        /\ revocation'.pc = "local" => revocation'.cert \notin portal'.certs
    BY <1>2 DEF PortalFits
  <2> QED BY <1>2, <1>7, <2>1 DEF PortalFits, Linked
<1>11. LiveCertificateHasKey'
  <2>1. \A t \in Signers : signer[t].pc = "keep" => signer'[t] = signer[t]
    BY <1>1, <1>6
  <2> QED BY <1>2, <2>1 DEF LiveCertificateHasKey, Signs
<1> QED BY <1>6, <1>8, <1>9, <1>10, <1>11

LEMMA KeepCertificateInv ==
  ASSUME SigningInv, NEW s \in Signers, KeepCertificate(s)
  PROVE  SigningInv'
<1> USE DEF SigningInv
<1>0. PICK me : me = signer[s]
  OBVIOUS
<1> DEFINE step == [me EXCEPT !.pc = "choose"]
<1>1. /\ me.pc = "keep" /\ me \in [pc : {"keep", "choose", "generate"}, job : Job, cert : Certs]
      /\ me.job.stage = "recheck" /\ me.job.needs \subseteq portal.devices
      /\ me.cert \in issued.certs
  BY <1>0, SignerOf, SignerShape DEF KeepCertificate, Signs, SignerFit
<1>2. /\ certRow' = certRow \cup {me.cert} /\ Go(s, step)
      /\ UNCHANGED <<portal, profile, file, config, roster, revocation, sync, edits,
                     issued, keyless, unanswered>>
  BY <1>0 DEF KeepCertificate, helpers, traces
<1>3. step \in Signer /\ step.pc = "choose" /\ step.job = me.job
  <2>1. /\ step \in [pc : {"keep", "choose", "generate"}, job : Job, cert : Certs]
        /\ step.pc = "choose" /\ step.job = me.job
    BY <1>1
  <2> QED BY <2>1 DEF Signer
<1> HIDE DEF step
<1>4. SignerFit(step)'
  BY <1>1, <1>2, <1>3 DEF SignerFit, Pending
<1>5. \A t \in Signers \ {s} : Apart(step, signer[t]) /\ Apart(signer[t], step)
  BY <1>3 DEF Apart, Pending
<1>6. /\ SignersFit' /\ signer' \in [Signers -> Signer]
      /\ \A t \in Signers \ {s} : signer'[t] = signer[t]
  BY <1>2, <1>3, <1>4, <1>5, OthersFit, SignersMove
<1>7. SigningTypeOK'
  BY <1>1, <1>2, <1>6 DEF SigningTypeOK
<1>8. ProfileFits' /\ PortalFits' /\ ProfileStored'
  BY <1>2 DEF ProfileFits, PortalFits, ProfileStored, Truthful, Linked
<1>9. LiveCertificateHasKey'
  BY <1>0, <1>2, <1>6 DEF LiveCertificateHasKey, Signs
<1> QED BY <1>6, <1>7, <1>8, <1>9

(***************************************************************************)
(* Signing: uploads.                                                       *)
(***************************************************************************)

\* A fresh key: its object is the only one, and nobody has heard of it.
LEMMA CreateProfileInv ==
  ASSUME SigningInv, NEW s \in Signers, CreateProfile(s)
  PROVE  SigningInv'
<1> USE DEF SigningInv
<1>0. PICK me : me = signer[s]
  OBVIOUS
<1>1. /\ me.pc = "create" /\ me.job \in Job /\ me.cert \in Certs /\ me.devices \subseteq Udids
      /\ me.job.needs \subseteq portal.devices /\ me.job.needs \subseteq me.devices
  BY <1>0, SignerOf, SignerShape DEF CreateProfile, Signs, SignerFit
<1>2. CASE Turn(s, Over)
  BY <1>0, <1>1, <1>2, OverInv
<1>3. ASSUME NEW k \in Uploaded \ issued.uploads,
             issued' = [issued EXCEPT !.uploads = @ \cup {k}],
             file' = file \cup {[key |-> k, cert |-> me.cert, devices |-> me.devices]},
             Go(s, [pc |-> "previous", job |-> me.job, cert |-> me.cert,
                    made |-> [id |-> k, key |-> k, hash |-> me.devices]]),
             UNCHANGED <<portal, certRow, profile, config, roster, helpers, edits, keyless,
                         unanswered>>
      PROVE  SigningInv'
  <2> DEFINE sent == [key |-> k, cert |-> me.cert, devices |-> me.devices]
             made == [id |-> k, key |-> k, hash |-> me.devices]
             step == [pc |-> "previous", job |-> me.job, cert |-> me.cert, made |-> made]
  <2>1. sent \in Object /\ sent.key = k /\ sent.devices = me.devices
    BY <1>1 DEF Object
  <2>2. made \in ProfileRow /\ made.key = k /\ made.hash = me.devices
    BY <1>1 DEF ProfileRow
  <2>3. Go(s, step) /\ file' = file \cup {sent}
    BY <1>3
  <2>4. /\ issued' \in [uploads : SUBSET Uploaded, certs : SUBSET Certs]
        /\ issued'.uploads = issued.uploads \cup {k} /\ issued'.certs = issued.certs
        /\ UNCHANGED <<portal, certRow, profile, config, roster, revocation, sync, edits,
                       keyless, unanswered>>
    BY <1>3 DEF SigningTypeOK, helpers
  <2> HIDE DEF sent, made
  <2>5. step \in Signer /\ step.pc = "previous" /\ step.job = me.job /\ step.made = made
    BY <1>1, <2>2 DEF Signer
  <2> HIDE DEF step
  <2>6. /\ \A o \in file : o.key \in issued.uploads
        /\ \A row \in profile : row.key \in issued.uploads
    BY DEF ProfileFits, Truthful
  <2>7. Truthful(made)' /\ Fresh(made, file', profile')
    BY <2>1, <2>2, <2>3, <2>4, <2>6 DEF Truthful, Fresh, Keys
  <2>8. SignerFit(step)'
    BY <1>1, <2>2, <2>4, <2>5, <2>7 DEF SignerFit, Pending
  <2>9. ASSUME NEW t \in Signers \ {s} PROVE Apart(step, signer[t]) /\ Apart(signer[t], step)
    <3>1. /\ Pending(signer[t]) => signer[t].made.key \in issued.uploads
          /\ signer[t].pc \in {"upsert", "drop"} => signer[t].old \subseteq issued.uploads
      BY DEF SignersFit, SignerFit, Pending, Truthful
    <3> QED BY <2>2, <2>5, <3>1 DEF Apart, Pending
  <2>10. \A t \in Signers \ {s} :
           /\ Pending(signer[t]) => Fresh(signer[t].made, file', profile')
           /\ signer[t].pc = "drop" => signer[t].old \cap Keys(profile') = {}
    BY <2>3, <2>4, OthersFit DEF Fresh
  <2>11. \A o \in file' : o \in file \/ o.key \notin issued.uploads
    BY <2>1, <2>3
  <2>12. /\ SignersFit' /\ signer' \in [Signers -> Signer]
         /\ \A t \in Signers \ {s} : signer'[t] = signer[t]
    BY <2>3, <2>4, <2>5, <2>8, <2>9, <2>10, <2>11, SignersMove
  <2>13. SigningTypeOK'
    BY <2>1, <2>3, <2>4, <2>12 DEF SigningTypeOK
  <2>14. ProfileFits' /\ ProfileStored'
    <3>1. \A row \in profile : Truthful(row)'
      BY <2>1, <2>3, <2>4, <2>6 DEF ProfileFits, Truthful
    <3>2. \A o \in file' : o.key \in issued'.uploads
      BY <2>1, <2>3, <2>4, <2>6
    <3>3. ProfileFits'
      BY <2>4, <3>1, <3>2 DEF ProfileFits, Truthful
    <3> QED BY <2>3, <2>4, <3>3 DEF ProfileStored
  <2>15. PortalFits'
    BY <2>4 DEF PortalFits, Linked
  <2>16. LiveCertificateHasKey'
    <3>1. signer[s].pc # "keep"
      BY <1>0, <1>1
    <3> QED BY <2>4, <2>12, <3>1 DEF LiveCertificateHasKey, Signs
  <2> QED BY <2>12, <2>13, <2>14, <2>15, <2>16
<1> QED BY <1>0, <1>2, <1>3 DEF CreateProfile

\* The row that an upsert leaves, and what it means to everybody else.
Kept(made) == IF profile = {} THEN {made}
              ELSE {[made EXCEPT !.id = row.id] : row \in profile}

LEMMA UpsertRow ==
  ASSUME SigningInv, NEW new \in ProfileRow
  PROVE  \E row \in ProfileRow :
           Kept(new) = {row} /\ row.key = new.key /\ row.hash = new.hash
<1>1. CASE profile = {}
  BY <1>1 DEF Kept
<1>2. ASSUME NEW old \in ProfileRow, profile = {old}
      PROVE  \E row \in ProfileRow :
               Kept(new) = {row} /\ row.key = new.key /\ row.hash = new.hash
  <2> DEFINE row == [new EXCEPT !.id = old.id]
  <2>1. row \in ProfileRow /\ row.key = new.key /\ row.hash = new.hash
    BY <1>2 DEF ProfileRow
  <2>2. Kept(new) = {row}
    BY <1>2 DEF Kept
  <2> QED BY <2>1, <2>2
<1> QED BY <1>1, <1>2 DEF SigningInv, ProfileFits

\* The object of nobody else's upload goes, and a row of this upload comes.
LEMMA OthersAfterUpsert ==
  ASSUME SigningInv, NEW s \in Signers, NEW me, me = signer[s], me.pc = "upsert",
         file' = file \/ file' = {o \in file : o.key # me.made.key},
         Keys(profile') = Keys(profile) \/ Keys(profile') = {me.made.key}
  PROVE  \A t \in Signers \ {s} :
           /\ Pending(signer[t]) => Fresh(signer[t].made, file', profile')
           /\ signer[t].pc = "drop" => signer[t].old \cap Keys(profile') = {}
<1> SUFFICES ASSUME NEW t \in Signers \ {s}
             PROVE  /\ Pending(signer[t]) => Fresh(signer[t].made, file', profile')
                    /\ signer[t].pc = "drop" => signer[t].old \cap Keys(profile') = {}
  OBVIOUS
<1>1. Apart(me, signer[t]) /\ Pending(me)
  BY DEF SigningInv, SignersFit, Pending
<1>2. /\ Pending(signer[t]) => Fresh(signer[t].made, file, profile)
      /\ signer[t].pc = "drop" => signer[t].old \cap Keys(profile) = {}
  BY OthersFit
<1>3. Pending(signer[t]) => signer[t].made.key # me.made.key
  BY <1>1 DEF Apart
<1>4. signer[t].pc = "drop" => me.made.key \notin signer[t].old
  BY <1>1 DEF Apart
<1> QED BY <1>2, <1>3, <1>4 DEF Fresh

LEMMA UpsertInv ==
  ASSUME SigningInv, NEW s \in Signers, UpsertProfile(s) \/ UpsertUnheard(s)
  PROVE  SigningInv'
<1> USE DEF SigningInv
<1>0. PICK me : me = signer[s]
  OBVIOUS
<1>1. /\ me.pc = "upsert" /\ me.job \in Job /\ me.cert \in Certs /\ me.made \in ProfileRow
      /\ me.old \subseteq Uploaded
      /\ me \in [pc : {"upsert", "drop"}, job : Job, cert : Certs, made : ProfileRow,
                 old : SUBSET Uploaded]
  BY <1>0, SignerOf, SignerShape DEF UpsertProfile, UpsertUnheard, Signs
<1>2. /\ Truthful(me.made) /\ Fresh(me.made, file, profile)
      /\ me.job.needs \subseteq portal.devices /\ me.job.needs \subseteq me.made.hash
      /\ me.old \subseteq issued.uploads /\ me.made.key \notin me.old
  BY <1>0, <1>1, SignerOf DEF SignerFit, Pending
<1> DEFINE less == {o \in file : o.key # me.made.key}
<1>3. PICK made \in ProfileRow :
        Kept(me.made) = {made} /\ made.key = me.made.key /\ made.hash = me.made.hash
  BY <1>1, UpsertRow
<1>4. /\ UNCHANGED <<portal, certRow, config, roster, revocation, sync, edits, issued, keyless>>
      /\ \/ /\ profile' = {made} /\ file' = file /\ unanswered' = unanswered
            /\ Go(s, [me EXCEPT !.pc = "drop", !.made = made])
         \/ profile' = profile /\ file' = less /\ unanswered' = unanswered /\ Go(s, Over)
         \/ /\ profile' = {made} /\ file' = less /\ Go(s, Over)
            /\ unanswered' = unanswered \cup {me.made.key}
  <2>1. CASE UpsertProfile(s)
    BY <1>0, <1>3, <2>1 DEF Kept, UpsertProfile, helpers, traces
  <2>2. CASE UpsertUnheard(s)
    BY <1>0, <1>3, <2>2 DEF Kept, UpsertUnheard, helpers, traces
  <2> QED BY <2>1, <2>2
<1>5. PICK step : /\ Go(s, step)
                  /\ \/ step = Over
                     \/ profile' = {made} /\ step = [me EXCEPT !.pc = "drop", !.made = made]
  BY <1>4
<1>6. /\ step \in Signer
      /\ \/ step.pc = "over"
         \/ /\ profile' = {made} /\ step.pc = "drop" /\ step.job = me.job /\ step.made = made
            /\ step.old = me.old
  <2>1. CASE step = Over
    BY <2>1 DEF Over, Signer
  <2>2. CASE profile' = {made} /\ step = [me EXCEPT !.pc = "drop", !.made = made]
    <3>1. /\ step \in [pc : {"upsert", "drop"}, job : Job, cert : Certs, made : ProfileRow,
                       old : SUBSET Uploaded]
          /\ step.pc = "drop" /\ step.job = me.job /\ step.made = made /\ step.old = me.old
      BY <1>1, <2>2
    <3> QED BY <2>2, <3>1 DEF Signer
  <2> QED BY <1>5, <2>1, <2>2
<1>7. /\ file' \subseteq file
      /\ file' = file \/ file' = less
      /\ Keys(profile') = Keys(profile) \/ Keys(profile') = {me.made.key}
  BY <1>3, <1>4 DEF Keys
<1>8. Truthful(made)'
  BY <1>2, <1>3, <1>4, <1>7 DEF Truthful
<1>9. SignerFit(step)'
  BY <1>2, <1>3, <1>4, <1>6, <1>8 DEF SignerFit, Pending, Keys
<1>10. \A t \in Signers \ {s} : Apart(step, signer[t]) /\ Apart(signer[t], step)
  <2>1. \A t \in Signers \ {s} : Apart(signer[t], me)
    BY <1>0 DEF SignersFit
  <2> QED BY <1>1, <1>6, <2>1 DEF Apart, Pending
<1>11. \A t \in Signers \ {s} :
         /\ Pending(signer[t]) => Fresh(signer[t].made, file', profile')
         /\ signer[t].pc = "drop" => signer[t].old \cap Keys(profile') = {}
  BY <1>0, <1>1, <1>7, OthersAfterUpsert
<1>12. /\ SignersFit' /\ signer' \in [Signers -> Signer]
       /\ \A t \in Signers \ {s} : signer'[t] = signer[t]
  BY <1>4, <1>5, <1>6, <1>7, <1>9, <1>10, <1>11, SignersMove
<1>13. /\ profile' = {} \/ \E row \in ProfileRow : profile' = {row}
       /\ profile' \subseteq ProfileRow
  BY <1>4 DEF ProfileFits, SigningTypeOK
<1>14. Cardinality(profile') <= 1
  <2>1. CASE profile' = {}
    BY <2>1, FS_EmptySet
  <2>2. ASSUME NEW row \in ProfileRow, profile' = {row} PROVE Cardinality(profile') <= 1
    <3>1. Cardinality({row}) = 1
      BY FS_Singleton
    <3> QED BY <2>2, <3>1
  <2> QED BY <1>13, <2>1, <2>2
<1>15. SigningTypeOK'
  <2>1. file' \subseteq Object /\ unanswered' \subseteq issued'.uploads
    BY <1>2, <1>4, <1>7 DEF SigningTypeOK, Truthful
  <2> QED BY <1>4, <1>12, <1>13, <1>14, <2>1 DEF SigningTypeOK
<1>16. ProfileFits'
  <2>1. \A row \in profile' : Truthful(row)'
    BY <1>4, <1>7, <1>8 DEF ProfileFits, Truthful
  <2> QED BY <1>4, <1>7, <1>13, <2>1 DEF ProfileFits, Truthful
<1>17. ProfileStored'
  <2>1. CASE profile' = {made} /\ file' = file
    BY <1>2, <1>3, <2>1 DEF ProfileStored, Truthful, Fresh
  <2>2. CASE profile' = profile /\ file' = less /\ unanswered' = unanswered
    BY <1>2, <2>2 DEF ProfileStored, Fresh, Keys
  <2>3. CASE profile' = {made} /\ unanswered' = unanswered \cup {me.made.key}
    BY <1>3, <2>3 DEF ProfileStored
  <2> QED BY <1>4, <2>1, <2>2, <2>3
<1>18. PortalFits'
  BY <1>4 DEF PortalFits, Linked
<1>19. LiveCertificateHasKey'
  <2>1. signer[s].pc # "keep"
    BY <1>0, <1>1
  <2> QED BY <1>4, <1>12, <2>1 DEF LiveCertificateHasKey, Signs
<1> QED BY <1>12, <1>15, <1>16, <1>17, <1>18, <1>19

\* The row holds another upload by now than the one that is deleted.
LEMMA DropPreviousInv ==
  ASSUME SigningInv, NEW s \in Signers, DropPrevious(s)
  PROVE  SigningInv'
<1> USE DEF SigningInv
<1>0. PICK me : me = signer[s]
  OBVIOUS
<1> DEFINE step == [pc |-> "bind", job |-> me.job, cert |-> me.cert, made |-> me.made]
<1>1. /\ me.pc = "drop" /\ me.job \in Job /\ me.cert \in Certs /\ me.made \in ProfileRow
  BY <1>0, SignerOf, SignerShape DEF DropPrevious, Signs
<1>2. /\ Truthful(me.made) /\ me.old \cap Keys(profile) = {}
      /\ me.job.needs \subseteq portal.devices /\ me.job.needs \subseteq me.made.hash
  BY <1>0, <1>1, SignerOf DEF SignerFit, Pending
<1>3. /\ file' = {o \in file : o.key \notin me.old} /\ Go(s, step)
      /\ UNCHANGED <<portal, certRow, profile, config, roster, revocation, sync, edits,
                     issued, keyless, unanswered>>
  BY <1>0 DEF DropPrevious, helpers, traces
<1>4. step \in Signer /\ step.pc = "bind" /\ step.job = me.job /\ step.made = me.made
  BY <1>1 DEF Signer
<1> HIDE DEF step
<1>5. \A row : Truthful(row) => Truthful(row)'
  BY <1>3 DEF Truthful
<1>6. SignerFit(step)'
  BY <1>2, <1>3, <1>4, <1>5 DEF SignerFit, Pending
<1>7. \A t \in Signers \ {s} : Apart(step, signer[t]) /\ Apart(signer[t], step)
  BY <1>4 DEF Apart, Pending
<1>8. ASSUME NEW t \in Signers \ {s}
      PROVE  /\ Pending(signer[t]) => Fresh(signer[t].made, file', profile')
             /\ signer[t].pc = "drop" => signer[t].old \cap Keys(profile') = {}
  <2>1. Pending(signer[t]) => signer[t].made.key \notin me.old
    BY <1>0, <1>1 DEF SignersFit, Apart
  <2> QED BY <1>3, <2>1, OthersFit DEF Fresh
<1>9. /\ SignersFit' /\ signer' \in [Signers -> Signer]
      /\ \A t \in Signers \ {s} : signer'[t] = signer[t]
  BY <1>3, <1>4, <1>6, <1>7, <1>8, SignersMove
<1>10. SigningTypeOK'
  BY <1>3, <1>9 DEF SigningTypeOK
<1>11. ProfileFits'
  <2>1. \A row \in profile : Truthful(row)'
    BY <1>5 DEF ProfileFits
  <2> QED BY <1>3, <2>1 DEF ProfileFits, Truthful
<1>12. ProfileStored'
  BY <1>2, <1>3 DEF ProfileStored, Keys
<1>13. PortalFits'
  BY <1>3 DEF PortalFits, Linked
<1>14. LiveCertificateHasKey'
  <2>1. signer[s].pc # "keep"
    BY <1>0, <1>1
  <2> QED BY <1>3, <1>9, <2>1 DEF LiveCertificateHasKey, Signs
<1> QED BY <1>9, <1>10, <1>11, <1>12, <1>13, <1>14

\* A build that regenerated its profile goes on with the upload it made.
LEMMA BindConfigurationInv ==
  ASSUME SigningInv, NEW s \in Signers, BindConfiguration(s)
  PROVE  SigningInv'
<1> USE DEF SigningInv
<1>0. PICK me : me = signer[s]
  OBVIOUS
<1>1. /\ me.pc = "bind" /\ me.job \in Job /\ me.cert \in Certs /\ me.made \in ProfileRow
  BY <1>0, SignerOf, SignerShape DEF BindConfiguration, Signs
<1>2. /\ Truthful(me.made)
      /\ me.job.needs \subseteq portal.devices
      /\ me.job.stage # "recheck" => me.job.needs \subseteq me.made.hash
  BY <1>0, <1>1, SignerOf DEF SignerFit, Pending
<1> DEFINE p == me.job.project
           job == [me.job EXCEPT !.key = me.made.key]
           go == [pc |-> "configuration", job |-> job]
           bound == IF me.job.stage = "recheck"
                    THEN {[cert |-> me.cert, profile |-> me.made.id]}
                    ELSE {[b EXCEPT !.profile = me.made.id] : b \in config[p]}
<1>3. job \in Job /\ job.stage = me.job.stage /\ job.needs = me.job.needs /\ job.key = me.made.key
  BY <1>1 DEF Job, ProfileRow
<1>4. /\ UNCHANGED <<portal, certRow, profile, file, roster, revocation, sync, edits,
                     issued, keyless, unanswered>>
      /\ config' = config \/ (bound # {} /\ config' = [config EXCEPT ![p] = bound])
  BY <1>0 DEF BindConfiguration, helpers, traces
<1>5. PICK step : Go(s, step) /\ (step = Over \/ step = go)
  BY <1>0 DEF BindConfiguration
<1>6. bound \in {{}} \cup {{b} : b \in Binding}
  <2>1. config[p] \in {{}} \cup {{b} : b \in Binding} /\ me.made.id \in Uploaded
    BY <1>1 DEF SigningTypeOK, Job, ProfileRow
  <2>2. CASE me.job.stage = "recheck"
    <3>1. [cert |-> me.cert, profile |-> me.made.id] \in Binding
      BY <1>1, <2>1 DEF Binding
    <3> QED BY <2>2, <3>1
  <2>3. CASE me.job.stage # "recheck" /\ config[p] = {}
    BY <2>3
  <2>4. ASSUME me.job.stage # "recheck", NEW b \in Binding, config[p] = {b}
        PROVE  bound \in {{}} \cup {{c} : c \in Binding}
    <3>1. [b EXCEPT !.profile = me.made.id] \in Binding
      BY <2>1 DEF Binding
    <3>2. bound = {[b EXCEPT !.profile = me.made.id]}
      BY <2>4
    <3> QED BY <3>1, <3>2
  <2> QED BY <2>1, <2>2, <2>3, <2>4
<1>7. config' \in [Projects -> {{}} \cup {{b} : b \in Binding}]
  <2> HIDE DEF bound
  <2> QED BY <1>4, <1>6 DEF SigningTypeOK
<1> HIDE DEF job
<1>8. /\ step \in Signer
      /\ step.pc = "over" \/ (step.pc = "configuration" /\ step.job = job)
  <2>1. Over \in Signer /\ Over.pc = "over"
    BY DEF Over, Signer
  <2>2. go \in Signer /\ go.pc = "configuration" /\ go.job = job
    BY <1>3 DEF Signer
  <2> QED BY <1>5, <2>1, <2>2
<1> HIDE DEF go, bound
<1>9. job.stage = "download" => Covers(job)'
  BY <1>2, <1>3, <1>4 DEF Covers, Truthful
<1>10. SignerFit(step)'
  <2>1. step.pc = "configuration" => step.job.needs \subseteq portal'.devices
    BY <1>2, <1>3, <1>4, <1>8
  <2>2. step.pc = "configuration" /\ step.job.stage = "download" => Covers(step.job)'
    BY <1>8, <1>9 DEF Covers
  <2> QED BY <1>8, <2>1, <2>2 DEF SignerFit, Pending
<1>11. \A t \in Signers \ {s} : Apart(step, signer[t]) /\ Apart(signer[t], step)
  BY <1>8 DEF Apart, Pending
<1>12. /\ SignersFit' /\ signer' \in [Signers -> Signer]
       /\ \A t \in Signers \ {s} : signer'[t] = signer[t]
  BY <1>4, <1>5, <1>8, <1>10, <1>11, OthersFit, SignersMove
<1>13. SigningTypeOK'
  BY <1>4, <1>7, <1>12 DEF SigningTypeOK
<1>14. ProfileFits' /\ PortalFits' /\ ProfileStored'
  BY <1>4 DEF ProfileFits, PortalFits, ProfileStored, Truthful, Linked
<1>15. LiveCertificateHasKey'
  <2>1. signer[s].pc # "keep"
    BY <1>0, <1>1
  <2> QED BY <1>4, <1>12, <2>1 DEF LiveCertificateHasKey, Signs
<1> QED BY <1>12, <1>13, <1>14, <1>15

(***************************************************************************)
(* Signing: the revocation, the device sync, the dashboard.                *)
(***************************************************************************)

\* Steps that touch neither the profile nor any command.
LEMMA AsideInv ==
  ASSUME SigningInv, UNCHANGED <<signer, profile, file, issued, unanswered>>,
         portal.devices \subseteq portal'.devices
  PROVE  SignersFit' /\ ProfileFits' /\ ProfileStored'
<1> USE DEF SigningInv
<1>1. SignersFit'
  BY OthersFit, SignersStay
<1>2. ProfileFits' /\ ProfileStored'
  BY DEF ProfileFits, ProfileStored, Truthful
<1> QED BY <1>1, <1>2

LEMMA ForgetCertTyped ==
  ASSUME SigningInv, NEW c, ForgetCert(c)
  PROVE  /\ certRow' = certRow \ {c}
         /\ config' \in [Projects -> {{}} \cup {{b} : b \in Binding}]
<1> DEFINE sans(b) == IF b.cert = c THEN [b EXCEPT !.cert = NoCert] ELSE b
<1>1. \A b \in Binding : sans(b) \in Binding
  BY DEF Binding
<1>2. ASSUME NEW p \in Projects
      PROVE  {sans(b) : b \in config[p]} \in {{}} \cup {{b} : b \in Binding}
  <2>1. CASE config[p] = {}
    BY <2>1
  <2>2. ASSUME NEW b \in Binding, config[p] = {b}
        PROVE  {sans(d) : d \in config[p]} \in {{}} \cup {{d} : d \in Binding}
    <3>1. {sans(d) : d \in config[p]} = {sans(b)}
      BY <2>2
    <3> QED BY <1>1, <3>1
  <2>3. config[p] \in {{}} \cup {{b} : b \in Binding}
    BY DEF SigningInv, SigningTypeOK
  <2> QED BY <2>1, <2>2, <2>3
<1>3. certRow' = certRow \ {c} /\ config' = [p \in Projects |-> {sans(b) : b \in config[p]}]
  BY DEF ForgetCert
<1> HIDE DEF sans
<1> QED BY <1>2, <1>3

LEMMA StartRevokeInv ==
  ASSUME SigningInv, NEW c \in Certs, NEW keep \in BOOLEAN, StartRevoke(c, keep)
  PROVE  SigningInv'
<1> USE DEF SigningInv
<1> DEFINE step == [pc |-> "apple", cert |-> c, keep |-> keep]
<1>1. /\ UNCHANGED <<portal, certRow, config, keyless, profile, file, roster, signer, sync,
                     issued, unanswered>>
      /\ revocation' = step /\ edits' \in 0..MaxEdits
  BY SigningAssumption DEF StartRevoke, FromRevocation, Edit, SigningTypeOK
<1>2. /\ step \in [pc : {"apple", "local"}, cert : Certs, keep : BOOLEAN]
      /\ step.pc # "local" /\ step.cert = c
  OBVIOUS
<1> HIDE DEF step
<1>3. SignersFit' /\ ProfileFits' /\ ProfileStored'
  BY <1>1, AsideInv
<1>4. SigningTypeOK'
  BY <1>1, <1>2 DEF SigningTypeOK
<1>5. c \in issued.certs
  BY DEF StartRevoke, SigningTypeOK
<1>6. PortalFits' /\ LiveCertificateHasKey'
  BY <1>1, <1>2, <1>5 DEF PortalFits, Linked, LiveCertificateHasKey, Signs
<1> QED BY <1>3, <1>4, <1>6

\* The certificate goes at Apple; only then may it be forgotten.
LEMMA RevokeAtAppleInv ==
  ASSUME SigningInv, RevokeAtApple
  PROVE  SigningInv'
<1> USE DEF SigningInv
<1>1. PICK r : r = revocation
  OBVIOUS
<1>2. r.pc = "apple" /\ r \in [pc : {"apple", "local"}, cert : Certs, keep : BOOLEAN]
  BY <1>1 DEF RevokeAtApple, SigningTypeOK, AtRest
<1> DEFINE step == IF r.keep THEN AtRest ELSE [r EXCEPT !.pc = "local"]
<1>3. /\ portal' \in [certs : SUBSET Certs, devices : SUBSET Udids]
      /\ portal'.certs = portal.certs \ {r.cert} /\ portal'.devices = portal.devices
      /\ UNCHANGED <<certRow, config, keyless, profile, file, roster, signer, sync, edits,
                     issued, unanswered>>
      /\ revocation' = step
  BY <1>1 DEF RevokeAtApple, FromRevocation, SigningTypeOK
<1>4. /\ step \in {AtRest} \cup [pc : {"apple", "local"}, cert : Certs, keep : BOOLEAN]
      /\ step.pc \in {"apple", "local"} => step.cert = r.cert
  BY <1>2 DEF AtRest
<1> HIDE DEF step
<1>5. SignersFit' /\ ProfileFits' /\ ProfileStored'
  BY <1>3, AsideInv
<1>6. IsFiniteSet(portal'.certs) /\ Cardinality(portal'.certs) <= CertLimit
  <2>1. /\ IsFiniteSet(portal'.certs)
        /\ Cardinality(portal'.certs) <= Cardinality(portal.certs)
        /\ Cardinality(portal.certs) \in Nat /\ Cardinality(portal'.certs) \in Nat
        /\ Cardinality(portal.certs) <= CertLimit /\ CertLimit \in Nat
    <3>1. IsFiniteSet(portal.certs) /\ portal'.certs \subseteq portal.certs
      BY <1>3 DEF PortalFits
    <3> QED BY <3>1, FS_Subset, FS_CardinalityType, SigningAssumption DEF SigningTypeOK
  <2> QED BY <2>1
<1>7. SigningTypeOK'
  BY <1>3, <1>4, <1>6 DEF SigningTypeOK
<1>8. PortalFits'
  <2>1. /\ step.pc \in {"apple", "local"} => step.cert \in issued.certs
        /\ step.pc = "local" => step.cert \notin portal'.certs
    BY <1>1, <1>2, <1>3, <1>4 DEF PortalFits
  <2> QED BY <1>3, <1>6, <2>1 DEF PortalFits, Linked
<1>9. LiveCertificateHasKey'
  BY <1>3 DEF LiveCertificateHasKey, Signs
<1> QED BY <1>5, <1>7, <1>8, <1>9

LEMMA RevokeLocallyInv ==
  ASSUME SigningInv, RevokeLocally
  PROVE  SigningInv'
<1> USE DEF SigningInv
<1>1. PICK c : c = revocation.cert
  OBVIOUS
<1>2. ForgetCert(c) /\ revocation.pc = "local"
  BY <1>1 DEF RevokeLocally
<1>3. /\ UNCHANGED <<portal, edits, keyless, profile, file, roster, signer, sync, issued, unanswered>>
      /\ revocation' = AtRest
  BY DEF RevokeLocally, FromRevocation
<1>4. /\ certRow' = certRow \ {c}
      /\ config' \in [Projects -> {{}} \cup {{b} : b \in Binding}]
  BY <1>2, ForgetCertTyped
<1>5. SignersFit' /\ ProfileFits' /\ ProfileStored'
  BY <1>3, AsideInv
<1>6. SigningTypeOK'
  BY <1>3, <1>4 DEF SigningTypeOK
<1>7. PortalFits'
  BY <1>3 DEF PortalFits, Linked, AtRest
<1>8. c \notin portal.certs
  BY <1>1, <1>2 DEF PortalFits
<1>9. LiveCertificateHasKey'
  BY <1>3, <1>4, <1>8 DEF LiveCertificateHasKey, Signs
<1> QED BY <1>5, <1>6, <1>7, <1>9

LEMMA RevokeDiesInv ==
  ASSUME SigningInv, RevokeDies
  PROVE  SigningInv'
<1> USE DEF SigningInv
<1>1. /\ UNCHANGED <<portal, certRow, config, edits, keyless, profile, file, roster, signer, sync,
                     issued, unanswered>>
      /\ revocation' = AtRest
  BY DEF RevokeDies, FromRevocation
<1>2. SignersFit' /\ ProfileFits' /\ ProfileStored'
  BY <1>1, AsideInv
<1>3. SigningTypeOK'
  BY <1>1 DEF SigningTypeOK
<1>4. PortalFits' /\ LiveCertificateHasKey'
  BY <1>1 DEF PortalFits, Linked, AtRest, LiveCertificateHasKey, Signs
<1> QED BY <1>2, <1>3, <1>4

\* What a step of the device sync, or of the roster, must show.
SyncOK == sync \in {AtRest} \cup [pc : {"push", "read"}, apple : SUBSET Udids]
                            \cup [pc : {"write"}, known : SUBSET Udids, left : SUBSET Udids]

LEMMA DevicesInv ==
  ASSUME SigningInv,
         UNCHANGED <<certRow, profile, file, config, signer, revocation, issued, keyless, unanswered>>,
         edits' \in 0..MaxEdits,
         portal' \in [certs : SUBSET Certs, devices : SUBSET Udids],
         portal'.certs = portal.certs, portal.devices \subseteq portal'.devices,
         roster' \in [Udids -> {"absent", "local", "linked"}],
         \A d \in Udids : roster'[d] = "linked" => d \in portal'.devices,
         SyncOK',
         sync'.pc \in {"push", "read"} => sync'.apple \subseteq portal'.devices,
         sync'.pc = "write" => sync'.left \subseteq portal'.devices
  PROVE  SigningInv'
<1> USE DEF SigningInv
<1>1. SignersFit' /\ ProfileFits' /\ ProfileStored'
  BY AsideInv
<1>2. SigningTypeOK'
  BY DEF SigningTypeOK, SyncOK
<1>3. PortalFits' /\ LiveCertificateHasKey'
  BY DEF PortalFits, Linked, LiveCertificateHasKey, Signs
<1> QED BY <1>1, <1>2, <1>3

LEMMA DevicesKnown ==
  ASSUME SigningInv
  PROVE  /\ portal \in [certs : SUBSET Certs, devices : SUBSET Udids]
         /\ roster \in [Udids -> {"absent", "local", "linked"}]
         /\ \A d \in Udids : roster[d] = "linked" => d \in portal.devices
         /\ SyncOK
         /\ sync.pc \in {"push", "read"} => sync.apple \subseteq portal.devices
         /\ sync.pc = "write" => sync.left \subseteq portal.devices
         /\ edits \in 0..MaxEdits
BY DEF SigningInv, SigningTypeOK, PortalFits, Linked, SyncOK

LEMMA SyncShape ==
  ASSUME SigningInv
  PROVE  /\ sync.pc \in {"push", "read"} => sync.apple \subseteq Udids
         /\ sync.pc = "write" =>
              sync \in [pc : {"write"}, known : SUBSET Udids, left : SUBSET Udids]
BY DevicesKnown DEF SyncOK, AtRest

LEMMA StartSyncInv ==
  ASSUME SigningInv, StartSync
  PROVE  SigningInv'
<1> DEFINE step == [pc |-> "push", apple |-> portal.devices]
<1>1. /\ UNCHANGED <<portal, roster, certRow, profile, file, config, signer, revocation, issued,
                     keyless, unanswered>>
      /\ sync' = step /\ edits' \in 0..MaxEdits
  BY DevicesKnown, SigningAssumption DEF StartSync, FromSync, Edit, stored, traces
<1>2. /\ step \in [pc : {"push", "read"}, apple : SUBSET Udids]
      /\ step.pc = "push" /\ step.apple = portal.devices
  BY DevicesKnown
<1> HIDE DEF step
<1>3. SyncOK'
  BY <1>1, <1>2 DEF SyncOK
<1> QED BY <1>1, <1>2, <1>3, DevicesKnown, DevicesInv

LEMMA PushDevicesInv ==
  ASSUME SigningInv, NEW pull \in BOOLEAN, PushDevices(pull)
  PROVE  SigningInv'
<1>1. PICK local \in SUBSET Udids : local = {d \in Udids : roster[d] # "absent"}
  OBVIOUS
<1>2. PICK pushed \in SUBSET (local \ portal.devices) :
        /\ portal' = [portal EXCEPT !.devices = @ \cup pushed]
        /\ FromSync([pc |-> "read", apple |-> IF pull THEN sync.apple \cup pushed
                                              ELSE (sync.apple \cup pushed) \cap local])
  BY <1>1 DEF PushDevices
<1>3. PICK apple : apple = IF pull THEN sync.apple \cup pushed
                           ELSE (sync.apple \cup pushed) \cap local
  OBVIOUS
<1> DEFINE step == [pc |-> "read", apple |-> apple]
<1>4. sync.pc = "push" /\ sync.apple \subseteq portal.devices /\ sync.apple \subseteq Udids
  BY DevicesKnown, SyncShape DEF PushDevices
<1>5. /\ portal' \in [certs : SUBSET Certs, devices : SUBSET Udids]
      /\ portal'.certs = portal.certs /\ portal'.devices = portal.devices \cup pushed
  BY <1>1, <1>2, DevicesKnown
<1>6. /\ UNCHANGED <<roster, edits, certRow, profile, file, config, signer, revocation, issued,
                     keyless, unanswered>>
      /\ sync' = step
  BY <1>2, <1>3 DEF PushDevices, FromSync, stored, traces
<1>7. apple \subseteq portal'.devices /\ apple \subseteq Udids
  BY <1>1, <1>3, <1>4, <1>5
<1>8. /\ step \in [pc : {"push", "read"}, apple : SUBSET Udids]
      /\ step.pc = "read" /\ step.apple = apple
  BY <1>7
<1> HIDE DEF step
<1>9. SyncOK'
  BY <1>6, <1>8 DEF SyncOK
<1>10. \A d \in Udids : roster'[d] = "linked" => d \in portal'.devices
  BY <1>5, <1>6, DevicesKnown
<1> QED BY <1>5, <1>6, <1>7, <1>8, <1>9, <1>10, DevicesKnown, DevicesInv

LEMMA ReadRosterInv ==
  ASSUME SigningInv, ReadRoster
  PROVE  SigningInv'
<1>1. PICK left : left = sync.apple \ Linked
  OBVIOUS
<1>2. PICK known \in SUBSET Udids : known = {d \in Udids : roster[d] # "absent"}
  OBVIOUS
<1> DEFINE next == [pc |-> "write", known |-> known, left |-> left]
           step == IF left = {} THEN AtRest ELSE next
<1>3. left \subseteq Udids /\ left \subseteq portal.devices
  BY <1>1, DevicesKnown, SyncShape DEF ReadRoster
<1>4. /\ UNCHANGED <<portal, roster, edits, certRow, profile, file, config, signer, revocation,
                     issued, keyless, unanswered>>
      /\ sync' = step
  BY <1>1, <1>2 DEF ReadRoster, FromSync, stored, traces
<1>5. /\ next \in [pc : {"write"}, known : SUBSET Udids, left : SUBSET Udids]
      /\ next.pc = "write" /\ next.left = left
  BY <1>3
<1>6. AtRest.pc = "rest"
  BY DEF AtRest
<1> HIDE DEF next
<1>7. SyncOK'
  BY <1>4, <1>5 DEF SyncOK
<1>8. /\ sync'.pc \notin {"push", "read"}
      /\ sync'.pc = "write" => sync'.left \subseteq portal'.devices
  BY <1>3, <1>4, <1>5, <1>6
<1> QED BY <1>4, <1>7, <1>8, DevicesKnown, DevicesInv

LEMMA WriteDeviceInv ==
  ASSUME SigningInv, NEW d \in Udids, WriteDevice(d)
  PROVE  SigningInv'
<1>1. PICK next : next = [sync EXCEPT !.left = @ \ {d}]
  OBVIOUS
<1>2. /\ sync.pc = "write" /\ d \in sync.left /\ sync.left \subseteq portal.devices
      /\ sync \in [pc : {"write"}, known : SUBSET Udids, left : SUBSET Udids]
  BY DevicesKnown, SyncShape DEF WriteDevice
<1>3. /\ next \in [pc : {"write"}, known : SUBSET Udids, left : SUBSET Udids]
      /\ next.pc = "write" /\ next.left \subseteq sync.left
  BY <1>1, <1>2
<1>4. /\ UNCHANGED <<portal, edits, certRow, profile, file, config, signer, revocation,
                     issued, keyless, unanswered>>
      /\ roster' = roster \/ roster' = [roster EXCEPT ![d] = "linked"]
      /\ sync' = AtRest \/ sync' = next
  <2>1. PICK rest : /\ rest = IF sync.left = {d} THEN AtRest ELSE [sync EXCEPT !.left = @ \ {d}]
                    /\ rest = AtRest \/ rest = next
    BY <1>1
  <2>2. CASE (d \in sync.known) = (roster[d] # "absent")
    <3>1. roster' = [roster EXCEPT ![d] = "linked"] /\ FromSync(rest)
      BY <2>1, <2>2 DEF WriteDevice
    <3> QED BY <2>1, <3>1 DEF WriteDevice, FromSync, stored, traces
  <2>3. CASE d \in sync.known /\ roster[d] = "absent"
    <3>1. UNCHANGED roster /\ FromSync(rest)
      BY <2>1, <2>3 DEF WriteDevice
    <3> QED BY <2>1, <3>1 DEF WriteDevice, FromSync, stored, traces
  <2>4. CASE d \notin sync.known /\ roster[d] # "absent"
    <3>1. UNCHANGED roster /\ FromSync(AtRest)
      BY <2>4 DEF WriteDevice
    <3> QED BY <3>1 DEF WriteDevice, FromSync, stored, traces
  <2> QED BY <2>2, <2>3, <2>4
<1>5. AtRest.pc = "rest"
  BY DEF AtRest
<1>6. SyncOK'
  BY <1>3, <1>4 DEF SyncOK
<1>7. /\ sync'.pc \notin {"push", "read"}
      /\ sync'.pc = "write" => sync'.left \subseteq portal'.devices
  BY <1>2, <1>3, <1>4, <1>5
<1>8. /\ roster' \in [Udids -> {"absent", "local", "linked"}]
      /\ \A e \in Udids : roster'[e] = "linked" => e \in portal'.devices
  BY <1>2, <1>4, DevicesKnown
<1> QED BY <1>4, <1>6, <1>7, <1>8, DevicesKnown, DevicesInv

LEMMA SyncDiesInv ==
  ASSUME SigningInv, SyncDies
  PROVE  SigningInv'
<1>1. /\ UNCHANGED <<portal, roster, edits, certRow, profile, file, config, signer, revocation,
                     issued, keyless, unanswered>>
      /\ sync' = AtRest
  BY DEF SyncDies, FromSync, stored, traces
<1>2. SyncOK' /\ sync'.pc = "rest"
  BY <1>1 DEF SyncOK, AtRest
<1> QED BY <1>1, <1>2, DevicesKnown, DevicesInv

LEMMA DeviceEditInv ==
  ASSUME SigningInv, NEW d \in Udids, RegisterDevice(d) \/ DeleteDevice(d) \/ RegisterAtApple(d)
  PROVE  SigningInv'
<1>1. /\ UNCHANGED <<sync, certRow, profile, file, config, signer, revocation,
                     issued, keyless, unanswered>>
      /\ edits' \in 0..MaxEdits
  BY DevicesKnown, SigningAssumption
     DEF RegisterDevice, DeleteDevice, RegisterAtApple, Edit, stored, helpers, traces
<1>2. SyncOK'
  BY <1>1, DevicesKnown DEF SyncOK
<1>3. CASE RegisterAtApple(d)
  <2>1. /\ roster' = roster /\ portal' \in [certs : SUBSET Certs, devices : SUBSET Udids]
        /\ portal'.certs = portal.certs /\ portal'.devices = portal.devices \cup {d}
    BY <1>3, DevicesKnown DEF RegisterAtApple
  <2> QED BY <1>1, <1>2, <2>1, DevicesKnown, DevicesInv
<1>4. CASE RegisterDevice(d) \/ DeleteDevice(d)
  <2>1. portal' = portal /\ \E known \in {"local", "absent"} : roster' = [roster EXCEPT ![d] = known]
    BY <1>4 DEF RegisterDevice, DeleteDevice
  <2>2. /\ roster' \in [Udids -> {"absent", "local", "linked"}]
        /\ \A e \in Udids : roster'[e] = "linked" => e \in portal'.devices
    BY <2>1, DevicesKnown
  <2> QED BY <1>1, <1>2, <2>1, <2>2, DevicesKnown, DevicesInv
<1> QED BY <1>3, <1>4

LEMMA DeleteCertificateInv ==
  ASSUME SigningInv, NEW c \in Certs, DeleteCertificate(c)
  PROVE  SigningInv'
<1> USE DEF SigningInv
<1>1. /\ UNCHANGED <<portal, profile, file, roster, signer, revocation, sync, issued, unanswered>>
      /\ keyless' = keyless \cup {c} /\ edits' \in 0..MaxEdits /\ c \in certRow
  BY SigningAssumption DEF DeleteCertificate, helpers, Edit, SigningTypeOK
<1>2. /\ certRow' = certRow \ {c}
      /\ config' \in [Projects -> {{}} \cup {{b} : b \in Binding}]
  BY ForgetCertTyped DEF DeleteCertificate
<1>3. SignersFit' /\ ProfileFits' /\ ProfileStored'
  BY <1>1, AsideInv
<1>4. SigningTypeOK'
  BY <1>1, <1>2 DEF SigningTypeOK
<1>5. PortalFits'
  BY <1>1 DEF PortalFits, Linked
<1>6. LiveCertificateHasKey'
  BY <1>1, <1>2 DEF LiveCertificateHasKey, Signs
<1> QED BY <1>3, <1>4, <1>5, <1>6

\* Only the object of the row goes, if any: a pending upload keeps its own.
LEMMA DeleteProfileInv ==
  ASSUME SigningInv, NEW row \in profile, DeleteProfile(row)
  PROVE  SigningInv'
<1> USE DEF SigningInv
<1>1. /\ profile' = {} /\ file' \subseteq file
      /\ file' = file \/ file' = {o \in file : o.key # row.key}
      /\ UNCHANGED <<portal, certRow, roster, signer, revocation, sync, issued, keyless, unanswered>>
      /\ edits' \in 0..MaxEdits
  BY SigningAssumption DEF DeleteProfile, helpers, traces, Edit, SigningTypeOK
<1>2. config' \in [Projects -> {{}} \cup {{b} : b \in Binding}]
  <2> DEFINE sans(b) == [b EXCEPT !.profile = NoProfile]
  <2>1. \A b \in Binding : sans(b) \in Binding
    BY DEF Binding
  <2>2. ASSUME NEW p \in Projects
        PROVE  {sans(b) : b \in config[p]} \in {{}} \cup {{b} : b \in Binding}
    <3>1. CASE config[p] = {}
      BY <3>1
    <3>2. ASSUME NEW b \in Binding, config[p] = {b}
          PROVE  {sans(d) : d \in config[p]} \in {{}} \cup {{d} : d \in Binding}
      <4>1. {sans(d) : d \in config[p]} = {sans(b)}
        BY <3>2
      <4> QED BY <2>1, <4>1
    <3>3. config[p] \in {{}} \cup {{b} : b \in Binding}
      BY DEF SigningTypeOK
    <3> QED BY <3>1, <3>2, <3>3
  <2>3. config' = [p \in Projects |-> {sans(b) : b \in config[p]}]
    BY DEF DeleteProfile
  <2> HIDE DEF sans
  <2> QED BY <2>2, <2>3
<1>3. row.key \in Keys(profile) /\ Keys(profile') = {}
  BY <1>1 DEF Keys
<1>4. \A t \in Signers :
        /\ Pending(signer[t]) => Fresh(signer[t].made, file', profile')
        /\ signer[t].pc = "drop" => signer[t].old \cap Keys(profile') = {}
  BY <1>1, <1>3, OthersFit DEF Fresh
<1>5. SignersFit'
  BY <1>1, <1>4, SignersStay
<1>6. SigningTypeOK'
  BY <1>1, <1>2, FS_EmptySet DEF SigningTypeOK
<1>7. ProfileFits' /\ ProfileStored'
  BY <1>1 DEF ProfileFits, ProfileStored
<1>8. PortalFits' /\ LiveCertificateHasKey'
  BY <1>1 DEF PortalFits, Linked, LiveCertificateHasKey, Signs
<1> QED BY <1>5, <1>6, <1>7, <1>8

LEMMA DeleteConfigurationInv ==
  ASSUME SigningInv, NEW p \in Projects, DeleteConfiguration(p)
  PROVE  SigningInv'
<1> USE DEF SigningInv
<1>1. /\ UNCHANGED <<portal, certRow, profile, file, roster, signer, revocation, sync, issued,
                     keyless, unanswered>>
      /\ edits' \in 0..MaxEdits
      /\ config' = [config EXCEPT ![p] = {}]
  BY SigningAssumption DEF DeleteConfiguration, helpers, traces, Edit, SigningTypeOK
<1>2. SignersFit' /\ ProfileFits' /\ ProfileStored'
  BY <1>1, AsideInv
<1>3. SigningTypeOK'
  BY <1>1 DEF SigningTypeOK
<1>4. PortalFits' /\ LiveCertificateHasKey'
  BY <1>1 DEF PortalFits, Linked, LiveCertificateHasKey, Signs
<1> QED BY <1>2, <1>3, <1>4

(***************************************************************************)
(* Signing: the invariant, and what it gives.                              *)
(***************************************************************************)

\* Nothing is set up, or one certificate and one profile are, together.
LEMMA SigningStart ==
  ASSUME SigningInit
  PROVE  SigningInv
<1>1. /\ roster \in [Udids -> {"absent", "local", "linked"}] /\ Linked \subseteq Udids
      /\ signer = [s \in Signers |-> AtRest]
      /\ revocation = AtRest /\ sync = AtRest /\ edits \in 0..MaxEdits
      /\ keyless = {} /\ unanswered = {}
  BY SigningAssumption DEF SigningInit, Linked
<1>2. AtRest.pc = "rest" /\ AtRest \in Signer
  BY DEF AtRest, Signer
<1>3. \A s \in Signers : signer[s] = AtRest
  BY <1>1
<1>4. SignersFit
  BY <1>2, <1>3 DEF SignersFit, SignerFit, Apart, Pending
<1>5. PICK apple \in SUBSET Udids :
        /\ Linked \subseteq apple
        /\ \/ /\ portal = [certs |-> {}, devices |-> apple]
              /\ certRow = {} /\ profile = {} /\ file = {}
              /\ config = [p \in Projects |-> {}]
              /\ issued = [uploads |-> {}, certs |-> {}]
           \/ \E c \in Certs, k \in Uploaded, hash \in SUBSET apple \ {{}} :
                /\ portal = [certs |-> {c}, devices |-> apple]
                /\ certRow = {c}
                /\ profile = {[id |-> k, key |-> k, hash |-> hash]}
                /\ file = {[key |-> k, cert |-> c, devices |-> hash]}
                /\ config = [p \in Projects |-> {[cert |-> c, profile |-> k]}]
                /\ issued = [uploads |-> {k}, certs |-> {c}]
  BY DEF SigningInit
<1>6. Cardinality({}) = 0 /\ IsFiniteSet({}) /\ CertLimit \in Nat /\ CertLimit >= 1
  BY FS_EmptySet, SigningAssumption
<1>7. CASE /\ portal = [certs |-> {}, devices |-> apple]
           /\ certRow = {} /\ profile = {} /\ file = {}
           /\ config = [p \in Projects |-> {}]
           /\ issued = [uploads |-> {}, certs |-> {}]
  <2>1. SigningTypeOK
    BY <1>1, <1>2, <1>5, <1>6, <1>7 DEF SigningTypeOK
  <2>2. ProfileFits /\ PortalFits /\ ProfileStored /\ LiveCertificateHasKey
    BY <1>1, <1>2, <1>5, <1>6, <1>7 DEF ProfileFits, PortalFits, ProfileStored, LiveCertificateHasKey
  <2> QED BY <1>4, <2>1, <2>2 DEF SigningInv
<1>8. ASSUME NEW c \in Certs, NEW k \in Uploaded, NEW hash \in SUBSET apple,
             portal = [certs |-> {c}, devices |-> apple],
             certRow = {c},
             profile = {[id |-> k, key |-> k, hash |-> hash]},
             file = {[key |-> k, cert |-> c, devices |-> hash]},
             config = [p \in Projects |-> {[cert |-> c, profile |-> k]}],
             issued = [uploads |-> {k}, certs |-> {c}]
      PROVE  SigningInv
  <2>1. PICK row \in ProfileRow : row = [id |-> k, key |-> k, hash |-> hash]
    BY <1>5 DEF ProfileRow
  <2>2. PICK sent \in Object : sent = [key |-> k, cert |-> c, devices |-> hash]
    BY <1>5 DEF Object
  <2>3. PICK b \in Binding : b = [cert |-> c, profile |-> k]
    BY DEF Binding
  <2>4. profile = {row} /\ file = {sent} /\ config = [p \in Projects |-> {b}]
    BY <1>8, <2>1, <2>2, <2>3
  <2>5. /\ row.key = k /\ row.hash = hash /\ sent.key = k /\ sent.devices = hash
        /\ issued.uploads = {k} /\ issued.certs = {c}
        /\ portal.certs = {c} /\ portal.devices = apple
    BY <1>8, <2>1, <2>2
  <2>6. /\ Cardinality(portal.certs) = 1 /\ Cardinality(profile) = 1
        /\ IsFiniteSet(portal.certs)
    <3>1. \A x : IsFiniteSet({x}) /\ Cardinality({x}) = 1
      BY FS_Singleton
    <3> QED BY <2>4, <2>5, <3>1
  <2>7. SigningTypeOK
    <3>1. /\ portal \in [certs : SUBSET Certs, devices : SUBSET Udids]
          /\ issued \in [uploads : SUBSET Uploaded, certs : SUBSET Certs]
      BY <1>8
    <3>2. config \in [Projects -> {{}} \cup {{d} : d \in Binding}]
      BY <2>4
    <3> QED BY <1>1, <1>2, <1>6, <1>8, <2>4, <2>5, <2>6, <3>1, <3>2 DEF SigningTypeOK
  <2>8. ProfileFits /\ ProfileStored
    BY <2>4, <2>5 DEF ProfileFits, Truthful, ProfileStored
  <2>9. PortalFits /\ LiveCertificateHasKey
    BY <1>1, <1>2, <1>5, <1>8, <2>5, <2>6 DEF PortalFits, LiveCertificateHasKey
  <2> QED BY <1>4, <2>7, <2>8, <2>9 DEF SigningInv
<1> QED BY <1>5, <1>7, <1>8

LEMMA SignerStepInv ==
  ASSUME SigningInv, NEW s \in Signers, SignerStep(s)
  PROVE  SigningInv'
BY StartInv, SignerDiesInv, LoadConfigurationInv, LoadRowsInv, CheckProfileStaleInv,
   FetchArtifactInv, PickCertificateInv, IssueCertificateInv, RevokeSomeInv, KeepCertificateInv,
   ChooseProfileInv, FindBoundConfigInv, ListAppleDevicesInv, CreateProfileInv, ReadPreviousInv,
   UpsertInv, DropPreviousInv, BindConfigurationInv
   DEF SignerStep

LEMMA SigningStep ==
  ASSUME SigningInv, SigningNext
  PROVE  SigningInv'
BY SignerStepInv, StartRevokeInv, RevokeAtAppleInv, RevokeLocallyInv, RevokeDiesInv,
   StartSyncInv, PushDevicesInv, ReadRosterInv, WriteDeviceInv, SyncDiesInv, DeviceEditInv,
   DeleteCertificateInv, DeleteProfileInv, DeleteConfigurationInv
   DEF SigningNext

LEMMA SigningStutter ==
  ASSUME SigningInv, UNCHANGED signingVars
  PROVE  SigningInv'
<1> USE DEF SigningInv, signingVars
<1>1. SignersFit' /\ ProfileFits' /\ ProfileStored'
  BY AsideInv
<1>2. SigningTypeOK'
  BY DEF SigningTypeOK
<1>3. PortalFits' /\ LiveCertificateHasKey'
  BY DEF PortalFits, Linked, LiveCertificateHasKey, Signs
<1> QED BY <1>1, <1>2, <1>3

LEMMA SigningInvariant == SigningSpec => []SigningInv
<1>1. SigningInit => SigningInv
  BY SigningStart
<1>2. SigningInv /\ [SigningNext]_signingVars => SigningInv'
  BY SigningStep, SigningStutter
<1> QED BY <1>1, <1>2, PTL DEF SigningSpec

\* Certificates, profiles, bindings and the commands under way are well formed,
\* with at most one profile row and no more live certificates than Apple allows
\* (repositories/apple-provisioning-profiles.ts:108-140,
\* credentials-generator.ts:148-213).
THEOREM SigningTypeCorrect == SigningSpec => []SigningTypeOK
<1>1. SigningInv => SigningTypeOK
  BY DEF SigningInv
<1> QED BY <1>1, SigningInvariant, PTL

\* However uploads overlap, the row names an object that was made for its
\* devices, unless the answer to its write was lost: an upload is away from
\* every other's key until it is in the row, and what a command deletes is never
\* what the row holds (handlers/apple-provisioning-profiles.ts:79-107).
THEOREM ProfilesAreStored == SigningSpec => []ProfileStored
<1>1. SigningInv => ProfileStored
  BY DEF SigningInv
<1> QED BY <1>1, SigningInvariant, PTL

\* A build signs with every device that its check required, whatever else ran
\* meanwhile: the profile was found fresh, or was made from devices that Apple
\* never stops listing (credentials-interactive.ts:292-334).
THEOREM BuildsCoverTheirDevices == SigningSpec => []BuildCoversRoster
<1>1. SigningInv => BuildCoversRoster
  BY DEF SigningInv, SignersFit, SignerFit, BuildCoversRoster, Signs
<1> QED BY <1>1, SigningInvariant, PTL

\* Every live certificate has its key stored, or on its way, or lost by a death
\* or a deletion: a revocation goes to Apple first
\* (credentials-generator.ts:148-213, 240-292).
THEOREM LiveCertificatesHaveKeys == SigningSpec => []LiveCertificateHasKey
<1>1. SigningInv => LiveCertificateHasKey
  BY DEF SigningInv
<1> QED BY <1>1, SigningInvariant, PTL

(***************************************************************************)
(* The four together, as MCStored checks them.                             *)
(***************************************************************************)

\* Each component of MCStored behaves as it does alone; serving and sweeping
\* are two ways to go on with the patches that are made.  What is proved of a
\* component's own specification is thereby proved of the one that MCStored
\* checks.
THEOREM StoredIsItsParts == StoredSpec => AssetSpec /\ BuildSpec /\ SigningSpec /\ PatchSpec
<1>1. StoredInit => AssetInit /\ BuildInit /\ SigningInit /\ PatchInit
  BY DEF StoredInit
<1>2. [StoredNext]_storedVars =>
        /\ [AssetNext]_assetVars /\ [BuildNext]_buildVars
        /\ [SigningNext]_signingVars /\ [PatchNext]_patchVars
  BY DEF StoredNext, storedVars, PatchNext
<1> QED BY <1>1, <1>2, PTL DEF StoredSpec, AssetSpec, BuildSpec, SigningSpec, PatchSpec

\* Assets, builds, signing credentials and patches keep their types together.
THEOREM StoredTypeCorrect == StoredSpec => []ComponentsTyped
<1>1. AssetTypeOK /\ BuildTypeOK /\ SigningTypeOK /\ PatchTypeOK => ComponentsTyped
  BY DEF ComponentsTyped
<1> QED BY <1>1, StoredIsItsParts, AssetTypeCorrect, BuildTypeCorrect, SigningTypeCorrect,
           PatchTypeCorrect, PTL
=============================================================================
