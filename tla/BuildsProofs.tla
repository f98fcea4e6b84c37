---------------------------- MODULE BuildsProofs ----------------------------
(***************************************************************************)
(* Machine-checked proofs about Builds, for every set of commands and of   *)
(* build ids and every bound on the attempts.                              *)
(***************************************************************************)
EXTENDS Builds, TLAPS

USE BuildsAssumption

(***************************************************************************)
(* The inductive invariant.                                                *)
(***************************************************************************)

\* An id belongs to the command that was told it; a completion is only ever
\* sent for an object that was put.
Ownership ==
  /\ \A u \in Uploads : upload[u].pc = "reserve" => upload[u].id = NoBuild
  /\ \A u \in Uploads : upload[u].pc \in {"put", "complete", "done"} => upload[u].id # NoBuild
  /\ \A u \in Uploads : upload[u].id # NoBuild => upload[u].id \in drawn
  /\ \A u, v \in Uploads : upload[u].id = upload[v].id /\ upload[u].id # NoBuild => u = v
  /\ \A u \in Uploads, n \in Attempts :
       completion[u][n] # "none" =>
         upload[u].pc \in {"complete", "done", "failed"} /\ upload[u].id # NoBuild

\* No object will be put under the id any more.
Put(b) == b \in drawn /\ \A u \in Uploads : upload[u].id = b => upload[u].pc # "put"

\* No completion will insert a row with the id any more: it has no reservation,
\* and a handler that has read one is not under way.
Settled(b) ==
  /\ b \notin reservation \cup lingering
  /\ \A u \in Uploads, n \in Attempts :
       upload[u].id = b => completion[u][n] \notin {"insert", "forget"}

RowsFit ==
  /\ \A r, s \in build : r.id = s.id => r = s
  /\ \A r \in build : Put(r.id) /\ (r.old => Settled(r.id))

\* A deletion knows of the object of the row it deletes; a row that appears
\* after it has been completed again.
DeletionFit ==
  /\ deletion # Resting => deletion.id \in drawn
  /\ deletion.pc = "row" =>
       \A r \in Rows(deletion.id) : r.stored => deletion.key \/ r.id \in revived
  /\ deletion.pc = "object" => \A r \in Rows(deletion.id) : r.id \in revived

\* A collection works on builds whose completion is long over.
CollectionFit ==
  /\ collection # Resting => \A b \in collection.batch : Put(b) /\ Settled(b)
  /\ collection.pc = "objects" => \A b \in collection.batch : \A r \in Rows(b) : r.old
  /\ collection.pc = "rows" => collection.batch \cap artifact = {}

\* What answers for an object when its command no longer does.
Retained(b) ==
  \/ \E row \in Rows(b) : row.stored
  \/ deletion.pc = "object" /\ deletion.id = b
  \/ b \in abandoned \cup revived

\* A completion that has inserted its row leaves the object answered for.
CompletedKept ==
  \A u \in Uploads, n \in Attempts :
    completion[u][n] \in {"forget", "ok"} /\ upload[u].id \in artifact => Retained(upload[u].id)

Upkeep == Ownership /\ RowsFit /\ DeletionFit /\ CollectionFit /\ CompletedKept

BuildsInv == BuildTypeOK /\ Upkeep /\ ListedArtifactStored /\ ObjectsAccounted

LEMMA BuildsInitInv == BuildInit => BuildsInv
  BY DEF BuildInit, BuildsInv, Upkeep, BuildTypeOK, Ownership, RowsFit, DeletionFit,
         CollectionFit, CompletedKept, ListedArtifactStored, ObjectsAccounted,
         UploadState, Handler, Resting, Attempts

\* What a command that fails, or tries again, is left with.
LEMMA FailUploadSlot ==
  ASSUME BuildTypeOK, NEW u \in Uploads, FailUpload(u)
  PROVE  /\ upload' \in [Uploads -> UploadState]
         /\ \A v \in Uploads \ {u} : upload'[v] = upload[v]
         /\ upload'[u].id = upload[u].id /\ upload'[u].pc = "failed"
         /\ abandoned' = abandoned \cup ({upload[u].id} \ {NoBuild})
<1>1. upload[u].id \in BuildIds \cup {NoBuild}
  BY DEF BuildTypeOK, UploadState
<1>2. [pc |-> "failed", id |-> upload[u].id] \in UploadState
  BY <1>1 DEF UploadState
<1> QED BY <1>2 DEF FailUpload, ContinueUpload, BuildTypeOK

LEMMA RetryUploadSlot ==
  ASSUME BuildTypeOK, NEW u \in Uploads, upload[u].pc \in {"reserve", "complete"},
         RetryUpload(u)
  PROVE  /\ upload' \in [Uploads -> UploadState]
         /\ \A v \in Uploads \ {u} : upload'[v] = upload[v]
         /\ upload'[u].id = upload[u].id
         /\ \/ upload'[u].pc = upload[u].pc /\ abandoned' = abandoned
            \/ /\ upload'[u].pc = "failed"
               /\ abandoned' = abandoned \cup ({upload[u].id} \ {NoBuild})
<1>1. CASE upload[u].attempt < MaxAttempts
  <2> DEFINE next == [upload[u] EXCEPT !.attempt = @ + 1]
  <2>1. upload[u] \in [pc : {"reserve", "complete"}, attempt : Attempts,
                       id : BuildIds \cup {NoBuild}]
    BY DEF BuildTypeOK, UploadState
  <2>2. upload[u].attempt + 1 \in Attempts
    BY <1>1, <2>1 DEF Attempts
  <2>3. next \in UploadState /\ next.id = upload[u].id /\ next.pc = upload[u].pc
    BY <2>1, <2>2 DEF UploadState
  <2>4. upload' = [upload EXCEPT ![u] = next] /\ abandoned' = abandoned
    BY <1>1 DEF RetryUpload
  <2> HIDE DEF next
  <2> QED BY <2>3, <2>4 DEF BuildTypeOK
<1>2. CASE ~(upload[u].attempt < MaxAttempts)
  BY <1>2, FailUploadSlot DEF RetryUpload
<1> QED BY <1>1, <1>2

(***************************************************************************)
(* The steps of the command.                                               *)
(***************************************************************************)

\* What the command does before it has put its object disturbs no row, no
\* deletion and no collection.
LEMMA ReserveInv ==
  ASSUME BuildsInv, NEW u \in Uploads, Reserve(u)
  PROVE  BuildsInv'
<1> USE DEF BuildsInv, Upkeep
<1>1. PICK b \in BuildIds \ drawn :
        /\ drawn' = drawn \cup {b}
        /\ reservation' = reservation \cup {b}
        /\ \/ /\ upload' = [upload EXCEPT ![u] = [pc |-> "put", id |-> b]]
              /\ UNCHANGED abandoned
           \/ RetryUpload(u)
  BY DEF Reserve
<1>2. /\ upload[u].pc = "reserve" /\ upload[u].id = NoBuild
      /\ UNCHANGED <<completion, lingering, artifact, build, deletion, collection, revived>>
  BY DEF Reserve, UploadAt, Ownership, janitor
<1> DEFINE told == [pc |-> "put", id |-> b]
<1>3. told \in UploadState /\ told.pc = "put" /\ told.id = b
  BY DEF UploadState
<1> HIDE DEF told
<1>4. /\ upload' \in [Uploads -> UploadState] /\ abandoned' = abandoned
      /\ \A v \in Uploads :
           \/ upload'[v] = upload[v]
           \/ v = u /\ upload'[v].pc \in {"reserve", "failed"} /\ upload'[v].id = NoBuild
           \/ v = u /\ upload'[v].pc = "put" /\ upload'[v].id = b
  <2>1. CASE upload' = [upload EXCEPT ![u] = told] /\ UNCHANGED abandoned
    BY <1>2, <1>3, <2>1 DEF BuildTypeOK
  <2>2. CASE RetryUpload(u)
    BY <1>2, <2>2, RetryUploadSlot
  <2> QED BY <1>1, <2>1, <2>2 DEF told
<1>5. BuildTypeOK'
  BY <1>1, <1>2, <1>4 DEF BuildTypeOK
<1>6. Ownership'
  BY <1>1, <1>2, <1>4 DEF Ownership
<1>7. RowsFit'
  BY <1>1, <1>2, <1>4 DEF RowsFit, Put, Settled, BuildTypeOK
<1>8. DeletionFit'
  BY <1>1, <1>2 DEF DeletionFit, Rows
<1>9. CollectionFit'
  BY <1>1, <1>2, <1>4 DEF CollectionFit, Put, Settled, Rows
<1>10. CompletedKept'
  BY <1>1, <1>2, <1>4 DEF CompletedKept, Retained, Rows, Ownership
<1>11. ListedArtifactStored'
  BY <1>2 DEF ListedArtifactStored
<1>12. ObjectsAccounted'
  BY <1>1, <1>2, <1>4 DEF ObjectsAccounted, Rows
<1> QED BY <1>5, <1>6, <1>7, <1>8, <1>9, <1>10, <1>11, <1>12

\* A step in which the command moves on without a new id or object, and may
\* send its completion again.
LEMMA CommandMovesOn ==
  ASSUME BuildsInv, NEW u \in Uploads,
         upload' \in [Uploads -> UploadState],
         \A v \in Uploads \ {u} : upload'[v] = upload[v],
         upload'[u].id = upload[u].id,
         completion' \in [Uploads -> [Attempts -> Handler]],
         \A v \in Uploads, n \in Attempts :
           \/ completion'[v][n] = completion[v][n]
           \/ v = u /\ upload[u].pc = "complete" /\ completion'[v][n] = "get",
         \/ upload'[u].pc = upload[u].pc /\ abandoned' = abandoned
         \/ /\ upload'[u].pc = "failed"
            /\ abandoned' = abandoned \cup ({upload[u].id} \ {NoBuild})
         \/ /\ upload[u].pc = "complete" /\ upload'[u].pc = "done" /\ abandoned' = abandoned
            /\ \E n \in Attempts : completion[u][n] = "ok",
         UNCHANGED <<drawn, reservation, lingering, artifact, build, deletion, collection, revived>>
  PROVE  BuildsInv'
<1> USE DEF BuildsInv, Upkeep
<1>1. BuildTypeOK'
  <2>1. upload[u].id \in drawn \cup {NoBuild}
    BY DEF Ownership
  <2> QED BY <2>1 DEF BuildTypeOK
<1>2. abandoned \subseteq abandoned'
  OBVIOUS
<1>3. \A v \in Uploads : upload'[v].id = upload[v].id
                         /\ (upload'[v].pc \in {"reserve", "put", "complete"} => upload'[v].pc = upload[v].pc)
  OBVIOUS
<1>4. Ownership'
  BY SMTT(30), <1>3 DEF Ownership
<1>5. \A b \in BuildIds : (Put(b) => Put(b)') /\ (Settled(b) => Settled(b)')
  BY <1>3 DEF Put, Settled
<1>6. RowsFit'
  BY <1>5 DEF RowsFit, BuildTypeOK, BuildRow
<1>7. DeletionFit'
  BY DEF DeletionFit, Rows
<1>8. CollectionFit'
  BY <1>5 DEF CollectionFit, Rows, BuildTypeOK, Resting
<1>9. \A b \in artifact : Retained(b) => Retained(b)'
  BY <1>2 DEF Retained, Rows
<1>10. CompletedKept'
  BY <1>3, <1>9 DEF CompletedKept
<1>11. ListedArtifactStored'
  BY DEF ListedArtifactStored
<1>12. ObjectsAccounted'
  <2> SUFFICES ASSUME NEW b \in artifact PROVE ObjectsAccounted!(b)'
    BY DEF ObjectsAccounted
  <2>1. CASE Retained(b)
    BY <1>9, <2>1 DEF Retained
  <2>2. CASE \E v \in Uploads : upload[v].id = b /\ upload[v].pc \in {"put", "complete"}
    <3>1. PICK v \in Uploads : upload[v].id = b /\ upload[v].pc \in {"put", "complete"}
      BY <2>2
    <3>2. CASE upload'[v].pc = upload[v].pc
      BY <1>3, <3>1, <3>2
    <3>3. CASE v = u /\ upload'[u].pc = "failed" /\ abandoned' = abandoned \cup ({upload[u].id} \ {NoBuild})
      BY <3>1, <3>3 DEF BuildTypeOK
    <3>4. CASE v = u /\ \E n \in Attempts : completion[u][n] = "ok"
      <4>1. Retained(b)
        BY <3>1, <3>4 DEF CompletedKept
      <4> QED BY <1>9, <4>1 DEF Retained
    <3> QED BY <3>1, <3>2, <3>3, <3>4
  <2> QED BY <2>1, <2>2 DEF ObjectsAccounted, Retained
<1> QED BY <1>1, <1>4, <1>6, <1>7, <1>8, <1>10, <1>11, <1>12

LEMMA ReserveFailsInv ==
  ASSUME BuildsInv, NEW u \in Uploads, ReserveFails(u)
  PROVE  BuildsInv'
<1>1. BuildTypeOK /\ upload[u].pc = "reserve" /\ completion \in [Uploads -> [Attempts -> Handler]]
  BY DEF BuildsInv, ReserveFails, UploadAt, BuildTypeOK
<1>2. UNCHANGED <<completion, drawn, reservation, lingering, artifact, build, deletion,
                  collection, revived>>
  BY DEF ReserveFails, kv, janitor
<1>3. CASE RetryUpload(u)
  BY <1>1, <1>2, <1>3, RetryUploadSlot, CommandMovesOn
<1>4. CASE FailUpload(u)
  BY <1>1, <1>2, <1>4, FailUploadSlot, CommandMovesOn
<1> QED BY <1>3, <1>4 DEF ReserveFails

LEMMA PutFailsInv ==
  ASSUME BuildsInv, NEW u \in Uploads, PutFails(u)
  PROVE  BuildsInv'
<1>1. BuildTypeOK /\ completion \in [Uploads -> [Attempts -> Handler]]
  BY DEF BuildsInv, BuildTypeOK
<1>2. UNCHANGED <<completion, drawn, reservation, lingering, artifact, build, deletion,
                  collection, revived>>
  BY DEF PutFails, kv, janitor
<1> QED BY <1>1, <1>2, FailUploadSlot, CommandMovesOn DEF PutFails

LEMMA CompleteBreaksInv ==
  ASSUME BuildsInv, NEW u \in Uploads, CompleteBreaks(u)
  PROVE  BuildsInv'
<1>1. /\ BuildTypeOK /\ upload[u].pc = "complete" /\ RetryUpload(u)
      /\ completion \in [Uploads -> [Attempts -> Handler]]
  BY DEF BuildsInv, CompleteBreaks, UploadAt, BuildTypeOK
<1>2. UNCHANGED <<drawn, reservation, lingering, artifact, build, deletion, collection, revived>>
  BY DEF CompleteBreaks, kv, janitor
<1>3. /\ completion' \in [Uploads -> [Attempts -> Handler]]
      /\ \A v \in Uploads, n \in Attempts :
           \/ completion'[v][n] = completion[v][n]
           \/ v = u /\ completion'[v][n] = "get"
  BY <1>1 DEF CompleteBreaks, SendComplete, Handler
<1> QED BY <1>1, <1>2, <1>3, RetryUploadSlot, CommandMovesOn

LEMMA CompleteAnsweredInv ==
  ASSUME BuildsInv, NEW u \in Uploads, CompleteAnswered(u)
  PROVE  BuildsInv'
<1>1. /\ BuildTypeOK /\ upload[u].pc = "complete"
      /\ completion \in [Uploads -> [Attempts -> Handler]]
  BY DEF BuildsInv, CompleteAnswered, UploadAt, BuildTypeOK
<1>2. UNCHANGED <<completion, drawn, reservation, lingering, artifact, build, deletion,
                  collection, revived>>
  BY DEF CompleteAnswered, kv, janitor
<1>3. CASE completion[u][upload[u].attempt] = "ok" /\ ContinueUpload(u, "done")
             /\ UNCHANGED abandoned
  <2> DEFINE next == [pc |-> "done", id |-> upload[u].id]
  <2>1. upload[u] \in UploadState /\ upload[u].attempt \in Attempts
    BY <1>1 DEF BuildTypeOK, UploadState
  <2>2. next \in UploadState /\ next.pc = "done" /\ next.id = upload[u].id
    BY <2>1 DEF UploadState
  <2>3. upload' = [upload EXCEPT ![u] = next]
    BY <1>3 DEF ContinueUpload
  <2> HIDE DEF next
  <2> QED BY <1>1, <1>2, <1>3, <2>1, <2>2, <2>3, CommandMovesOn DEF BuildTypeOK
<1>4. CASE FailUpload(u)
  BY <1>1, <1>2, <1>4, FailUploadSlot, CommandMovesOn
<1> QED BY <1>3, <1>4 DEF CompleteAnswered

\* The put itself: a new object, of a command that has yet to complete or has
\* failed; no row or collection is of it.
LEMMA PutArtifactInv ==
  ASSUME BuildsInv, NEW u \in Uploads, PutArtifact(u)
  PROVE  BuildsInv'
<1> USE DEF BuildsInv, Upkeep
<1> DEFINE b == upload[u].id
           next == [pc |-> "complete", attempt |-> 1, id |-> b]
<1>1. /\ upload[u].pc = "put" /\ b \in drawn /\ b \in BuildIds /\ b # NoBuild
      /\ artifact' = artifact \cup {b}
      /\ UNCHANGED <<drawn, reservation, lingering, build, deletion, collection, revived>>
  BY DEF PutArtifact, UploadAt, kv, janitor, Ownership, BuildTypeOK
<1>2. next \in UploadState /\ next.pc = "complete" /\ next.id = b
  BY <1>1 DEF UploadState, Attempts
<1> HIDE DEF next
<1>3. /\ upload' \in [Uploads -> UploadState]
      /\ \A v \in Uploads \ {u} : upload'[v] = upload[v]
      /\ upload'[u].id = b
      /\ \/ upload'[u].pc = "complete" /\ abandoned' = abandoned
         \/ upload'[u].pc = "failed" /\ abandoned' = abandoned \cup {b} /\ completion' = completion
  <2>1. CASE upload' = [upload EXCEPT ![u] = next] /\ UNCHANGED abandoned
    BY <1>2, <2>1 DEF BuildTypeOK
  <2>2. CASE FailUpload(u) /\ UNCHANGED completion
    BY <1>1, <2>2, FailUploadSlot
  <2> QED BY <2>1, <2>2 DEF PutArtifact, next
<1>4. /\ completion' \in [Uploads -> [Attempts -> Handler]]
      /\ \A v \in Uploads, n \in Attempts :
           \/ completion'[v][n] = completion[v][n]
           \/ v = u /\ upload'[u].pc = "complete" /\ completion'[v][n] = "get"
  <2>1. CASE SendComplete(u, 1) /\ upload'[u].pc = "complete"
    BY <1>3, <2>1 DEF SendComplete, Handler, BuildTypeOK
  <2>2. CASE UNCHANGED completion
    BY <2>2 DEF BuildTypeOK
  <2> QED BY <1>2, <1>3, <2>1, <2>2 DEF PutArtifact, next, BuildTypeOK
<1> HIDE DEF b
<1>5. \A v \in Uploads, n \in Attempts : upload[v].id = b => v = u /\ completion[v][n] = "none"
  BY <1>1 DEF Ownership, b
<1>6. \A v \in Uploads : upload'[v].id = upload[v].id
                         /\ (upload'[v].pc \in {"reserve", "put"} => upload'[v].pc = upload[v].pc)
  BY <1>1, <1>3 DEF b
<1>7. \A c : (Put(c) => Put(c)') /\ (Settled(c) => Settled(c)')
  BY <1>1, <1>4, <1>6 DEF Put, Settled
<1>8. ~Put(b)
  BY <1>1 DEF Put, b
<1>9. BuildTypeOK'
  BY <1>1, <1>3, <1>4 DEF BuildTypeOK
<1>10. Ownership'
  <2>1. \A v \in Uploads, n \in Attempts : completion[v][n] # "none" => v # u
    BY <1>1 DEF Ownership
  <2>2. \A v \in Uploads, n \in Attempts :
          completion'[v][n] # "none" =>
            upload'[v].pc \in {"complete", "done", "failed"} /\ upload'[v].id # NoBuild
    BY <1>1, <1>3, <1>4, <2>1 DEF Ownership
  <2>3. \A v \in Uploads : v # u \/ upload'[v].pc \in {"complete", "failed"}
    BY <1>3
  <2> QED BY <1>1, <1>3, <1>6, <2>2, <2>3 DEF Ownership
<1>11. RowsFit'
  BY <1>1, <1>7 DEF RowsFit
<1>12. DeletionFit'
  BY <1>1 DEF DeletionFit, Rows
<1>13. CollectionFit'
  <2>1. collection # Resting => b \notin collection.batch
    BY <1>8 DEF CollectionFit
  <2> QED BY <1>1, <1>7, <2>1 DEF CollectionFit, Rows, Resting
<1>14. \A c : Retained(c) => Retained(c)'
  BY <1>1, <1>3 DEF Retained, Rows
<1>15. CompletedKept'
  BY <1>1, <1>4, <1>5, <1>6, <1>14 DEF CompletedKept
<1>16. ListedArtifactStored'
  BY <1>1 DEF ListedArtifactStored
<1>17. ObjectsAccounted'
  BY <1>1, <1>3, <1>14 DEF ObjectsAccounted, Retained, Rows, b
<1> QED BY <1>9, <1>10, <1>11, <1>12, <1>13, <1>15, <1>16, <1>17

(***************************************************************************)
(* The steps of the server on a completion.                                *)
(***************************************************************************)

\* A handler's step writes the handler, and lets the rest of the calls be.
LEMMA HandleSlot ==
  ASSUME BuildTypeOK, NEW u \in Uploads, NEW n \in Attempts, NEW pc \in Handler,
         Handle(u, n, pc)
  PROVE  /\ completion' \in [Uploads -> [Attempts -> Handler]]
         /\ completion'[u][n] = pc
         /\ \A v \in Uploads, m \in Attempts :
              v # u \/ m # n => completion'[v][m] = completion[v][m]
  BY DEF Handle, BuildTypeOK

\* A step of a handler that inserts nothing and comes no nearer to inserting,
\* unless the build is still reserved.
LEMMA HandlerMovesOn ==
  ASSUME BuildsInv, NEW u \in Uploads, NEW n \in Attempts, NEW pc \in Handler \ {"none"},
         completion[u][n] # "none", Handle(u, n, pc),
         pc = "insert" => upload[u].id \in reservation \cup lingering,
         pc \in {"forget", "ok"} => completion[u][n] \in {"forget", "ok"},
         pc = "forget" => completion[u][n] \in {"insert", "forget"},
         UNCHANGED <<upload, drawn, reservation, lingering, artifact, build, deletion,
                     collection, abandoned, revived>>
  PROVE  BuildsInv'
<1> USE DEF BuildsInv, Upkeep
<1>1. /\ completion' \in [Uploads -> [Attempts -> Handler]]
      /\ completion'[u][n] = pc
      /\ \A v \in Uploads, m \in Attempts :
              v # u \/ m # n => completion'[v][m] = completion[v][m]
  BY HandleSlot
<1>2. BuildTypeOK'
  BY <1>1 DEF BuildTypeOK
<1>3. Ownership'
  BY <1>1 DEF Ownership
<1>4. \A c : (Put(c) => Put(c)') /\ (Settled(c) => Settled(c)')
  BY <1>1 DEF Put, Settled
<1>5. RowsFit'
  BY <1>4 DEF RowsFit
<1>6. DeletionFit'
  BY DEF DeletionFit, Rows
<1>7. CollectionFit'
  BY <1>4 DEF CollectionFit, Rows, Resting
<1>8. CompletedKept'
  BY <1>1 DEF CompletedKept, Retained, Rows
<1>9. ListedArtifactStored' /\ ObjectsAccounted'
  BY DEF ListedArtifactStored, ObjectsAccounted, Rows
<1> QED BY <1>2, <1>3, <1>5, <1>6, <1>7, <1>8, <1>9

LEMMA GetReservationInv ==
  ASSUME BuildsInv, NEW u \in Uploads, NEW n \in Attempts, GetReservation(u, n)
  PROVE  BuildsInv'
  BY HandlerMovesOn DEF GetReservation, Handling, Handler, kv, janitor, history

LEMMA CompletionDiesInv ==
  ASSUME BuildsInv, NEW u \in Uploads, NEW n \in Attempts, CompletionDies(u, n)
  PROVE  BuildsInv'
  BY HandlerMovesOn DEF CompletionDies, Handler, kv, janitor, history

LEMMA DeleteReservationInv ==
  ASSUME BuildsInv, NEW u \in Uploads, NEW n \in Attempts, DeleteReservation(u, n)
  PROVE  BuildsInv'
<1> USE DEF BuildsInv, Upkeep
<1> DEFINE b == upload[u].id
<1>1. /\ completion[u][n] = "forget"
      /\ reservation' = reservation \ {b} /\ lingering' = lingering \cup {b}
      /\ Handle(u, n, "ok")
      /\ UNCHANGED <<upload, drawn, artifact, build, deletion, collection, abandoned, revived>>
  BY DEF DeleteReservation, Handling, janitor, history
<1>2. /\ completion' \in [Uploads -> [Attempts -> Handler]]
      /\ completion'[u][n] = "ok"
      /\ \A v \in Uploads, m \in Attempts :
              v # u \/ m # n => completion'[v][m] = completion[v][m]
  BY <1>1, HandleSlot DEF Handler
<1>3. b \in drawn /\ ~Settled(b)
  BY <1>1 DEF Ownership, Settled
<1> HIDE DEF b
<1>4. BuildTypeOK'
  BY <1>1, <1>2, <1>3 DEF BuildTypeOK
<1>5. Ownership'
  BY <1>1, <1>2 DEF Ownership
<1>6. \A c : (Put(c) => Put(c)') /\ (Settled(c) => Settled(c)')
  BY <1>1, <1>2, <1>3 DEF Put, Settled
<1>7. RowsFit'
  BY <1>1, <1>6 DEF RowsFit
<1>8. DeletionFit'
  BY <1>1 DEF DeletionFit, Rows
<1>9. CollectionFit'
  BY <1>1, <1>6 DEF CollectionFit, Rows, Resting
<1>10. CompletedKept'
  BY <1>1, <1>2 DEF CompletedKept, Retained, Rows
<1>11. ListedArtifactStored' /\ ObjectsAccounted'
  BY <1>1 DEF ListedArtifactStored, ObjectsAccounted, Rows
<1> QED BY <1>4, <1>5, <1>7, <1>8, <1>9, <1>10, <1>11

\* An insert finds no row of the build; with a deletion under way, or without
\* the object, the build counts as revived.
LEMMA InsertBuildInv ==
  ASSUME BuildsInv, NEW u \in Uploads, NEW n \in Attempts, InsertBuild(u, n)
  PROVE  BuildsInv'
<1> USE DEF BuildsInv, Upkeep
<1> DEFINE b == upload[u].id
           row == [id |-> b, stored |-> TRUE, old |-> FALSE]
<1>1. /\ completion[u][n] = "insert"
      /\ UNCHANGED <<upload, drawn, reservation, lingering, artifact, deletion, collection,
                     abandoned>>
  BY DEF InsertBuild, Handling, kv, janitor
<1>2. CASE Rows(b) # {}
  BY <1>1, <1>2, HandlerMovesOn DEF InsertBuild, Handler
<1>3. CASE Rows(b) = {}
  <2>1. /\ build' = build \cup {row}
        /\ revived' = IF b \in artifact /\ deletion.pc = "rest" THEN revived ELSE revived \cup {b}
        /\ Handle(u, n, "forget")
    BY <1>3 DEF InsertBuild
  <2>2. /\ completion' \in [Uploads -> [Attempts -> Handler]]
        /\ completion'[u][n] = "forget"
        /\ \A v \in Uploads, m \in Attempts :
                v # u \/ m # n => completion'[v][m] = completion[v][m]
    BY <2>1, HandleSlot DEF Handler
  <2>3. b \in drawn /\ b \in BuildIds /\ ~Settled(b) /\ Put(b)
    BY <1>1 DEF Ownership, Settled, Put, BuildTypeOK
  <2>4. row \in BuildRow /\ row.id = b /\ row.stored /\ ~row.old
    BY <2>3 DEF BuildRow
  <2> HIDE DEF b, row
  <2>5. BuildTypeOK'
    BY <1>1, <2>1, <2>2, <2>3, <2>4 DEF BuildTypeOK
  <2>6. Ownership'
    BY <1>1, <2>2 DEF Ownership
  <2>7. \A c : (Put(c) => Put(c)') /\ (Settled(c) => Settled(c)')
    BY <1>1, <2>2, <2>3 DEF Put, Settled, b
  <2>8. RowsFit'
    BY <1>1, <1>3, <2>1, <2>3, <2>4, <2>7 DEF RowsFit, Rows
  <2>9. DeletionFit'
    <3>1. deletion.pc # "rest" => b \in revived'
      BY <2>1
    <3>2. revived \subseteq revived'
      BY <2>1
    <3>3. \A r \in build' : r \in build \/ r.id = b
      BY <2>1, <2>4
    <3> QED BY <1>1, <3>1, <3>2, <3>3 DEF DeletionFit, Rows
  <2>10. CollectionFit'
    BY <1>1, <2>1, <2>3, <2>4, <2>7 DEF CollectionFit, Rows, Resting
  <2>11. \A c : Retained(c) => Retained(c)'
    BY <1>1, <2>1 DEF Retained, Rows
  <2>12. Retained(b)'
    BY <1>1, <2>1, <2>4 DEF Retained, Rows, b
  <2>13. CompletedKept'
    BY <1>1, <2>2, <2>11, <2>12 DEF CompletedKept, b
  <2>14. ListedArtifactStored'
    BY <1>1, <2>1, <2>4 DEF ListedArtifactStored
  <2>15. ObjectsAccounted'
    BY <1>1, <2>11 DEF ObjectsAccounted, Retained, Rows
  <2> QED BY <2>5, <2>6, <2>8, <2>9, <2>10, <2>13, <2>14, <2>15
<1> QED BY <1>2, <1>3

\* A reservation that lapses settles the build all the more.
LEMMA ReservationExpiresInv ==
  ASSUME BuildsInv, NEW b \in BuildIds, ReservationExpires(b)
  PROVE  BuildsInv'
<1> USE DEF BuildsInv, Upkeep
<1>1. /\ reservation' = reservation \ {b} /\ lingering' = lingering \ {b}
      /\ UNCHANGED <<upload, completion, drawn, artifact, build, deletion, collection,
                     abandoned, revived>>
  BY DEF ReservationExpires, janitor, history
<1>2. BuildTypeOK'
  BY <1>1 DEF BuildTypeOK
<1>3. Ownership'
  BY <1>1 DEF Ownership
<1>4. \A c : (Put(c) => Put(c)') /\ (Settled(c) => Settled(c)')
  BY <1>1 DEF Put, Settled
<1>5. RowsFit'
  BY <1>1, <1>4 DEF RowsFit
<1>6. DeletionFit'
  BY <1>1 DEF DeletionFit, Rows
<1>7. CollectionFit'
  BY <1>1, <1>4 DEF CollectionFit, Rows, Resting
<1>8. CompletedKept' /\ ListedArtifactStored' /\ ObjectsAccounted'
  BY <1>1 DEF CompletedKept, Retained, ListedArtifactStored, ObjectsAccounted, Rows
<1> QED BY <1>2, <1>3, <1>5, <1>6, <1>7, <1>8

(***************************************************************************)
(* The steps of a deletion.                                                *)
(***************************************************************************)
LEMMA DeleteFindInv ==
  ASSUME BuildsInv, NEW row \in build, DeleteFind(row)
  PROVE  BuildsInv'
<1> USE DEF BuildsInv, Upkeep
<1> DEFINE step == [pc |-> "row", id |-> row.id, key |-> row.stored]
<1>1. /\ deletion = Resting /\ deletion' = step
      /\ UNCHANGED <<upload, completion, drawn, reservation, lingering, artifact, build,
                     collection, abandoned, revived>>
  BY DEF DeleteFind, DeletionIs, kv
<1>2. row.id \in drawn /\ row \in BuildRow /\ row.id \in BuildIds /\ row.stored \in BOOLEAN
  BY DEF RowsFit, Put, BuildTypeOK, BuildRow
<1>3. BuildTypeOK'
  <2>1. step \in [pc : {"row"}, id : BuildIds, key : BOOLEAN]
    BY <1>2
  <2> HIDE DEF step
  <2> QED BY <1>1, <2>1 DEF BuildTypeOK
<1>4. Ownership'
  BY <1>1 DEF Ownership
<1>5. RowsFit'
  BY <1>1 DEF RowsFit, Put, Settled
<1>6. DeletionFit'
  BY <1>1, <1>2 DEF DeletionFit, Rows, RowsFit, Resting
<1>7. CollectionFit'
  BY <1>1 DEF CollectionFit, Rows, Resting, Put, Settled
<1>8. deletion.pc # "object"
  BY <1>1 DEF Resting
<1>9. CompletedKept' /\ ListedArtifactStored' /\ ObjectsAccounted'
  BY <1>1, <1>8 DEF CompletedKept, Retained, ListedArtifactStored, ObjectsAccounted, Rows
<1> QED BY <1>3, <1>4, <1>5, <1>6, <1>7, <1>9

\* With the row goes the claim on its object; the deletion takes it over.
LEMMA DeleteRowInv ==
  ASSUME BuildsInv, DeleteRow
  PROVE  BuildsInv'
<1> USE DEF BuildsInv, Upkeep
<1> DEFINE d == deletion.id
           object == [pc |-> "object", id |-> d]
<1>1. /\ deletion.pc = "row"
      /\ build' = build \ Rows(d)
      /\ deletion' = IF Rows(d) # {} /\ deletion.key THEN object ELSE Resting
      /\ UNCHANGED <<upload, completion, drawn, reservation, lingering, artifact, collection,
                     abandoned, revived>>
  BY DEF DeleteRow, DeletionIs, kv
<1>2. d \in BuildIds /\ d \in drawn
  BY <1>1 DEF BuildTypeOK, DeletionFit, Resting
<1>3. /\ object \in [pc : {"object"}, id : BuildIds] /\ object.pc = "object" /\ object.id = d
  BY <1>2
<1> HIDE DEF d, object
<1>4. BuildTypeOK'
  BY <1>1, <1>3 DEF BuildTypeOK
<1>5. Ownership'
  BY <1>1 DEF Ownership
<1>6. RowsFit'
  BY <1>1 DEF RowsFit, Put, Settled
<1>7. DeletionFit'
  BY <1>1, <1>2, <1>3 DEF DeletionFit, Rows, Resting
<1>8. CollectionFit'
  BY <1>1 DEF CollectionFit, Rows, Resting, Put, Settled
<1>9. ASSUME NEW c, Retained(c) PROVE Retained(c)'
  <2>1. CASE c \in abandoned \cup revived
    BY <1>1, <2>1 DEF Retained
  <2>2. CASE \E row \in Rows(c) : row.stored
    <3>1. PICK row \in build : row.id = c /\ row.stored
      BY <2>2 DEF Rows
    <3>2. CASE c # d
      BY <1>1, <3>1, <3>2 DEF Retained, Rows
    <3>3. CASE c = d
      <4>1. deletion.key \/ c \in revived
        BY <1>1, <3>1, <3>3 DEF DeletionFit, Rows, d
      <4>2. Rows(d) # {}
        BY <3>1, <3>3 DEF Rows
      <4> QED BY <1>1, <1>3, <3>3, <4>1, <4>2 DEF Retained
    <3> QED BY <3>2, <3>3
  <2> QED BY <1>1, <1>9, <2>1, <2>2 DEF Retained
<1>10. CompletedKept'
  BY <1>1, <1>9 DEF CompletedKept
<1>11. ListedArtifactStored'
  BY <1>1 DEF ListedArtifactStored
<1>12. ObjectsAccounted'
  BY <1>1, <1>9 DEF ObjectsAccounted, Retained
<1> QED BY <1>4, <1>5, <1>6, <1>7, <1>8, <1>10, <1>11, <1>12

LEMMA DeleteObjectInv ==
  ASSUME BuildsInv, DeleteObject
  PROVE  BuildsInv'
<1> USE DEF BuildsInv, Upkeep
<1>1. /\ deletion.pc = "object" /\ deletion' = Resting
      /\ artifact' = artifact \ {deletion.id}
      /\ UNCHANGED <<upload, completion, drawn, reservation, lingering, build, collection,
                     abandoned, revived>>
  BY DEF DeleteObject, DeletionIs, kv
<1>2. BuildTypeOK'
  BY <1>1 DEF BuildTypeOK
<1>3. Ownership'
  BY <1>1 DEF Ownership
<1>4. RowsFit'
  BY <1>1 DEF RowsFit, Put, Settled
<1>5. DeletionFit'
  BY <1>1 DEF DeletionFit, Resting
<1>6. CollectionFit'
  BY <1>1 DEF CollectionFit, Rows, Resting, Put, Settled
<1>7. \A c : c # deletion.id /\ Retained(c) => Retained(c)'
  BY <1>1 DEF Retained, Rows
<1>8. CompletedKept' /\ ObjectsAccounted'
  BY <1>1, <1>7 DEF CompletedKept, ObjectsAccounted, Retained
<1>9. ListedArtifactStored'
  BY <1>1 DEF ListedArtifactStored, DeletionFit, Rows
<1> QED BY <1>2, <1>3, <1>4, <1>5, <1>6, <1>8, <1>9

LEMMA DeletionDiesInv ==
  ASSUME BuildsInv, DeletionDies
  PROVE  BuildsInv'
<1> USE DEF BuildsInv, Upkeep
<1>1. /\ deletion # Resting /\ deletion' = Resting
      /\ abandoned' = abandoned \cup {deletion.id}
      /\ UNCHANGED <<upload, completion, drawn, reservation, lingering, artifact, build,
                     collection, revived>>
  BY DEF DeletionDies, DeletionIs, kv
<1>2. BuildTypeOK'
  BY <1>1 DEF BuildTypeOK, DeletionFit
<1>3. Ownership'
  BY <1>1 DEF Ownership
<1>4. RowsFit'
  BY <1>1 DEF RowsFit, Put, Settled
<1>5. DeletionFit'
  BY <1>1 DEF DeletionFit, Resting
<1>6. CollectionFit'
  BY <1>1 DEF CollectionFit, Rows, Resting, Put, Settled
<1>7. \A c : Retained(c) => Retained(c)'
  BY <1>1 DEF Retained, Rows
<1>8. CompletedKept' /\ ObjectsAccounted'
  BY <1>1, <1>7 DEF CompletedKept, ObjectsAccounted, Retained
<1>9. ListedArtifactStored'
  BY <1>1 DEF ListedArtifactStored
<1> QED BY <1>2, <1>3, <1>4, <1>5, <1>6, <1>8, <1>9

(***************************************************************************)
(* The steps of a collection.                                              *)
(***************************************************************************)

\* A row ages only when its build is settled; it stays the row of its build.
LEMMA AgeInv ==
  ASSUME BuildsInv, NEW row \in build, Age(row)
  PROVE  BuildsInv'
<1> USE DEF BuildsInv, Upkeep
<1> DEFINE aged == [row EXCEPT !.old = TRUE]
<1>1. /\ build' = (build \ {row}) \cup {aged}
      /\ row.id \notin reservation \cup lingering
      /\ \A u \in Uploads, n \in Attempts :
           upload[u].id = row.id => completion[u][n] \notin {"insert", "forget"}
      /\ UNCHANGED <<upload, completion, drawn, reservation, lingering, artifact, deletion,
                     collection, abandoned, revived>>
  BY DEF Age, kv, janitor, history
<1>2. row \in BuildRow
  BY DEF BuildTypeOK
<1>3. aged \in BuildRow /\ aged.id = row.id /\ aged.stored = row.stored /\ aged.old
  BY <1>2 DEF BuildRow
<1>4. Settled(row.id)
  BY <1>1 DEF Settled
<1> HIDE DEF aged
<1>5. \A r \in build' : r = aged \/ (r \in build /\ r # row)
  BY <1>1
<1>6. BuildTypeOK'
  BY <1>1, <1>3 DEF BuildTypeOK
<1>7. Ownership'
  BY <1>1 DEF Ownership
<1>8. RowsFit'
  <2>1. \A r \in build' : (r = aged \/ r \in build) /\ Put(r.id) /\ (r.old => Settled(r.id))
    BY <1>3, <1>4, <1>5 DEF RowsFit
  <2>2. \A r, s \in build' : r.id = s.id => r = s
    BY <1>3, <1>5 DEF RowsFit
  <2> QED BY <1>1, <2>1, <2>2 DEF RowsFit, Put, Settled
<1>9. DeletionFit'
  BY <1>1, <1>3, <1>5 DEF DeletionFit, Rows
<1>10. CollectionFit'
  BY <1>1, <1>3, <1>5 DEF CollectionFit, Rows, Resting, Put, Settled
<1>11. ASSUME NEW c, Retained(c) PROVE Retained(c)'
  BY <1>1, <1>3, <1>11 DEF Retained, Rows
<1>12. CompletedKept' /\ ObjectsAccounted'
  BY <1>1, <1>11 DEF CompletedKept, ObjectsAccounted, Retained
<1>13. ListedArtifactStored'
  BY <1>1, <1>3, <1>5 DEF ListedArtifactStored
<1> QED BY <1>6, <1>7, <1>8, <1>9, <1>10, <1>12, <1>13

LEMMA FindExpiredInv ==
  ASSUME BuildsInv, NEW batch \in SUBSET BuildIds, FindExpired(batch)
  PROVE  BuildsInv'
<1> USE DEF BuildsInv, Upkeep
<1> DEFINE step == [pc |-> "objects", batch |-> batch]
<1>1. /\ collection' = step
      /\ \A b \in batch : \E row \in Rows(b) : row.old
      /\ UNCHANGED <<upload, completion, drawn, reservation, lingering, artifact, build,
                     deletion, abandoned, revived>>
  BY DEF FindExpired, CollectionIs, kv, history
<1>2. /\ step \in [pc : {"objects", "rows"}, batch : SUBSET BuildIds]
      /\ step.pc = "objects" /\ step.batch = batch
  OBVIOUS
<1> HIDE DEF step
<1>3. \A b \in batch : Put(b) /\ Settled(b) /\ \A r \in Rows(b) : r.old
  BY <1>1 DEF RowsFit, Rows
<1>4. BuildTypeOK'
  BY <1>1, <1>2 DEF BuildTypeOK
<1>5. Ownership'
  BY <1>1 DEF Ownership
<1>6. RowsFit'
  BY <1>1 DEF RowsFit, Put, Settled
<1>7. DeletionFit'
  BY <1>1 DEF DeletionFit, Rows
<1>8. CollectionFit'
  <2>1. \A b \in batch : Put(b)' /\ Settled(b)'
    BY <1>1, <1>3 DEF Put, Settled
  <2> QED BY <1>1, <1>2, <1>3, <2>1 DEF CollectionFit, Rows
<1>9. CompletedKept' /\ ListedArtifactStored' /\ ObjectsAccounted'
  BY <1>1 DEF CompletedKept, Retained, ListedArtifactStored, ObjectsAccounted, Rows
<1> QED BY <1>4, <1>5, <1>6, <1>7, <1>8, <1>9

LEMMA CollectObjectsInv ==
  ASSUME BuildsInv, CollectObjects
  PROVE  BuildsInv'
<1> USE DEF BuildsInv, Upkeep
<1> DEFINE step == [collection EXCEPT !.pc = "rows"]
<1>1. /\ collection.pc = "objects" /\ collection' = step
      /\ artifact' = artifact \ collection.batch
      /\ UNCHANGED <<upload, completion, drawn, reservation, lingering, build, deletion,
                     abandoned, revived>>
  BY DEF CollectObjects, CollectionIs, kv, history
<1>2. /\ step \in [pc : {"objects", "rows"}, batch : SUBSET BuildIds]
      /\ step.pc = "rows" /\ step.batch = collection.batch
  BY <1>1 DEF BuildTypeOK, Resting
<1> HIDE DEF step
<1>3. BuildTypeOK'
  BY <1>1, <1>2 DEF BuildTypeOK
<1>4. Ownership'
  BY <1>1 DEF Ownership
<1>5. RowsFit'
  BY <1>1 DEF RowsFit, Put, Settled
<1>6. DeletionFit'
  BY <1>1 DEF DeletionFit, Rows
<1>7. \A b \in collection.batch : Put(b) /\ Settled(b) /\ \A r \in Rows(b) : r.old
  BY <1>1 DEF CollectionFit, Resting
<1>8. CollectionFit'
  <2>1. \A b \in collection.batch : Put(b)' /\ Settled(b)'
    BY <1>1, <1>7 DEF Put, Settled
  <2> QED BY <1>1, <1>2, <2>1 DEF CollectionFit
<1>9. CompletedKept' /\ ObjectsAccounted'
  BY <1>1 DEF CompletedKept, Retained, ObjectsAccounted, Rows
<1>10. ListedArtifactStored'
  BY <1>1, <1>7 DEF ListedArtifactStored, Rows
<1> QED BY <1>3, <1>4, <1>5, <1>6, <1>8, <1>9, <1>10

\* The rows lose their artifact after the objects are gone.
LEMMA CollectRowsInv ==
  ASSUME BuildsInv, CollectRows
  PROVE  BuildsInv'
<1> USE DEF BuildsInv, Upkeep
<1> DEFINE emptied(row) == IF row.id \in collection.batch THEN [row EXCEPT !.stored = FALSE] ELSE row
<1>1. /\ collection.pc = "rows" /\ collection' = Resting
      /\ build' = {emptied(row) : row \in build}
      /\ UNCHANGED <<upload, completion, drawn, reservation, lingering, artifact, deletion,
                     abandoned, revived>>
  BY DEF CollectRows, CollectionIs, kv, history
<1>2. \A row \in build :
        /\ emptied(row) \in BuildRow /\ emptied(row).id = row.id /\ emptied(row).old = row.old
        /\ emptied(row).stored <=> row.stored /\ row.id \notin collection.batch
  BY DEF BuildTypeOK, BuildRow
<1> HIDE DEF emptied
<1>3. \A c : \A r \in Rows(c)' : \E row \in Rows(c) : r = emptied(row)
  BY <1>1, <1>2 DEF Rows
<1>4. BuildTypeOK'
  BY <1>1, <1>2 DEF BuildTypeOK
<1>5. Ownership'
  BY <1>1 DEF Ownership
<1>6. RowsFit'
  <2>1. \A r, s \in build' : r.id = s.id => r = s
    BY <1>1, <1>2 DEF RowsFit
  <2>2. \A r \in build' : Put(r.id) /\ (r.old => Settled(r.id))
    BY <1>1, <1>2 DEF RowsFit
  <2> QED BY <1>1, <2>1, <2>2 DEF RowsFit, Put, Settled
<1>7. DeletionFit'
  <2>1. \A c : \A r \in Rows(c)' : \E row \in Rows(c) : r.id = row.id /\ (r.stored => row.stored)
    BY <1>2, <1>3 DEF Rows
  <2> QED BY <1>1, <2>1 DEF DeletionFit
<1>8. CollectionFit'
  BY <1>1 DEF CollectionFit, Resting
<1>9. \A c \in artifact : Retained(c) => Retained(c)'
  <2> SUFFICES ASSUME NEW c \in artifact, Retained(c) PROVE Retained(c)'
    OBVIOUS
  <2>1. CASE \E row \in Rows(c) : row.stored
    <3>1. PICK row \in build : row.id = c /\ row.stored
      BY <2>1 DEF Rows
    <3>2. c \notin collection.batch
      BY <1>1 DEF CollectionFit
    <3>3. emptied(row) \in build' /\ emptied(row).id = c /\ emptied(row).stored
      BY <1>1, <1>2, <3>1, <3>2
    <3> QED BY <3>3 DEF Retained, Rows
  <2> QED BY <1>1, <2>1 DEF Retained
<1>10. CompletedKept' /\ ObjectsAccounted'
  BY <1>1, <1>9 DEF CompletedKept, ObjectsAccounted, Retained
<1>11. ListedArtifactStored'
  BY <1>1, <1>2 DEF ListedArtifactStored
<1> QED BY <1>4, <1>5, <1>6, <1>7, <1>8, <1>10, <1>11

LEMMA CollectionDiesInv ==
  ASSUME BuildsInv, CollectionDies
  PROVE  BuildsInv'
<1> USE DEF BuildsInv, Upkeep
<1>1. /\ collection' = Resting
      /\ UNCHANGED <<upload, completion, drawn, reservation, lingering, artifact, build,
                     deletion, abandoned, revived>>
  BY DEF CollectionDies, CollectionIs, kv, history
<1>2. BuildTypeOK' /\ CollectionFit'
  BY <1>1 DEF BuildTypeOK, CollectionFit, Resting
<1>3. Ownership' /\ RowsFit' /\ DeletionFit'
  BY <1>1 DEF Ownership, RowsFit, Put, Settled, DeletionFit, Rows
<1>4. CompletedKept' /\ ListedArtifactStored' /\ ObjectsAccounted'
  BY <1>1 DEF CompletedKept, Retained, ListedArtifactStored, ObjectsAccounted, Rows
<1> QED BY <1>2, <1>3, <1>4

LEMMA BuildsStutterInv == BuildsInv /\ UNCHANGED buildVars => BuildsInv'
  BY DEF BuildsInv, Upkeep, buildVars, BuildTypeOK, Ownership, RowsFit, Put, Settled, DeletionFit,
         CollectionFit, CompletedKept, Retained, ListedArtifactStored, ObjectsAccounted, Rows

LEMMA BuildsNextInv == BuildsInv /\ [BuildNext]_buildVars => BuildsInv'
<1> SUFFICES ASSUME BuildsInv, [BuildNext]_buildVars PROVE BuildsInv'
  OBVIOUS
<1>1. ASSUME NEW u \in Uploads, UploadStep(u) PROVE BuildsInv'
  BY <1>1, ReserveInv, ReserveFailsInv, PutArtifactInv, PutFailsInv, CompleteBreaksInv,
     CompleteAnsweredInv DEF UploadStep
<1>2. ASSUME NEW u \in Uploads, NEW n \in Attempts, CompletionStep(u, n) PROVE BuildsInv'
  BY <1>2, GetReservationInv, InsertBuildInv, DeleteReservationInv, CompletionDiesInv
  DEF CompletionStep
<1> QED
  BY <1>1, <1>2, ReservationExpiresInv, DeleteFindInv, DeleteRowInv, DeleteObjectInv,
     DeletionDiesInv, AgeInv, FindExpiredInv, CollectObjectsInv, CollectRowsInv,
     CollectionDiesInv, BuildsStutterInv DEF BuildNext

(***************************************************************************)
(* The theorems.                                                           *)
(***************************************************************************)
LEMMA BuildsInvariant == BuildSpec => []BuildsInv
  BY BuildsInitInv, BuildsNextInv, PTL DEF BuildSpec

\* Commands, completions, deletions and collections keep to their types.
THEOREM BuildTypeCorrect == BuildSpec => []BuildTypeOK
<1>1. BuildsInv => BuildTypeOK
  BY DEF BuildsInv
<1> QED BY <1>1, BuildsInvariant, PTL

\* A listed artifact is in R2 whatever the order of repeated completions, of
\* deletions and of collections, with any number of commands: an insert needs
\* a reservation read while the id had no row, a deletion removes the object
\* after the row, and a collection only takes builds whose completion is over
\* (handlers/builds.ts:248-289, build-gc.ts:40-41).
THEOREM ListedArtifactsAreStored == BuildSpec => []ListedArtifactStored
<1>1. BuildsInv => ListedArtifactStored
  BY DEF BuildsInv
<1> QED BY <1>1, BuildsInvariant, PTL

\* An object in R2 is always answered for: by a listed artifact, by a command
\* or a deletion under way, or by one that ended half way; repeating a
\* completion never strands one (handlers/builds.ts:347-352).
THEOREM EveryObjectAccounted == BuildSpec => []ObjectsAccounted
<1>1. BuildsInv => ObjectsAccounted
  BY DEF BuildsInv
<1> QED BY <1>1, BuildsInvariant, PTL
=============================================================================
