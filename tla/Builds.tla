-------------------------------- MODULE Builds --------------------------------
(***************************************************************************)
(* Native builds: a command reserves a build (a KV entry with a TTL),       *)
(* uploads the artifact to R2 through a presigned URL and completes the     *)
(* build (D1 rows for the build and its artifact); a user deletes builds    *)
(* and a daily collection drops old artifacts.  The API client repeats a    *)
(* call whose connection broke, so one completion may run twice, at once or *)
(* one after the other.  Every KV, R2 and D1 call is a step.                *)
(*                                                                          *)
(* What a build is of (project, platform, profile, versions, hashes) is not *)
(* modelled; a completion carries the hash and size of its own reservation. *)
(***************************************************************************)
EXTENDS Naturals

CONSTANTS
  Uploads,     \* commands that upload an artifact
  BuildIds,    \* build ids the server may draw
  NoBuild,     \* no id yet
  MaxAttempts  \* bound: times the client sends one call (the code: 5)

ASSUME BuildsAssumption == MaxAttempts \in Nat \ {0} /\ NoBuild \notin BuildIds

VARIABLES
  upload,      \* what each command is doing
  completion,  \* the completion handler started by each attempt of a command
  drawn,       \* ids drawn so far
  reservation, \* ids in the KV namespace
  lingering,   \* ids deleted there that a read may still return
  artifact,    \* objects in R2, by build id
  build,       \* rows of builds, with those of build_artifacts
  deletion,    \* the user's deletion that is under way
  collection,  \* the daily collection that is under way
  abandoned,   \* history: ids whose command or deletion ended half way
  revived      \* history: ids completed again after their deletion began

buildVars == <<upload, completion, drawn, reservation, lingering, artifact,
               build, deletion, collection, abandoned, revived>>

Attempts == 1..MaxAttempts

UploadState == [pc : {"reserve", "complete"}, attempt : Attempts, id : BuildIds \cup {NoBuild}]
          \cup [pc : {"put", "done", "failed"}, id : BuildIds \cup {NoBuild}]

\* "missing" answers 404, "broken" 500 or nothing.
Handler == {"none", "get", "insert", "forget", "ok", "missing", "broken"}

\* `stored': the row of build_artifacts is there.
BuildRow == [id : BuildIds, stored : BOOLEAN, old : BOOLEAN]

Resting == [pc |-> "rest"]

BuildTypeOK ==
  /\ upload \in [Uploads -> UploadState]
  /\ completion \in [Uploads -> [Attempts -> Handler]]
  /\ drawn \subseteq BuildIds
  /\ reservation \subseteq drawn
  /\ lingering \subseteq drawn
  /\ artifact \subseteq drawn
  /\ build \subseteq BuildRow
  /\ deletion \in {Resting} \cup [pc : {"row"}, id : BuildIds, key : BOOLEAN]
                            \cup [pc : {"object"}, id : BuildIds]
  /\ collection \in {Resting} \cup [pc : {"objects", "rows"}, batch : SUBSET BuildIds]
  /\ abandoned \subseteq drawn
  /\ revived \subseteq drawn

BuildInit ==
  /\ upload = [u \in Uploads |-> [pc |-> "reserve", attempt |-> 1, id |-> NoBuild]]
  /\ completion = [u \in Uploads |-> [n \in Attempts |-> "none"]]
  /\ drawn = {} /\ reservation = {} /\ lingering = {}
  /\ artifact = {}
  /\ build = {}
  /\ deletion = Resting
  /\ collection = Resting
  /\ abandoned = {} /\ revived = {}

Rows(b) == {row \in build : row.id = b}

kv      == <<reservation, lingering>>
janitor == <<deletion, collection>>
history == <<abandoned, revived>>

(***************************************************************************)
(* The command: reserveAndUpload.                                          *)
(***************************************************************************)
UploadAt(u, pc)   == upload[u].pc = pc
ContinueUpload(u, pc) == upload' = [upload EXCEPT ![u] = [pc |-> pc, id |-> upload[u].id]]

FailUpload(u) ==
  /\ ContinueUpload(u, "failed")
  /\ abandoned' = abandoned \cup ({upload[u].id} \ {NoBuild})

\* retryTransient: a broken connection is tried again, an answer is not.
RetryUpload(u) ==
  IF upload[u].attempt < MaxAttempts
  THEN upload' = [upload EXCEPT ![u].attempt = @ + 1] /\ UNCHANGED abandoned
  ELSE FailUpload(u)

\* handleReserve, and its answer.
Reserve(u) ==
  /\ UploadAt(u, "reserve")
  /\ \E b \in BuildIds \ drawn :
       /\ drawn' = drawn \cup {b}
       /\ reservation' = reservation \cup {b}
       /\ \/ /\ upload' = [upload EXCEPT ![u] = [pc |-> "put", id |-> b]]
             /\ UNCHANGED abandoned
          \/ RetryUpload(u)   \* the answer is lost: the reservation just expires
  /\ UNCHANGED <<completion, lingering, artifact, build, janitor, revived>>

\* A call that never reached the server, or was refused.
ReserveFails(u) ==
  /\ UploadAt(u, "reserve")
  /\ RetryUpload(u) \/ FailUpload(u)
  /\ UNCHANGED <<completion, drawn, kv, artifact, build, janitor, revived>>

SendComplete(u, n) == completion' = [completion EXCEPT ![u][n] = "get"]

\* putToPresignedUrl is not retried; a lost answer fails the command.
PutArtifact(u) ==
  /\ UploadAt(u, "put")
  /\ artifact' = artifact \cup {upload[u].id}
  /\ \/ /\ upload' = [upload EXCEPT ![u] =
             [pc |-> "complete", attempt |-> 1, id |-> upload[u].id]]
        /\ SendComplete(u, 1)
        /\ UNCHANGED abandoned
     \/ FailUpload(u) /\ UNCHANGED completion
  /\ UNCHANGED <<drawn, kv, build, janitor, revived>>

\* The URL has expired, or the request failed.
PutFails(u) ==
  /\ UploadAt(u, "put")
  /\ FailUpload(u)
  /\ UNCHANGED <<completion, drawn, kv, artifact, build, janitor, revived>>

\* The connection breaks while the server works, or before it starts.
CompleteBreaks(u) ==
  /\ UploadAt(u, "complete")
  /\ RetryUpload(u)
  /\ LET n == upload[u].attempt + 1 IN
     IF n <= MaxAttempts THEN SendComplete(u, n) ELSE UNCHANGED completion
  /\ UNCHANGED <<drawn, kv, artifact, build, janitor, revived>>

CompleteAnswered(u) ==
  /\ UploadAt(u, "complete")
  /\ LET answer == completion[u][upload[u].attempt] IN
     \/ answer = "ok" /\ ContinueUpload(u, "done") /\ UNCHANGED abandoned
     \/ answer \in {"missing", "broken"} /\ FailUpload(u)
  /\ UNCHANGED <<completion, drawn, kv, artifact, build, janitor, revived>>

(***************************************************************************)
(* The server: handleComplete, one call at a time.                         *)
(***************************************************************************)
Handling(u, n, pc) == completion[u][n] = pc
Handle(u, n, pc)   == completion' = [completion EXCEPT ![u][n] = pc]

\* KV reads may be a minute old.
GetReservation(u, n) ==
  /\ Handling(u, n, "get")
  /\ \/ upload[u].id \in reservation \cup lingering /\ Handle(u, n, "insert")
     \/ upload[u].id \notin reservation /\ Handle(u, n, "missing")
  /\ UNCHANGED <<upload, drawn, kv, artifact, build, janitor, history>>

\* Mutant: any failed insert removes the object.
InsertBuildCleansUp(u, n) ==
  /\ Handling(u, n, "insert")
  /\ LET b == upload[u].id IN
     IF Rows(b) = {}
     THEN /\ build' = build \cup {[id |-> b, stored |-> TRUE, old |-> FALSE]}
          /\ revived' = IF b \in artifact /\ deletion.pc = "rest"
                        THEN revived ELSE revived \cup {b}
          /\ Handle(u, n, "forget")
          /\ UNCHANGED artifact
     ELSE /\ Handle(u, n, "broken")
          /\ artifact' = artifact \ {b}
          /\ UNCHANGED <<build, revived>>
  /\ UNCHANGED <<upload, drawn, kv, janitor, abandoned>>

\* One batch.  A row that exists is a defect, which the clean-up of the
\* object (a tapError) does not see.
InsertBuild(u, n) ==
  /\ Handling(u, n, "insert")
  /\ LET b == upload[u].id IN
     IF Rows(b) = {}
     THEN /\ build' = build \cup {[id |-> b, stored |-> TRUE, old |-> FALSE]}
          /\ revived' = IF b \in artifact /\ deletion.pc = "rest"
                        THEN revived ELSE revived \cup {b}
          /\ Handle(u, n, "forget")
     ELSE Handle(u, n, "broken") /\ UNCHANGED <<build, revived>>
  /\ UNCHANGED <<upload, drawn, kv, artifact, janitor, abandoned>>

DeleteReservation(u, n) ==
  /\ Handling(u, n, "forget")
  /\ reservation' = reservation \ {upload[u].id}
  /\ lingering' = lingering \cup {upload[u].id}
  /\ Handle(u, n, "ok")
  /\ UNCHANGED <<upload, drawn, artifact, build, janitor, history>>

\* The invocation ends, or a KV or D1 call rejects.
CompletionDies(u, n) ==
  /\ completion[u][n] \in {"get", "insert", "forget"}
  /\ Handle(u, n, "broken")
  /\ UNCHANGED <<upload, drawn, kv, artifact, build, janitor, history>>

\* The reservation's TTL, and the end of a deleted entry's visibility.
ReservationExpires(b) ==
  /\ b \in reservation \cup lingering
  /\ reservation' = reservation \ {b}
  /\ lingering' = lingering \ {b}
  /\ UNCHANGED <<upload, completion, drawn, artifact, build, janitor, history>>

(***************************************************************************)
(* handleDelete: the key is read, the row deleted, the object deleted.     *)
(***************************************************************************)
DeletionIs(step) == deletion' = step /\ UNCHANGED <<upload, completion, drawn, kv, collection, revived>>

DeleteFind(row) ==
  /\ deletion = Resting
  /\ DeletionIs([pc |-> "row", id |-> row.id, key |-> row.stored])
  /\ UNCHANGED <<artifact, build, abandoned>>

\* Mutant: the key is read after the cascade has taken it.
DeleteRowFirst ==
  /\ deletion.pc = "row"
  /\ build' = build \ Rows(deletion.id)
  /\ DeletionIs(Resting)
  /\ UNCHANGED <<artifact, abandoned>>

DeleteRow ==
  /\ deletion.pc = "row"
  /\ build' = build \ Rows(deletion.id)
  /\ DeletionIs(IF Rows(deletion.id) # {} /\ deletion.key
                THEN [pc |-> "object", id |-> deletion.id] ELSE Resting)
  /\ UNCHANGED <<artifact, abandoned>>

DeleteObject ==
  /\ deletion.pc = "object"
  /\ artifact' = artifact \ {deletion.id}
  /\ DeletionIs(Resting)
  /\ UNCHANGED <<build, abandoned>>

DeletionDies ==
  /\ deletion # Resting
  /\ abandoned' = abandoned \cup {deletion.id}
  /\ DeletionIs(Resting)
  /\ UNCHANGED <<artifact, build>>

(***************************************************************************)
(* processProfileRetention, page by page.                                  *)
(***************************************************************************)
CollectionIs(step) ==
  collection' = step /\ UNCHANGED <<upload, completion, drawn, kv, deletion, history>>

\* A build passes its profile's retention (days), when its reservation (three
\* hours) and whoever completed it are long gone.
Age(row) ==
  /\ ~row.old
  /\ row.id \notin reservation \cup lingering
  /\ \A u \in Uploads, n \in Attempts :
       upload[u].id = row.id => completion[u][n] \notin {"get", "insert", "forget"}
  /\ build' = (build \ {row}) \cup {[row EXCEPT !.old = TRUE]}
  /\ UNCHANGED <<upload, completion, drawn, kv, artifact, janitor, history>>

FindExpired(batch) ==
  /\ collection = Resting
  /\ batch # {}
  /\ \A b \in batch : \E row \in Rows(b) : row.old /\ row.stored
  /\ CollectionIs([pc |-> "objects", batch |-> batch])
  /\ UNCHANGED <<artifact, build>>

CollectObjects ==
  /\ collection.pc = "objects"
  /\ artifact' = artifact \ collection.batch
  /\ CollectionIs([collection EXCEPT !.pc = "rows"])
  /\ UNCHANGED build

CollectRows ==
  /\ collection.pc = "rows"
  /\ build' = {IF row.id \in collection.batch THEN [row EXCEPT !.stored = FALSE] ELSE row :
                 row \in build}
  /\ CollectionIs(Resting)
  /\ UNCHANGED artifact

CollectionDies ==
  /\ collection # Resting
  /\ CollectionIs(Resting)
  /\ UNCHANGED <<artifact, build>>

UploadStep(u) ==
  \/ Reserve(u) \/ ReserveFails(u)
  \/ PutArtifact(u) \/ PutFails(u)
  \/ CompleteBreaks(u) \/ CompleteAnswered(u)

CompletionStep(u, n) ==
  \/ GetReservation(u, n)
  \/ InsertBuild(u, n)
  \/ DeleteReservation(u, n)
  \/ CompletionDies(u, n)

BuildNext ==
  \/ \E u \in Uploads : UploadStep(u)
  \/ \E u \in Uploads, n \in Attempts : CompletionStep(u, n)
  \/ \E b \in BuildIds : ReservationExpires(b)
  \/ \E row \in build : DeleteFind(row)
  \/ DeleteRow \/ DeleteObject \/ DeletionDies
  \/ \E row \in build : Age(row)
  \/ \E batch \in SUBSET BuildIds : FindExpired(batch)
  \/ CollectObjects \/ CollectRows \/ CollectionDies

BuildSpec == BuildInit /\ [][BuildNext]_buildVars

(***************************************************************************)
(* Properties.                                                             *)
(***************************************************************************)

\* A build that lists an artifact has it in R2, however often its completion
\* was repeated: only an artifact past retention, which a later collection
\* finds again, or a completion that overtook the build's deletion, is
\* listed without one (handlers/builds.ts:248-289, build-gc.ts:40-41).
ListedArtifactStored ==
  \A row \in build :
    row.stored => row.id \in artifact \/ row.old \/ row.id \in revived

\* No object is left in R2 that nothing refers to: it belongs to a listed
\* artifact, to a command or a deletion that is still running, or to one that
\* ended half way (handlers/builds.ts:347-352).
ObjectsAccounted ==
  \A b \in artifact :
    \/ \E row \in Rows(b) : row.stored
    \/ \E u \in Uploads : upload[u].id = b /\ upload[u].pc \in {"put", "complete"}
    \/ deletion.pc = "object" /\ deletion.id = b
    \/ b \in abandoned \cup revived
=============================================================================
