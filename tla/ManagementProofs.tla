-------------------------- MODULE ManagementProofs --------------------------
(***************************************************************************)
(* Machine-checked proofs about the components a project is managed with:   *)
(* submissions, environment variables and channels, for any number of       *)
(* commands, requests, repeated calls, variables and mapping entries.       *)
(***************************************************************************)
EXTENDS MCManagement, FiniteSetTheorems, FunctionTheorems, TLAPS

USE SubmissionsAssumption

(***************************************************************************)
(* Submissions: the inductive invariant.  A row has at most one command; it *)
(* says nothing of the store before that command reports, and from then on  *)
(* every call of it says the same.                                          *)
(***************************************************************************)

\* Nothing has been said of the submission's end, nor has it come.
Untold(i) ==
  /\ i \notin published
  /\ submission[i] \notin {"FINISHED", "ERRORED"}
  /\ <<i, "FINISHED">> \notin delayed /\ <<i, "ERRORED">> \notin delayed

\* The outcome is what happened, or all that the command was told.
Truth(i, outcome) ==
  /\ outcome = "FINISHED" => i \in published
  /\ outcome = "ERRORED" => i \notin published \/ i \in unheard

\* No two commands have the same row.
OneEach ==
  \A s, t \in Submitters :
    s # t /\ submitter[s].id = submitter[t].id => submitter[s].id = NoSubmission

\* A command has a row exactly from the answer to its create call on.
HasRow(s) ==
  /\ submitter[s].pc \in {"idle", "create"} => submitter[s].id = NoSubmission
  /\ submitter[s].pc \in {"credentials", "start", "upload", "commit", "report", "poll"} =>
       submitter[s].id \in SubmissionIds
  /\ submitter[s].id # NoSubmission => submission[submitter[s].id] # "none"

Reports(s) ==
  /\ submitter[s].pc \in {"credentials", "start", "upload", "commit"} => Untold(submitter[s].id)
  /\ submitter[s].pc = "report" => Truth(submitter[s].id, submitter[s].outcome)

\* Nothing is known of a submission before its row.
RowsFirst ==
  \A i \in SubmissionIds : submission[i] = "none" =>
    i \notin published /\ \A status \in {"IN_PROGRESS", "FINISHED", "ERRORED"} : <<i, status>> \notin delayed

DelayedTruthful ==
  \A i \in SubmissionIds, status \in {"FINISHED", "ERRORED"} :
    <<i, status>> \in delayed => Truth(i, status)

\* A cancellation has read a live status.
ReadLive == canceling # NotCanceling => canceling.read \in Live

SubmissionInv ==
  /\ SubmissionTypeOK
  /\ ReadLive
  /\ OneEach
  /\ \A s \in Submitters : HasRow(s) /\ Reports(s)
  /\ RowsFirst
  /\ DelayedTruthful
  /\ OutcomeTruthful

(***************************************************************************)
(* How the commands' state moves.                                          *)
(***************************************************************************)

\* The command s is now at pc with this row and this outcome; the others are
\* where they were.
CommandAt(s, pc, id, outcome) ==
  /\ submitter' \in [Submitters -> Submitter]
  /\ submitter'[s].pc = pc /\ submitter'[s].id = id /\ submitter'[s].outcome = outcome
  /\ \A t \in Submitters \ {s} : submitter'[t] = submitter[t]

Places ==
  {"idle", "create", "credentials", "start", "upload", "commit", "report", "poll", "done", "failed"}

Status == {"IN_PROGRESS", "FINISHED", "ERRORED"}

LEMMA SubmitToMoves ==
  ASSUME SubmissionTypeOK, NEW s \in Submitters, NEW pc \in Places, SubmitTo(s, pc)
  PROVE  CommandAt(s, pc, submitter[s].id, submitter[s].outcome)
<1>1. submitter[s] \in Submitter
  BY DEF SubmissionTypeOK
<1>2. 1 \in 1..MaxCalls
  OBVIOUS
<1>3. [submitter[s] EXCEPT !.pc = pc, !.call = 1] \in Submitter
  BY <1>1, <1>2 DEF Submitter, Places
<1> QED BY <1>1, <1>3 DEF CommandAt, SubmitTo, SubmissionTypeOK, Submitter

LEMMA RetryMoves ==
  ASSUME SubmissionTypeOK, NEW s \in Submitters, RetryCall(s)
  PROVE  \/ CommandAt(s, submitter[s].pc, submitter[s].id, submitter[s].outcome)
         \/ CommandAt(s, "failed", submitter[s].id, submitter[s].outcome)
<1>1. submitter[s] \in Submitter
  BY DEF SubmissionTypeOK
<1>2. CASE submitter[s].call < MaxCalls
  <2>1. [submitter[s] EXCEPT !.call = @ + 1] \in Submitter
    BY <1>1, <1>2 DEF Submitter
  <2> QED BY <1>1, <1>2, <2>1 DEF CommandAt, RetryCall, SubmissionTypeOK, Submitter
<1>3. CASE ~(submitter[s].call < MaxCalls)
  BY <1>3, SubmitToMoves DEF RetryCall, Places
<1> QED BY <1>2, <1>3

LEMMA ReportNextMoves ==
  ASSUME SubmissionTypeOK, NEW s \in Submitters, NEW outcome \in {"FINISHED", "ERRORED"},
         ReportNext(s, outcome)
  PROVE  CommandAt(s, "report", submitter[s].id, outcome)
<1>1. submitter[s] \in Submitter
  BY DEF SubmissionTypeOK
<1>2. [submitter[s] EXCEPT !.pc = "report", !.outcome = outcome] \in Submitter
  BY <1>1 DEF Submitter
<1> QED BY <1>1, <1>2 DEF CommandAt, ReportNext, SubmissionTypeOK, Submitter

\* A command that goes on with what it has: to a place where nothing is
\* claimed, or from a place that claims as much.
LEMMA GoesOn ==
  ASSUME SubmissionInv, NEW s \in Submitters, NEW pc,
         CommandAt(s, pc, submitter[s].id, submitter[s].outcome),
         UNCHANGED <<submission, delayed, canceling, store>>,
         \/ pc \in {"done", "failed"}
         \/ pc = submitter[s].pc
         \/ pc = "create" /\ submitter[s].pc = "idle"
         \/ pc = "start" /\ submitter[s].pc = "credentials"
         \/ pc = "commit" /\ submitter[s].pc = "upload"
  PROVE  SubmissionInv'
<1> USE DEF SubmissionInv, CommandAt, store
<1>1. SubmissionTypeOK'
  BY DEF SubmissionTypeOK
<1>2. OneEach' /\ ReadLive'
  BY DEF OneEach, ReadLive
<1>3. ASSUME NEW t \in Submitters PROVE (HasRow(t) /\ Reports(t))'
  BY <1>3 DEF HasRow, Reports, Untold, Truth
<1>4. RowsFirst' /\ DelayedTruthful' /\ OutcomeTruthful'
  BY DEF RowsFirst, DelayedTruthful, OutcomeTruthful, Truth
<1> QED BY <1>1, <1>2, <1>3, <1>4

\* A PATCH of the command's about its own row lands, will land or is lost: it
\* says nothing of the submission's end, or the command's outcome.
LEMMA Calls ==
  ASSUME SubmissionInv, NEW s \in Submitters, NEW pc, NEW status \in Status, NEW i \in SubmissionIds,
         submitter[s].id = i,
         status = "IN_PROGRESS" \/ (submitter[s].pc = "report" /\ Truth(i, status)),
         CommandAt(s, pc, i, submitter[s].outcome),
         \/ pc \in {"poll", "done", "failed"}
         \/ pc = submitter[s].pc
         \/ pc = "upload" /\ submitter[s].pc = "start",
         UNCHANGED <<canceling, store>>,
         \/ Land(i, status) /\ UNCHANGED delayed
         \/ delayed' = delayed \cup {<<i, status>>} /\ UNCHANGED submission
         \/ UNCHANGED <<submission, delayed>>
  PROVE  SubmissionInv'
<1> USE DEF SubmissionInv, CommandAt, store
<1>1. submission[i] # "none" /\ i # NoSubmission
  BY DEF HasRow
<1>2. /\ submission' \in [SubmissionIds -> Live \cup Terminal \cup {"none", "deleted"}]
      /\ \A j \in SubmissionIds :
           submission'[j] # submission[j] => j = i /\ submission'[j] = status
      /\ \A j \in SubmissionIds : submission'[j] = "none" <=> submission[j] = "none"
  BY <1>1 DEF SubmissionTypeOK, Land, RowExists, Status, Live, Terminal
<1>3. delayed' \subseteq delayed \cup {<<i, status>>} /\ delayed \subseteq delayed'
  OBVIOUS
<1>4. SubmissionTypeOK'
  BY <1>2, <1>3 DEF SubmissionTypeOK, Status
<1>5. OneEach' /\ ReadLive'
  BY DEF OneEach, ReadLive
<1>6. ASSUME NEW t \in Submitters PROVE HasRow(t)'
  BY <1>1, <1>2, <1>6 DEF HasRow, SubmissionTypeOK, Submitter
<1>7. ASSUME NEW t \in Submitters PROVE Reports(t)'
  <2>1. CASE t = s
    BY <1>1, <1>2, <1>3, <2>1 DEF Reports, Untold, Truth, Status
  <2>2. CASE t # s
    <3>1. submitter'[t] = submitter[t] /\ submitter[t].id # i
      BY <1>1, <2>2 DEF OneEach
    <3>2. submitter[t].pc \in {"credentials", "start", "upload", "commit"} =>
            submitter[t].id \in SubmissionIds
      BY DEF HasRow
    <3> QED BY <1>2, <1>3, <3>1, <3>2 DEF Reports, Untold, Truth
  <2> QED BY <2>1, <2>2
<1>8. RowsFirst'
  BY <1>1, <1>2, <1>3 DEF RowsFirst
<1>9. DelayedTruthful' /\ OutcomeTruthful'
  BY <1>2, <1>3 DEF DelayedTruthful, OutcomeTruthful, Truth, Status
<1> QED BY <1>4, <1>5, <1>6, <1>7, <1>8, <1>9

\* The command hears of its store, or hears nothing and takes it for an error.
LEMMA Hears ==
  ASSUME SubmissionInv, NEW s \in Submitters, submitter[s].pc \in {"upload", "commit"},
         StoreAnswers(s) \/ (ReportNext(s, "ERRORED") /\ UNCHANGED store),
         UNCHANGED <<submission, delayed, canceling>>
  PROVE  SubmissionInv'
<1> DEFINE i == submitter[s].id
<1> USE DEF SubmissionInv
<1>1. i \in SubmissionIds /\ i # NoSubmission /\ submission[i] # "none" /\ Untold(i)
  BY DEF HasRow, Reports
<1>2. PICK outcome \in {"FINISHED", "ERRORED"} :
        /\ ReportNext(s, outcome)
        /\ published' \in {published, published \cup {i}}
        /\ unheard' \in {unheard, unheard \cup {i}}
        /\ outcome = "FINISHED" => i \in published'
        /\ outcome = "ERRORED" => i \notin published' \/ i \in unheard'
        /\ i \in unheard' => i \in published'
  BY <1>1 DEF StoreAnswers, store, Untold, SubmissionTypeOK
<1>3. CommandAt(s, "report", i, outcome)
  BY <1>2, ReportNextMoves
<1> HIDE DEF i
<1>4. \A j \in SubmissionIds \ {i} :
        (j \in published' <=> j \in published) /\ (j \in unheard' <=> j \in unheard)
  BY <1>2
<1>5. SubmissionTypeOK'
  BY <1>1, <1>2, <1>3 DEF SubmissionTypeOK, CommandAt
<1>6. OneEach' /\ ReadLive'
  BY <1>3 DEF OneEach, ReadLive, CommandAt, i
<1>7. ASSUME NEW t \in Submitters PROVE HasRow(t)' /\ Reports(t)'
  <2>1. CASE t = s
    BY <1>1, <1>2, <1>3, <2>1 DEF CommandAt, HasRow, Reports, Truth
  <2>2. CASE t # s
    <3>1. submitter'[t] = submitter[t] /\ submitter[t].id # i
      BY <1>1, <1>3, <2>2 DEF OneEach, CommandAt, i
    <3>2. submitter[t].pc \in {"credentials", "start", "upload", "commit", "report"} =>
            submitter[t].id \in SubmissionIds \ {i}
      BY <3>1 DEF HasRow
    <3>3. HasRow(t)'
      BY <3>1 DEF HasRow
    <3>4. Reports(t)'
      BY <1>4, <3>1, <3>2 DEF Reports, Untold, Truth
    <3> QED BY <3>3, <3>4
  <2> QED BY <2>1, <2>2
<1>8. RowsFirst'
  BY <1>1, <1>2 DEF RowsFirst
<1>9. \A other \in {"FINISHED", "ERRORED"} :
        submission[i] # other /\ <<i, other>> \notin delayed
  BY <1>1 DEF Untold
<1>10. DelayedTruthful'
  BY <1>4, <1>9 DEF DelayedTruthful, Truth
<1>11. OutcomeTruthful'
  BY <1>4, <1>9 DEF OutcomeTruthful
<1> QED BY <1>5, <1>6, <1>7, <1>8, <1>10, <1>11

\* A status lands that no command waits for, or a user writes one: the row
\* is already there, and the status is true.
LEMMA RowWritten ==
  ASSUME SubmissionInv, NEW i \in SubmissionIds, NEW status \in Live \cup Terminal \cup {"deleted"},
         status \in {"FINISHED", "ERRORED"} => Truth(i, status) /\ <<i, status>> \in delayed,
         submission' = [submission EXCEPT ![i] = IF RowExists(i) THEN status ELSE @],
         delayed' \subseteq delayed,
         canceling' \in {canceling, NotCanceling},
         UNCHANGED <<submitter, store>>
  PROVE  SubmissionInv'
<1> USE DEF SubmissionInv, store
<1>1. /\ submission' \in [SubmissionIds -> Live \cup Terminal \cup {"none", "deleted"}]
      /\ \A j \in SubmissionIds :
           submission'[j] # submission[j] => j = i /\ submission'[j] = status
      /\ \A j \in SubmissionIds : submission'[j] = "none" <=> submission[j] = "none"
  BY DEF SubmissionTypeOK, RowExists, Live, Terminal
<1>2. SubmissionTypeOK' /\ OneEach' /\ ReadLive'
  BY <1>1 DEF SubmissionTypeOK, OneEach, ReadLive
<1>3. ASSUME NEW t \in Submitters PROVE HasRow(t)' /\ Reports(t)'
  BY <1>1, <1>3 DEF HasRow, Reports, Untold, Truth, SubmissionTypeOK, Submitter
<1>4. RowsFirst' /\ DelayedTruthful'
  BY <1>1 DEF RowsFirst, DelayedTruthful, Truth
<1>5. OutcomeTruthful'
  BY <1>1 DEF OutcomeTruthful, Truth
<1> QED BY <1>2, <1>3, <1>4, <1>5

LEMMA InvokeKeeps ==
  ASSUME SubmissionInv, NEW s \in Submitters, NEW flow \in Flows, Invoke(s, flow)
  PROVE  SubmissionInv'
<1>1. submitter[s] \in Submitter
  BY DEF SubmissionInv, SubmissionTypeOK
<1>2. [submitter[s] EXCEPT !.pc = "create", !.flow = flow] \in Submitter
  BY <1>1 DEF Submitter
<1>3. CommandAt(s, "create", submitter[s].id, submitter[s].outcome)
  BY <1>1, <1>2 DEF CommandAt, Invoke, SubmissionInv, SubmissionTypeOK, Submitter
<1> QED BY <1>3, GoesOn DEF Invoke, SubmitterAt

\* A row is created: the command has it, or never hears of it.
LEMMA CreateKeeps ==
  ASSUME SubmissionInv, NEW s \in Submitters, Create(s)
  PROVE  SubmissionInv'
<1> USE DEF SubmissionInv, store
<1>1. PICK i \in SubmissionIds :
        /\ submission[i] = "none"
        /\ submission' = [submission EXCEPT ![i] =
             IF submitter[s].flow.local THEN "IN_QUEUE" ELSE "AWAITING_BUILD"]
        /\ \/ submitter' = [submitter EXCEPT ![s].id = i, ![s].call = 1,
                ![s].pc = CASE submitter[s].flow.upload # "none" -> "credentials"
                            [] submitter[s].flow.upload = "none" ->
                                 IF submitter[s].flow.wait THEN "poll" ELSE "done"]
           \/ RetryCall(s)
  BY DEF Create
<1>2. submitter[s] \in Submitter /\ submitter[s].pc = "create" /\ submitter[s].id = NoSubmission
  BY DEF Create, SubmitterAt, HasRow, SubmissionTypeOK
<1>3. \E pc \in {"create", "credentials", "poll", "done", "failed"}, id \in {i, NoSubmission} :
        /\ CommandAt(s, pc, id, submitter[s].outcome)
        /\ id = i => pc \in {"credentials", "poll", "done"}
        /\ id = NoSubmission => pc \in {"create", "failed"}
  <2>1. CASE RetryCall(s)
    BY <1>2, <2>1, RetryMoves
  <2>2. CASE ~RetryCall(s)
    <3> DEFINE pc == IF submitter[s].flow.upload # "none" THEN "credentials"
                     ELSE IF submitter[s].flow.wait THEN "poll" ELSE "done"
    <3>1. (CASE submitter[s].flow.upload # "none" -> "credentials"
             [] submitter[s].flow.upload = "none" ->
                  IF submitter[s].flow.wait THEN "poll" ELSE "done") = pc
      OBVIOUS
    <3>2. pc \in {"credentials", "poll", "done"}
      OBVIOUS
    <3>3. submitter' = [submitter EXCEPT ![s].id = i, ![s].call = 1, ![s].pc = pc]
      BY <1>1, <2>2, <3>1
    <3> HIDE DEF pc
    <3>4. 1 \in 1..MaxCalls
      OBVIOUS
    <3>5. [submitter[s] EXCEPT !.id = i, !.call = 1, !.pc = pc] \in Submitter
      BY <1>2, <3>2, <3>4 DEF Submitter
    <3>6. CommandAt(s, pc, i, submitter[s].outcome)
      BY <1>2, <3>2, <3>3, <3>5 DEF CommandAt, SubmissionTypeOK, Submitter
    <3> QED BY <3>2, <3>6
  <2> QED BY <2>1, <2>2
<1>4. PICK pc \in {"create", "credentials", "poll", "done", "failed"}, id \in {i, NoSubmission} :
        /\ CommandAt(s, pc, id, submitter[s].outcome)
        /\ id = i => pc \in {"credentials", "poll", "done"}
        /\ id = NoSubmission => pc \in {"create", "failed"}
  BY <1>3
<1>5. /\ submission'[i] \in {"IN_QUEUE", "AWAITING_BUILD"}
      /\ \A j \in SubmissionIds \ {i} : submission'[j] = submission[j]
      /\ submission' \in [SubmissionIds -> Live \cup Terminal \cup {"none", "deleted"}]
  BY <1>1 DEF SubmissionTypeOK, Live
<1>6. UNCHANGED <<delayed, canceling, published, unheard>>
  BY DEF Create
<1>7. i \notin published /\ \A status \in Status : <<i, status>> \notin delayed
  BY <1>1 DEF RowsFirst, Status
<1>8. \A t \in Submitters : submitter[t].id # i
  BY <1>1 DEF HasRow, SubmissionTypeOK, Submitter
<1>9. SubmissionTypeOK'
  BY <1>4, <1>5, <1>6 DEF SubmissionTypeOK, CommandAt
<1>10. OneEach' /\ ReadLive'
  BY <1>2, <1>4, <1>6, <1>8 DEF OneEach, ReadLive, CommandAt
<1>11. ASSUME NEW t \in Submitters PROVE HasRow(t)' /\ Reports(t)'
  <2>1. CASE t = s
    BY <1>4, <1>5, <1>6, <1>7, <2>1 DEF CommandAt, HasRow, Reports, Untold, Status
  <2>2. CASE t # s
    <3>1. submitter'[t] = submitter[t] /\ submitter[t].id # i
      BY <1>4, <1>8, <2>2 DEF CommandAt
    <3>2. submitter[t].id \in SubmissionIds \cup {NoSubmission}
      BY DEF SubmissionTypeOK, Submitter
    <3>3. HasRow(t)'
      BY <1>5, <3>1, <3>2 DEF HasRow
    <3>4. submitter[t].pc \in {"credentials", "start", "upload", "commit", "report"} =>
            submitter[t].id \in SubmissionIds \ {i}
      BY <3>1 DEF HasRow
    <3>5. Reports(t)'
      BY <1>5, <1>6, <3>1, <3>4 DEF Reports, Untold, Truth
    <3> QED BY <3>3, <3>5
  <2> QED BY <2>1, <2>2
<1>12. RowsFirst' /\ DelayedTruthful' /\ OutcomeTruthful'
  BY <1>5, <1>6 DEF RowsFirst, DelayedTruthful, OutcomeTruthful, Truth
<1> QED BY <1>9, <1>10, <1>11, <1>12

LEMMA FetchCredentialsKeeps ==
  ASSUME SubmissionInv, NEW s \in Submitters, FetchCredentials(s)
  PROVE  SubmissionInv'
<1>1. PICK pc \in {"start", "failed"} : SubmitTo(s, pc)
  BY DEF FetchCredentials
<1>2. CommandAt(s, pc, submitter[s].id, submitter[s].outcome)
  BY <1>1, SubmitToMoves DEF SubmissionInv, Places
<1> QED BY <1>2, GoesOn DEF FetchCredentials, SubmitterAt

LEMMA StartKeeps ==
  ASSUME SubmissionInv, NEW s \in Submitters, Start(s)
  PROVE  SubmissionInv'
<1> DEFINE i == submitter[s].id
<1>1. submitter[s].pc = "start" /\ i \in SubmissionIds
  BY DEF Start, SubmitterAt, SubmissionInv, HasRow
<1>2. PICK pc \in {"start", "upload", "failed"} : CommandAt(s, pc, i, submitter[s].outcome)
  <2>1. CASE RetryCall(s)
    BY <1>1, <2>1, RetryMoves DEF SubmissionInv
  <2>2. CASE ~RetryCall(s)
    BY <2>2, SubmitToMoves DEF Start, Answered, Broken, SubmissionInv, Places
  <2> QED BY <2>1, <2>2
<1>3. /\ UNCHANGED <<canceling, store>>
      /\ \/ Land(i, "IN_PROGRESS") /\ UNCHANGED delayed
         \/ delayed' = delayed \cup {<<i, "IN_PROGRESS">>} /\ UNCHANGED submission
         \/ UNCHANGED <<submission, delayed>>
  BY DEF Start, Answered, Broken
<1>4. "IN_PROGRESS" \in Status /\ submitter[s].id = i
  BY DEF Status
<1>5. pc \in {"poll", "done", "failed"} \/ pc = submitter[s].pc \/ (pc = "upload" /\ submitter[s].pc = "start")
  BY <1>1, <1>2
<1> HIDE DEF i
<1> QED BY <1>1, <1>2, <1>3, <1>4, <1>5, Calls

LEMMA ReportKeeps ==
  ASSUME SubmissionInv, NEW s \in Submitters, Report(s)
  PROVE  SubmissionInv'
<1> DEFINE i == submitter[s].id
           outcome == submitter[s].outcome
<1>1. submitter[s].pc = "report" /\ i \in SubmissionIds /\ Truth(i, outcome) /\ outcome \in Status
  BY DEF Report, SubmitterAt, SubmissionInv, HasRow, Reports, SubmissionTypeOK, Submitter, Status
<1>2. PICK pc \in {"report", "poll", "done", "failed"} : CommandAt(s, pc, i, submitter[s].outcome)
  <2>1. CASE RetryCall(s)
    BY <1>1, <2>1, RetryMoves DEF SubmissionInv
  <2>2. CASE ~RetryCall(s)
    <3>1. SubmitTo(s, "failed") \/ SubmitTo(s, "poll") \/ SubmitTo(s, "done")
      BY <2>2 DEF Report, Answered, Broken, Settle
    <3> QED BY <3>1, SubmitToMoves DEF SubmissionInv, Places
  <2> QED BY <2>1, <2>2
<1>3. /\ UNCHANGED <<canceling, store>>
      /\ \/ Land(i, outcome) /\ UNCHANGED delayed
         \/ delayed' = delayed \cup {<<i, outcome>>} /\ UNCHANGED submission
         \/ UNCHANGED <<submission, delayed>>
  BY DEF Report, Answered, Broken
<1> HIDE DEF i, outcome
<1> QED BY <1>1, <1>2, <1>3, Calls DEF i

LEMMA StoresKeep ==
  ASSUME SubmissionInv, NEW s \in Submitters,
         RunAltool(s) \/ PreparePlayEdit(s) \/ CommitPlayEdit(s)
  PROVE  SubmissionInv'
<1>1. CASE RunAltool(s)
  <2>1. submitter[s].pc \in {"upload", "commit"}
    BY <1>1 DEF RunAltool, SubmitterAt
  <2>2. StoreAnswers(s) \/ (ReportNext(s, "ERRORED") /\ UNCHANGED store)
    BY <1>1 DEF RunAltool
  <2>3. UNCHANGED <<submission, delayed, canceling>>
    BY <1>1 DEF RunAltool
  <2> QED BY <2>1, <2>2, <2>3, Hears
<1>2. CASE PreparePlayEdit(s)
  <2>1. CASE SubmitTo(s, "commit")
    BY <1>2, <2>1, SubmitToMoves, GoesOn DEF PreparePlayEdit, SubmitterAt, SubmissionInv, Places
  <2>2. CASE ReportNext(s, "ERRORED")
    BY <1>2, <2>2, Hears DEF PreparePlayEdit, SubmitterAt
  <2> QED BY <1>2, <2>1, <2>2 DEF PreparePlayEdit
<1>3. CASE CommitPlayEdit(s)
  <2>1. submitter[s].pc \in {"upload", "commit"}
    BY <1>3 DEF CommitPlayEdit, SubmitterAt
  <2>2. StoreAnswers(s) /\ UNCHANGED <<submission, delayed, canceling>>
    BY <1>3 DEF CommitPlayEdit
  <2> QED BY <2>1, <2>2, Hears
<1> QED BY <1>1, <1>2, <1>3

LEMMA EndsKeep ==
  ASSUME SubmissionInv, NEW s \in Submitters, Poll(s) \/ SubmitterDies(s)
  PROVE  SubmissionInv'
<1>1. PICK pc \in {"done", "failed"} : SubmitTo(s, pc)
  BY DEF Poll, SubmitterDies
<1>2. CommandAt(s, pc, submitter[s].id, submitter[s].outcome)
  BY <1>1, SubmitToMoves DEF SubmissionInv, Places
<1> QED BY <1>2, GoesOn DEF Poll, SubmitterDies

LEMMA LandDelayedKeeps ==
  ASSUME SubmissionInv, NEW i \in SubmissionIds, NEW status \in Status, LandDelayed(i, status)
  PROVE  SubmissionInv'
<1>1. status \in {"FINISHED", "ERRORED"} => Truth(i, status) /\ <<i, status>> \in delayed
  BY DEF LandDelayed, SubmissionInv, DelayedTruthful
<1>2. status \in Live \cup Terminal \cup {"deleted"}
  BY DEF Status, Live, Terminal
<1> QED BY <1>1, <1>2, RowWritten DEF LandDelayed, Land

LEMMA CancelKeeps ==
  ASSUME SubmissionInv, CancelWrite \/ CancelDies \/ \E i \in SubmissionIds : CancelFind(i)
  PROVE  SubmissionInv'
<1>1. CASE CancelWrite
  <2>1. canceling.id \in SubmissionIds
    BY <1>1 DEF CancelWrite, SubmissionInv, SubmissionTypeOK
  <2>2. "CANCELED" \in Live \cup Terminal \cup {"deleted"}
    BY DEF Terminal
  <2> QED BY <1>1, <2>1, <2>2, RowWritten DEF CancelWrite, Land
<1>2. CASE ~CancelWrite
  <2>1. SubmissionTypeOK' /\ ReadLive' /\ UNCHANGED <<submission, submitter, delayed, store>>
    BY <1>2 DEF CancelDies, CancelFind, SubmissionInv, SubmissionTypeOK, ReadLive, Live, store
  <2> QED
    BY <2>1 DEF SubmissionInv, OneEach, HasRow, Reports, Untold, Truth, RowsFirst,
                DelayedTruthful, OutcomeTruthful, store
<1> QED BY <1>1, <1>2

LEMMA DeleteSubmissionKeeps ==
  ASSUME SubmissionInv, NEW i \in SubmissionIds, DeleteSubmission(i)
  PROVE  SubmissionInv'
BY RowWritten DEF DeleteSubmission, RowExists

LEMMA SubmissionStep ==
  ASSUME SubmissionInv, [SubmissionNext]_submissionVars
  PROVE  SubmissionInv'
<1>1. CASE UNCHANGED submissionVars
  BY <1>1 DEF submissionVars, SubmissionInv, SubmissionTypeOK, ReadLive, OneEach, HasRow, Reports,
              Untold, Truth, RowsFirst, DelayedTruthful, OutcomeTruthful
<1>2. ASSUME NEW s \in Submitters, (\E f \in Flows : Invoke(s, f)) \/ Run(s) \/ SubmitterDies(s)
      PROVE  SubmissionInv'
  BY <1>2, InvokeKeeps, CreateKeeps, FetchCredentialsKeeps, StartKeeps, StoresKeep, ReportKeeps,
     EndsKeep DEF Run
<1>3. ASSUME NEW i \in SubmissionIds, NEW status \in Status, LandDelayed(i, status)
      PROVE  SubmissionInv'
  BY <1>3, LandDelayedKeeps
<1>4. ASSUME NEW i \in SubmissionIds, DeleteSubmission(i)
      PROVE  SubmissionInv'
  BY <1>4, DeleteSubmissionKeeps
<1> QED BY <1>1, <1>2, <1>3, <1>4, CancelKeeps DEF SubmissionNext, Status

LEMMA SubmissionInvariant == SubmissionSpec => []SubmissionInv
<1>1. SubmissionInit => SubmissionInv
  BY DEF SubmissionInit, SubmissionInv, SubmissionTypeOK, Submitter, Flows, Flow, ReadLive, OneEach, HasRow,
         Reports, RowsFirst, DelayedTruthful, OutcomeTruthful
<1> QED BY <1>1, SubmissionStep, PTL DEF SubmissionSpec

(***************************************************************************)
(* What is proved.                                                         *)
(***************************************************************************)

\* The state of the submissions keeps its types.
THEOREM SubmissionTypeCorrect == SubmissionSpec => []SubmissionTypeOK
<1>1. SubmissionInv => SubmissionTypeOK
  BY DEF SubmissionInv
<1> QED BY <1>1, SubmissionInvariant, PTL

\* However often calls are repeated and however late they land, and whoever
\* cancels: a row that says FINISHED is in its store and one that says
\* ERRORED is not, unless the store's answer never came.
THEOREM OutcomesAreTruthful == SubmissionSpec => []OutcomeTruthful
<1>1. SubmissionInv => OutcomeTruthful
  BY DEF SubmissionInv
<1> QED BY <1>1, SubmissionInvariant, PTL

\* What EndStands says of one step.
EndStandsHere ==
  \A i \in SubmissionIds :
    submission[i] \in Terminal /\ submission'[i] # submission[i] =>
      \/ submission'[i] = "deleted"
      \/ canceling # NotCanceling /\ canceling.id = i /\ canceling.read \in Live
      \/ Running(i)
      \/ <<i, submission'[i]>> \in delayed

LEMMA EndStandsInStep ==
  ASSUME SubmissionInv, [SubmissionNext]_submissionVars
  PROVE  EndStandsHere
<1> SUFFICES ASSUME NEW i \in SubmissionIds, submission[i] \in Terminal, submission'[i] # submission[i]
             PROVE  \/ submission'[i] = "deleted"
                    \/ canceling # NotCanceling /\ canceling.id = i /\ canceling.read \in Live
                    \/ Running(i)
                    \/ <<i, submission'[i]>> \in delayed
  BY DEF EndStandsHere
<1> USE DEF SubmissionInv
<1>1. submission \in [SubmissionIds -> Live \cup Terminal \cup {"none", "deleted"}]
  BY DEF SubmissionTypeOK
<1>2. ASSUME NEW s \in Submitters, Create(s) PROVE FALSE
  BY <1>1, <1>2 DEF Create, Terminal
<1>3. ASSUME NEW s \in Submitters, Start(s) \/ Report(s) PROVE Running(i)
  <2>1. submitter[s].pc \in {"start", "report"}
    BY <1>3 DEF Start, Report, SubmitterAt
  <2>2. submitter[s].id = i
    BY <1>1, <1>3 DEF Start, Report, Answered, Broken, Land
  <2> QED BY <2>1, <2>2 DEF Running
<1>4. ASSUME NEW s \in Submitters, Run(s), ~Create(s), ~Start(s), ~Report(s) PROVE FALSE
  BY <1>4 DEF Run, FetchCredentials, RunAltool, PreparePlayEdit, CommitPlayEdit, Poll
<1>5. ASSUME NEW s \in Submitters, (\E f \in Flows : Invoke(s, f)) \/ SubmitterDies(s) PROVE FALSE
  BY <1>5 DEF Invoke, SubmitterDies
<1>6. ASSUME NEW j \in SubmissionIds, NEW status \in Status, LandDelayed(j, status)
      PROVE  <<i, submission'[i]>> \in delayed
  BY <1>1, <1>6 DEF LandDelayed, Land
<1>7. ASSUME NEW j \in SubmissionIds, CancelFind(j) PROVE FALSE
  BY <1>7 DEF CancelFind
<1>8. ASSUME NEW j \in SubmissionIds, DeleteSubmission(j) PROVE submission'[i] = "deleted"
  BY <1>1, <1>8 DEF DeleteSubmission
<1>9. ASSUME CancelWrite
      PROVE  canceling # NotCanceling /\ canceling.id = i /\ canceling.read \in Live
  BY <1>1, <1>9 DEF CancelWrite, Land, ReadLive
<1>10. ASSUME CancelDies \/ UNCHANGED submissionVars PROVE FALSE
  BY <1>10 DEF CancelDies, submissionVars
<1> QED
  BY <1>2, <1>3, <1>4, <1>5, <1>6, <1>7, <1>8, <1>9, <1>10 DEF SubmissionNext, Status

\* The end of a submission changes only by its deletion, by a cancellation
\* that had read a live status, by the command that runs it or by a late
\* PATCH of that command's.
THEOREM EndsStand == SubmissionSpec => EndStands
<1>1. SubmissionInv /\ [SubmissionNext]_submissionVars => [EndStandsHere]_submissionVars
  BY EndStandsInStep
<1> QED BY <1>1, SubmissionInvariant, PTL DEF SubmissionSpec, EndStandsHere, EndStands

(***************************************************************************)
(* Environment variables: the operators.                                   *)
(***************************************************************************)

\* A finite nonempty set has a member with the greatest weight: the sets of
\* heavier members have a minimal one under strict inclusion.
LEMMA Heaviest ==
  ASSUME NEW S, IsFiniteSet(S), S # {}, NEW weight \in [S -> Int]
  PROVE  \E x \in S : \A y \in S : weight[y] <= weight[x]
<1> DEFINE Heavier(x) == {y \in S : weight[y] > weight[x]}
           T == {Heavier(x) : x \in S}
           R == StrictSubsetOrdering(S)
<1>1. IsWellFoundedOn(R, FiniteSubsetsOf(S))
  BY FS_StrictSubsetOrderingWellFounded
<1>2. T \subseteq FiniteSubsetsOf(S) /\ T # {}
  <2>1. \A x \in S : IsFiniteSet(Heavier(x)) /\ Heavier(x) \in SUBSET S
    BY FS_Subset
  <2> HIDE DEF Heavier
  <2> QED BY <2>1 DEF FiniteSubsetsOf
<1> HIDE DEF T, R
<1>3. \E X \in T : \A Y \in T : ~(<<Y, X>> \in R)
  BY <1>1, <1>2, WFMin
<1>4. PICK x \in S : \A y \in S : ~(<<Heavier(y), Heavier(x)>> \in R)
  <2> HIDE DEF Heavier
  <2> QED BY <1>3 DEF T
<1>5. ASSUME NEW y \in S, weight[y] > weight[x] PROVE FALSE
  <2>1. Heavier(y) \subseteq Heavier(x) /\ y \in Heavier(x) /\ y \notin Heavier(y)
    BY <1>5
  <2>2. <<Heavier(y), Heavier(x)>> \in R
    BY <2>1 DEF R, StrictSubsetOrdering
  <2> QED BY <2>2, <1>4
<1> QED BY <1>5

\* The number after those of a set of revisions.
NumberAfter(H) == 1 + Max({0} \cup {x.number : x \in H})

LEMMA NumberAfterBounds ==
  ASSUME NEW H, H \subseteq Revision, IsFiniteSet(H)
  PROVE  /\ NumberAfter(H) \in Nat \ {0}
         /\ \A x \in H : x.number < NumberAfter(H)
         /\ NumberAfter(H) # 1 => \E x \in H : x.number = NumberAfter(H) - 1
<1> DEFINE N == {0} \cup {x.number : x \in H}
<1>1. \A x \in H : x.number \in Nat \ {0}
  BY DEF Revision
<1>2. \E m \in N : m \in Nat /\ \A n \in N : m >= n
  <2>1. CASE H = {}
    BY <2>1
  <2>2. CASE H # {}
    <3> DEFINE weight == [x \in H |-> x.number]
    <3>1. weight \in [H -> Int]
      BY <1>1
    <3>2. PICK x \in H : \A y \in H : weight[y] <= weight[x]
      BY <2>2, <3>1, Heaviest
    <3>3. x.number \in N /\ x.number \in Nat /\ \A n \in N : x.number >= n
      BY <1>1, <3>2
    <3> QED BY <3>3
  <2> QED BY <2>1, <2>2
<1>3. Max(N) \in N /\ Max(N) \in Nat /\ \A n \in N : Max(N) >= n
  <2> HIDE DEF N
  <2>1. PICK m \in N : m \in Nat /\ \A n \in N : m >= n
    BY <1>2
  <2>2. Max(N) \in N /\ \A n \in N : Max(N) >= n
    BY <2>1 DEF Max
  <2> QED BY SMTT(30), <1>1, <2>2 DEF N
<1>4. NumberAfter(H) = 1 + Max(N)
  BY DEF NumberAfter
<1>5. \A x \in H : Max(N) >= x.number
  BY <1>3
<1>6. Max(N) = 0 \/ \E x \in H : Max(N) = x.number
  BY <1>3
<1> HIDE DEF N
<1> QED BY <1>1, <1>3, <1>4, <1>5, <1>6

\* ... is determined by these bounds.
LEMMA NumberAfterIs ==
  ASSUME NEW H, H \subseteq Revision, IsFiniteSet(H), NEW n \in Nat \ {0},
         \A x \in H : x.number < n, n # 1 => \E x \in H : x.number = n - 1
  PROVE  NumberAfter(H) = n
<1>1. \A x \in H : x.number \in Nat \ {0}
  BY DEF Revision
<1> QED BY <1>1, NumberAfterBounds

LEMMA NextNumberAfter == \A id : NextNumber(id) = NumberAfter(History(id))
BY DEF NextNumber, NumberAfter

(***************************************************************************)
(* Environment variables: the inductive invariant.                         *)
(***************************************************************************)
Kept(id) == \E v \in variables : v.id = id

\* The primary keys of both tables, and the unique index on the numbers.
VariablesKeyed ==
  /\ \A v, w \in variables : v.id = w.id => v = w
  /\ \A v \in variables : v.id <= minted

RevisionsKeyed ==
  /\ IsFiniteSet(revisions)
  /\ \A x, y \in revisions : x.id = y.id => x = y
  /\ \A x, y \in revisions : x.variable = y.variable /\ x.number = y.number => x = y
  /\ \A x \in revisions : x.id <= minted /\ x.variable <= minted

\* A variable points at a revision of its own unless it was clobbered.
Pointers ==
  \A v \in variables : v.id \notin clobbered =>
    \E x \in revisions : x.id = v.current /\ x.variable = v.id

\* What a rollback has found is gone or is a revision of its variable.
TargetFits(q) ==
  q.pc = "point" =>
    /\ q.revision <= minted
    /\ \A x \in revisions : x.id = q.revision => x.variable = q.variable

\* A deletion has found no variable in its environment.
DropFits(q) == q.pc = "drop" => \A v \in Using(q.name) : v.id \in strayed

RequestsFit == \A r \in EnvRequests : TargetFits(envRequest[r]) /\ DropFits(envRequest[r])

RowsInv ==
  /\ EnvTypeOK /\ VariablesKeyed /\ RevisionsKeyed /\ Pointers /\ RequestsFit
  /\ EnvironmentsKnown

\* The revisions a request has numbered and not written.
Numbered(q) ==
  IF q.pc = "revise" THEN {q} ELSE IF q.pc = "import" THEN q.found ELSE {}

UnderWay == UNION {{r} \X Numbered(envRequest[r]) : r \in EnvRequests}

\* Those of a variable that a later number has overtaken, and the revisions
\* in its history that were written so: they lie below the cap's window.
Overtaken(id) == {x \in UnderWay : x[2].variable = id /\ x[2].number < NextNumber(id)}
Late(id)      == {x \in History(id) : x.number + HistoryCap < NextNumber(id)}

\* No number is beyond the next one.
NumberFits(t) ==
  /\ t.variable <= minted
  /\ Kept(t.variable) => t.number <= NextNumber(t.variable)

NumbersFit(q) ==
  /\ IsFiniteSet(Numbered(q)) /\ Cardinality(Numbered(q)) <= ImportConcurrency
  /\ \A t \in Numbered(q) : NumberFits(t)

AllNumbersFit == \A r \in EnvRequests : NumbersFit(envRequest[r])

\* The window has no gaps, so that a number in it is taken.
Window ==
  \A v \in variables : \A k \in Nat \ {0} :
    k < NextNumber(v.id) /\ k + HistoryCap >= NextNumber(v.id) =>
      \E x \in History(v.id) : x.number = k

\* A revision below the window was once under way with an old number, and the
\* write that opened the window was under way with it.
FewLate ==
  \A v \in variables :
    Cardinality(Late(v.id)) + Cardinality(Overtaken(v.id))
      < ImportConcurrency * Cardinality(EnvRequests)

HistoryInv == AllNumbersFit /\ Window /\ FewLate

EnvInv == RowsInv /\ HistoryInv

\* Every request has few writes under way, so all of them have.
LEMMA UnderWayBounded ==
  ASSUME AllNumbersFit
  PROVE  /\ IsFiniteSet(UnderWay)
         /\ Cardinality(UnderWay) <= ImportConcurrency * Cardinality(EnvRequests)
         /\ ImportConcurrency * Cardinality(EnvRequests) \in Nat
<1> DEFINE W(r) == Numbered(envRequest[r])
           places == EnvRequests \X (1..ImportConcurrency)
           place == [r \in EnvRequests |-> CHOOSE f : f \in Injection(W(r), 1..ImportConcurrency)]
           seat == [x \in UnderWay |-> <<x[1], place[x[1]][x[2]]>>]
<1>1. ImportConcurrency \in Nat /\ IsFiniteSet(EnvRequests)
  BY EnvVarsAssumption
<1>2. ASSUME NEW r \in EnvRequests
      PROVE  place[r] \in Injection(W(r), 1..ImportConcurrency)
  <2> DEFINE n == Cardinality(W(r))
  <2>1. n \in Nat /\ ExistsBijection(1..n, W(r)) /\ n <= ImportConcurrency
    BY FS_CardinalityType DEF AllNumbersFit, NumbersFit
  <2>2. ExistsBijection(W(r), 1..n)
    BY <2>1, Fun_ExistsBijSymmetric
  <2>3. PICK f : f \in Bijection(W(r), 1..n)
    BY <2>2 DEF ExistsBijection
  <2>4. f \in [W(r) -> 1..n] /\ IsInjective(f)
    BY <2>3 DEF Bijection, Injection
  <2>5. f \in [W(r) -> 1..ImportConcurrency]
    BY <1>1, <2>1, <2>4
  <2>6. f \in Injection(W(r), 1..ImportConcurrency)
    BY <2>4, <2>5 DEF Injection
  <2> HIDE DEF W
  <2> QED BY <2>6
<1> HIDE DEF place
<1>3. \A x \in UnderWay : x[1] \in EnvRequests /\ x[2] \in W(x[1]) /\ x = <<x[1], x[2]>>
  BY DEF UnderWay
<1>4. \A r \in EnvRequests :
        /\ place[r] \in [W(r) -> 1..ImportConcurrency]
        /\ \A a, b \in W(r) : place[r][a] = place[r][b] => a = b
  <2> SUFFICES ASSUME NEW r \in EnvRequests
               PROVE  /\ place[r] \in [W(r) -> 1..ImportConcurrency]
                      /\ \A a, b \in W(r) : place[r][a] = place[r][b] => a = b
    OBVIOUS
  <2> HIDE DEF W
  <2> QED BY <1>2, Fun_InjectionProperties
<1> HIDE DEF W
<1>5. \A x \in UnderWay : seat[x] \in places
  BY <1>3, <1>4
<1>6. \A x, y \in UnderWay : seat[x] = seat[y] => x = y
  BY <1>3, <1>4
<1>7. seat \in [UnderWay -> places]
  BY <1>5
<1> HIDE DEF seat
<1>8. seat \in Injection(UnderWay, places)
  BY <1>6, <1>7, Fun_IsInj
<1>9. IsFiniteSet(1..ImportConcurrency) /\ Cardinality(1..ImportConcurrency) = ImportConcurrency
  BY <1>1, FS_Interval, EnvVarsAssumption
<1>10. /\ IsFiniteSet(places)
       /\ Cardinality(places) = Cardinality(EnvRequests) * ImportConcurrency
  BY <1>1, <1>9, FS_Product
<1>11. Cardinality(EnvRequests) \in Nat
  BY <1>1, FS_CardinalityType
<1> HIDE DEF places
<1>12. IsFiniteSet(UnderWay) /\ Cardinality(UnderWay) <= Cardinality(places)
  BY <1>8, <1>10, FS_Injection
<1>13. Cardinality(EnvRequests) * ImportConcurrency = ImportConcurrency * Cardinality(EnvRequests)
       /\ ImportConcurrency * Cardinality(EnvRequests) \in Nat
  BY <1>1, <1>11
<1> QED BY <1>10, <1>12, <1>13

\* A history is finite and of its type; its next number is above the others.
LEMMA HistoryFacts ==
  ASSUME revisions \subseteq Revision, IsFiniteSet(revisions), NEW id
  PROVE  /\ History(id) \subseteq Revision /\ IsFiniteSet(History(id))
         /\ NextNumber(id) \in Nat \ {0}
         /\ \A x \in History(id) : x.number < NextNumber(id)
         /\ NextNumber(id) # 1 => \E x \in History(id) : x.number = NextNumber(id) - 1
<1>1. History(id) \subseteq Revision /\ IsFiniteSet(History(id))
  BY FS_Subset DEF History
<1> QED BY <1>1, NextNumberAfter, NumberAfterBounds

\* What is not late lies in a window of HistoryCap numbers.
LEMMA HistoryIsBounded ==
  ASSUME EnvInv
  PROVE  HistoryBounded
<1> SUFFICES ASSUME NEW v \in variables
             PROVE  Cardinality(History(v.id)) < HistoryCap + ImportConcurrency * Cardinality(EnvRequests)
  BY DEF HistoryBounded
<1> DEFINE H == History(v.id)
           n == NextNumber(v.id)
           inside == {x \in H : ~(x.number + HistoryCap < n)}
           window == (n - HistoryCap)..(n - 1)
           number == [x \in inside |-> x.number]
           bound == ImportConcurrency * Cardinality(EnvRequests)
<1>1. HistoryCap \in Nat \ {0}
  BY EnvVarsAssumption
<1>2. /\ H \subseteq Revision /\ IsFiniteSet(H) /\ n \in Nat \ {0} /\ \A x \in H : x.number < n
  BY HistoryFacts DEF EnvInv, RowsInv, EnvTypeOK, RevisionsKeyed
<1>3. \A x \in H : x.number \in Nat
  BY <1>2 DEF Revision
<1>4. \A x, y \in H : x.number = y.number => x = y
  BY DEF EnvInv, RowsInv, RevisionsKeyed, History
<1>5. H = Late(v.id) \cup inside /\ inside \subseteq H /\ Late(v.id) \subseteq H
  BY DEF Late
<1>6. \A x \in inside : x.number \in window
  BY <1>1, <1>2, <1>3
<1>7. bound \in Nat /\ IsFiniteSet(UnderWay)
  BY UnderWayBounded DEF EnvInv, HistoryInv
<1>8. Cardinality(Late(v.id)) + Cardinality(Overtaken(v.id)) < bound
  BY DEF EnvInv, HistoryInv, FewLate
<1>9. IsFiniteSet(window) /\ Cardinality(window) = HistoryCap
  <2>1. n - HistoryCap \in Int /\ n - 1 \in Int /\ ~(n - HistoryCap > n - 1)
    BY <1>1, <1>2
  <2>2. (n - 1) - (n - HistoryCap) + 1 = HistoryCap
    BY <1>1, <1>2
  <2> HIDE DEF n
  <2> QED BY <2>1, <2>2, FS_Interval
<1> HIDE DEF window, bound
<1>10. number \in Injection(inside, window)
  <2>1. number \in [inside -> window]
    BY <1>6
  <2>2. \A x, y \in inside : number[x] = number[y] => x = y
    BY <1>4, <1>5
  <2> HIDE DEF number, inside
  <2> QED BY <2>1, <2>2, Fun_IsInj
<1> HIDE DEF number, inside, H
<1>11. IsFiniteSet(inside) /\ Cardinality(inside) <= HistoryCap /\ Cardinality(inside) \in Nat
  BY <1>9, <1>10, FS_Injection, FS_CardinalityType
<1>12. IsFiniteSet(Late(v.id)) /\ Cardinality(Late(v.id)) \in Nat
  BY <1>2, <1>5, FS_Subset, FS_CardinalityType
<1>13. IsFiniteSet(Overtaken(v.id)) /\ Cardinality(Overtaken(v.id)) \in Nat
  BY <1>7, FS_Subset, FS_CardinalityType DEF Overtaken
<1>14. IsFiniteSet(Late(v.id) \cap inside) /\ Cardinality(Late(v.id) \cap inside) \in Nat
  BY <1>12, FS_Intersection, FS_CardinalityType
<1>15. Cardinality(H) =
         Cardinality(Late(v.id)) + Cardinality(inside) - Cardinality(Late(v.id) \cap inside)
  BY <1>5, <1>11, <1>12, FS_Union
<1>16. Cardinality(H) < HistoryCap + bound
  BY <1>1, <1>7, <1>8, <1>11, <1>12, <1>13, <1>14, <1>15
<1> QED BY <1>16 DEF H, bound

\* Where nothing is clobbered the join with the active revision loses nobody.
LEMMA ExportIsComplete ==
  ASSUME EnvInv
  PROVE  ExportComplete
<1> SUFFICES ASSUME NEW e \in Environments,
                    \A v \in variables : v.slot.environment = e => v.id \notin clobbered
             PROVE  {x[1] : x \in Exported(e)} = Overriding(e)
  BY DEF ExportComplete
<1>1. \A v \in variables : v.slot.environment = e => \E w \in revisions : w.id = v.current
  BY DEF EnvInv, RowsInv, Pointers
<1>2. \A v \in variables : v.slot.environment = e => \E x \in ExportRows(e) : x[1] = v
  <2> SUFFICES ASSUME NEW v \in variables, v.slot.environment = e
               PROVE  \E x \in ExportRows(e) : x[1] = v
    OBVIOUS
  <2>1. PICK w \in revisions : w.id = v.current
    BY <1>1
  <2>2. <<v, w>> \in ExportRows(e)
    BY <2>1 DEF ExportRows
  <2> QED BY <2>2
<1>3. \A x \in ExportRows(e) : x[1] \in variables /\ x[1].slot.environment = e
  BY DEF ExportRows
<1>4. \A v \in variables : v.slot \in Slot
  BY DEF EnvInv, RowsInv, EnvTypeOK, Variable
<1>5. \A v, w \in variables : v.slot.environment = e =>
        (w.slot = [v.slot EXCEPT !.scope = "project"] <=>
           w.slot.environment = e /\ w.slot.scope = "project" /\ w.slot.key = v.slot.key)
  BY <1>4 DEF Slot, Scopes
<1>6. ASSUME NEW v \in variables, v.slot.environment = e
      PROVE  (\E y \in ExportRows(e) : y[1].slot.scope = "project" /\ y[1].slot.key = v.slot.key)
               <=> \E w \in variables : w.slot = [v.slot EXCEPT !.scope = "project"]
  BY <1>2, <1>3, <1>5, <1>6
<1>7. ASSUME NEW x \in Exported(e) PROVE x[1] \in Overriding(e)
  <2>1. x \in ExportRows(e) /\ x[1] \in variables /\ x[1].slot.environment = e
    BY <1>3 DEF Exported
  <2> QED BY <1>6, <2>1 DEF Exported, Overriding
<1>8. ASSUME NEW v \in Overriding(e) PROVE \E x \in Exported(e) : x[1] = v
  <2>1. v \in variables /\ v.slot.environment = e
    BY DEF Overriding
  <2>2. PICK x \in ExportRows(e) : x[1] = v
    BY <1>2, <2>1
  <2>3. x \in Exported(e)
    BY <1>6, <2>1, <2>2 DEF Exported, Overriding
  <2> QED BY <2>2, <2>3
<1> QED BY <1>7, <1>8

(***************************************************************************)
(* Steps that leave the tables, or the histories, as they are.             *)
(***************************************************************************)
LEMMA RequestsTyped ==
  ASSUME EnvTypeOK, NEW r \in EnvRequests, NEW step, Proceed(r, step)
  PROVE  /\ envRequest[r] \in EnvRequest
         /\ envRequest'[r] = step
         /\ \A q \in EnvRequests \ {r} : envRequest'[q] = envRequest[q]
         /\ step \in EnvRequest => envRequest' \in [EnvRequests -> EnvRequest]
BY DEF EnvTypeOK, Proceed

LEMMA RowsStay ==
  ASSUME EnvInv, NEW r \in EnvRequests, NEW step \in EnvRequest, Proceed(r, step),
         UNCHANGED rows, TargetFits(step), DropFits(step)
  PROVE  RowsInv'
<1> USE DEF EnvInv, RowsInv, rows
<1>1. EnvTypeOK'
  BY RequestsTyped DEF EnvTypeOK
<1>2. VariablesKeyed' /\ RevisionsKeyed' /\ Pointers' /\ EnvironmentsKnown'
  BY DEF VariablesKeyed, RevisionsKeyed, Pointers, EnvironmentsKnown, Known
<1>3. RequestsFit'
  <2> SUFFICES ASSUME NEW q \in EnvRequests
               PROVE  TargetFits(envRequest[q])' /\ DropFits(envRequest[q])'
    BY DEF RequestsFit
  <2>1. envRequest'[q] = step \/ envRequest'[q] = envRequest[q]
    BY RequestsTyped
  <2>2. TargetFits(envRequest[q]) /\ DropFits(envRequest[q])
    BY DEF RequestsFit
  <2> QED BY <2>1, <2>2 DEF TargetFits, DropFits, Using
<1> QED BY <1>1, <1>2, <1>3

\* A request reads numbers, or some of its writes are over; no history changes.
LEMMA HistoryStays ==
  ASSUME EnvInv, NEW r \in EnvRequests, NEW step, Proceed(r, step),
         UNCHANGED <<revisions, minted>>,
         \A v \in variables' : Kept(v.id),
         IsFiniteSet(Numbered(step)), Cardinality(Numbered(step)) <= ImportConcurrency,
         \A t \in Numbered(step) :
           \/ t \in Numbered(envRequest[r])
           \/ t.variable <= minted /\ (Kept(t.variable) => t.number = NextNumber(t.variable))
  PROVE  HistoryInv'
<1> USE DEF EnvInv, HistoryInv
<1>1. /\ envRequest'[r] = step
      /\ \A q \in EnvRequests \ {r} : envRequest'[q] = envRequest[q]
  BY RequestsTyped DEF RowsInv
<1>2. \A id : /\ NextNumber(id)' = NextNumber(id)
              /\ History(id)' = History(id)
              /\ Late(id)' = Late(id)
  BY DEF NextNumber, History, Late
<1>3. \A id : Kept(id)' => Kept(id)
  BY DEF Kept
<1>4. \A id : NextNumber(id) \in Nat
  BY HistoryFacts DEF RowsInv, EnvTypeOK, RevisionsKeyed
<1>5. \A t \in Numbered(envRequest[r]) \cup Numbered(step) : NumberFits(t)
  BY <1>4 DEF AllNumbersFit, NumbersFit, NumberFits
<1>6. AllNumbersFit'
  <2> SUFFICES ASSUME NEW q \in EnvRequests PROVE NumbersFit(envRequest[q])'
    BY DEF AllNumbersFit
  <2>1. CASE q = r
    BY <1>1, <1>2, <1>3, <1>5, <2>1 DEF NumbersFit, NumberFits, Numbered
  <2>2. CASE q # r
    BY <1>1, <1>2, <1>3, <2>2 DEF AllNumbersFit, NumbersFit, NumberFits, Numbered
  <2> QED BY <2>1, <2>2
<1>7. Window'
  <2> SUFFICES ASSUME NEW v \in variables', NEW k \in Nat \ {0},
                      k < NextNumber(v.id), k + HistoryCap >= NextNumber(v.id)
               PROVE  \E x \in History(v.id) : x.number = k
    BY <1>2 DEF Window
  <2>1. PICK w \in variables : w.id = v.id
    BY DEF Kept
  <2> QED BY <2>1 DEF Window
<1>8. FewLate'
  <2> SUFFICES ASSUME NEW v \in variables'
               PROVE  Cardinality(Late(v.id)) + Cardinality(Overtaken(v.id)')
                        < ImportConcurrency * Cardinality(EnvRequests)
    BY <1>2 DEF FewLate
  <2>1. PICK w \in variables : w.id = v.id
    BY DEF Kept
  <2>2. Kept(v.id)
    OBVIOUS
  <2>3. Overtaken(v.id)' \subseteq Overtaken(v.id)
    <3> SUFFICES ASSUME NEW q \in EnvRequests, NEW t \in Numbered(envRequest[q])',
                        t.variable = v.id, t.number < NextNumber(v.id)
                 PROVE  <<q, t>> \in Overtaken(v.id)
      BY <1>2 DEF Overtaken, UnderWay
    <3>1. t \in Numbered(envRequest[q])
      <4>1. CASE q = r
        <5>1. t \in Numbered(step)
          BY <1>1, <4>1 DEF Numbered
        <5>2. t.number # NextNumber(t.variable)
          BY <1>4
        <5> QED BY <2>2, <4>1, <5>1, <5>2
      <4>2. CASE q # r
        BY <1>1, <4>2 DEF Numbered
      <4> QED BY <4>1, <4>2
    <3> QED BY <3>1 DEF Overtaken, UnderWay
  <2>4. IsFiniteSet(Overtaken(v.id))
    BY UnderWayBounded, FS_Subset DEF Overtaken
  <2>5. /\ Cardinality(Overtaken(v.id)') <= Cardinality(Overtaken(v.id))
        /\ Cardinality(Overtaken(v.id)) \in Nat /\ Cardinality(Overtaken(v.id)') \in Nat
    BY <2>3, <2>4, FS_Subset, FS_CardinalityType
  <2>6. Cardinality(Late(v.id)) \in Nat
    BY HistoryFacts, FS_Subset, FS_CardinalityType DEF Late, RowsInv, EnvTypeOK, RevisionsKeyed
  <2>7. Cardinality(Late(v.id)) + Cardinality(Overtaken(v.id))
          < ImportConcurrency * Cardinality(EnvRequests)
    BY <2>1 DEF FewLate
  <2>8. ImportConcurrency * Cardinality(EnvRequests) \in Nat
    BY UnderWayBounded
  <2> DEFINE bound == ImportConcurrency * Cardinality(EnvRequests)
  <2> HIDE DEF bound
  <2>9. bound \in Nat /\ Cardinality(Late(v.id)) + Cardinality(Overtaken(v.id)) < bound
    BY <2>7, <2>8 DEF bound
  <2>10. Cardinality(Late(v.id)) + Cardinality(Overtaken(v.id)') < bound
    BY <2>5, <2>6, <2>9
  <2> QED BY <2>10 DEF bound
<1> QED BY <1>6, <1>7, <1>8

(***************************************************************************)
(* The two batches.                                                        *)
(***************************************************************************)
LEMMA BoundPositive ==
  ASSUME NEW r \in EnvRequests
  PROVE  ImportConcurrency * Cardinality(EnvRequests) \in Nat \ {0}
<1>1. IsFiniteSet(EnvRequests) /\ ImportConcurrency \in Nat \ {0}
  BY EnvVarsAssumption
<1>2. Cardinality(EnvRequests) \in Nat /\ Cardinality(EnvRequests) # 0
  BY <1>1, FS_CardinalityType, FS_EmptySet
<1> HIDE DEF EnvVarsAssumption
<1> QED BY <1>1, <1>2

\* Some of a request's writes are over.
LEMMA WritesEnd ==
  ASSUME EnvInv, NEW r \in EnvRequests, NEW step, Proceed(r, step),
         Numbered(step) \subseteq Numbered(envRequest[r])
  PROVE  /\ UnderWay' \subseteq UnderWay
         /\ \A t \in Numbered(envRequest[r]) \ Numbered(step) : <<r, t>> \in UnderWay \ UnderWay'
         /\ IsFiniteSet(Numbered(step)) /\ Cardinality(Numbered(step)) <= ImportConcurrency
<1>1. /\ envRequest'[r] = step
      /\ \A q \in EnvRequests \ {r} : envRequest'[q] = envRequest[q]
  BY RequestsTyped DEF EnvInv, RowsInv
<1>2. /\ Numbered(envRequest[r])' = Numbered(step)
      /\ \A q \in EnvRequests \ {r} : Numbered(envRequest[q])' = Numbered(envRequest[q])
  BY <1>1 DEF Numbered
<1>3. IsFiniteSet(Numbered(envRequest[r])) /\ Cardinality(Numbered(envRequest[r])) <= ImportConcurrency
  BY DEF EnvInv, HistoryInv, AllNumbersFit, NumbersFit
<1>4. /\ IsFiniteSet(Numbered(step)) /\ Cardinality(Numbered(step)) \in Nat
      /\ Cardinality(Numbered(envRequest[r])) \in Nat
      /\ Cardinality(Numbered(step)) <= Cardinality(Numbered(envRequest[r]))
  BY <1>3, FS_Subset, FS_CardinalityType
<1>5. ImportConcurrency \in Nat
  BY EnvVarsAssumption
<1>6. Cardinality(Numbered(step)) <= ImportConcurrency
  BY <1>3, <1>4, <1>5
<1>7. UnderWay' \subseteq UnderWay
  BY <1>2 DEF UnderWay
<1>8. \A t \in Numbered(envRequest[r]) \ Numbered(step) : <<r, t>> \in UnderWay \ UnderWay'
  BY <1>2 DEF UnderWay
<1> QED BY <1>4, <1>6, <1>7, <1>8

LEMMA InsertKeepsRows ==
  ASSUME EnvInv, NEW r \in EnvRequests, NEW step \in EnvRequest, Proceed(r, step),
         step.pc \notin {"point", "drop"}, NEW s \in Slot, InsertBatch(s)
  PROVE  RowsInv'
<1> DEFINE i == minted + 1
           row == [id |-> i, slot |-> s, current |-> minted + 2]
           first == [id |-> minted + 2, variable |-> i, number |-> 1]
<1> USE DEF EnvInv, RowsInv
<1>1. minted \in Nat /\ minted + 2 <= MaxMinted /\ MaxMinted \in Nat
  BY EnvVarsAssumption DEF InsertBatch, EnvTypeOK
<1>2. /\ variables' = variables \cup {row} /\ revisions' = revisions \cup {first}
      /\ minted' = minted + 2 /\ environments' = environments /\ clobbered' = clobbered
      /\ strayed' = IF Strays(s) THEN strayed \cup {i} ELSE strayed
  BY DEF InsertBatch
<1>3. row \in Variable /\ first \in Revision /\ i \in Minted
  BY <1>1 DEF Variable, Revision, Minted
<1>4. row.id = i /\ row.slot = s /\ row.current = minted + 2
      /\ first.id = minted + 2 /\ first.variable = i /\ first.number = 1
  OBVIOUS
<1> HIDE DEF row, first
<1>5. /\ \A v \in variables : v.id \in Nat /\ v.id <= minted
      /\ \A x \in revisions : x.id \in Nat /\ x.id <= minted /\ x.variable \in Nat /\ x.variable <= minted
  BY DEF EnvTypeOK, Variable, Revision, Minted, VariablesKeyed, RevisionsKeyed
<1>6. EnvTypeOK'
  BY <1>1, <1>2, <1>3, RequestsTyped DEF EnvTypeOK, Minted
<1>7. VariablesKeyed'
  BY <1>1, <1>2, <1>4, <1>5 DEF VariablesKeyed
<1>8. RevisionsKeyed'
  <2>1. IsFiniteSet(revisions')
    BY <1>2, FS_AddElement DEF RevisionsKeyed
  <2> QED BY <1>1, <1>2, <1>4, <1>5, <2>1 DEF RevisionsKeyed
<1>9. Pointers'
  BY <1>1, <1>2, <1>4, <1>5 DEF Pointers
<1>10. EnvironmentsKnown'
  BY <1>2, <1>4 DEF EnvironmentsKnown, Known, Strays
<1>11. ASSUME NEW q \in EnvRequests PROVE TargetFits(envRequest[q])' /\ DropFits(envRequest[q])'
  <2>1. CASE q = r
    BY <2>1, RequestsTyped DEF TargetFits, DropFits
  <2>2. CASE q # r
    <3>1. envRequest'[q] = envRequest[q] /\ TargetFits(envRequest[q]) /\ DropFits(envRequest[q])
      BY <2>2, RequestsTyped DEF RequestsFit
    <3>2. envRequest[q].pc = "point" => envRequest[q].revision \in Nat
      BY DEF EnvTypeOK, EnvRequest, Minted, Free
    <3>3. TargetFits(envRequest[q])'
      BY <1>1, <1>2, <1>4, <3>1, <3>2 DEF TargetFits
    <3>4. DropFits(envRequest[q])'
      BY <1>2, <1>4, <3>1 DEF DropFits, Using, Strays, Doomed
    <3> QED BY <3>3, <3>4
  <2> QED BY <2>1, <2>2
<1> QED BY <1>6, <1>7, <1>8, <1>9, <1>10, <1>11 DEF RequestsFit

LEMMA NumberedTyped ==
  ASSUME NEW q \in EnvRequest, NEW t \in Numbered(q)
  PROVE  t.variable \in Minted \cup {0} /\ t.number \in Nat \ {0}
<1>1. CASE q.pc = "revise"
  BY <1>1 DEF Numbered, EnvRequest, Free
<1>2. CASE q.pc = "import"
  <2>1. q.found \subseteq Upsert /\ t \in q.found
    BY <1>2 DEF Numbered, EnvRequest, Free
  <2> QED BY <2>1 DEF Upsert
<1> QED BY <1>1, <1>2 DEF Numbered

LEMMA InsertKeepsHistory ==
  ASSUME EnvInv, NEW r \in EnvRequests, NEW step, Proceed(r, step),
         Numbered(step) \subseteq Numbered(envRequest[r]), NEW s \in Slot, InsertBatch(s),
         NEW i, i = minted + 1
  PROVE  HistoryInv'
<1> DEFINE row == [id |-> i, slot |-> s, current |-> minted + 2]
           first == [id |-> minted + 2, variable |-> i, number |-> 1]
<1> USE DEF EnvInv, HistoryInv
<1>1. minted \in Nat /\ HistoryCap \in Nat \ {0} /\ i <= MaxMinted /\ minted + 2 <= MaxMinted /\ MaxMinted \in Nat
  BY EnvVarsAssumption DEF InsertBatch, RowsInv, EnvTypeOK
<1>2. variables' = variables \cup {row} /\ revisions' = revisions \cup {first} /\ minted' = minted + 2
  BY DEF InsertBatch
<1>3. row.id = i /\ first.variable = i /\ first.number = 1 /\ first \in Revision
  BY <1>1 DEF Revision, Minted
<1> HIDE DEF row, first
<1>4. /\ \A v \in variables : v.id \in Nat /\ v.id <= minted
      /\ \A x \in revisions : x.variable \in Nat /\ x.variable <= minted
  BY DEF RowsInv, EnvTypeOK, Variable, Revision, Minted, VariablesKeyed, RevisionsKeyed
<1>5. ASSUME NEW id, id # i
      PROVE  /\ History(id)' = History(id) /\ NextNumber(id)' = NextNumber(id)
             /\ Late(id)' = Late(id) /\ (Kept(id)' => Kept(id))
  <2>1. History(id)' = History(id)
    BY <1>2, <1>3, <1>5 DEF History
  <2> QED BY <1>2, <1>3, <1>5, <2>1 DEF NextNumber, Late, Kept
<1>6. History(i)' = {first}
  BY <1>1, <1>2, <1>3, <1>4 DEF History
<1>7. NextNumber(i)' = 2
  <2>1. NextNumber(i)' = NumberAfter({first})
    BY <1>6 DEF NextNumber, NumberAfter
  <2>2. {first} \subseteq Revision /\ IsFiniteSet({first})
    BY <1>3, FS_Singleton
  <2>3. \A x \in {first} : x.number < 2
    BY <1>3
  <2>4. \E x \in {first} : x.number = 2 - 1
    BY <1>3
  <2> HIDE DEF EnvInv, HistoryInv
  <2>5. NumberAfter({first}) = 2
    BY <2>2, <2>3, <2>4, NumberAfterIs
  <2> QED BY <2>1, <2>5
<1>8. Late(i)' = {}
  BY <1>1, <1>3, <1>6, <1>7 DEF Late
<1>9. /\ UnderWay' \subseteq UnderWay
      /\ IsFiniteSet(Numbered(step)) /\ Cardinality(Numbered(step)) <= ImportConcurrency
  BY WritesEnd
<1>10. ASSUME NEW q \in EnvRequests, NEW t \in Numbered(envRequest[q])
       PROVE  NumberFits(t)' /\ t.variable # i
  <2>0. envRequest[q] \in EnvRequest
    BY DEF RowsInv, EnvTypeOK
  <2>1. NumberFits(t) /\ t.variable \in Nat
    BY <2>0, NumberedTyped DEF AllNumbersFit, NumbersFit, Minted
  <2>2. t.variable # i /\ t.variable <= minted + 2
    BY <1>1, <2>1 DEF NumberFits
  <2> QED BY <1>2, <1>5, <2>1, <2>2 DEF NumberFits
<1>11. AllNumbersFit'
  <2> SUFFICES ASSUME NEW q \in EnvRequests PROVE NumbersFit(envRequest[q])'
    BY DEF AllNumbersFit
  <2>1. CASE q = r
    <3>1. Numbered(envRequest[q])' = Numbered(step)
      BY <2>1, RequestsTyped DEF Numbered, RowsInv
    <3> QED BY <1>9, <1>10, <2>1, <3>1 DEF NumbersFit
  <2>2. CASE q # r
    <3>1. Numbered(envRequest[q])' = Numbered(envRequest[q])
      BY <2>2, RequestsTyped DEF Numbered, RowsInv
    <3> QED BY <1>10, <3>1 DEF NumbersFit, AllNumbersFit
  <2> QED BY <2>1, <2>2
<1>12. Window'
  <2> SUFFICES ASSUME NEW v \in variables', NEW k \in Nat \ {0},
                      k < NextNumber(v.id)', k + HistoryCap >= NextNumber(v.id)'
               PROVE  \E x \in History(v.id)' : x.number = k
    BY DEF Window
  <2>1. CASE v.id = i
    BY <1>3, <1>6, <1>7, <2>1
  <2>2. CASE v.id # i
    <3>1. v \in variables
      BY <1>2, <1>3, <2>2
    <3> QED BY <1>5, <2>2, <3>1 DEF Window
  <2> QED BY <2>1, <2>2
<1>13. FewLate'
  <2> SUFFICES ASSUME NEW v \in variables'
               PROVE  Cardinality(Late(v.id)') + Cardinality(Overtaken(v.id)')
                        < ImportConcurrency * Cardinality(EnvRequests)
    BY DEF FewLate
  <2> DEFINE bound == ImportConcurrency * Cardinality(EnvRequests)
  <2>1. bound \in Nat \ {0}
    BY BoundPositive
  <2>2. CASE v.id = i
    <3>1. Overtaken(i)' = {}
      BY <1>9, <1>10 DEF Overtaken, UnderWay
    <3> HIDE DEF bound
    <3>2. Cardinality(Late(v.id)') + Cardinality(Overtaken(v.id)') < bound
      BY <1>8, <2>1, <2>2, <3>1, FS_EmptySet
    <3> QED BY <3>2 DEF bound
  <2>3. CASE v.id # i
    <3>1. v \in variables /\ Late(v.id)' = Late(v.id)
      BY <1>2, <1>3, <1>5, <2>3
    <3>2. Overtaken(v.id)' \subseteq Overtaken(v.id)
      BY <1>5, <1>9, <2>3 DEF Overtaken
    <3>3. IsFiniteSet(Overtaken(v.id))
      BY UnderWayBounded, FS_Subset DEF Overtaken
    <3>4. /\ Cardinality(Overtaken(v.id)') <= Cardinality(Overtaken(v.id))
          /\ Cardinality(Overtaken(v.id)) \in Nat /\ Cardinality(Overtaken(v.id)') \in Nat
      BY <3>2, <3>3, FS_Subset, FS_CardinalityType
    <3>5. Cardinality(Late(v.id)) \in Nat
      BY HistoryFacts, FS_Subset, FS_CardinalityType DEF Late, RowsInv, EnvTypeOK, RevisionsKeyed
    <3>6. Cardinality(Late(v.id)) + Cardinality(Overtaken(v.id)) < bound
      BY <3>1 DEF FewLate
    <3> HIDE DEF bound
    <3>7. Cardinality(Late(v.id)') + Cardinality(Overtaken(v.id)') < bound
      BY <2>1, <3>1, <3>4, <3>5, <3>6
    <3> QED BY <3>7 DEF bound
  <2> QED BY <2>2, <2>3
<1> QED BY <1>11, <1>12, <1>13

LEMMA ReviseKeepsRows ==
  ASSUME EnvInv, NEW r \in EnvRequests, NEW step \in EnvRequest, Proceed(r, step),
         step.pc \notin {"point", "drop"},
         NEW id \in Minted, NEW number \in Nat \ {0}, ReviseBatch(id, number),
         NEW j, j = minted + 1
  PROVE  RowsInv'
<1> DEFINE row == [id |-> j, variable |-> id, number |-> number]
           kept == {x \in revisions : x.variable = id => x.number + HistoryCap > number}
           advanced(v) == IF v.id = id THEN [v EXCEPT !.current = j] ELSE v
<1> USE DEF EnvInv, RowsInv
<1>1. minted \in Nat /\ j <= MaxMinted /\ MaxMinted \in Nat /\ j \in Minted
  BY EnvVarsAssumption DEF ReviseBatch, EnvTypeOK, Minted
<1>2. /\ revisions' = kept \cup {row} /\ minted' = j
      /\ environments' = environments /\ clobbered' = clobbered \ {id} /\ strayed' = strayed
      /\ CanRevise(id, number)
  BY DEF ReviseBatch
<1>3. variables' = {advanced(v) : v \in variables}
  BY DEF ReviseBatch
<1>4. row \in Revision /\ row.id = j /\ row.variable = id /\ row.number = number
  BY <1>1 DEF Revision
<1>5. \A v \in variables : /\ advanced(v) \in Variable /\ advanced(v).id = v.id
                           /\ advanced(v).slot = v.slot
                           /\ v.id = id => advanced(v).current = j
                           /\ v.id # id => advanced(v) = v
  BY <1>1 DEF EnvTypeOK, Variable
<1>6. kept \subseteq revisions /\ \A x \in revisions : x.variable # id => x \in kept
  OBVIOUS
<1>7. \A x \in kept : x.variable = id => x.number # number
  BY <1>2 DEF CanRevise, History
<1>8. \A v \in variables : v.id \in Nat /\ v.id <= minted
  BY DEF EnvTypeOK, Variable, Minted, VariablesKeyed
<1>9. \A x \in revisions : x.id \in Nat /\ x.id <= minted /\ x.variable \in Nat /\ x.variable <= minted
  BY DEF EnvTypeOK, Revision, Minted, RevisionsKeyed
<1>10. id <= minted
  BY <1>2, <1>8 DEF CanRevise
<1>11. id \in Nat
  BY DEF Minted
<1> HIDE DEF row, kept, advanced
<1>12. EnvTypeOK'
  <2>1. variables' \subseteq Variable
    BY <1>3, <1>5
  <2>2. revisions' \subseteq Revision
    BY <1>2, <1>4, <1>6 DEF EnvTypeOK
  <2> QED BY <1>1, <1>2, <2>1, <2>2, RequestsTyped DEF EnvTypeOK, Minted
<1>13. VariablesKeyed'
  BY <1>1, <1>2, <1>3, <1>5, <1>8 DEF VariablesKeyed
<1>14. RevisionsKeyed'
  <2>1. IsFiniteSet(revisions')
    BY <1>2, <1>6, FS_Subset, FS_AddElement DEF RevisionsKeyed
  <2>2. \A x, y \in revisions' : x.id = y.id => x = y
    BY <1>1, <1>2, <1>4, <1>6, <1>9 DEF RevisionsKeyed
  <2>3. \A x, y \in revisions' : x.variable = y.variable /\ x.number = y.number => x = y
    BY <1>2, <1>4, <1>6, <1>7 DEF RevisionsKeyed
  <2>4. \A x \in revisions' : x.id <= j /\ x.variable <= j
    BY <1>1, <1>2, <1>4, <1>6, <1>9, <1>10, <1>11
  <2> QED BY <1>2, <2>1, <2>2, <2>3, <2>4 DEF RevisionsKeyed
<1>15. Pointers'
  <2> SUFFICES ASSUME NEW v \in variables, advanced(v).id \notin clobbered'
               PROVE  \E x \in revisions' : x.id = advanced(v).current /\ x.variable = advanced(v).id
    BY <1>3 DEF Pointers
  <2>1. CASE v.id = id
    BY <1>2, <1>4, <1>5, <2>1
  <2>2. CASE v.id # id
    <3>1. v.id \notin clobbered
      BY <1>2, <1>5, <2>2
    <3>2. PICK x \in revisions : x.id = v.current /\ x.variable = v.id
      BY <3>1 DEF Pointers
    <3>3. x \in revisions'
      BY <1>2, <1>6, <2>2, <3>2
    <3> QED BY <1>5, <2>2, <3>2, <3>3
  <2> QED BY <2>1, <2>2
<1>16. EnvironmentsKnown'
  BY <1>2, <1>3, <1>5 DEF EnvironmentsKnown, Known
<1>17. ASSUME NEW q \in EnvRequests PROVE TargetFits(envRequest[q])' /\ DropFits(envRequest[q])'
  <2>1. CASE q = r
    BY <2>1, RequestsTyped DEF TargetFits, DropFits
  <2>2. CASE q # r
    <3>1. envRequest'[q] = envRequest[q] /\ TargetFits(envRequest[q]) /\ DropFits(envRequest[q])
      BY <2>2, RequestsTyped DEF RequestsFit
    <3>2. envRequest[q].pc = "point" => envRequest[q].revision \in Nat
      BY DEF EnvTypeOK, EnvRequest, Minted, Free
    <3>3. TargetFits(envRequest[q])'
      BY <1>1, <1>2, <1>4, <1>6, <3>1, <3>2 DEF TargetFits
    <3>4. DropFits(envRequest[q])'
      BY <1>2, <1>3, <1>5, <3>1 DEF DropFits, Using
    <3> QED BY <3>3, <3>4
  <2> QED BY <2>1, <2>2
<1> QED BY <1>12, <1>13, <1>14, <1>15, <1>16, <1>17 DEF RequestsFit

\* A write with the next number opens a window that nothing else is in; one
\* with an old number lands below the window, and is no longer under way.
LEMMA ReviseKeepsHistory ==
  ASSUME EnvInv, RevisionsKeyed', EnvTypeOK',
         NEW r \in EnvRequests, NEW step, Proceed(r, step),
         NEW t \in Numbered(envRequest[r]), Numbered(step) \subseteq Numbered(envRequest[r]) \ {t},
         NEW id, id = t.variable, NEW number, number = t.number, ReviseBatch(id, number),
         NEW j, j = minted + 1, NEW n, n = NextNumber(id)
  PROVE  HistoryInv'
<1> DEFINE row == [id |-> j, variable |-> id, number |-> number]
           old == {x \in History(id) : x.number + HistoryCap > number}
           bound == ImportConcurrency * Cardinality(EnvRequests)
<1> USE DEF EnvInv, HistoryInv
<1>1. HistoryCap \in Nat \ {0} /\ minted \in Nat
  BY EnvVarsAssumption DEF RowsInv, EnvTypeOK
<1>2. envRequest[r] \in EnvRequest
  BY DEF RowsInv, EnvTypeOK
<1>3. number \in Nat \ {0} /\ n \in Nat \ {0} /\ number <= n
  <2>1. number \in Nat \ {0} /\ NumberFits(t)
    BY <1>2, NumberedTyped DEF AllNumbersFit, NumbersFit
  <2>2. Kept(id)
    BY DEF ReviseBatch, CanRevise, Kept
  <2>3. n \in Nat \ {0}
    BY HistoryFacts DEF RowsInv, EnvTypeOK, RevisionsKeyed
  <2> QED BY <2>1, <2>2, <2>3 DEF NumberFits
<1>4. row.variable = id /\ row.number = number
  OBVIOUS
<1>5. History(id)' = old \cup {row}
  BY DEF ReviseBatch, History
<1>6. /\ History(id) \subseteq Revision /\ IsFiniteSet(History(id))
      /\ \A x \in History(id) : x.number < n
      /\ n # 1 => \E x \in History(id) : x.number = n - 1
  BY HistoryFacts DEF RowsInv, EnvTypeOK, RevisionsKeyed
<1>7. \A x \in History(id) : x.number \in Nat \ {0} /\ x.number # number
  BY <1>6 DEF Revision, ReviseBatch, CanRevise
<1>8. \A x \in old : x \in History(id) /\ x.number + HistoryCap > number
  OBVIOUS
<1>9. \A x \in History(id) : x.number + HistoryCap > number => x \in old
  OBVIOUS
<1> HIDE DEF row, old, bound
<1>10. ASSUME NEW other, other # id
       PROVE  /\ History(other)' = History(other) /\ NextNumber(other)' = NextNumber(other)
              /\ Late(other)' = Late(other)
  <2>1. History(other)' = History(other)
    BY <1>10 DEF ReviseBatch, History
  <2> QED BY <2>1 DEF NextNumber, Late
<1>11. \A other : Kept(other)' => Kept(other)
  BY DEF ReviseBatch, Kept, RowsInv, EnvTypeOK, Variable
<1>12. /\ History(id)' \subseteq Revision /\ IsFiniteSet(History(id)')
  BY FS_Subset DEF EnvTypeOK, RevisionsKeyed, History
<1>13. NextNumber(id)' = IF number = n THEN n + 1 ELSE n
  <2>1. NextNumber(id)' = NumberAfter(History(id)')
    BY DEF NextNumber, NumberAfter
  <2>2. CASE number = n
    <3>1. \A x \in History(id)' : x.number < n + 1
      BY <1>3, <1>4, <1>5, <1>6, <1>7, <1>8, <2>2
    <3>2. \E x \in History(id)' : x.number = (n + 1) - 1
      BY <1>3, <1>4, <1>5, <2>2
    <3>3. n + 1 \in Nat \ {0}
      BY <1>3
    <3> QED BY <1>12, <2>1, <2>2, <3>1, <3>2, <3>3, NumberAfterIs
  <2>3. CASE number # n
    <3>1. \A x \in History(id)' : x.number < n
      BY <1>3, <1>4, <1>5, <1>6, <1>8, <2>3
    <3>2. \E x \in History(id)' : x.number = n - 1
      <4>1. PICK x \in History(id) : x.number = n - 1
        BY <1>3, <1>6, <2>3
      <4>2. x \in old
        BY <1>1, <1>3, <1>9, <2>3, <4>1
      <4> QED BY <1>5, <4>1, <4>2
    <3> QED BY <1>3, <1>12, <2>1, <2>3, <3>1, <3>2, NumberAfterIs
  <2> QED BY <2>2, <2>3
<1>14. /\ UnderWay' \subseteq UnderWay /\ <<r, t>> \in UnderWay /\ <<r, t>> \notin UnderWay'
       /\ IsFiniteSet(Numbered(step)) /\ Cardinality(Numbered(step)) <= ImportConcurrency
  BY WritesEnd
<1>15. ASSUME NEW q \in EnvRequests, NEW u \in Numbered(envRequest[q])
       PROVE  NumberFits(u)'
  <2>1. envRequest[q] \in EnvRequest
    BY DEF RowsInv, EnvTypeOK
  <2>2. NumberFits(u) /\ u.variable \in Nat /\ u.number \in Nat
    BY <2>1, NumberedTyped DEF AllNumbersFit, NumbersFit, Minted
  <2>3. u.variable <= minted'
    BY <1>1, <2>2 DEF NumberFits, ReviseBatch
  <2>4. CASE u.variable = id
    BY <1>3, <1>11, <1>13, <2>2, <2>3, <2>4 DEF NumberFits
  <2>5. CASE u.variable # id
    BY <1>10, <1>11, <2>2, <2>3, <2>5 DEF NumberFits
  <2> QED BY <2>4, <2>5
<1>16. AllNumbersFit'
  <2> SUFFICES ASSUME NEW q \in EnvRequests PROVE NumbersFit(envRequest[q])'
    BY DEF AllNumbersFit
  <2>1. CASE q = r
    <3>1. Numbered(envRequest[q])' = Numbered(step)
      BY <2>1, RequestsTyped DEF Numbered, RowsInv
    <3> QED BY <1>14, <1>15, <2>1, <3>1 DEF NumbersFit
  <2>2. CASE q # r
    <3>1. Numbered(envRequest[q])' = Numbered(envRequest[q])
      BY <2>2, RequestsTyped DEF Numbered, RowsInv
    <3> QED BY <1>15, <3>1 DEF NumbersFit, AllNumbersFit
  <2> QED BY <2>1, <2>2
<1>17. PICK w \in variables : w.id = id
  BY DEF ReviseBatch, CanRevise
<1>18. Window'
  <2> SUFFICES ASSUME NEW v \in variables', NEW k \in Nat \ {0},
                      k < NextNumber(v.id)', k + HistoryCap >= NextNumber(v.id)'
               PROVE  \E x \in History(v.id)' : x.number = k
    BY DEF Window
  <2>1. CASE v.id = id
    <3>1. CASE k = number
      BY <1>4, <1>5, <2>1, <3>1
    <3>2. CASE k # number
      <4>1. k < n /\ k + HistoryCap >= n /\ k + HistoryCap > number
        BY <1>1, <1>3, <1>13, <2>1, <3>2
      <4>2. PICK x \in History(id) : x.number = k
        BY <1>17, <4>1 DEF Window
      <4> QED BY <1>5, <1>9, <2>1, <4>1, <4>2
    <3> QED BY <3>1, <3>2
  <2>2. CASE v.id # id
    <3>1. PICK u \in variables : u.id = v.id
      BY <1>11 DEF Kept
    <3> QED BY <1>10, <2>2, <3>1 DEF Window
  <2> QED BY <2>1, <2>2
<1>19. bound \in Nat \ {0} /\ IsFiniteSet(UnderWay) /\ Cardinality(UnderWay) <= bound
  BY BoundPositive, UnderWayBounded DEF bound
<1>20. FewLate'
  <2> SUFFICES ASSUME NEW v \in variables'
               PROVE  Cardinality(Late(v.id)') + Cardinality(Overtaken(v.id)') < bound
    BY DEF FewLate, bound
  <2>1. PICK u \in variables : u.id = v.id
    BY <1>11 DEF Kept
  <2>2. Cardinality(Late(v.id)) + Cardinality(Overtaken(v.id)) < bound
    BY <2>1 DEF FewLate, bound
  <2>3. /\ IsFiniteSet(Late(v.id)) /\ IsFiniteSet(Overtaken(v.id))
        /\ Cardinality(Late(v.id)) \in Nat /\ Cardinality(Overtaken(v.id)) \in Nat
    BY <1>19, HistoryFacts, FS_Subset, FS_CardinalityType
       DEF Late, Overtaken, RowsInv, EnvTypeOK, RevisionsKeyed
  <2>4. CASE v.id # id
    <3>1. Late(v.id)' = Late(v.id)
      BY <1>10, <2>4
    <3>2. Overtaken(v.id)' \subseteq Overtaken(v.id)
      BY <1>10, <1>14, <2>4 DEF Overtaken
    <3>3. Cardinality(Overtaken(v.id)') <= Cardinality(Overtaken(v.id)) /\ Cardinality(Overtaken(v.id)') \in Nat
      BY <2>3, <3>2, FS_Subset, FS_CardinalityType
    <3> QED BY <1>19, <2>2, <2>3, <3>1, <3>3
  <2>5. CASE v.id = id /\ number = n
    <3>1. Late(id)' = {}
      <4> SUFFICES ASSUME NEW x \in History(id)', x.number + HistoryCap < n + 1 PROVE FALSE
        BY <1>13, <2>5 DEF Late
      <4>1. x.number \in Nat /\ x.number + HistoryCap > n
        BY <1>1, <1>3, <1>4, <1>5, <1>7, <1>8, <2>5
      <4> QED BY <1>1, <1>3, <4>1
    <3>2. Overtaken(id)' \subseteq UnderWay \ {<<r, t>>}
      BY <1>14 DEF Overtaken
    <3>3. /\ IsFiniteSet(UnderWay \ {<<r, t>>}) /\ Cardinality(UnderWay) \in Nat
          /\ Cardinality(UnderWay \ {<<r, t>>}) = Cardinality(UnderWay) - 1
      BY <1>14, <1>19, FS_RemoveElement, FS_CardinalityType
    <3>4. Cardinality(Overtaken(id)') <= Cardinality(UnderWay) - 1 /\ Cardinality(Overtaken(id)') \in Nat
      BY <3>2, <3>3, FS_Subset, FS_CardinalityType
    <3>5. Cardinality(Late(id)') = 0
      BY <3>1, FS_EmptySet
    <3>6. Cardinality(Late(id)') + Cardinality(Overtaken(id)') < bound
      BY <1>19, <3>3, <3>4, <3>5
    <3> QED BY <2>5, <3>6
  <2>6. CASE v.id = id /\ number # n
    <3>1. NextNumber(id)' = n
      BY <1>13, <2>6
    <3>2. Late(id)' \subseteq Late(id) \cup {row}
      BY <1>5, <1>8, <3>1 DEF Late
    <3>3. Cardinality(Late(id)') <= Cardinality(Late(id)) + 1 /\ Cardinality(Late(id)') \in Nat
      <4>1. /\ IsFiniteSet(Late(id) \cup {row})
            /\ Cardinality(Late(id) \cup {row}) \in {Cardinality(Late(id)), Cardinality(Late(id)) + 1}
        BY <2>3, <2>6, FS_AddElement
      <4>2. /\ Cardinality(Late(id)') <= Cardinality(Late(id) \cup {row})
            /\ Cardinality(Late(id)') \in Nat
        BY <3>2, <4>1, FS_Subset, FS_CardinalityType
      <4> QED BY <2>3, <2>6, <4>1, <4>2
    <3>4. <<r, t>> \in Overtaken(id)
      <4>1. t.number < n
        BY <1>3, <2>6
      <4> QED BY <1>14, <4>1 DEF Overtaken
    <3>5. Overtaken(id)' \subseteq Overtaken(id) \ {<<r, t>>}
      BY <1>14, <3>1 DEF Overtaken
    <3>6. /\ IsFiniteSet(Overtaken(id) \ {<<r, t>>})
          /\ Cardinality(Overtaken(id) \ {<<r, t>>}) = Cardinality(Overtaken(id)) - 1
      BY <2>3, <2>6, <3>4, FS_RemoveElement
    <3>7. Cardinality(Overtaken(id)') <= Cardinality(Overtaken(id)) - 1 /\ Cardinality(Overtaken(id)') \in Nat
      BY <3>5, <3>6, FS_Subset, FS_CardinalityType
    <3>8. Cardinality(Late(id)') + Cardinality(Overtaken(id)') < bound
      BY <1>19, <2>2, <2>3, <2>6, <3>3, <3>7
    <3> QED BY <2>6, <3>8
  <2> QED BY <2>4, <2>5, <2>6
<1> QED BY <1>16, <1>18, <1>20

(***************************************************************************)
(* Each action.                                                            *)
(***************************************************************************)

\* A request that writes nothing: what it goes on with fits the tables.
LEMMA Looks ==
  ASSUME EnvInv, NEW r \in EnvRequests, NEW step \in EnvRequest, Proceed(r, step), UNCHANGED rows,
         TargetFits(step), DropFits(step),
         IsFiniteSet(Numbered(step)), Cardinality(Numbered(step)) <= ImportConcurrency,
         \A t \in Numbered(step) :
           \/ t \in Numbered(envRequest[r])
           \/ t.variable <= minted /\ (Kept(t.variable) => t.number = NextNumber(t.variable))
  PROVE  EnvInv'
<1>1. RowsInv'
  BY RowsStay
<1>2. UNCHANGED <<revisions, minted>> /\ \A v \in variables' : Kept(v.id)
  BY DEF rows, Kept
<1>3. HistoryInv'
  BY <1>2, HistoryStays
<1> QED BY <1>1, <1>3 DEF EnvInv

\* ... with nothing numbered.
LEMMA LooksOnly ==
  ASSUME EnvInv, NEW r \in EnvRequests, NEW step \in EnvRequest, Proceed(r, step), UNCHANGED rows,
         TargetFits(step), DropFits(step), Numbered(step) = {}
  PROVE  EnvInv'
<1>1. IsFiniteSet({}) /\ Cardinality({}) <= ImportConcurrency
  BY FS_EmptySet, EnvVarsAssumption
<1> QED BY <1>1, Looks

LEMMA FreeFits ==
  Free \in EnvRequest /\ TargetFits(Free) /\ DropFits(Free) /\ Numbered(Free) = {}
  /\ Free.pc \notin {"point", "drop"}
BY DEF Free, EnvRequest, TargetFits, DropFits, Numbered

LEMMA RefusedKeeps ==
  ASSUME EnvInv, NEW r \in EnvRequests, Refused(r)
  PROVE  EnvInv'
BY FreeFits, LooksOnly DEF Refused, Finish

LEMMA NextNumberTyped ==
  ASSUME EnvInv, NEW id
  PROVE  NextNumber(id) \in Nat \ {0}
BY HistoryFacts DEF EnvInv, RowsInv, EnvTypeOK, RevisionsKeyed

LEMMA VariableTyped ==
  ASSUME EnvInv, NEW v \in variables
  PROVE  v.id \in Minted /\ v.slot \in Slot /\ v.id <= minted /\ v.id # 0
BY DEF EnvInv, RowsInv, EnvTypeOK, VariablesKeyed, Variable, Minted

LEMMA CreateCheckKeeps ==
  ASSUME EnvInv, NEW r \in EnvRequests, NEW s \in Slot, CreateCheck(r, s)
  PROVE  EnvInv'
<1> DEFINE step == [pc |-> "insert", slot |-> s]
<1>1. step \in EnvRequest /\ TargetFits(step) /\ DropFits(step) /\ Numbered(step) = {}
  BY DEF EnvRequest, TargetFits, DropFits, Numbered
<1>2. Proceed(r, step) /\ UNCHANGED rows
  BY DEF CreateCheck, Begin, Proceed
<1> HIDE DEF step
<1> QED BY <1>1, <1>2, LooksOnly

LEMMA UpdateFindKeeps ==
  ASSUME EnvInv, NEW r \in EnvRequests, NEW v \in variables, UpdateFind(r, v)
  PROVE  EnvInv'
<1> DEFINE step == [pc |-> "revise", variable |-> v.id, number |-> NextNumber(v.id)]
<1>1. step \in EnvRequest
  BY NextNumberTyped, VariableTyped DEF EnvRequest
<1>2. TargetFits(step) /\ DropFits(step) /\ Numbered(step) = {step}
  BY DEF TargetFits, DropFits, Numbered
<1>3. step.variable = v.id /\ step.number = NextNumber(v.id)
  OBVIOUS
<1>4. Proceed(r, step) /\ UNCHANGED rows
  BY DEF UpdateFind, Begin, Proceed
<1> HIDE DEF step
<1>5. IsFiniteSet({step}) /\ Cardinality({step}) <= ImportConcurrency
  <2>1. IsFiniteSet({step}) /\ Cardinality({step}) = 1
    BY FS_Singleton
  <2>2. ImportConcurrency \in Nat \ {0}
    BY EnvVarsAssumption
  <2> QED BY <2>1, <2>2
<1> QED BY <1>1, <1>2, <1>3, <1>4, <1>5, VariableTyped, Looks

LEMMA RollbackFindKeeps ==
  ASSUME EnvInv, NEW r \in EnvRequests, NEW v \in variables, NEW revision \in revisions,
         RollbackFind(r, v, revision)
  PROVE  EnvInv'
<1> DEFINE step == [pc |-> "point", variable |-> v.id, revision |-> revision.id]
<1>1. revision.id \in Minted /\ revision.id <= minted /\ revision.variable = v.id
  BY DEF RollbackFind, History, EnvInv, RowsInv, EnvTypeOK, RevisionsKeyed, Revision
<1>2. step \in EnvRequest
  BY <1>1, VariableTyped DEF EnvRequest
<1>3. TargetFits(step)
  BY <1>1 DEF TargetFits, EnvInv, RowsInv, RevisionsKeyed
<1>4. DropFits(step) /\ Numbered(step) = {}
  BY DEF DropFits, Numbered
<1>5. Proceed(r, step) /\ UNCHANGED rows
  BY DEF RollbackFind, Begin, Proceed
<1> HIDE DEF step
<1> QED BY <1>2, <1>3, <1>4, <1>5, LooksOnly

LEMMA ImportCheckKeeps ==
  ASSUME EnvInv, NEW r \in EnvRequests, NEW scope, NEW slots \in SUBSET Slot,
         ImportCheck(r, scope, slots)
  PROVE  EnvInv'
<1> DEFINE step == [pc |-> "import", pending |-> slots, found |-> {}]
<1>1. step \in EnvRequest
  BY DEF EnvRequest
<1>2. TargetFits(step) /\ DropFits(step) /\ Numbered(step) = {}
  BY DEF TargetFits, DropFits, Numbered
<1>3. Proceed(r, step) /\ UNCHANGED rows
  BY DEF ImportCheck, Begin, Proceed
<1> HIDE DEF step
<1> QED BY <1>1, <1>2, <1>3, LooksOnly

\* The record of an import.
LEMMA ImportFields ==
  ASSUME EnvInv, NEW r \in EnvRequests, envRequest[r].pc = "import"
  PROVE  /\ envRequest[r] \in [pc : {"import"}, pending : SUBSET Slot, found : SUBSET Upsert]
         /\ Numbered(envRequest[r]) = envRequest[r].found
BY DEF EnvInv, RowsInv, EnvTypeOK, EnvRequest, Free, Numbered

LEMMA UpsertFindKeeps ==
  ASSUME EnvInv, NEW r \in EnvRequests, NEW s \in Slot, UpsertFind(r, s)
  PROVE  EnvInv'
<1> DEFINE holder == CHOOSE v \in EnvHolding(s) : TRUE
           upsert == IF EnvHolding(s) = {} THEN [slot |-> s, variable |-> 0, number |-> 1]
                     ELSE [slot |-> s, variable |-> holder.id, number |-> NextNumber(holder.id)]
           step == [envRequest[r] EXCEPT !.pending = @ \ {s}, !.found = @ \cup {upsert}]
<1>1. /\ upsert \in Upsert
      /\ upsert.variable <= minted
      /\ Kept(upsert.variable) => upsert.number = NextNumber(upsert.variable)
  <2>1. CASE EnvHolding(s) = {}
    <3>1. upsert = [slot |-> s, variable |-> 0, number |-> 1]
      BY <2>1
    <3>2. ~Kept(0)
      BY VariableTyped DEF Kept
    <3> QED BY <3>1, <3>2, EnvVarsAssumption DEF Upsert, EnvInv, RowsInv, EnvTypeOK
  <2>2. CASE EnvHolding(s) # {}
    <3>1. holder \in variables
      BY <2>2 DEF EnvHolding
    <3> HIDE DEF holder
    <3>2. upsert = [slot |-> s, variable |-> holder.id, number |-> NextNumber(holder.id)]
      BY <2>2
    <3>3. holder.id \in Minted /\ holder.id <= minted /\ NextNumber(holder.id) \in Nat \ {0}
      BY <3>1, VariableTyped, NextNumberTyped
    <3> QED BY <3>2, <3>3 DEF Upsert
  <2> QED BY <2>1, <2>2
<1>2. Proceed(r, step) /\ UNCHANGED rows
  BY DEF UpsertFind
<1>3. envRequest[r].pc = "import" /\ Cardinality(envRequest[r].found) < ImportConcurrency
  BY DEF UpsertFind
<1> HIDE DEF upsert
<1>4. /\ step \in [pc : {"import"}, pending : SUBSET Slot, found : SUBSET Upsert]
      /\ step.pc = "import" /\ step.found = envRequest[r].found \cup {upsert}
  BY <1>1, <1>3, ImportFields
<1> HIDE DEF step
<1>5. step \in EnvRequest
  BY <1>4 DEF EnvRequest
<1>6. TargetFits(step) /\ DropFits(step) /\ Numbered(step) = envRequest[r].found \cup {upsert}
  BY <1>4 DEF TargetFits, DropFits, Numbered
<1>7. IsFiniteSet(Numbered(step)) /\ Cardinality(Numbered(step)) <= ImportConcurrency
  <2>1. IsFiniteSet(envRequest[r].found) /\ Cardinality(envRequest[r].found) \in Nat
    BY <1>3, ImportFields, FS_CardinalityType DEF EnvInv, HistoryInv, AllNumbersFit, NumbersFit
  <2>2. ImportConcurrency \in Nat
    BY EnvVarsAssumption
  <2>3. /\ IsFiniteSet(envRequest[r].found \cup {upsert})
        /\ Cardinality(envRequest[r].found \cup {upsert})
             \in {Cardinality(envRequest[r].found), Cardinality(envRequest[r].found) + 1}
    BY <2>1, FS_AddElement
  <2> QED BY <1>3, <1>6, <2>1, <2>2, <2>3
<1>8. \A t \in Numbered(step) :
        \/ t \in Numbered(envRequest[r])
        \/ t.variable <= minted /\ (Kept(t.variable) => t.number = NextNumber(t.variable))
  BY <1>1, <1>3, <1>6, ImportFields
<1> QED BY <1>2, <1>5, <1>6, <1>7, <1>8, Looks

LEMMA DeleteEnvironmentFindKeeps ==
  ASSUME EnvInv, NEW r \in EnvRequests, NEW name \in CustomEnvironments,
         DeleteEnvironmentFind(r, name)
  PROVE  EnvInv'
<1> DEFINE step == [pc |-> "drop", name |-> name]
<1>1. step \in EnvRequest
  BY DEF EnvRequest
<1>2. TargetFits(step) /\ DropFits(step) /\ Numbered(step) = {}
  BY DEF DeleteEnvironmentFind, TargetFits, DropFits, Numbered
<1>3. Proceed(r, step) /\ UNCHANGED rows
  BY DEF DeleteEnvironmentFind, Begin, Proceed
<1> HIDE DEF step
<1> QED BY <1>1, <1>2, <1>3, LooksOnly

LEMMA RenameFindKeeps ==
  ASSUME EnvInv, NEW r \in EnvRequests, NEW before \in CustomEnvironments,
         NEW after \in CustomEnvironments, RenameFind(r, before, after)
  PROVE  EnvInv'
<1> DEFINE step == [pc |-> "rename", old |-> before, new |-> after]
<1>1. step \in EnvRequest
  BY DEF EnvRequest
<1>2. TargetFits(step) /\ DropFits(step) /\ Numbered(step) = {}
  BY DEF TargetFits, DropFits, Numbered
<1>3. Proceed(r, step) /\ UNCHANGED rows
  BY DEF RenameFind, Begin, Proceed
<1> HIDE DEF step
<1> QED BY <1>1, <1>2, <1>3, LooksOnly

LEMMA InsertWithRevisionKeeps ==
  ASSUME EnvInv, NEW r \in EnvRequests, InsertWithRevision(r)
  PROVE  EnvInv'
<1>1. CASE Refused(r)
  BY <1>1, RefusedKeeps
<1>2. CASE InsertBatch(envRequest[r].slot) /\ Finish(r)
  <2>1. envRequest[r].slot \in Slot
    BY DEF InsertWithRevision, EnvInv, RowsInv, EnvTypeOK, EnvRequest, Free
  <2>2. PICK s \in Slot : InsertBatch(s)
    BY <1>2, <2>1
  <2>3. Proceed(r, Free) /\ Numbered(Free) \subseteq Numbered(envRequest[r])
    BY <1>2, FreeFits DEF Finish
  <2>4. RowsInv'
    BY <2>2, <2>3, FreeFits, InsertKeepsRows
  <2>5. HistoryInv'
    BY <2>2, <2>3, InsertKeepsHistory
  <2> QED BY <2>4, <2>5 DEF EnvInv
<1> QED BY <1>1, <1>2 DEF InsertWithRevision

\* A request writes a revision it has numbered, and goes on with the rest.
LEMMA ReviseKeeps ==
  ASSUME EnvInv, NEW r \in EnvRequests, NEW step \in EnvRequest, Proceed(r, step),
         step.pc \notin {"point", "drop"},
         NEW t \in Numbered(envRequest[r]), Numbered(step) \subseteq Numbered(envRequest[r]) \ {t},
         ReviseBatch(t.variable, t.number)
  PROVE  EnvInv'
<1>1. PICK id, number : id = t.variable /\ number = t.number
  OBVIOUS
<1>2. PICK j, n : j = minted + 1 /\ n = NextNumber(id)
  OBVIOUS
<1>3. ReviseBatch(id, number)
  BY <1>1
<1>4. envRequest[r] \in EnvRequest
  BY DEF EnvInv, RowsInv, EnvTypeOK
<1>5. id \in Minted /\ number \in Nat \ {0}
  BY <1>1, <1>3, <1>4, NumberedTyped, VariableTyped DEF ReviseBatch, CanRevise
<1>6. RowsInv'
  BY <1>2, <1>3, <1>5, ReviseKeepsRows
<1>7. RevisionsKeyed' /\ EnvTypeOK'
  BY <1>6 DEF RowsInv
<1>8. HistoryInv'
  BY <1>1, <1>2, <1>3, <1>7, ReviseKeepsHistory
<1> QED BY <1>6, <1>8 DEF EnvInv

LEMMA AddRevisionKeeps ==
  ASSUME EnvInv, NEW r \in EnvRequests, AddRevision(r)
  PROVE  EnvInv'
<1>1. CASE Refused(r)
  BY <1>1, RefusedKeeps
<1>2. CASE ReviseBatch(envRequest[r].variable, envRequest[r].number) /\ Finish(r)
  <2>1. envRequest[r] \in Numbered(envRequest[r])
    BY DEF AddRevision, Numbered
  <2>2. Proceed(r, Free) /\ Numbered(Free) = {}
    BY <1>2, FreeFits DEF Finish
  <2> QED BY <1>2, <2>1, <2>2, FreeFits, ReviseKeeps
<1> QED BY <1>1, <1>2 DEF AddRevision

LEMMA UpsertWriteKeeps ==
  ASSUME EnvInv, NEW r \in EnvRequests, NEW u \in envRequest[r].found, UpsertWrite(r, u)
  PROVE  EnvInv'
<1> DEFINE rest == [envRequest[r] EXCEPT !.found = @ \ {u}]
           step == IF rest.pending \cup rest.found = {} THEN Free ELSE rest
<1>1. CASE Refused(r)
  BY <1>1, RefusedKeeps
<1>2. CASE ~Refused(r)
  <2>1. envRequest[r].pc = "import"
    BY DEF UpsertWrite
  <2>2. /\ rest \in [pc : {"import"}, pending : SUBSET Slot, found : SUBSET Upsert]
        /\ rest.pc = "import" /\ rest.found = envRequest[r].found \ {u}
    BY <2>1, ImportFields
  <2>3. /\ IF u.variable = 0 THEN InsertBatch(u.slot) ELSE ReviseBatch(u.variable, u.number)
        /\ Proceed(r, step)
    BY <1>2 DEF UpsertWrite
  <2> HIDE DEF rest
  <2>4. rest \in EnvRequest /\ Numbered(rest) = envRequest[r].found \ {u}
    BY <2>2 DEF EnvRequest, Numbered
  <2>5. /\ step \in EnvRequest /\ step.pc \notin {"point", "drop"}
        /\ Numbered(step) \subseteq Numbered(envRequest[r]) \ {u}
    BY <2>1, <2>2, <2>4, FreeFits, ImportFields
  <2> HIDE DEF step
  <2>6. u \in Upsert /\ u \in Numbered(envRequest[r])
    BY <2>1, ImportFields
  <2>7. CASE u.variable = 0
    <3>1. InsertBatch(u.slot) /\ u.slot \in Slot
      BY <2>3, <2>6, <2>7 DEF Upsert
    <3>2. PICK s \in Slot : InsertBatch(s)
      BY <3>1
    <3>3. Numbered(step) \subseteq Numbered(envRequest[r])
      BY <2>5
    <3>4. RowsInv'
      BY <2>3, <2>5, <3>2, InsertKeepsRows
    <3>5. HistoryInv'
      BY <2>3, <3>2, <3>3, InsertKeepsHistory
    <3> QED BY <3>4, <3>5 DEF EnvInv
  <2>8. CASE u.variable # 0
    BY <2>3, <2>5, <2>6, <2>8, ReviseKeeps
  <2> QED BY <2>7, <2>8
<1> QED BY <1>1, <1>2

LEMMA RollbackPointKeeps ==
  ASSUME EnvInv, NEW r \in EnvRequests, RollbackPoint(r)
  PROVE  EnvInv'
<1>1. PICK id, target : id = envRequest[r].variable /\ target = envRequest[r].revision
  OBVIOUS
<1> DEFINE here == {v \in variables : v.id = id}
           pointed(v) == [v EXCEPT !.current = target]
<1>2. /\ envRequest[r].pc = "point"
      /\ variables' = (variables \ here) \cup {pointed(v) : v \in here}
      /\ clobbered' = IF here # {} /\ \A v \in revisions : v.id # target
                      THEN clobbered \cup {id} ELSE clobbered \ {id}
      /\ Proceed(r, Free) /\ UNCHANGED <<environments, revisions, minted, strayed>>
  BY <1>1 DEF RollbackPoint, Finish
<1>3. /\ id \in Minted /\ target \in Minted /\ TargetFits(envRequest[r])
  BY <1>1, <1>2 DEF EnvInv, RowsInv, EnvTypeOK, EnvRequest, Free, RequestsFit
<1>4. \A v \in here : /\ v \in variables /\ v.id = id /\ pointed(v) \in Variable
                      /\ pointed(v).id = id /\ pointed(v).slot = v.slot /\ pointed(v).current = target
  BY <1>3 DEF EnvInv, RowsInv, EnvTypeOK, Variable
<1>5. \A v \in variables : v \notin here => v.id # id
  OBVIOUS
<1> HIDE DEF here, pointed
<1>6. \A w \in variables' : \E v \in variables :
        /\ v.id = w.id /\ v.slot = w.slot
        /\ v.id # id => v = w
        /\ v.id = id => w.current = target /\ v \in here
  BY <1>2, <1>4, <1>5
<1> USE DEF EnvInv, RowsInv
<1>7. EnvTypeOK'
  BY <1>2, <1>3, <1>4, FreeFits, RequestsTyped DEF EnvTypeOK
<1>8. VariablesKeyed'
  <2>1. \A v, w \in variables' : v.id = w.id => v = w
    BY <1>2, <1>4, <1>5 DEF VariablesKeyed
  <2>2. \A v \in variables' : v.id <= minted'
    BY <1>2, <1>6 DEF VariablesKeyed
  <2> QED BY <2>1, <2>2 DEF VariablesKeyed
<1>9. RevisionsKeyed'
  BY <1>2 DEF RevisionsKeyed
<1>10. Pointers'
  <2> SUFFICES ASSUME NEW w \in variables', w.id \notin clobbered'
               PROVE  \E x \in revisions : x.id = w.current /\ x.variable = w.id
    BY <1>2 DEF Pointers
  <2>1. PICK v \in variables :
          /\ v.id = w.id /\ v.slot = w.slot
          /\ v.id # id => v = w
          /\ v.id = id => w.current = target /\ v \in here
    BY <1>6
  <2>2. CASE v.id = id
    <3>1. PICK x \in revisions : x.id = target
      BY <1>2, <2>1, <2>2
    <3> QED BY <1>1, <1>2, <1>3, <2>1, <2>2, <3>1 DEF TargetFits
  <2>3. CASE v.id # id
    BY <1>2, <2>1, <2>3 DEF Pointers
  <2> QED BY <2>2, <2>3
<1>11. EnvironmentsKnown'
  BY <1>2, <1>6 DEF EnvironmentsKnown, Known
<1>12. ASSUME NEW q \in EnvRequests PROVE TargetFits(envRequest[q])' /\ DropFits(envRequest[q])'
  <2>1. CASE q = r
    BY <1>2, <2>1, RequestsTyped, FreeFits DEF TargetFits, DropFits
  <2>2. CASE q # r
    <3>1. envRequest'[q] = envRequest[q] /\ TargetFits(envRequest[q]) /\ DropFits(envRequest[q])
      BY <1>2, <2>2, RequestsTyped DEF RequestsFit
    <3> QED BY <1>2, <1>6, <3>1 DEF TargetFits, DropFits, Using
  <2> QED BY <2>1, <2>2
<1>13. RowsInv'
  BY <1>7, <1>8, <1>9, <1>10, <1>11, <1>12 DEF RequestsFit
<1>14. \A v \in variables' : Kept(v.id)
  BY <1>6 DEF Kept
<1>15. IsFiniteSet(Numbered(Free)) /\ Cardinality(Numbered(Free)) <= ImportConcurrency
  BY FreeFits, FS_EmptySet, EnvVarsAssumption
<1>16. HistoryInv'
  BY <1>2, <1>14, <1>15, FreeFits, HistoryStays
<1> QED BY <1>13, <1>16

\* The tables lose a variable and its history; the requests know nothing of it.
LEMMA DeleteVariableKeeps ==
  ASSUME EnvInv, NEW v \in variables, DeleteVariable(v)
  PROVE  EnvInv'
<1> USE DEF EnvInv, RowsInv, HistoryInv
<1>1. /\ variables' = variables \ {v} /\ revisions' = revisions \ History(v.id)
      /\ strayed' = strayed \ {v.id} /\ clobbered' = clobbered \ {v.id}
      /\ UNCHANGED <<environments, minted, envRequest>>
  BY DEF DeleteVariable
<1>2. \A w \in variables' : w \in variables /\ w.id # v.id
  BY <1>1 DEF VariablesKeyed
<1>3. \A x : x \in revisions' <=> x \in revisions /\ x.variable # v.id
  BY <1>1 DEF History
<1>4. EnvTypeOK' /\ VariablesKeyed'
  BY <1>1 DEF EnvTypeOK, VariablesKeyed
<1>5. RevisionsKeyed'
  <2>1. IsFiniteSet(revisions')
    BY <1>3, FS_Subset DEF RevisionsKeyed
  <2> QED BY <1>1, <1>3, <2>1 DEF RevisionsKeyed
<1>6. Pointers'
  BY <1>1, <1>2, <1>3 DEF Pointers
<1>7. RequestsFit'
  BY <1>1, <1>2, <1>3 DEF RequestsFit, TargetFits, DropFits, Using
<1>8. EnvironmentsKnown'
  BY <1>1, <1>2 DEF EnvironmentsKnown, Known
<1>9. ASSUME NEW id, id # v.id
      PROVE  /\ History(id)' = History(id) /\ NextNumber(id)' = NextNumber(id)
             /\ Late(id)' = Late(id) /\ Overtaken(id)' = Overtaken(id)
  <2>1. History(id)' = History(id)
    BY <1>3, <1>9 DEF History
  <2>2. NextNumber(id)' = NextNumber(id)
    BY <2>1 DEF NextNumber
  <2> QED BY <1>1, <2>1, <2>2 DEF Late, Overtaken, UnderWay, Numbered
<1>10. AllNumbersFit'
  <2> SUFFICES ASSUME NEW q \in EnvRequests PROVE NumbersFit(envRequest[q])'
    BY DEF AllNumbersFit
  <2>1. \A id : Kept(id)' => Kept(id) /\ id # v.id
    BY <1>2 DEF Kept
  <2> QED BY <1>1, <1>9, <2>1 DEF AllNumbersFit, NumbersFit, NumberFits, Numbered
<1>11. Window'
  BY <1>2, <1>9 DEF Window
<1>12. FewLate'
  BY <1>2, <1>9 DEF FewLate
<1> QED BY <1>4, <1>5, <1>6, <1>7, <1>8, <1>10, <1>11, <1>12

\* What only renames or adds or drops an environment leaves every history.
LEMMA CreateEnvironmentKeeps ==
  ASSUME EnvInv, NEW name \in CustomEnvironments, CreateEnvironment(name)
  PROVE  EnvInv'
<1> USE DEF EnvInv, RowsInv, HistoryInv
<1>1. environments' = environments \cup {name}
      /\ UNCHANGED <<variables, revisions, minted, envRequest, strayed, clobbered>>
  BY DEF CreateEnvironment
<1>2. EnvTypeOK' /\ EnvironmentsKnown'
  BY <1>1 DEF EnvTypeOK, EnvironmentsKnown, Known
<1>3. VariablesKeyed' /\ RevisionsKeyed' /\ Pointers' /\ RequestsFit'
  BY <1>1 DEF VariablesKeyed, RevisionsKeyed, Pointers, RequestsFit, TargetFits, DropFits, Using
<1>4. \A id : /\ History(id)' = History(id) /\ NextNumber(id)' = NextNumber(id)
              /\ Late(id)' = Late(id) /\ Overtaken(id)' = Overtaken(id)
              /\ (Kept(id)' <=> Kept(id))
  BY <1>1 DEF History, NextNumber, Late, Overtaken, UnderWay, Numbered, Kept
<1>5. AllNumbersFit'
  BY <1>1, <1>4 DEF AllNumbersFit, NumbersFit, NumberFits, Numbered
<1>6. Window' /\ FewLate'
  BY <1>1, <1>4 DEF Window, FewLate
<1> QED BY <1>2, <1>3, <1>5, <1>6

LEMMA DeleteEnvironmentKeeps ==
  ASSUME EnvInv, NEW r \in EnvRequests, DeleteEnvironment(r)
  PROVE  EnvInv'
<1> USE DEF EnvInv, RowsInv
<1>1. PICK name : name = envRequest[r].name
  OBVIOUS
<1>2. /\ envRequest[r].pc = "drop" /\ environments' = environments \ {name} /\ Proceed(r, Free)
      /\ UNCHANGED <<variables, revisions, minted, strayed, clobbered>>
  BY <1>1 DEF DeleteEnvironment, Finish
<1>3. name \in CustomEnvironments /\ \A v \in Using(name) : v.id \in strayed
  BY <1>1, <1>2 DEF EnvTypeOK, EnvRequest, Free, RequestsFit, DropFits
<1>4. EnvTypeOK'
  BY <1>2, FreeFits, RequestsTyped DEF EnvTypeOK
<1>5. VariablesKeyed' /\ RevisionsKeyed' /\ Pointers'
  BY <1>2 DEF VariablesKeyed, RevisionsKeyed, Pointers
<1>6. EnvironmentsKnown'
  BY <1>2, <1>3 DEF EnvironmentsKnown, Known, Using
<1>7. ASSUME NEW q \in EnvRequests PROVE TargetFits(envRequest[q])' /\ DropFits(envRequest[q])'
  <2>1. CASE q = r
    BY <1>2, <2>1, RequestsTyped, FreeFits DEF TargetFits, DropFits
  <2>2. CASE q # r
    <3>1. envRequest'[q] = envRequest[q] /\ TargetFits(envRequest[q]) /\ DropFits(envRequest[q])
      BY <1>2, <2>2, RequestsTyped DEF RequestsFit
    <3> QED BY <1>2, <3>1 DEF TargetFits, DropFits, Using
  <2> QED BY <2>1, <2>2
<1>8. RowsInv'
  BY <1>4, <1>5, <1>6, <1>7 DEF RequestsFit
<1>9. \A v \in variables' : Kept(v.id)
  BY <1>2 DEF Kept
<1>10. IsFiniteSet(Numbered(Free)) /\ Cardinality(Numbered(Free)) <= ImportConcurrency
  BY FreeFits, FS_EmptySet, EnvVarsAssumption
<1>11. HistoryInv'
  BY <1>2, <1>9, <1>10, FreeFits, HistoryStays
<1> QED BY <1>8, <1>11

LEMMA RenameEnvironmentKeeps ==
  ASSUME EnvInv, NEW r \in EnvRequests, RenameEnvironment(r)
  PROVE  EnvInv'
<1> USE DEF EnvInv, RowsInv
<1>1. PICK before, after : before = envRequest[r].old /\ after = envRequest[r].new
  OBVIOUS
<1> DEFINE moved == {Moved(v, before, after) : v \in variables}
           named == {IF e = before THEN after ELSE e : e \in environments}
<1>2. /\ envRequest[r].pc = "rename" /\ Proceed(r, Free)
      /\ UNCHANGED <<revisions, minted, clobbered>>
      /\ strayed' = IF Doomed(after) THEN strayed \cup {v.id : v \in variables' \ variables}
                    ELSE strayed
      /\ \/ variables' = variables /\ environments' = environments
         \/ variables' = moved /\ environments' = named
  BY <1>1 DEF RenameEnvironment, Finish
<1>3. before \in CustomEnvironments /\ after \in CustomEnvironments
  BY <1>1, <1>2 DEF EnvTypeOK, EnvRequest, Free
<1>4. before \notin BuiltinEnvironments
  BY <1>3, EnvVarsAssumption
<1>5. \A v \in variables :
        LET w == Moved(v, before, after) IN
        /\ w \in Variable /\ w.id = v.id /\ w.current = v.current
        /\ v.slot.environment # before => w = v
        /\ v.slot.environment = before => w.slot.environment = after
  BY <1>3 DEF Moved, EnvTypeOK, Variable, Slot, Environments
<1>6. \A w \in variables' : \E v \in variables :
        /\ w \in Variable /\ w.id = v.id /\ w.current = v.current
        /\ \/ w = v /\ (environments' = named => v.slot.environment # before)
           \/ /\ v.slot.environment = before /\ w.slot.environment = after
              /\ environments' = named
           \/ w = v /\ environments' = environments
  BY <1>2, <1>5 DEF EnvTypeOK
<1>7. named \subseteq CustomEnvironments
  BY <1>3 DEF EnvTypeOK
<1>8. \A e \in environments : IF e = before THEN after \in named ELSE e \in named
  OBVIOUS
<1> HIDE DEF moved, named
<1>9. strayed \subseteq strayed' /\ \A w \in variables' : Doomed(after) /\ w \notin variables => w.id \in strayed'
  BY <1>2
<1>10. EnvTypeOK'
  <2>1. strayed' \subseteq Minted
    BY <1>2, <1>6 DEF EnvTypeOK, Variable
  <2>2. variables' \subseteq Variable /\ environments' \subseteq CustomEnvironments
    BY <1>2, <1>6, <1>7 DEF EnvTypeOK
  <2> QED BY <1>2, <2>1, <2>2, FreeFits, RequestsTyped DEF EnvTypeOK
<1>11. VariablesKeyed'
  <2>1. \A v, w \in variables' : v.id = w.id => v = w
    <3>1. CASE variables' = variables
      BY <3>1 DEF VariablesKeyed
    <3>2. CASE variables' = moved
      BY <1>5, <3>2 DEF VariablesKeyed, moved
    <3> QED BY <1>2, <3>1, <3>2
  <2> QED BY <1>2, <1>6, <2>1 DEF VariablesKeyed
<1>12. RevisionsKeyed' /\ Pointers'
  BY <1>2, <1>6 DEF RevisionsKeyed, Pointers
<1>13. EnvironmentsKnown'
  <2> SUFFICES ASSUME NEW w \in variables' PROVE Known(w.slot.environment)' \/ w.id \in strayed'
    BY DEF EnvironmentsKnown
  <2>1. PICK v \in variables :
        /\ w \in Variable /\ w.id = v.id /\ w.current = v.current
        /\ \/ w = v /\ (environments' = named => v.slot.environment # before)
           \/ /\ v.slot.environment = before /\ w.slot.environment = after
              /\ environments' = named
           \/ w = v /\ environments' = environments
    BY <1>6
  <2>2. CASE v.id \in strayed
    BY <1>9, <2>1, <2>2
  <2>3. CASE Known(v.slot.environment)
    BY <1>2, <1>4, <1>8, <2>1, <2>3 DEF Known
  <2> QED BY <2>2, <2>3 DEF EnvironmentsKnown
<1>14. ASSUME NEW q \in EnvRequests PROVE TargetFits(envRequest[q])' /\ DropFits(envRequest[q])'
  <2>1. CASE q = r
    BY <1>2, <2>1, RequestsTyped, FreeFits DEF TargetFits, DropFits
  <2>2. CASE q # r
    <3>1. envRequest'[q] = envRequest[q] /\ TargetFits(envRequest[q]) /\ DropFits(envRequest[q])
      BY <1>2, <2>2, RequestsTyped DEF RequestsFit
    <3>2. TargetFits(envRequest[q])'
      BY <1>2, <3>1 DEF TargetFits
    <3>3. ASSUME envRequest[q].pc = "drop", NEW w \in variables',
                 w.slot.environment = envRequest[q].name
          PROVE  w.id \in strayed'
      <4>1. CASE w \in variables
        BY <1>9, <3>1, <3>3, <4>1 DEF DropFits, Using
      <4>2. CASE w \notin variables
        <5>1. w.slot.environment = after
          BY <1>6, <4>2
        <5>2. Doomed(after)
          BY <3>3, <5>1 DEF Doomed
        <5> QED BY <1>9, <4>2, <5>2
      <4> QED BY <4>1, <4>2
    <3>4. DropFits(envRequest[q])'
      BY <3>1, <3>3 DEF DropFits, Using
    <3> QED BY <3>2, <3>4
  <2> QED BY <2>1, <2>2
<1>15. RowsInv'
  BY <1>10, <1>11, <1>12, <1>13, <1>14 DEF RequestsFit
<1>16. \A w \in variables' : Kept(w.id)
  BY <1>6 DEF Kept
<1>17. IsFiniteSet(Numbered(Free)) /\ Cardinality(Numbered(Free)) <= ImportConcurrency
  BY FreeFits, FS_EmptySet, EnvVarsAssumption
<1>18. HistoryInv'
  BY <1>2, <1>16, <1>17, FreeFits, HistoryStays
<1> QED BY <1>15, <1>18

LEMMA EnvStep ==
  ASSUME EnvInv, [EnvNext]_envVars
  PROVE  EnvInv'
<1>1. CASE UNCHANGED envVars
  <2>1. UNCHANGED <<environments, variables, revisions, minted, envRequest, strayed, clobbered>>
    BY <1>1 DEF envVars
  <2>2. RowsInv'
    BY <2>1 DEF EnvInv, RowsInv, EnvTypeOK, VariablesKeyed, RevisionsKeyed, Pointers, RequestsFit,
                TargetFits, DropFits, Using, EnvironmentsKnown, Known
  <2>3. \A id : /\ History(id)' = History(id) /\ NextNumber(id)' = NextNumber(id)
                /\ Late(id)' = Late(id) /\ Overtaken(id)' = Overtaken(id)
                /\ (Kept(id)' <=> Kept(id))
    BY <2>1 DEF History, NextNumber, Late, Overtaken, UnderWay, Numbered, Kept
  <2>4. AllNumbersFit'
    BY <2>1, <2>3 DEF EnvInv, HistoryInv, AllNumbersFit, NumbersFit, NumberFits, Numbered
  <2>5. Window' /\ FewLate'
    BY <2>1, <2>3 DEF EnvInv, HistoryInv, Window, FewLate
  <2> QED BY <2>2, <2>4, <2>5 DEF EnvInv, HistoryInv
<1>2. ASSUME NEW r \in EnvRequests, EnvRequestStep(r)
      PROVE  EnvInv'
  <2>1. CASE InsertWithRevision(r) \/ AddRevision(r) \/ RollbackPoint(r) \/ DeleteEnvironment(r)
             \/ RenameEnvironment(r)
    BY <2>1, InsertWithRevisionKeeps, AddRevisionKeeps, RollbackPointKeeps, DeleteEnvironmentKeeps,
       RenameEnvironmentKeeps
  <2>2. CASE EnvCrash(r)
    BY <2>2, RefusedKeeps DEF EnvCrash
  <2>3. ASSUME NEW s \in Slot, CreateCheck(r, s) \/ UpsertFind(r, s) PROVE EnvInv'
    BY <2>3, CreateCheckKeeps, UpsertFindKeeps
  <2>4. ASSUME NEW v \in variables, UpdateFind(r, v) PROVE EnvInv'
    BY <2>4, UpdateFindKeeps
  <2>5. ASSUME NEW v \in variables, NEW revision \in revisions, RollbackFind(r, v, revision)
        PROVE  EnvInv'
    BY <2>5, RollbackFindKeeps
  <2>6. ASSUME NEW scope \in Scopes, NEW slots \in SUBSET Slot, ImportCheck(r, scope, slots)
        PROVE  EnvInv'
    BY <2>6, ImportCheckKeeps
  <2>7. ASSUME NEW u \in envRequest[r].found, UpsertWrite(r, u) PROVE EnvInv'
    BY <2>7, UpsertWriteKeeps
  <2>8. ASSUME NEW name \in CustomEnvironments, DeleteEnvironmentFind(r, name) PROVE EnvInv'
    BY <2>8, DeleteEnvironmentFindKeeps
  <2>9. ASSUME NEW before \in CustomEnvironments, NEW after \in CustomEnvironments,
               RenameFind(r, before, after)
        PROVE  EnvInv'
    BY <2>9, RenameFindKeeps
  <2> QED
    BY <1>2, <2>1, <2>2, <2>3, <2>4, <2>5, <2>6, <2>7, <2>8, <2>9 DEF EnvRequestStep
<1>3. ASSUME NEW v \in variables, DeleteVariable(v) PROVE EnvInv'
  BY <1>3, DeleteVariableKeeps
<1>4. ASSUME NEW name \in CustomEnvironments, CreateEnvironment(name) PROVE EnvInv'
  BY <1>4, CreateEnvironmentKeeps
<1> QED BY <1>1, <1>2, <1>3, <1>4 DEF EnvNext

LEMMA EnvInvariant == EnvSpec => []EnvInv
<1>1. EnvInit => EnvInv
  <2> SUFFICES ASSUME EnvInit PROVE EnvInv
    OBVIOUS
  <2>1. EnvTypeOK
    BY EnvVarsAssumption DEF EnvInit, EnvTypeOK, EnvRequest
  <2>2. VariablesKeyed /\ RevisionsKeyed /\ Pointers /\ RequestsFit /\ EnvironmentsKnown
    BY FreeFits, FS_EmptySet DEF EnvInit, VariablesKeyed, RevisionsKeyed, Pointers, RequestsFit,
       EnvironmentsKnown
  <2>3. \A r \in EnvRequests : Numbered(envRequest[r]) = {}
    BY FreeFits DEF EnvInit
  <2>4. AllNumbersFit
    BY <2>3, FS_EmptySet, EnvVarsAssumption DEF AllNumbersFit, NumbersFit
  <2>5. Window /\ FewLate
    BY DEF EnvInit, Window, FewLate
  <2> QED BY <2>1, <2>2, <2>4, <2>5 DEF EnvInv, RowsInv, HistoryInv
<1> QED BY <1>1, EnvStep, PTL DEF EnvSpec

(***************************************************************************)
(* What is proved.                                                         *)
(***************************************************************************)

\* The environment variables' state keeps its types.
THEOREM EnvTypeCorrect == EnvSpec => []EnvTypeOK
<1>1. EnvInv => EnvTypeOK
  BY DEF EnvInv, RowsInv
<1> QED BY <1>1, EnvInvariant, PTL

\* However requests interleave, renames and deletions of environments leave
\* no variable behind; a variable of an unknown environment was written there
\* after the environment's check had gone stale.
THEOREM VariablesStayReachable == EnvSpec => []EnvironmentsKnown
<1>1. EnvInv => EnvironmentsKnown
  BY DEF EnvInv, RowsInv
<1> QED BY <1>1, EnvInvariant, PTL

\* An export holds the value of every overriding variable, and no other,
\* unless a rollback was overtaken by the pruning of its target.
THEOREM ExportsAreComplete == EnvSpec => []ExportComplete
<1>1. EnvInv => ExportComplete
  BY ExportIsComplete
<1> QED BY <1>1, EnvInvariant, PTL

\* The history of a variable never outgrows the cap by as much as the writes
\* that may be under way at one time.
THEOREM HistoriesAreBounded == EnvSpec => []HistoryBounded
<1>1. EnvInv => HistoryBounded
  BY HistoryIsBounded
<1> QED BY <1>1, EnvInvariant, PTL

(***************************************************************************)
(* Channels: who is sent where.                                            *)
(***************************************************************************)

LEMMA MappingShape ==
  ASSUME NEW row \in Rows, row.mapping # NoMapping
  PROVE  /\ row.mapping \in Mappings
         /\ row.mapping.salt \in Salts
         /\ row.mapping.data \in Seq(Entries)
         /\ Len(row.mapping.data) \in Nat
         /\ DOMAIN row.mapping.data = 1..Len(row.mapping.data)
         /\ \A i \in DOMAIN row.mapping.data :
              row.mapping.data[i].branch \in Branches /\ row.mapping.data[i].node \in Nodes \cup {NeverMatch}
         /\ row.mapping.data # <<>> =>
              1 \in DOMAIN row.mapping.data /\ Len(row.mapping.data) \in DOMAIN row.mapping.data
<1>1. row.mapping \in Mappings
  BY DEF Rows
<1>2. row.mapping.salt \in Salts /\ row.mapping.data \in Seq(Entries)
  BY <1>1 DEF Mappings
<1> DEFINE data == row.mapping.data
<1>3. Len(data) \in Nat /\ DOMAIN data = 1..Len(data) /\ \A i \in DOMAIN data : data[i] \in Entries
  BY <1>2
<1>4. data # <<>> => Len(data) # 0
  BY <1>2
<1> QED BY <1>1, <1>2, <1>3, <1>4 DEF Entries

\* A nonempty set of matching entries has a first one.
FirstOf(matching) == CHOOSE i \in matching : \A j \in matching : i <= j

LEMMA FirstMatch ==
  ASSUME NEW row \in Rows, row.mapping # NoMapping, NEW ctx \in Contexts,
         Matching(row.mapping, ctx) # {}
  PROVE  /\ FirstOf(Matching(row.mapping, ctx)) \in DOMAIN row.mapping.data
         /\ row.mapping.data[FirstOf(Matching(row.mapping, ctx))].node # NeverMatch
<1> DEFINE data == row.mapping.data
           matching == Matching(row.mapping, ctx)
<1>1. Len(data) \in Nat /\ DOMAIN data = 1..Len(data)
  BY MappingShape
<1>2. matching \subseteq 1..Len(data) /\ \A i \in matching : data[i].node # NeverMatch
  BY <1>1 DEF Matching, EvaluateNode
<1> HIDE DEF matching
<1>3. \E i \in matching : \A j \in matching : i <= j
  <2> DEFINE weight == [i \in matching |-> -i]
  <2>1. IsFiniteSet(matching)
    <3>1. IsFiniteSet(1..Len(data))
      BY <1>1, FS_Interval
    <3> QED BY <1>2, <3>1, FS_Subset
  <2>2. weight \in [matching -> Int]
    BY <1>1, <1>2
  <2>3. matching # {}
    BY DEF matching
  <2>4. PICK i \in matching : \A j \in matching : weight[j] <= weight[i]
    BY <2>1, <2>2, <2>3, Heaviest
  <2>5. \A j \in matching : -j <= -i
    BY <2>4
  <2> QED BY <1>1, <1>2, <2>5
<1>4. FirstOf(matching) \in matching
  BY <1>3 DEF FirstOf
<1> QED BY <1>1, <1>2, <1>4 DEF matching

\* The branch a mapping sends a device to is that of the first entry that
\* matches, or of the last entry.
LEMMA EvaluatedEntry ==
  ASSUME NEW row \in Rows, row.mapping # NoMapping, row.mapping.data # <<>>,
         NEW ctx \in Contexts
  PROVE  \E i \in DOMAIN row.mapping.data :
           /\ EvaluateBranchMapping(row.mapping, ctx) = row.mapping.data[i].branch
           /\ row.mapping.data[i].node # NeverMatch \/ i = Len(row.mapping.data)
<1>1. Len(row.mapping.data) \in DOMAIN row.mapping.data
  BY MappingShape
<1>2. CASE Matching(row.mapping, ctx) = {}
  <2>1. EvaluateBranchMapping(row.mapping, ctx) = row.mapping.data[Len(row.mapping.data)].branch
    BY <1>2 DEF EvaluateBranchMapping
  <2> QED BY <1>1, <2>1
<1>3. CASE Matching(row.mapping, ctx) # {}
  <2>1. EvaluateBranchMapping(row.mapping, ctx)
          = row.mapping.data[FirstOf(Matching(row.mapping, ctx))].branch
    BY <1>3 DEF EvaluateBranchMapping, FirstOf
  <2> QED BY <1>3, <2>1, FirstMatch
<1> QED BY <1>2, <1>3

\* Routing, reachability and references agree on every row.
LEMMA RoutesKnown ==
  ASSUME NEW row \in Rows, NEW ctx \in Contexts
  PROVE  ResolveBranchId(row, ctx) \in ReachableBranchIds(row) \cap ReferencedBranchIds(row)
<1>1. CASE row.mapping = NoMapping
  BY <1>1 DEF ResolveBranchId, ReachableBranchIds, ReferencedBranchIds
<1>2. CASE row.mapping # NoMapping /\ row.mapping.data = <<>>
  <2>1. EvaluateBranchMapping(row.mapping, ctx) = NoBranch
    <3>1. Matching(row.mapping, ctx) = {}
      BY <1>2, MappingShape DEF Matching
    <3> QED BY <1>2, <3>1 DEF EvaluateBranchMapping
  <2> QED BY <1>2, <2>1 DEF ResolveBranchId, ReachableBranchIds, ReferencedBranchIds
<1>3. CASE row.mapping # NoMapping /\ row.mapping.data # <<>>
  <2> DEFINE routed == EvaluateBranchMapping(row.mapping, ctx)
  <2>1. PICK i \in DOMAIN row.mapping.data :
           /\ routed = row.mapping.data[i].branch
           /\ row.mapping.data[i].node # NeverMatch \/ i = Len(row.mapping.data)
    BY <1>3, EvaluatedEntry
  <2>2. routed \in ExtractReachable(row.mapping)
    BY <2>1 DEF ExtractReachable
  <2>3. ResolveBranchId(row, ctx) \in {row.branch, routed}
    BY <1>3 DEF ResolveBranchId
  <2> HIDE DEF routed
  <2> QED BY <1>3, <2>1, <2>2, <2>3 DEF ReachableBranchIds, ReferencedBranchIds
<1> QED BY <1>1, <1>2, <1>3

\* Setting the percentage keeps the branches, their order and the token.
LEMMA PercentageShape ==
  ASSUME NEW row \in Rows, row.mapping # NoMapping, NEW operand \in Operands
  PROVE  LET old == row.mapping
             new == UpdatePercentage(old, operand)
         IN  /\ new \in Mappings
             /\ new.salt = old.salt
             /\ Len(new.data) = Len(old.data) /\ DOMAIN new.data = DOMAIN old.data
             /\ \A i \in DOMAIN old.data :
                  /\ new.data[i].branch = old.data[i].branch
                  /\ i # 1 => new.data[i] = old.data[i]
             /\ old.data # <<>> => new.data[1].node = WithOperand(old.data[1].node, operand)
<1> DEFINE old == row.mapping
           new == UpdatePercentage(old, operand)
<1>1. CASE old.data = <<>>
  BY <1>1, MappingShape DEF UpdatePercentage
<1>2. CASE old.data # <<>>
  <2>0. /\ old \in [salt : Salts, data : Seq(Entries)]
        /\ old.data \in Seq(Entries) /\ Len(old.data) \in Nat
        /\ DOMAIN old.data = 1..Len(old.data) /\ 1 \in DOMAIN old.data
    BY <1>2, MappingShape DEF Mappings
  <2> DEFINE entry == [old.data[1] EXCEPT !.node = WithOperand(@, operand)]
             data == [old.data EXCEPT ![1] = entry]
  <2>1. new = [old EXCEPT !.data = data]
    BY <1>2 DEF UpdatePercentage
  <2>2. old.data[1] \in [branch : Branches, node : Nodes \cup {NeverMatch}]
    <3>1. old.data[1] \in Entries
      BY <2>0
    <3> QED BY <3>1 DEF Entries
  <2>3. WithOperand(old.data[1].node, operand) \in Nodes
    BY <2>2, RoutingAssumption DEF WithOperand, Nodes
  <2>4. /\ entry \in Entries /\ entry.branch = old.data[1].branch
        /\ entry.node = WithOperand(old.data[1].node, operand)
    BY <2>2, <2>3 DEF Entries
  <2> HIDE DEF entry
  <2>5. /\ data \in Seq(Entries) /\ Len(data) = Len(old.data) /\ DOMAIN data = DOMAIN old.data
        /\ data[1] = entry
        /\ \A i \in DOMAIN old.data : i # 1 => data[i] = old.data[i]
    BY <2>0, <2>4
  <2> HIDE DEF data
  <2>6. new \in Mappings /\ new.salt = old.salt /\ new.data = data
    BY <2>0, <2>1, <2>5 DEF Mappings
  <2> QED BY <1>2, <2>0, <2>4, <2>5, <2>6
<1> QED BY <1>1, <1>2

(***************************************************************************)
(* Channels: the inductive invariant.  A request holds what its checks     *)
(* established; a branch a rollout is about to lead to exists, or was      *)
(* deleted after the rollout had found it.                                 *)
(***************************************************************************)

CallFits(q) ==
  /\ q.op # "deleteBranch" => q.channel \in Channels
  /\ q.op \in {"create", "relink", "rollout", "deleteBranch"} => q.branch \in Branches
  /\ q.op \in {"relink", "rollout", "percentage", "complete", "revert"} => q.seen \in Rows
  /\ q.op = "relink" => q.seen.mapping = NoMapping
  /\ q.op \in {"percentage", "complete"} => q.seen.mapping # NoMapping
  /\ q.op = "complete" => q.seen.mapping.data # <<>>
  /\ q.op \in {"rollout", "percentage"} => q.operand \in Operands
  /\ q.op = "rollout" /\ q.found => q.branch \in branches \cup orphans
  /\ q.op = "deleteBranch" => q.found

CallsFit == \A r \in Requests : request[r] # Idle => CallFits(request[r])

ChannelInv == ChannelTypeOK /\ CallsFit /\ RolloutHangsTogether /\ RoutedBranchesExist

LEMMA ChannelInvInit == ASSUME ChannelInit PROVE ChannelInv
<1>1. ChannelTypeOK
  BY RowsAssumption DEF ChannelInit, ChannelTypeOK
<1>2. CallsFit
  BY DEF ChannelInit, CallsFit
<1>3. \A c \in Channels : Exists(c) =>
        channel[c] \in StoredRows /\ ReferencedBranchIds(channel[c]) \subseteq branches
  BY DEF ChannelInit, Exists
<1>4. RolloutHangsTogether
  BY <1>3, RowsAssumption DEF RolloutHangsTogether
<1>5. RoutedBranchesExist
  BY <1>3 DEF RoutedBranchesExist, ReferencedBranchIds
<1> QED BY <1>1, <1>2, <1>4, <1>5 DEF ChannelInv

LEMMA ExistingRow ==
  ASSUME ChannelTypeOK, NEW c \in Channels
  PROVE  Exists(c) <=> channel[c] \in Rows
BY RowsAssumption DEF ChannelTypeOK, Exists

\* A request that only looks: it takes a slot, keeps one, or gives up.
LEMMA CallTaken ==
  ASSUME ChannelInv, Idles, NEW r \in Requests, NEW slot \in Slots \cup {Idle},
         slot # Idle => CallFits(slot),
         request' = [request EXCEPT ![r] = slot]
  PROVE  ChannelInv'
<1>1. ChannelTypeOK'
  BY DEF ChannelInv, ChannelTypeOK, Idles
<1>2. CallsFit'
  <2> SUFFICES ASSUME NEW q \in Requests, request'[q] # Idle PROVE CallFits(request'[q])
    BY DEF CallsFit, CallFits, Idles
  <2>1. CASE q = r
    BY <2>1 DEF ChannelInv, ChannelTypeOK
  <2>2. CASE q # r
    BY <2>2 DEF ChannelInv, ChannelTypeOK, CallsFit
  <2> QED BY <2>1, <2>2
<1>3. RolloutHangsTogether' /\ RoutedBranchesExist'
  BY DEF ChannelInv, Idles, RolloutHangsTogether, RoutedBranchesExist, Exists
<1> QED BY <1>1, <1>2, <1>3 DEF ChannelInv

LEMMA CallDone ==
  ASSUME ChannelInv, Idles, NEW r \in Requests, Done(r)
  PROVE  ChannelInv'
BY CallTaken DEF Done

LEMMA ReadForCreateStep ==
  ASSUME ChannelInv, NEW r \in Requests, ReadForCreate(r)
  PROVE  ChannelInv'
<1>1. PICK c \in Channels, b \in Branches :
        Take(r, [Asked("create", c, b) EXCEPT !.seen = NoRow]) /\ Idles
  BY DEF ReadForCreate
<1> DEFINE slot == [Asked("create", c, b) EXCEPT !.seen = NoRow]
<1>2. slot \in Slots /\ slot.op = "create" /\ slot.channel = c /\ slot.branch = b
  BY DEF Asked, Slots, Ops
<1>3. request' = [request EXCEPT ![r] = slot]
  BY <1>1 DEF Take
<1> HIDE DEF slot
<1>4. CallFits(slot)
  BY <1>2 DEF CallFits
<1> QED BY <1>1, <1>2, <1>3, <1>4, CallTaken

LEMMA ReadForRelinkStep ==
  ASSUME ChannelInv, NEW r \in Requests, ReadForRelink(r)
  PROVE  ChannelInv'
<1>1. PICK c \in Channels, b \in Branches :
        /\ Exists(c) /\ channel[c].mapping = NoMapping
        /\ Take(r, Asked("relink", c, b)) /\ Idles
  BY DEF ReadForRelink
<1> DEFINE slot == Asked("relink", c, b)
<1>2. channel[c] \in Rows
  BY <1>1, ExistingRow DEF ChannelInv
<1>3. /\ slot \in Slots
      /\ slot.op = "relink" /\ slot.channel = c /\ slot.branch = b /\ slot.seen = channel[c]
  BY <1>2 DEF Asked, Slots, Ops
<1>4. request' = [request EXCEPT ![r] = slot]
  BY <1>1 DEF Take
<1> HIDE DEF slot
<1>5. CallFits(slot)
  BY <1>1, <1>2, <1>3 DEF CallFits
<1> QED BY <1>1, <1>3, <1>4, <1>5, CallTaken

LEMMA ReadForRolloutStep ==
  ASSUME ChannelInv, NEW r \in Requests, ReadForRollout(r)
  PROVE  ChannelInv'
<1>1. PICK c \in Channels, b \in Branches, p \in Operands, v \in Runtimes \cup {NoTest} :
        /\ Exists(c)
        /\ Take(r, [Asked("rollout", c, b) EXCEPT !.operand = p, !.runtime = v]) /\ Idles
  BY DEF ReadForRollout
<1> DEFINE slot == [Asked("rollout", c, b) EXCEPT !.operand = p, !.runtime = v]
<1>2. channel[c] \in Rows
  BY <1>1, ExistingRow DEF ChannelInv
<1>3. /\ slot \in Slots
      /\ slot.op = "rollout" /\ slot.channel = c /\ slot.branch = b /\ slot.operand = p
      /\ slot.seen = channel[c] /\ slot.found = FALSE
  BY <1>2 DEF Asked, Slots, Ops
<1>4. request' = [request EXCEPT ![r] = slot]
  BY <1>1 DEF Take
<1> HIDE DEF slot
<1>5. CallFits(slot)
  BY <1>2, <1>3 DEF CallFits
<1> QED BY <1>1, <1>3, <1>4, <1>5, CallTaken

LEMMA ReadForPercentageStep ==
  ASSUME ChannelInv, NEW r \in Requests, ReadForPercentage(r)
  PROVE  ChannelInv'
<1>1. PICK c \in Channels, p \in Operands :
        /\ Exists(c) /\ channel[c].mapping # NoMapping
        /\ Take(r, [Asked("percentage", c, NoBranch) EXCEPT !.operand = p]) /\ Idles
  BY DEF ReadForPercentage
<1> DEFINE slot == [Asked("percentage", c, NoBranch) EXCEPT !.operand = p]
<1>2. channel[c] \in Rows
  BY <1>1, ExistingRow DEF ChannelInv
<1>3. /\ slot \in Slots
      /\ slot.op = "percentage" /\ slot.channel = c /\ slot.operand = p /\ slot.seen = channel[c]
  BY <1>2 DEF Asked, Slots, Ops
<1>4. request' = [request EXCEPT ![r] = slot]
  BY <1>1 DEF Take
<1> HIDE DEF slot
<1>5. CallFits(slot)
  BY <1>1, <1>2, <1>3 DEF CallFits
<1> QED BY <1>1, <1>3, <1>4, <1>5, CallTaken

LEMMA ReadForEndStep ==
  ASSUME ChannelInv, NEW r \in Requests,
         ReadForComplete(r) \/ ReadForRevert(r) \/ ReadForDelete(r)
  PROVE  ChannelInv'
<1>1. PICK c \in Channels, op \in {"complete", "revert", "delete"} :
        /\ Exists(c)
        /\ op = "complete" => channel[c].mapping # NoMapping /\ channel[c].mapping.data # <<>>
        /\ Take(r, Asked(op, c, NoBranch)) /\ Idles
  BY DEF ReadForComplete, ReadForRevert, ReadForDelete
<1> DEFINE slot == Asked(op, c, NoBranch)
<1>2. channel[c] \in Rows
  BY <1>1, ExistingRow DEF ChannelInv
<1>3. slot \in Slots /\ slot.op = op /\ slot.channel = c /\ slot.seen = channel[c]
  BY <1>2 DEF Asked, Slots, Ops
<1>4. request' = [request EXCEPT ![r] = slot]
  BY <1>1 DEF Take
<1> HIDE DEF slot
<1>5. CallFits(slot)
  BY <1>1, <1>2, <1>3 DEF CallFits
<1> QED BY <1>1, <1>3, <1>4, <1>5, CallTaken

LEMMA FindBranchStep ==
  ASSUME ChannelInv, NEW r \in Requests, FindBranch(r)
  PROVE  ChannelInv'
<1>1. request[r] # Idle /\ request[r] \in Slots /\ CallFits(request[r])
  BY DEF FindBranch, Holding, ChannelInv, ChannelTypeOK, CallsFit
<1>2. CASE request[r].branch \in branches
  <2> DEFINE slot == [request[r] EXCEPT !.found = TRUE]
  <2>1. /\ slot \in Slots
        /\ slot.op = request[r].op /\ slot.channel = request[r].channel
        /\ slot.branch = request[r].branch /\ slot.operand = request[r].operand
        /\ slot.seen = request[r].seen
    BY <1>1 DEF Slots
  <2>2. request' = [request EXCEPT ![r] = slot]
    BY <1>2 DEF FindBranch
  <2>3. slot.op \in {"create", "relink", "rollout"}
    BY <2>1 DEF FindBranch, Holding
  <2> HIDE DEF slot
  <2>4. CallFits(slot)
    BY <1>1, <1>2, <2>1, <2>3 DEF CallFits
  <2> QED BY <2>1, <2>2, <2>4, CallTaken DEF FindBranch
<1>3. CASE request[r].branch \notin branches
  BY <1>3, CallDone DEF FindBranch, Done
<1> QED BY <1>2, <1>3

\* A request that writes a row: unless the row tears the rollout, it falls back
\* to its own branch and leads to branches that exist.
LEMMA WriteKeeps ==
  ASSUME ChannelInv, NEW r \in Requests, NEW c \in Channels, request[r].channel = c,
         NEW row \in Rows, Write(r, row),
         row.mapping # NoMapping /\ ~torn[c] /\ request[r].seen = channel[c] =>
           FallsBack(row) /\ ReferencedBranchIds(row) \subseteq branches \cup orphans
  PROVE  ChannelInv'
<1> DEFINE written == Exists(c) /\ row.branch \in branches
<1>1. CASE ~written
  <2>1. Idles /\ Done(r)
    BY <1>1 DEF Write, Idles
  <2> QED BY <2>1, CallDone
<1>2. CASE written
  <2>1. /\ channel' = [channel EXCEPT ![c] = row]
        /\ torn' = [torn EXCEPT ![c] = /\ row.mapping # NoMapping
                                       /\ @ \/ request[r].seen # channel[c]]
        /\ request' = [request EXCEPT ![r] = Idle]
        /\ UNCHANGED <<branches, deleted, orphans>>
    BY <1>2 DEF Write, Done
  <2>2. ChannelTypeOK'
    BY <2>1 DEF ChannelInv, ChannelTypeOK
  <2>3. CallsFit'
    <3> SUFFICES ASSUME NEW q \in Requests, request'[q] # Idle PROVE CallFits(request'[q])
      BY <2>1 DEF CallsFit, CallFits
    <3> QED BY <2>1 DEF ChannelInv, ChannelTypeOK, CallsFit
  <2>4. \A d \in Channels : d # c =>
          channel'[d] = channel[d] /\ torn'[d] = torn[d] /\ (Exists(d)' <=> Exists(d))
    BY <2>1 DEF ChannelInv, ChannelTypeOK, Exists
  <2>5. /\ channel'[c] = row /\ row.branch \in branches
        /\ ~torn'[c] => row.mapping = NoMapping \/ (~torn[c] /\ request[r].seen = channel[c])
    BY <1>2, <2>1 DEF ChannelInv, ChannelTypeOK
  <2>6. RolloutHangsTogether'
    BY <2>4, <2>5 DEF ChannelInv, RolloutHangsTogether, FallsBack
  <2>7. ~torn'[c] => ReferencedBranchIds(row) \subseteq branches \cup orphans
    BY <2>5 DEF ReferencedBranchIds
  <2>8. RoutedBranchesExist'
    BY <2>1, <2>4, <2>5, <2>7 DEF ChannelInv, RoutedBranchesExist
  <2> QED BY <2>2, <2>3, <2>6, <2>8 DEF ChannelInv
<1> QED BY <1>1, <1>2

LEMMA InsertChannelStep ==
  ASSUME ChannelInv, NEW r \in Requests, InsertChannel(r)
  PROVE  ChannelInv'
<1> DEFINE c == request[r].channel
           b == request[r].branch
           row == [branch |-> b, mapping |-> NoMapping]
<1>1. c \in Channels /\ b \in Branches
  BY DEF InsertChannel, Holding, ChannelInv, CallsFit, CallFits
<1>2. CASE ~(channel[c] = Unborn /\ b \in branches)
  BY <1>2, CallDone DEF InsertChannel, Idles
<1>3. CASE channel[c] = Unborn /\ b \in branches
  <2>1. /\ channel' = [channel EXCEPT ![c] = row]
        /\ request' = [request EXCEPT ![r] = Idle]
        /\ UNCHANGED <<branches, deleted, torn, orphans>>
    BY <1>3 DEF InsertChannel, Done
  <2>2. row \in Rows /\ row.branch = b /\ row.mapping = NoMapping
    BY <1>1 DEF Rows
  <2> HIDE DEF row, c, b
  <2>3. ChannelTypeOK'
    BY <2>1, <2>2 DEF ChannelInv, ChannelTypeOK
  <2>4. CallsFit'
    <3> SUFFICES ASSUME NEW q \in Requests, request'[q] # Idle PROVE CallFits(request'[q])
      BY <2>1 DEF CallsFit, CallFits
    <3> QED BY <2>1 DEF ChannelInv, ChannelTypeOK, CallsFit
  <2>5. \A d \in Channels : d # c => channel'[d] = channel[d] /\ (Exists(d)' <=> Exists(d))
    BY <2>1 DEF ChannelInv, ChannelTypeOK, Exists
  <2>6. channel'[c] = row
    BY <1>1, <2>1 DEF ChannelInv, ChannelTypeOK
  <2>7. RolloutHangsTogether'
    BY <2>1, <2>2, <2>5, <2>6 DEF ChannelInv, RolloutHangsTogether, FallsBack
  <2>8. RoutedBranchesExist'
    BY <1>3, <2>1, <2>2, <2>5, <2>6 DEF ChannelInv, RoutedBranchesExist, ReferencedBranchIds
  <2> QED BY <2>3, <2>4, <2>7, <2>8 DEF ChannelInv
<1> QED BY <1>2, <1>3

\* What the handlers know of the request whose write is due.
LEMMA CallFacts ==
  ASSUME ChannelInv, NEW r \in Requests, request[r] # Idle, request[r].op # "deleteBranch"
  PROVE  request[r] \in Slots /\ CallFits(request[r]) /\ request[r].channel \in Channels
BY DEF ChannelInv, ChannelTypeOK, CallsFit, CallFits

LEMMA UpdateBranchIdStep ==
  ASSUME ChannelInv, NEW r \in Requests, UpdateBranchId(r)
  PROVE  ChannelInv'
<1> DEFINE c == request[r].channel
           row == [channel[c] EXCEPT !.branch = request[r].branch]
<1>1. /\ c \in Channels /\ request[r].branch \in Branches
      /\ request[r].seen.mapping = NoMapping
  BY CallFacts DEF UpdateBranchId, Holding, CallFits
<1>2. CASE ~Exists(c)
  BY <1>2, CallDone DEF UpdateBranchId
<1>3. CASE Exists(c)
  <2>1. channel[c] \in Rows
    BY <1>1, <1>3, ExistingRow DEF ChannelInv
  <2>2. row \in Rows /\ row.mapping = channel[c].mapping
    BY <1>1, <2>1 DEF Rows
  <2>3. Write(r, row)
    BY <1>3 DEF UpdateBranchId
  <2> HIDE DEF row
  <2> QED BY <1>1, <2>2, <2>3, WriteKeeps
<1> QED BY <1>2, <1>3

LEMMA SetMappingStep ==
  ASSUME ChannelInv, NEW r \in Requests, request[r].channel \in Channels,
         NEW mapping \in Mappings \cup {NoMapping}, SetMapping(r, mapping),
         \A row \in Rows :
           /\ mapping # NoMapping /\ row.mapping = mapping
           /\ Exists(request[r].channel)
           /\ row.branch = channel[request[r].channel].branch
           /\ ~torn[request[r].channel] /\ request[r].seen = channel[request[r].channel]
           => FallsBack(row) /\ ReferencedBranchIds(row) \subseteq branches \cup orphans
  PROVE  ChannelInv'
<1> DEFINE c == request[r].channel
           row == [channel[c] EXCEPT !.mapping = mapping]
<1>1. CASE ~Exists(c)
  BY <1>1, CallDone DEF SetMapping
<1>2. CASE Exists(c)
  <2>1. channel[c] \in Rows
    BY <1>2, ExistingRow DEF ChannelInv
  <2>2. row \in Rows /\ row.mapping = mapping /\ row.branch = channel[c].branch
    BY <2>1 DEF Rows
  <2>3. Write(r, row)
    BY <1>2 DEF SetMapping
  <2> HIDE DEF row
  <2> QED BY <1>2, <2>2, <2>3, WriteKeeps
<1> QED BY <1>1, <1>2

LEMMA StartRolloutStep ==
  ASSUME ChannelInv, NEW r \in Requests, StartRollout(r)
  PROVE  ChannelInv'
<1> DEFINE q == request[r]
           c == request[r].channel
<1>1. /\ q \in Slots /\ c \in Channels /\ q.branch \in Branches
      /\ q.seen \in Rows /\ q.operand \in Operands /\ q.branch \in branches \cup orphans
  BY CallFacts DEF StartRollout, Holding, CallFits
<1>2. PICK salt \in Salts :
        SetMapping(r, BuildBranchMapping(q.branch, q.seen.branch, q.operand, q.runtime, salt))
  BY DEF StartRollout
<1> DEFINE first == [branch |-> q.branch, node |-> [runtime |-> q.runtime, operand |-> q.operand]]
           last == [branch |-> q.seen.branch, node |-> Always]
           mapping == [salt |-> salt, data |-> <<first, last>>]
<1>3. SetMapping(r, mapping)
  BY <1>2 DEF BuildBranchMapping
<1>4. first \in Entries /\ last \in Entries /\ first.branch = q.branch /\ last.branch = q.seen.branch
  <2>1. q.runtime \in Runtimes \cup {NoTest} /\ q.operand \in 0..Full
    <3>1. q.runtime \in Runtimes \cup {NoTest}
      BY <1>1 DEF Slots
    <3>2. Operands \subseteq 0..Full
      BY RoutingAssumption
    <3> QED BY <1>1, <3>1, <3>2
  <2>2. q.seen.branch \in Branches
    BY <1>1 DEF Rows
  <2> QED BY <1>1, <2>1, <2>2 DEF Entries, Nodes, Always
<1> HIDE DEF first, last
<1>5. /\ mapping \in Mappings
      /\ mapping.data = <<first, last>>
  BY <1>4 DEF Mappings
<1>6. Len(mapping.data) = 2 /\ DOMAIN mapping.data = {1, 2}
      /\ mapping.data[1] = first /\ mapping.data[2] = last
  BY <1>5
<1> HIDE DEF mapping
<1>7. ASSUME NEW row \in Rows, row.mapping = mapping, Exists(c),
             row.branch = channel[c].branch, q.seen = channel[c]
      PROVE  FallsBack(row) /\ ReferencedBranchIds(row) \subseteq branches \cup orphans
  <2>1. row.branch = q.seen.branch /\ row.branch \in branches
    BY <1>1, <1>7 DEF ChannelInv, RoutedBranchesExist
  <2>2. FallsBack(row)
    BY <1>4, <1>6, <1>7, <2>1 DEF FallsBack
  <2>3. ReferencedBranchIds(row) \subseteq {row.branch, q.branch, q.seen.branch}
    BY <1>4, <1>6, <1>7 DEF ReferencedBranchIds
  <2> QED BY <1>1, <2>1, <2>2, <2>3
<1> QED BY <1>1, <1>3, <1>5, <1>7, SetMappingStep

LEMMA SetPercentageStep ==
  ASSUME ChannelInv, NEW r \in Requests, SetPercentage(r)
  PROVE  ChannelInv'
<1> DEFINE q == request[r]
           c == request[r].channel
           mapping == UpdatePercentage(q.seen.mapping, q.operand)
<1>1. /\ c \in Channels /\ q.seen \in Rows /\ q.seen.mapping # NoMapping /\ q.operand \in Operands
  BY CallFacts DEF SetPercentage, Holding, CallFits
<1>2. SetMapping(r, mapping)
  BY DEF SetPercentage
<1>3. /\ mapping \in Mappings
      /\ Len(mapping.data) = Len(q.seen.mapping.data)
      /\ DOMAIN mapping.data = DOMAIN q.seen.mapping.data
      /\ \A i \in DOMAIN mapping.data : mapping.data[i].branch = q.seen.mapping.data[i].branch
  BY <1>1, PercentageShape
<1> HIDE DEF mapping
<1>4. ASSUME NEW row \in Rows, row.mapping = mapping, Exists(c),
             row.branch = channel[c].branch, ~torn[c], q.seen = channel[c]
      PROVE  FallsBack(row) /\ ReferencedBranchIds(row) \subseteq branches \cup orphans
  <2>1. FallsBack(channel[c]) /\ ReferencedBranchIds(channel[c]) \subseteq branches \cup orphans
    BY <1>1, <1>4 DEF ChannelInv, RolloutHangsTogether, RoutedBranchesExist
  <2>2. row.mapping # NoMapping
    BY <1>3, <1>4, RowsAssumption
  <2>3. FallsBack(row)
    <3>1. CASE row.mapping.data = <<>>
      BY <3>1 DEF FallsBack
    <3>2. CASE row.mapping.data # <<>>
      <4>1. Len(row.mapping.data) \in DOMAIN row.mapping.data
        BY <2>2, <3>2, MappingShape
      <4>2. channel[c].mapping.data # <<>>
        BY <1>3, <1>4, <4>1
      <4> QED BY <1>1, <1>3, <1>4, <2>1, <4>1, <4>2 DEF FallsBack
    <3> QED BY <3>1, <3>2
  <2>4. ReferencedBranchIds(row) \subseteq ReferencedBranchIds(channel[c])
    BY <1>1, <1>3, <1>4, <2>2 DEF ReferencedBranchIds
  <2> QED BY <2>1, <2>3, <2>4
<1> QED BY <1>1, <1>2, <1>3, <1>4, SetMappingStep

LEMMA CompleteRolloutStep ==
  ASSUME ChannelInv, NEW r \in Requests, CompleteRollout(r)
  PROVE  ChannelInv'
<1> DEFINE q == request[r]
           row == [branch |-> q.seen.mapping.data[1].branch, mapping |-> NoMapping]
<1>1. /\ q.channel \in Channels /\ q.seen \in Rows
      /\ q.seen.mapping # NoMapping /\ q.seen.mapping.data # <<>>
  BY CallFacts DEF CompleteRollout, Holding, CallFits
<1>2. row \in Rows /\ row.mapping = NoMapping
  <2>1. q.seen.mapping.data[1].branch \in Branches
    BY <1>1, MappingShape
  <2> QED BY <2>1 DEF Rows
<1>3. Write(r, row)
  BY DEF CompleteRollout
<1> HIDE DEF row
<1> QED BY <1>1, <1>2, <1>3, WriteKeeps

LEMMA RevertRolloutStep ==
  ASSUME ChannelInv, NEW r \in Requests, RevertRollout(r)
  PROVE  ChannelInv'
<1>1. request[r].channel \in Channels
  BY CallFacts DEF RevertRollout, Holding
<1> QED BY <1>1, SetMappingStep DEF RevertRollout

LEMMA DeleteChannelStep ==
  ASSUME ChannelInv, NEW r \in Requests, DeleteChannel(r)
  PROVE  ChannelInv'
<1> DEFINE c == request[r].channel
<1>1. c \in Channels
  BY CallFacts DEF DeleteChannel, Holding
<1>2. /\ channel' = [channel EXCEPT ![c] = Deleted]
      /\ torn' = [torn EXCEPT ![c] = FALSE]
      /\ request' = [request EXCEPT ![r] = Idle]
      /\ UNCHANGED <<branches, deleted, orphans>>
  BY DEF DeleteChannel, Done
<1> HIDE DEF c
<1>3. ChannelTypeOK'
  BY <1>2 DEF ChannelInv, ChannelTypeOK
<1>4. CallsFit'
  <2> SUFFICES ASSUME NEW q \in Requests, request'[q] # Idle PROVE CallFits(request'[q])
    BY <1>2 DEF CallsFit, CallFits
  <2> QED BY <1>2 DEF ChannelInv, ChannelTypeOK, CallsFit
<1>5. \A d \in Channels : Exists(d)' => d # c /\ Exists(d) /\ channel'[d] = channel[d] /\ torn'[d] = torn[d]
  BY <1>2 DEF ChannelInv, ChannelTypeOK, Exists
<1>6. RolloutHangsTogether'
  BY <1>5 DEF ChannelInv, RolloutHangsTogether, FallsBack
<1>7. RoutedBranchesExist'
  <2> SUFFICES ASSUME NEW d \in Channels, Exists(d)'
               PROVE  /\ channel'[d].branch \in branches
                      /\ ~torn'[d] => ReferencedBranchIds(channel'[d]) \subseteq branches \cup orphans
    BY <1>2 DEF RoutedBranchesExist
  <2> QED BY <1>5 DEF ChannelInv, RoutedBranchesExist
<1> QED BY <1>3, <1>4, <1>6, <1>7 DEF ChannelInv

LEMMA CreateBranchStep ==
  ASSUME ChannelInv, CreateBranch
  PROVE  ChannelInv'
<1>1. /\ branches \subseteq branches' /\ branches' \subseteq Branches
      /\ UNCHANGED <<deleted, channel, request, torn, orphans>>
  BY DEF CreateBranch, ChannelInv, ChannelTypeOK
<1>2. ChannelTypeOK'
  BY <1>1 DEF ChannelInv, ChannelTypeOK
<1>3. CallsFit'
  <2> SUFFICES ASSUME NEW q \in Requests, request[q] # Idle PROVE CallFits(request[q])'
    BY <1>1 DEF CallsFit
  <2> QED BY <1>1 DEF ChannelInv, CallsFit, CallFits
<1>4. RolloutHangsTogether' /\ RoutedBranchesExist'
  BY <1>1 DEF ChannelInv, RolloutHangsTogether, RoutedBranchesExist, Exists
<1> QED BY <1>2, <1>3, <1>4 DEF ChannelInv

\* The count of branchRepo.delete sees whatever refers to a branch.
LEMMA CountIsComplete == \A b : Referenced(b) <=> Routed(b)
BY DEF Referenced, Routed, ReferencedBranchIds

LEMMA CountReferencesStep ==
  ASSUME ChannelInv, NEW r \in Requests, CountReferences(r)
  PROVE  ChannelInv'
<1>1. PICK b \in branches :
        /\ ~Referenced(b)
        /\ Take(r, [op |-> "deleteBranch", channel |-> NoRow, branch |-> b, operand |-> NoTest,
                    runtime |-> NoTest, seen |-> NoRow, found |-> ~Routed(b)])
        /\ Idles
  BY DEF CountReferences
<1> DEFINE slot == [op |-> "deleteBranch", channel |-> NoRow, branch |-> b, operand |-> NoTest,
                    runtime |-> NoTest, seen |-> NoRow, found |-> ~Routed(b)]
<1>2. ~Routed(b)
  BY <1>1, CountIsComplete
<1>3. slot.found = ~Routed(b) /\ slot.op = "deleteBranch" /\ slot.branch = b
  OBVIOUS
<1>4. b \in Branches
  BY DEF ChannelInv, ChannelTypeOK
<1>5. slot \in Slots
  BY <1>4 DEF Slots, Ops
<1>6. request' = [request EXCEPT ![r] = slot]
  BY <1>1 DEF Take
<1> HIDE DEF slot
<1>7. CallFits(slot)
  BY <1>2, <1>3, <1>4 DEF CallFits
<1> QED BY <1>1, <1>5, <1>6, <1>7, CallTaken

\* A branch goes only if no channel is linked to it; if a rollout leads there
\* by then, or one that found it is about to, it is an orphan.
LEMMA DeleteBranchStep ==
  ASSUME ChannelInv, NEW r \in Requests, DeleteBranch(r)
  PROVE  ChannelInv'
<1> DEFINE b == request[r].branch
           starting == \/ request[r].found /\ Routed(b)
                       \/ \E q \in Requests : /\ Holding(q, {"rollout"})
                                              /\ request[q].found
                                              /\ request[q].branch = b
<1>1. b \in Branches /\ request[r].found
  BY DEF ChannelInv, CallsFit, CallFits, DeleteBranch, Holding
<1>2. request' = [request EXCEPT ![r] = Idle] /\ UNCHANGED <<channel, torn>>
  BY DEF DeleteBranch, Done
<1>3. CASE UNCHANGED <<branches, deleted, orphans>>
  BY <1>2, <1>3, CallDone DEF Idles, Done
<1>4. CASE /\ \A c \in Channels : Exists(c) => channel[c].branch # b
           /\ branches' = branches \ {b}
           /\ deleted' = deleted \cup {b}
           /\ orphans' = IF starting THEN orphans \cup {b} ELSE orphans
  <2>1. ChannelTypeOK'
    BY <1>1, <1>2, <1>4 DEF ChannelInv, ChannelTypeOK
  <2>2. branches \cup orphans \subseteq (branches \cup orphans)' \cup {b}
    BY <1>4
  <2>3. starting => branches \cup orphans \subseteq (branches \cup orphans)'
    BY <1>4
  <2>4. CallsFit'
    <3> SUFFICES ASSUME NEW q \in Requests, request'[q] # Idle PROVE CallFits(request[q])'
      BY DEF CallsFit
    <3>1. request'[q] = request[q] /\ CallFits(request[q])
      BY <1>2 DEF ChannelInv, ChannelTypeOK, CallsFit
    <3>2. request[q].op = "rollout" /\ request[q].found => request[q].branch \in (branches \cup orphans)'
      <4>1. request[q].op = "rollout" /\ request[q].found /\ request[q].branch = b => starting
        BY <1>2, <3>1 DEF Holding
      <4> HIDE DEF starting
      <4> QED BY <2>2, <2>3, <3>1, <4>1 DEF CallFits
    <3> QED BY <3>1, <3>2 DEF CallFits
  <2>5. RolloutHangsTogether'
    BY <1>2 DEF ChannelInv, RolloutHangsTogether, Exists
  <2>6. RoutedBranchesExist'
    <3> SUFFICES ASSUME NEW c \in Channels, Exists(c)
                 PROVE  /\ channel[c].branch \in branches'
                        /\ ~torn[c] => ReferencedBranchIds(channel[c]) \subseteq (branches \cup orphans)'
      BY <1>2 DEF RoutedBranchesExist, Exists
    <3>1. b \in ReferencedBranchIds(channel[c]) => starting
      BY <1>1 DEF Routed
    <3> HIDE DEF starting
    <3> QED BY <1>4, <2>2, <2>3, <3>1 DEF ChannelInv, RoutedBranchesExist
  <2> QED BY <2>1, <2>4, <2>5, <2>6 DEF ChannelInv
<1> QED BY <1>3, <1>4 DEF DeleteBranch

LEMMA ChannelInvStep ==
  ASSUME ChannelInv, [ChannelNext]_channelVars
  PROVE  ChannelInv'
<1>1. CASE UNCHANGED channelVars
  <2>1. ChannelTypeOK'
    BY <1>1 DEF ChannelInv, ChannelTypeOK, channelVars
  <2>2. CallsFit'
    BY <1>1 DEF ChannelInv, CallsFit, CallFits, channelVars
  <2>3. RolloutHangsTogether' /\ RoutedBranchesExist'
    BY <1>1 DEF ChannelInv, RolloutHangsTogether, RoutedBranchesExist, Exists, channelVars
  <2> QED BY <2>1, <2>2, <2>3 DEF ChannelInv
<1>2. CASE CreateBranch
  BY <1>2, CreateBranchStep
<1>3. CASE \E r \in Requests :
             \/ ReadForCreate(r) \/ ReadForRelink(r) \/ ReadForRollout(r)
             \/ ReadForPercentage(r) \/ ReadForComplete(r) \/ ReadForRevert(r)
             \/ ReadForDelete(r) \/ FindBranch(r)
  BY <1>3, ReadForCreateStep, ReadForRelinkStep, ReadForRolloutStep, ReadForPercentageStep,
     ReadForEndStep, FindBranchStep
<1>4. CASE \E r \in Requests :
             \/ InsertChannel(r) \/ UpdateBranchId(r) \/ StartRollout(r)
             \/ SetPercentage(r) \/ CompleteRollout(r) \/ RevertRollout(r)
             \/ DeleteChannel(r) \/ CountReferences(r) \/ DeleteBranch(r)
  BY <1>4, InsertChannelStep, UpdateBranchIdStep, StartRolloutStep, SetPercentageStep,
     CompleteRolloutStep, RevertRolloutStep, DeleteChannelStep, CountReferencesStep,
     DeleteBranchStep
<1> QED BY <1>1, <1>2, <1>3, <1>4 DEF ChannelNext

LEMMA ChannelInvariant == ChannelSpec => []ChannelInv
<1>1. ChannelInit => ChannelInv
  BY ChannelInvInit
<1>2. ChannelInv /\ [ChannelNext]_channelVars => ChannelInv'
  BY ChannelInvStep
<1> QED BY <1>1, <1>2, PTL DEF ChannelSpec

\* Every variable of ChannelRouting has its type in every reachable state.
THEOREM ChannelTypeCorrect == ChannelSpec => []ChannelTypeOK
<1>1. ChannelInv => ChannelTypeOK
  BY DEF ChannelInv
<1> QED BY <1>1, ChannelInvariant, PTL

\* The branch any device is routed to by any channel is one the reaper keeps
\* and one whose changes invalidate the channel's cached manifests: routing,
\* extractReachableBranchIds and bumpChannelCacheVersionByBranchReference agree
\* on every mapping, of any length and logic.
THEOREM EveryRouteIsKnown == ChannelSpec => []RoutesAreKnown
<1>1. ChannelInv => RoutesAreKnown
  BY RoutesKnown, ExistingRow DEF ChannelInv, RoutesAreKnown
<1> QED BY <1>1, ChannelInvariant, PTL

\* While a rollout runs, the devices it has not reached are on the channel's
\* own branch, however relinks, edits and reverts of any number of requests
\* interleave, unless one wrote over a change it had not seen.
THEOREM RolloutsHangTogether == ChannelSpec => []RolloutHangsTogether
<1>1. ChannelInv => RolloutHangsTogether
  BY DEF ChannelInv
<1> QED BY <1>1, ChannelInvariant, PTL

\* Every branch a channel is linked to exists, and every branch its mapping
\* names, unless the rollout is torn or the branch was deleted while the
\* rollout to it was starting: the count of branchRepo.delete and the foreign
\* key suffice.
THEOREM RoutesLeadSomewhere == ChannelSpec => []RoutedBranchesExist
<1>1. ChannelInv => RoutedBranchesExist
  BY DEF ChannelInv
<1> QED BY <1>1, ChannelInvariant, PTL

(***************************************************************************)
(* Channels: what an edit of a percentage moves.                           *)
(***************************************************************************)

\* The two mappings differ in the operand of the first entry alone, so a device
\* is sent elsewhere only if that entry decides about it differently.
LEMMA PercentageMoves ==
  ASSUME NEW row \in Rows, row.mapping # NoMapping, row.mapping.data # <<>>,
         NEW operand \in Operands, NEW ctx \in Contexts,
         row.mapping.data[1].node # NeverMatch, row.mapping.data[1].node.operand # NoTest,
         EvaluateBranchMapping(UpdatePercentage(row.mapping, operand), ctx)
           # EvaluateBranchMapping(row.mapping, ctx)
  PROVE  LET node == row.mapping.data[1].node
             token == Fraction[row.mapping.salt][ctx.client]
         IN  /\ node.runtime \in {NoTest, ctx.runtime}
             /\ ctx.client # NoClient
             /\ (token < node.operand) # (token < operand)
<1> DEFINE old == row.mapping
           new == UpdatePercentage(old, operand)
           node == old.data[1].node
<1>1. /\ new.salt = old.salt
      /\ Len(new.data) = Len(old.data) /\ DOMAIN new.data = DOMAIN old.data
      /\ \A i \in DOMAIN old.data :
           /\ new.data[i].branch = old.data[i].branch
           /\ i # 1 => new.data[i] = old.data[i]
      /\ new.data[1].node = WithOperand(node, operand)
  BY PercentageShape
<1>2. /\ 1 \in DOMAIN old.data /\ Len(old.data) \in DOMAIN old.data
      /\ DOMAIN old.data = 1..Len(old.data) /\ node \in Nodes
  BY MappingShape
<1>3. new.data[1].node = [node EXCEPT !.operand = operand]
  BY <1>1 DEF WithOperand
<1> HIDE DEF new
<1>4. new.data # <<>>
  BY <1>1, <1>2
<1>5. EvaluateNode(new.data[1].node, old.salt, ctx) # EvaluateNode(node, old.salt, ctx)
  <2> SUFFICES ASSUME EvaluateNode(new.data[1].node, old.salt, ctx) = EvaluateNode(node, old.salt, ctx)
               PROVE  EvaluateBranchMapping(new, ctx) = EvaluateBranchMapping(old, ctx)
    BY DEF new
  <2>1. \A i \in DOMAIN old.data :
          EvaluateNode(new.data[i].node, new.salt, ctx) = EvaluateNode(old.data[i].node, old.salt, ctx)
    BY <1>1
  <2>2. Matching(new, ctx) = Matching(old, ctx)
    BY <1>1, <2>1 DEF Matching
  <2>3. CASE Matching(old, ctx) = {}
    BY <1>1, <1>2, <1>4, <2>2, <2>3 DEF EvaluateBranchMapping
  <2>4. CASE Matching(old, ctx) # {}
    <3>1. /\ EvaluateBranchMapping(old, ctx) = old.data[FirstOf(Matching(old, ctx))].branch
          /\ EvaluateBranchMapping(new, ctx) = new.data[FirstOf(Matching(old, ctx))].branch
      BY <1>4, <2>2, <2>4 DEF EvaluateBranchMapping, FirstOf
    <3> QED BY <1>1, <2>4, <3>1, FirstMatch
  <2> QED BY <2>3, <2>4
<1>6. /\ new.data[1].node.runtime = node.runtime /\ new.data[1].node.operand = operand
      /\ new.data[1].node # NeverMatch /\ operand # NoTest
  BY <1>2, <1>3, RoutingAssumption DEF Nodes
<1> QED BY <1>5, <1>6 DEF EvaluateNode

PercentageMovesOnlyItsDevicesHere ==
  \A r \in Requests, c \in Channels :
    /\ SetPercentage(r)
    /\ request[r].channel = c
    /\ request[r].seen = channel[c]
    /\ channel[c].mapping.data # <<>>
    =>
    LET node == channel[c].mapping.data[1].node
    IN  node # NeverMatch /\ node.operand # NoTest =>
          \A ctx \in Contexts :
            ResolveBranchId(channel'[c], ctx) # ResolveBranchId(channel[c], ctx) =>
              /\ node.runtime \in {NoTest, ctx.runtime}
              /\ ctx.client # NoClient
              /\ LET token == Fraction[channel[c].mapping.salt][ctx.client]
                 IN  (token < node.operand) # (token < request[r].operand)

LEMMA PercentageMovesInStep ==
  ASSUME ChannelInv
  PROVE  PercentageMovesOnlyItsDevicesHere
<1> SUFFICES ASSUME NEW r \in Requests, NEW c \in Channels, SetPercentage(r),
                    request[r].channel = c, request[r].seen = channel[c],
                    channel[c].mapping.data # <<>>,
                    channel[c].mapping.data[1].node # NeverMatch,
                    channel[c].mapping.data[1].node.operand # NoTest,
                    NEW ctx \in Contexts,
                    ResolveBranchId(channel'[c], ctx) # ResolveBranchId(channel[c], ctx)
             PROVE  LET node == channel[c].mapping.data[1].node
                        token == Fraction[channel[c].mapping.salt][ctx.client]
                    IN  /\ node.runtime \in {NoTest, ctx.runtime}
                        /\ ctx.client # NoClient
                        /\ (token < node.operand) # (token < request[r].operand)
  BY DEF PercentageMovesOnlyItsDevicesHere
<1>1. request[r].seen \in Rows /\ request[r].seen.mapping # NoMapping /\ request[r].operand \in Operands
  BY CallFacts DEF SetPercentage, Holding, CallFits
<1> DEFINE row == channel[c]
           mapping == UpdatePercentage(row.mapping, request[r].operand)
<1>2. row \in Rows /\ row.mapping # NoMapping
  BY <1>1
<1>3. channel'[c] # row
  OBVIOUS
<1>4. channel'[c] = [row EXCEPT !.mapping = mapping]
  BY <1>3 DEF SetPercentage, SetMapping, Write, Idles, ChannelInv, ChannelTypeOK
<1>5. mapping \in Mappings /\ mapping # NoMapping
  BY <1>1, <1>2, PercentageShape, RowsAssumption
<1> HIDE DEF mapping
<1>6. channel'[c].mapping = mapping /\ channel'[c].branch = row.branch
  BY <1>2, <1>4 DEF Rows
<1>7. EvaluateBranchMapping(mapping, ctx) # EvaluateBranchMapping(row.mapping, ctx)
  BY <1>2, <1>5, <1>6 DEF ResolveBranchId
<1> QED BY <1>1, <1>2, <1>7, PercentageMoves DEF mapping

\* Changing the percentage of a rollout moves the devices between the two
\* operands and nobody else, on every mapping, for any tokens and percentages.
THEOREM PercentagesMoveOnlyTheirDevices == ChannelSpec => PercentageMovesOnlyItsDevices
<1>1. ChannelInv /\ [ChannelNext]_channelVars => [PercentageMovesOnlyItsDevicesHere]_channelVars
  BY PercentageMovesInStep
<1> QED BY <1>1, ChannelInvariant, PTL DEF ChannelSpec, PercentageMovesOnlyItsDevicesHere,
                                         PercentageMovesOnlyItsDevices

(***************************************************************************)
(* The three together, as MCManagement checks them.                        *)
(***************************************************************************)

\* Each component of MCManagement behaves as it does alone: whichever one a
\* behaviour is about, a step of it is a step of that component and a stutter
\* of the two others.  What is proved of a component's own specification is
\* thereby proved of the one that MCManagement checks.
THEOREM ManagementIsItsParts == ManagementSpec => ChannelSpec /\ EnvSpec /\ SubmissionSpec
<1>1. ManagementInit => ChannelInit /\ EnvInit /\ SubmissionInit
  BY DEF ManagementInit
<1>2. [ManagementNext]_managementVars =>
        [ChannelNext]_channelVars /\ [EnvNext]_envVars /\ [SubmissionNext]_submissionVars
  BY DEF ManagementNext, managementVars
<1> QED BY <1>1, <1>2, PTL DEF ManagementSpec, ChannelSpec, EnvSpec, SubmissionSpec

\* Channels, environment variables and submissions keep their types together.
THEOREM ManagementTypeCorrect == ManagementSpec => []ComponentsTyped
<1>1. ChannelTypeOK /\ EnvTypeOK /\ SubmissionTypeOK => ComponentsTyped
  BY DEF ComponentsTyped
<1> QED BY <1>1, ManagementIsItsParts, ChannelTypeCorrect, EnvTypeCorrect, SubmissionTypeCorrect, PTL
=============================================================================
