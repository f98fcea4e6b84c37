----------------------------- MODULE Submissions -----------------------------
(***************************************************************************)
(* Submissions of builds to the stores.  The server only keeps a row: its   *)
(* status is moved by the command that created it (submit, or build with    *)
(* --auto-submit), which runs altool or the Google Play API on the user's   *)
(* machine and reports with PATCH calls, and by users who cancel or delete  *)
(* it.  The API client repeats a call whose connection broke; what became   *)
(* of the broken call is unknown, and a PATCH may still land later.         *)
(*                                                                          *)
(* Store configurations, error codes and time stamps are not modelled.      *)
(***************************************************************************)
EXTENDS Naturals

CONSTANTS
  Submitters,     \* commands that submit
  SubmissionIds,  \* ids the server may draw
  NoSubmission,   \* no id yet
  MaxCalls        \* bound: times the client sends one call (the code: 5)

ASSUME SubmissionsAssumption == MaxCalls \in Nat \ {0} /\ NoSubmission \notin SubmissionIds

VARIABLES
  submission, \* the status of each row
  submitter,  \* what each command is doing
  delayed,    \* PATCH calls under way that nobody waits for
  canceling,  \* the cancel handler between its read and its write
  published,  \* submissions whose bundle reached its store
  unheard     \* history: those the command was told nothing of

submissionVars == <<submission, submitter, delayed, canceling, published, unheard>>

Live     == {"AWAITING_BUILD", "IN_QUEUE", "IN_PROGRESS"}
Terminal == {"FINISHED", "ERRORED", "CANCELED"}

\* What a command does with its row.  `auto' is build --auto-submit; `local':
\* the archive is a file, not the URL of an uploaded build.
Flow ==
  [upload : {"altool", "play", "none"}, auto : BOOLEAN, local : BOOLEAN, wait : BOOLEAN]

\* --auto-submit waits, has a URL and runs nothing for Google Play; submit
\* does not wait for a row that nobody runs.
Flows ==
  {f \in Flow : /\ f.auto => f.wait /\ ~f.local /\ f.upload # "play"
                /\ f.upload = "none" /\ ~f.auto => ~f.wait}

Submitter ==
  [pc : {"idle", "create", "credentials", "start", "upload", "commit", "report", "poll", "done", "failed"},
   flow : Flows, id : SubmissionIds \cup {NoSubmission}, call : 1..MaxCalls,
   outcome : {"FINISHED", "ERRORED"}]

NotCanceling == [pc |-> "rest"]

SubmissionTypeOK ==
  /\ submission \in [SubmissionIds -> Live \cup Terminal \cup {"none", "deleted"}]
  /\ submitter \in [Submitters -> Submitter]
  /\ delayed \subseteq SubmissionIds \X {"IN_PROGRESS", "FINISHED", "ERRORED"}
  /\ canceling \in {NotCanceling}
       \cup [pc : {"write"}, id : SubmissionIds, read : Live \cup Terminal]
  /\ published \subseteq SubmissionIds
  /\ unheard \subseteq published

SubmissionInit ==
  /\ submission = [i \in SubmissionIds |-> "none"]
  /\ submitter = [s \in Submitters |->
       [pc |-> "idle", id |-> NoSubmission, call |-> 1, outcome |-> "ERRORED",
        flow |-> [upload |-> "none", auto |-> FALSE, local |-> FALSE, wait |-> FALSE]]]
  /\ delayed = {}
  /\ canceling = NotCanceling
  /\ published = {} /\ unheard = {}

RowExists(i) == submission[i] \notin {"none", "deleted"}

SubmitterAt(s, pc) == submitter[s].pc = pc
SubmitTo(s, pc) == submitter' = [submitter EXCEPT ![s].pc = pc, ![s].call = 1]

\* The end of what a command runs itself.
Settle(s) == SubmitTo(s, IF submitter[s].flow.wait THEN "poll" ELSE "done")

\* retryTransient: a broken connection is tried again, an answer is not.
RetryCall(s) ==
  IF submitter[s].call < MaxCalls
  THEN submitter' = [submitter EXCEPT ![s].call = @ + 1]
  ELSE SubmitTo(s, "failed")

(***************************************************************************)
(* The command: runFlow and runAutoSubmit.                                 *)
(***************************************************************************)
store == <<published, unheard>>

\* The user runs a command.
Invoke(s, flow) ==
  /\ SubmitterAt(s, "idle")
  /\ submitter' = [submitter EXCEPT ![s].pc = "create", ![s].flow = flow]
  /\ UNCHANGED <<submission, delayed, canceling, store>>

\* create; a lost answer leaves a row that nobody runs.
Create(s) ==
  /\ SubmitterAt(s, "create")
  /\ \E i \in {j \in SubmissionIds : submission[j] = "none"} :
       /\ submission' = [submission EXCEPT ![i] =
            IF submitter[s].flow.local THEN "IN_QUEUE" ELSE "AWAITING_BUILD"]
       /\ \/ submitter' = [submitter EXCEPT ![s].id = i, ![s].call = 1,
               ![s].pc = CASE submitter[s].flow.upload # "none" -> "credentials"
                           [] submitter[s].flow.upload = "none" ->
                                IF submitter[s].flow.wait THEN "poll" ELSE "done"]
          \/ RetryCall(s)
  /\ UNCHANGED <<delayed, canceling, store>>

\* The App Store Connect key or the service account, from the vault or a
\* file, before the row is touched.
FetchCredentials(s) ==
  /\ SubmitterAt(s, "credentials")
  /\ SubmitTo(s, "start") \/ SubmitTo(s, "failed")
  /\ UNCHANGED <<submission, delayed, canceling, store>>

(***************************************************************************)
(* PATCH, the updateStatus handler: it looks for the row, at no status.    *)
(***************************************************************************)
Land(i, status) ==
  submission' = [submission EXCEPT ![i] = IF RowExists(i) THEN status ELSE @]

\* The call is answered and the command goes on; 404 fails it.
Answered(s, status, next) ==
  /\ Land(submitter[s].id, status)
  /\ IF RowExists(submitter[s].id) THEN next ELSE SubmitTo(s, "failed")
  /\ UNCHANGED <<delayed, canceling, store>>

\* The connection breaks: the call has landed, has not, or is on its way.
Broken(s, status) ==
  /\ RetryCall(s)
  /\ \/ Land(submitter[s].id, status) /\ UNCHANGED delayed
     \/ delayed' = delayed \cup {<<submitter[s].id, status>>} /\ UNCHANGED submission
     \/ UNCHANGED <<submission, delayed>>
  /\ UNCHANGED <<canceling, store>>

LandDelayed(i, status) ==
  /\ <<i, status>> \in delayed
  /\ Land(i, status)
  /\ delayed' = delayed \ {<<i, status>>}
  /\ UNCHANGED <<submitter, canceling, store>>

Start(s) ==
  /\ SubmitterAt(s, "start")
  /\ Answered(s, "IN_PROGRESS", SubmitTo(s, "upload")) \/ Broken(s, "IN_PROGRESS")

(***************************************************************************)
(* The stores.                                                             *)
(***************************************************************************)
ReportNext(s, outcome) ==
  submitter' = [submitter EXCEPT ![s].pc = "report", ![s].outcome = outcome]

\* The store has the bundle, or refuses it; a lost answer reads as an error.
StoreAnswers(s) ==
  \/ /\ published' = published \cup {submitter[s].id}
     /\ \/ ReportNext(s, "FINISHED") /\ UNCHANGED unheard
        \/ ReportNext(s, "ERRORED") /\ unheard' = unheard \cup {submitter[s].id}
  \/ ReportNext(s, "ERRORED") /\ UNCHANGED store

\* xcrun altool --file; a URL is no file.
RunAltool(s) ==
  /\ SubmitterAt(s, "upload") /\ submitter[s].flow.upload = "altool"
  /\ IF submitter[s].flow.local THEN StoreAnswers(s)
     ELSE ReportNext(s, "ERRORED") /\ UNCHANGED store
  /\ UNCHANGED <<submission, delayed, canceling>>

\* The token, the archive, edits.insert, the bundle and the track: nothing is
\* published before the commit.
PreparePlayEdit(s) ==
  /\ SubmitterAt(s, "upload") /\ submitter[s].flow.upload = "play"
  /\ SubmitTo(s, "commit") \/ ReportNext(s, "ERRORED")
  /\ UNCHANGED <<submission, delayed, canceling, store>>

\* Mutant: the edit counts as done before its commit is answered.
CommitPlayEditEagerly(s) ==
  /\ SubmitterAt(s, "commit")
  /\ ReportNext(s, "FINISHED")
  /\ \/ published' = published \cup {submitter[s].id}
     \/ UNCHANGED published
  /\ UNCHANGED <<submission, delayed, canceling, unheard>>

CommitPlayEdit(s) ==
  /\ SubmitterAt(s, "commit")
  /\ StoreAnswers(s)
  /\ UNCHANGED <<submission, delayed, canceling>>

\* An error of Google Play's also fails the command; one of altool's does not.
Report(s) ==
  /\ SubmitterAt(s, "report")
  /\ LET outcome == submitter[s].outcome IN
     \/ Answered(s, outcome,
          IF submitter[s].flow.upload = "play" /\ outcome = "ERRORED"
          THEN SubmitTo(s, "failed") ELSE Settle(s))
     \/ Broken(s, outcome)

\* pollSubmissionUntilTerminal: it has no time limit.
Poll(s) ==
  /\ SubmitterAt(s, "poll")
  /\ \/ submission[submitter[s].id] \in Terminal /\ SubmitTo(s, "done")
     \/ ~RowExists(submitter[s].id) /\ SubmitTo(s, "failed")
  /\ UNCHANGED <<submission, delayed, canceling, store>>

\* Interrupted, or a call was refused.
SubmitterDies(s) ==
  /\ submitter[s].pc \notin {"idle", "done", "failed"}
  /\ SubmitTo(s, "failed")
  /\ UNCHANGED <<submission, delayed, canceling, store>>

(***************************************************************************)
(* cancel reads the row and writes it later; delete takes any row.         *)
(***************************************************************************)
\* Mutant: the status is not looked at.
CancelFindAny(i) ==
  /\ canceling = NotCanceling
  /\ RowExists(i)
  /\ canceling' = [pc |-> "write", id |-> i, read |-> submission[i]]
  /\ UNCHANGED <<submission, submitter, delayed, store>>

CancelFind(i) ==
  /\ canceling = NotCanceling
  /\ submission[i] \in Live
  /\ canceling' = [pc |-> "write", id |-> i, read |-> submission[i]]
  /\ UNCHANGED <<submission, submitter, delayed, store>>

CancelWrite ==
  /\ canceling # NotCanceling
  /\ Land(canceling.id, "CANCELED")
  /\ canceling' = NotCanceling
  /\ UNCHANGED <<submitter, delayed, store>>

CancelDies ==
  /\ canceling # NotCanceling
  /\ canceling' = NotCanceling
  /\ UNCHANGED <<submission, submitter, delayed, store>>

DeleteSubmission(i) ==
  /\ RowExists(i)
  /\ submission' = [submission EXCEPT ![i] = "deleted"]
  /\ UNCHANGED <<submitter, delayed, canceling, store>>

Run(s) ==
  \/ Create(s)
  \/ FetchCredentials(s)
  \/ Start(s)
  \/ RunAltool(s)
  \/ PreparePlayEdit(s) \/ CommitPlayEdit(s)
  \/ Report(s)
  \/ Poll(s)

SubmissionNext ==
  \/ \E s \in Submitters : \/ \E f \in Flows : Invoke(s, f)
                            \/ Run(s)
                            \/ SubmitterDies(s)
  \/ \E i \in SubmissionIds, status \in {"IN_PROGRESS", "FINISHED", "ERRORED"} :
       LandDelayed(i, status)
  \/ \E i \in SubmissionIds : CancelFind(i) \/ DeleteSubmission(i)
  \/ CancelWrite \/ CancelDies

SubmissionSpec == SubmissionInit /\ [][SubmissionNext]_submissionVars

\* A command that is not killed takes its next step; nobody has to cancel or
\* delete anything.
FairSubmissionSpec ==
  SubmissionSpec /\ \A s \in Submitters : WF_submissionVars(Run(s))

(***************************************************************************)
(* Properties.                                                             *)
(***************************************************************************)

\* A row that says FINISHED is in its store, and one that says ERRORED is not
\* there unless the store's answer never came, however PATCH calls were
\* repeated or late (submit-flow.ts:211-233, 456-484).
OutcomeTruthful ==
  \A i \in SubmissionIds :
    /\ submission[i] = "FINISHED" => i \in published
    /\ submission[i] = "ERRORED" => i \notin published \/ i \in unheard

\* The command that has this row and has not reported on it for good.
Running(i) == \E s \in Submitters : submitter[s].id = i /\ submitter[s].pc \in
                {"credentials", "start", "upload", "commit", "report"}

\* "Cannot cancel submission in terminal state": the end of a submission
\* changes only by its deletion, by a cancellation that had read a live
\* status, by the command that is still running it, or by a PATCH of that
\* command's that landed late (handlers/submissions.ts:236-254).
EndStands ==
  [][\A i \in SubmissionIds :
       submission[i] \in Terminal /\ submission'[i] # submission[i] =>
         \/ submission'[i] = "deleted"
         \/ canceling # NotCanceling /\ canceling.id = i /\ canceling.read \in Live
         \/ Running(i)
         \/ <<i, submission'[i]>> \in delayed]_submissionVars

\* "Submit a freshly-built artifact to the store": build --auto-submit ends
\* (build-auto-submit.ts:60).
AutoSubmitEnds ==
  \A s \in Submitters :
    submitter[s].pc = "create" /\ submitter[s].flow.auto ~> submitter[s].pc \in {"done", "failed"}
=============================================================================
