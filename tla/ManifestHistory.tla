--------------------------- MODULE ManifestHistory ---------------------------
(***************************************************************************)
(* What a device is answered from the edge cache, in time.  ManifestCache  *)
(* says what a cache entry is worth at the moment it is looked at; here a  *)
(* history variable follows each request from its read of the channel row  *)
(* to its lookup, to say of the answer that it was right at some moment in  *)
(* between.  The variable is read by no action and changes none.           *)
(***************************************************************************)
EXTENDS ManifestCache

VARIABLE seen   \* per request at its lookup: the ids that were right since it
                \* read the channel row

historyVars == <<vars, seen>>

\* The ids that a shared cache may hold under the key now: what resolving the
\* rows gives every device, or anything while a bump of the branch is owed.
Right(key) ==
  {id \in Ids : FreshForAll(key.branch, key.signed, id) \/ Owed(key.branch)}

HistoryInit == Init /\ seen = [r \in Requests |-> {}]

HistoryNext ==
  /\ Next
  /\ seen' = [r \in Requests |->
       IF request'[r].pc = "match" THEN seen[r] \cup Right(request[r].key)' ELSE {}]

HistorySpec == HistoryInit /\ [][HistoryNext]_historyVars

\* Whatever the cache may answer a request was right at some moment since the
\* request read the channel row, or the bump of a write that made it wrong was
\* still owed then: a device is never sent back behind a release that was in
\* force when it asked.  The exception is a channel that was deleted and
\* created again under its name, whose versions start over (serveRequest
\* builds the key from the name and the version alone).
HitsAreTimely ==
  \A r \in Requests : request[r].pc = "match" =>
    \A e \in Hits(r) : e.generation = request[r].generation => e.id \in seen[r]
===============================================================================
