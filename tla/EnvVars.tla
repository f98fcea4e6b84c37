------------------------------- MODULE EnvVars -------------------------------
(***************************************************************************)
(* Environment variables of one organization and one project: the rows, the *)
(* history of their sealed values, and the user-defined environments that   *)
(* variables name without a foreign key.                                    *)
(*                                                                          *)
(* A management request reads what it needs in some D1 statements and       *)
(* writes in a later one (a statement or an atomic batch); other requests   *)
(* may come between the two.  What a request reads before its write is one  *)
(* step here: each fact only ages until the write.  Values, visibility      *)
(* tiers and permissions are not modelled.                                  *)
(***************************************************************************)
EXTENDS Naturals, FiniteSets, FiniteSetsExt

CONSTANTS
  EnvRequests,         \* concurrent management requests
  Keys,                \* variable names
  BuiltinEnvironments, \* never stored, always there
  CustomEnvironments,  \* names a user may define
  MaxVars,             \* MAX_VARS_PER_PROJECT, MAX_VARS_PER_ORG_GLOBAL
  ImportPage,          \* rows an import reads to count what exists
  ImportConcurrency,   \* upserts an import runs at a time (the code: 5)
  HistoryCap,          \* REVISION_HISTORY_CAP
  MaxMinted            \* bound: ids of variables and revisions ever used

Environments == BuiltinEnvironments \cup CustomEnvironments
Scopes == {"project", "global"}
Minted == 1..MaxMinted

ASSUME EnvVarsAssumption ==
  /\ MaxVars \in Nat \ {0}
  /\ ImportPage \in Nat \ {0}
  /\ ImportConcurrency \in Nat \ {0}
  /\ HistoryCap \in Nat \ {0}
  /\ MaxMinted \in Nat
  /\ BuiltinEnvironments \cap CustomEnvironments = {}
  /\ IsFiniteSet(EnvRequests)

VARIABLES
  environments, \* rows of the environments table, by name
  variables,    \* rows of env_vars
  revisions,    \* rows of env_var_revisions
  minted,       \* ids used so far (they are UUIDs)
  envRequest,   \* what each management request is about to do
  strayed,      \* history: variables written into an environment that was
                \* gone, or about to be deleted, when the row landed
  clobbered     \* history: variables pointed at a revision that was pruned
                \* between a rollback's look-up and its write

envVars == <<environments, variables, revisions, minted, envRequest, strayed,
             clobbered>>

\* What the unique indexes of env_vars range over.
Slot == [scope : Scopes, key : Keys, environment : Environments]
Variable == [id : Minted, slot : Slot, current : Minted]
Revision == [id : Minted, variable : Minted, number : Nat \ {0}]

Free == [pc |-> "free"]

\* An upsert whose look-up has been done: `variable' is 0 for a new slot.
Upsert == [slot : Slot, variable : Minted \cup {0}, number : Nat \ {0}]

EnvRequest ==
  {Free}
  \cup [pc : {"insert"}, slot : Slot]
  \cup [pc : {"revise"}, variable : Minted, number : Nat \ {0}]
  \cup [pc : {"point"}, variable : Minted, revision : Minted]
  \cup [pc : {"import"}, pending : SUBSET Slot, found : SUBSET Upsert]
  \cup [pc : {"drop"}, name : CustomEnvironments]
  \cup [pc : {"rename"}, old : CustomEnvironments, new : CustomEnvironments]

EnvTypeOK ==
  /\ environments \subseteq CustomEnvironments
  /\ variables \subseteq Variable
  /\ revisions \subseteq Revision
  /\ minted \in 0..MaxMinted
  /\ envRequest \in [EnvRequests -> EnvRequest]
  /\ strayed \subseteq Minted
  /\ clobbered \subseteq Minted

EnvInit ==
  /\ environments = {}
  /\ variables = {}
  /\ revisions = {}
  /\ minted = 0
  /\ envRequest = [r \in EnvRequests |-> Free]
  /\ strayed = {}
  /\ clobbered = {}

\* resolveOrgEnvironmentNames
Known(e) == e \in BuiltinEnvironments \cup environments

InScope(scope) == {v \in variables : v.slot.scope = scope}
EnvHolding(s)     == {v \in variables : v.slot = s}
History(id)    == {v \in revisions : v.variable = id}
NextNumber(id) == 1 + Max({0} \cup {v.number : v \in History(id)})

\* The request's next step; its end, whether it succeeded or failed.
Begin(r, step) == envRequest[r] = Free /\ envRequest' = [envRequest EXCEPT ![r] = step]
Proceed(r, step)  == envRequest' = [envRequest EXCEPT ![r] = step]
Finish(r)      == Proceed(r, Free)

(***************************************************************************)
(* The two batches every value goes through.                               *)
(***************************************************************************)

\* The environment was checked earlier; by now it may be gone or doomed.
Doomed(e)  == \E r \in EnvRequests : envRequest[r].pc = "drop" /\ envRequest[r].name = e
Strays(s) == ~Known(s.environment) \/ Doomed(s.environment)

\* insertEnvVarStmt and insertRevisionStmt; the unique index on the slot
\* fails the batch.
InsertBatch(s) ==
  /\ EnvHolding(s) = {}
  /\ minted + 2 <= MaxMinted
  /\ variables' = variables \cup {[id |-> minted + 1, slot |-> s, current |-> minted + 2]}
  /\ revisions' = revisions \cup {[id |-> minted + 2, variable |-> minted + 1, number |-> 1]}
  /\ minted' = minted + 2
  /\ strayed' = IF Strays(s) THEN strayed \cup {minted + 1} ELSE strayed
  /\ UNCHANGED <<environments, clobbered>>

\* The variable's foreign key and the unique index on its numbers.
CanRevise(id, number) ==
  /\ \E v \in variables : v.id = id
  /\ \A v \in History(id) : v.number # number

\* Mutant: the batch prunes the history and does not advance the pointer.
ReviseBatchPointerStays(id, number) ==
  /\ CanRevise(id, number)
  /\ minted < MaxMinted
  /\ revisions' = {v \in revisions : v.variable = id => v.number + HistoryCap > number}
                  \cup {[id |-> minted + 1, variable |-> id, number |-> number]}
  /\ variables' = variables
  /\ minted' = minted + 1
  /\ clobbered' = clobbered \ {id}
  /\ UNCHANGED <<environments, strayed>>

\* Mutant: the batch does not prune.
ReviseBatchUnpruned(id, number) ==
  /\ CanRevise(id, number)
  /\ minted < MaxMinted
  /\ revisions' = revisions \cup {[id |-> minted + 1, variable |-> id, number |-> number]}
  /\ variables' = {IF v.id = id THEN [v EXCEPT !.current = minted + 1] ELSE v : v \in variables}
  /\ minted' = minted + 1
  /\ clobbered' = clobbered \ {id}
  /\ UNCHANGED <<environments, strayed>>

\* insertRevisionStmt, advancePointerStmt, pruneStmt.  A deleted variable
\* fails the foreign key, a taken number the unique index.
ReviseBatch(id, number) ==
  /\ CanRevise(id, number)
  /\ minted < MaxMinted
  /\ revisions' = {v \in revisions : v.variable = id => v.number + HistoryCap > number}
                  \cup {[id |-> minted + 1, variable |-> id, number |-> number]}
  /\ variables' = {IF v.id = id THEN [v EXCEPT !.current = minted + 1] ELSE v : v \in variables}
  /\ minted' = minted + 1
  /\ clobbered' = clobbered \ {id}
  /\ UNCHANGED <<environments, strayed>>

rows == <<environments, variables, revisions, minted, strayed, clobbered>>

Refused(r) == Finish(r) /\ UNCHANGED rows

(***************************************************************************)
(* create                                                                  *)
(***************************************************************************)
\* The environment exists and the scope is below its cap.
CreateCheck(r, s) ==
  /\ Known(s.environment)
  /\ Cardinality(InScope(s.scope)) < MaxVars
  /\ Begin(r, [pc |-> "insert", slot |-> s])
  /\ UNCHANGED rows

InsertWithRevision(r) ==
  /\ envRequest[r].pc = "insert"
  /\ \/ EnvHolding(envRequest[r].slot) # {} /\ Refused(r)  \* Conflict
     \/ InsertBatch(envRequest[r].slot) /\ Finish(r)

(***************************************************************************)
(* update with a value, rollback, delete                                   *)
(***************************************************************************)
UpdateFind(r, v) ==
  /\ Begin(r, [pc |-> "revise", variable |-> v.id, number |-> NextNumber(v.id)])
  /\ UNCHANGED rows

AddRevision(r) ==
  /\ envRequest[r].pc = "revise"
  /\ LET id == envRequest[r].variable number == envRequest[r].number IN
     \/ ~CanRevise(id, number) /\ Refused(r)
     \/ ReviseBatch(id, number) /\ Finish(r)

RollbackFind(r, v, revision) ==
  /\ revision \in History(v.id)
  /\ Begin(r, [pc |-> "point", variable |-> v.id, revision |-> revision.id])
  /\ UNCHANGED rows

\* One UPDATE by the variable's id: it looks at no revision.
RollbackPoint(r) ==
  /\ envRequest[r].pc = "point"
  /\ LET id == envRequest[r].variable target == envRequest[r].revision
         here == {v \in variables : v.id = id}
     IN
     /\ variables' = (variables \ here) \cup {[v EXCEPT !.current = target] : v \in here}
     /\ clobbered' = IF here # {} /\ \A v \in revisions : v.id # target
                     THEN clobbered \cup {id} ELSE clobbered \ {id}
  /\ Finish(r)
  /\ UNCHANGED <<environments, revisions, minted, strayed>>

\* The row, and by cascade its history.
DeleteVariable(v) ==
  /\ variables' = variables \ {v}
  /\ revisions' = revisions \ History(v.id)
  /\ strayed' = strayed \ {v.id}
  /\ clobbered' = clobbered \ {v.id}
  /\ UNCHANGED <<environments, minted, envRequest>>

(***************************************************************************)
(* bulkImport                                                              *)
(***************************************************************************)
\* Which rows the page holds is a matter of their keys' order.
Page(scope) ==
  {P \in SUBSET InScope(scope) :
     Cardinality(P) = Min({ImportPage, Cardinality(InScope(scope))})}

\* `slots' is the payload without its duplicates.
ImportCheck(r, scope, slots) ==
  /\ \A s \in slots : s.scope = scope /\ Known(s.environment)
  /\ \E page \in Page(scope) :
       Cardinality(page) + Cardinality(slots \ {v.slot : v \in page}) <= MaxVars
  /\ Begin(r, [pc |-> "import", pending |-> slots, found |-> {}])
  /\ UNCHANGED rows

\* The look-ups of one upsert, while few enough of them run.
UpsertFind(r, s) ==
  /\ envRequest[r].pc = "import"
  /\ s \in envRequest[r].pending
  /\ Cardinality(envRequest[r].found) < ImportConcurrency
  /\ LET upsert ==
           IF EnvHolding(s) = {} THEN [slot |-> s, variable |-> 0, number |-> 1]
           ELSE LET id == (CHOOSE v \in EnvHolding(s) : TRUE).id IN
                [slot |-> s, variable |-> id, number |-> NextNumber(id)]
     IN Proceed(r, [envRequest[r] EXCEPT !.pending = @ \ {s}, !.found = @ \cup {upsert}])
  /\ UNCHANGED rows

\* A failed batch is a defect: the import ends, what it wrote stays.
UpsertWrite(r, u) ==
  /\ envRequest[r].pc = "import"
  /\ u \in envRequest[r].found
  /\ LET fails == IF u.variable = 0 THEN EnvHolding(u.slot) # {}
                  ELSE ~CanRevise(u.variable, u.number)
         rest  == [envRequest[r] EXCEPT !.found = @ \ {u}]
     IN
     \/ fails /\ Refused(r)
     \/ /\ ~fails
        /\ IF u.variable = 0 THEN InsertBatch(u.slot) ELSE ReviseBatch(u.variable, u.number)
        /\ Proceed(r, IF rest.pending \cup rest.found = {} THEN Free ELSE rest)

(***************************************************************************)
(* environments                                                            *)
(***************************************************************************)
CreateEnvironment(name) ==
  /\ name \in CustomEnvironments \ environments
  /\ environments' = environments \cup {name}
  /\ UNCHANGED <<variables, revisions, minted, envRequest, strayed, clobbered>>

Using(name) == {v \in variables : v.slot.environment = name}

\* findByName, then countEnvVarsUsing.
DeleteEnvironmentFind(r, name) ==
  /\ name \in environments
  /\ Using(name) = {}
  /\ Begin(r, [pc |-> "drop", name |-> name])
  /\ UNCHANGED rows

DeleteEnvironment(r) ==
  /\ envRequest[r].pc = "drop"
  /\ environments' = environments \ {envRequest[r].name}
  /\ Finish(r)
  /\ UNCHANGED <<variables, revisions, minted, strayed, clobbered>>

RenameFind(r, old, new) ==
  /\ old \in environments
  /\ old # new
  /\ Begin(r, [pc |-> "rename", old |-> old, new |-> new])
  /\ UNCHANGED rows

Moved(v, old, new) ==
  IF v.slot.environment = old THEN [v EXCEPT !.slot.environment = new] ELSE v

\* Mutant: only the environment's row is renamed.
RenameEnvironmentRowOnly(r) ==
  /\ envRequest[r].pc = "rename"
  /\ LET old == envRequest[r].old new == envRequest[r].new IN
     IF old \in environments /\ new \in environments
     THEN UNCHANGED <<environments, variables>>
     ELSE /\ environments' = {IF e = old THEN new ELSE e : e \in environments}
          /\ variables' = variables
  /\ Finish(r)
  /\ UNCHANGED <<revisions, minted, strayed, clobbered>>

\* One batch: the row that still has the old name, and every variable that
\* names it.  A name or a slot that is taken undoes both.
RenameEnvironment(r) ==
  /\ envRequest[r].pc = "rename"
  /\ LET old   == envRequest[r].old
         new   == envRequest[r].new
         moved == {Moved(v, old, new) : v \in variables}
         taken == (old \in environments /\ new \in environments)
                  \/ \E v, w \in moved : v # w /\ v.slot = w.slot
     IN
     IF taken THEN UNCHANGED <<environments, variables>>
     ELSE /\ environments' = {IF e = old THEN new ELSE e : e \in environments}
          /\ variables' = moved
  /\ strayed' = IF Doomed(envRequest[r].new)
                THEN strayed \cup {v.id : v \in variables' \ variables} ELSE strayed
  /\ Finish(r)
  /\ UNCHANGED <<revisions, minted, clobbered>>

\* The invocation ends between two statements.
EnvCrash(r) ==
  /\ envRequest[r] # Free
  /\ Refused(r)

EnvRequestStep(r) ==
  \/ \E s \in Slot : CreateCheck(r, s)
  \/ InsertWithRevision(r)
  \/ \E v \in variables : UpdateFind(r, v)
  \/ AddRevision(r)
  \/ \E v \in variables, revision \in revisions : RollbackFind(r, v, revision)
  \/ RollbackPoint(r)
  \/ \E scope \in Scopes, slots \in SUBSET Slot :
       slots # {} /\ ImportCheck(r, scope, slots)
  \/ \E s \in Slot : UpsertFind(r, s)
  \/ envRequest[r].pc = "import" /\ \E u \in envRequest[r].found : UpsertWrite(r, u)
  \/ \E name \in CustomEnvironments : DeleteEnvironmentFind(r, name)
  \/ DeleteEnvironment(r)
  \/ \E old, new \in CustomEnvironments : RenameFind(r, old, new)
  \/ RenameEnvironment(r)
  \/ EnvCrash(r)

EnvNext ==
  \/ \E r \in EnvRequests : EnvRequestStep(r)
  \/ \E v \in variables : DeleteVariable(v)
  \/ \E name \in CustomEnvironments : CreateEnvironment(name)

EnvSpec == EnvInit /\ [][EnvNext]_envVars

(***************************************************************************)
(* Properties.                                                             *)
(***************************************************************************)

\* export: an inner join with the active revision, then the project's value
\* wins over a global one with the same key.
ExportRows(e) ==
  {x \in variables \X revisions : x[1].slot.environment = e /\ x[2].id = x[1].current}

Exported(e) ==
  {x \in ExportRows(e) :
     x[1].slot.scope = "global" =>
       ~\E y \in ExportRows(e) : y[1].slot.scope = "project" /\ y[1].slot.key = x[1].slot.key}

\* The variable a build of the project must see for a key: the project's, or
\* else the organization's.
Overriding(e) ==
  {v \in variables :
     /\ v.slot.environment = e
     /\ v.slot.scope = "global" =>
          ~\E w \in variables : w.slot = [v.slot EXCEPT !.scope = "project"]}

\* An export gives, for every key, the value its overriding variable points
\* at: no key is missing and none silently falls back to the organization's
\* value, unless a rollback was overtaken by the update that pruned its
\* target (repositories/env-vars.ts:291-313), and then only until the next
\* update or rollback of that variable.
ExportComplete ==
  \A e \in Environments :
    (\A v \in variables : v.slot.environment = e => v.id \notin clobbered) =>
      {x[1] : x \in Exported(e)} = Overriding(e)

\* Every variable's environment is built in or has a row, so that it can be
\* exported and imported again; the only exceptions are rows that landed
\* after their environment's check went stale (handlers/env-vars.ts:65,
\* handlers/environments.ts:132): renames and deletions leave none behind.
EnvironmentsKnown ==
  \A v \in variables : Known(v.slot.environment) \/ v.id \in strayed

\* The history of a variable stays within the cap that bounds a vault
\* rotation's batch, but for the writes that were under way with an old number
\* at one time: one per request, or as many as an import runs upserts, since a
\* rename may bring the variable it has looked up to another slot of its
\* payload (env-vars-sql.ts:20-24).
HistoryBounded ==
  \A v \in variables :
    Cardinality(History(v.id)) < HistoryCap + ImportConcurrency * Cardinality(EnvRequests)
=============================================================================
